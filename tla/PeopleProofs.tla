---------------------------- MODULE PeopleProofs ----------------------------
(***************************************************************************)
(* Proofs about Accounts, MailboxAccess and Blocking, for any number of    *)
(* users, members, keys, senders and handlers.  Each part: the inductive   *)
(* invariant, that the initial states have it and every action keeps it,   *)
(* and the theorems that follow.  Last, what a message is taken for, from  *)
(* what is known of its sender: SpamFilter and Otp.                        *)
(***************************************************************************)
EXTENDS Accounts, MailboxAccess, Blocking, SpamFilter, Otp, WellFoundedInduction, TLAPS

-----------------------------------------------------------------------------
(***************************************************************************)
(* Accounts: every set of addresses and requests, every bound.             *)
(***************************************************************************)
Rows == [email : Emails, role : Roles, banned : BOOLEAN, password : BOOLEAN]
InviteRows == [id : Nat, token : Nat, role : Roles, by : Nat, usedAt : BOOLEAN]
TokenSets == SUBSET Nat

InstallShapes == [pc : {"account"}, op : {"bootstrap"}, id : Nat]
CreateShapes == [pc : {"lookup", "insert", "account"}, op : {"create"}, email : Emails, role : Roles, id : Nat]
AcceptShapes == [pc : {"lookup", "insert", "account", "mark"}, op : {"accept"}, email : Emails, role : Roles,
                 id : Nat, invite : Nat, token : Nat, late : {FALSE}]
AdminShapes == [pc : {"admin"}, me : Nat]
InviteShapes == [pc : {"lookup", "upsert"}, op : {"invite"}, me : Nat, email : Emails, role : Roles]

Shapes == {Idle} \cup InstallShapes \cup CreateShapes \cup AcceptShapes \cup AdminShapes \cup InviteShapes

AccountsTypeOK ==
    /\ issued \in [users : Nat, tokens : Nat]
    /\ DOMAIN users \subseteq 1..issued.users /\ users \in [DOMAIN users -> Rows]
    /\ userInvite \in [DOMAIN userInvite -> InviteRows]
    /\ requests \in [Requests -> Shapes]
    /\ past \in [died : BOOLEAN, selfBan : BOOLEAN, outdated : BOOLEAN, spent : TokenSets,
                 reopened : {FALSE}, crossed : TokenSets]

\* Before the first installation there is nothing to act on.
Nascent == issued.users = 0 =>
    DOMAIN userInvite = {} /\ \A r \in Requests : requests[r] = Idle

\* After it the table empties only under an administrator who was none any more.
SomebodyThere == issued.users > 0 /\ ~past.outdated => DOMAIN users # {}

\* While it lasts it is alone with its user.
Claims(r) == requests[r].pc = "account" /\ requests[r].op = "bootstrap"
InstallsAlone == \A r \in Requests : Claims(r) /\ ~past.outdated =>
    /\ DOMAIN users = {requests[r].id}
    /\ IsAdmin(requests[r].id) /\ ~users[requests[r].id].password
    /\ DOMAIN userInvite = {}
    /\ \A s \in Requests \ {r} : requests[s] = Idle

\* Whoever was authorised had signed in.
AdminsSignedIn == \A r \in Requests : requests[r].pc = "admin" =>
    /\ requests[r].me \in 1..issued.users
    /\ requests[r].me \in DOMAIN users => users[requests[r].me].password

\* Tokens are drawn once, and acceptances hold tokens that were.
TokensDrawn ==
    /\ \A e \in DOMAIN userInvite : userInvite[e].token \in 1..issued.tokens
    /\ past.spent \subseteq 1..issued.tokens
    /\ \A e, f \in DOMAIN userInvite : userInvite[e].token = userInvite[f].token => e = f

Accepts(r) == requests[r].pc # "idle" /\ requests[r].pc # "admin" /\ requests[r].op = "accept"
AcceptancesKnowTheirs == \A r \in Requests : Accepts(r) =>
    /\ requests[r].token \in 1..issued.tokens
    /\ \A e \in DOMAIN userInvite :
          userInvite[e].token = requests[r].token => userInvite[e].id = requests[r].invite

\* A token that made its account is marked.
SpentIsUsed == \A e \in DOMAIN userInvite : userInvite[e].token \in past.spent => userInvite[e].usedAt

AccountsInv ==
    /\ AccountsTypeOK
    /\ Nascent /\ SomebodyThere /\ InstallsAlone /\ AdminsSignedIn /\ AdminRemains
    /\ TokensDrawn /\ AcceptancesKnowTheirs /\ SpentIsUsed /\ UsedMeansRedeemed

LEMMA AccountsInitInv == AccountsInit => AccountsInv
  BY DEF AccountsInit, AccountsInv, AccountsTypeOK, Shapes, TokenSets, Idle, Nothing, Nascent, SomebodyThere, InstallsAlone,
         Claims, AdminsSignedIn, AdminRemains, TokensDrawn, AcceptancesKnowTheirs, Accepts, SpentIsUsed, UsedMeansRedeemed

\* What a request that was under way may become: it claims no installation, is
\* authorised for nothing new and accepts no other invitation.
SameErrand(r) == Accepts(r)' =>
    Accepts(r) /\ requests'[r].token = requests[r].token /\ requests'[r].invite = requests[r].invite
Moves(r) ==
    /\ requests' \in [Requests -> Shapes]
    /\ \A s \in Requests \ {r} : requests'[s] = requests[s]
    /\ ~Claims(r)' /\ requests'[r].pc # "admin" /\ SameErrand(r)

LEMMA GotoMoves ==
    ASSUME requests \in [Requests -> Shapes], NEW r \in Requests, NEW next \in Shapes, Goto(r, next)
    PROVE  /\ requests' \in [Requests -> Shapes]
           /\ requests'[r] = next
           /\ \A s \in Requests \ {r} : requests'[s] = requests[s]
  BY DEF Goto

LEMMA FinishMoves ==
    ASSUME requests \in [Requests -> Shapes], NEW r \in Requests, Finish(r)
    PROVE  Moves(r) /\ requests'[r] = Idle
<1>1. Idle \in Shapes
  BY DEF Shapes
<1> QED
  BY <1>1, GotoMoves DEF Finish, Moves, SameErrand, Claims, Accepts, Idle

\* What the program counter tells about the rest of a request.
LEMMA CounterTellsShape ==
    ASSUME NEW q \in Shapes
    PROVE  /\ q.pc = "lookup" => q \in CreateShapes \cup AcceptShapes \cup InviteShapes
           /\ q.pc = "insert" => q \in CreateShapes \cup AcceptShapes
           /\ q.pc = "account" => q \in InstallShapes \cup CreateShapes \cup AcceptShapes
           /\ q.pc = "mark" => q \in AcceptShapes
           /\ q.pc = "upsert" => q \in InviteShapes
           /\ q.pc = "admin" => q \in AdminShapes
<1>1. q = Idle => q.pc = "idle"
  BY DEF Idle
<1>2. q \in InstallShapes => q.pc = "account"
  BY DEF InstallShapes
<1>3. q \in CreateShapes => q.pc \in {"lookup", "insert", "account"}
  BY DEF CreateShapes
<1>4. q \in AcceptShapes => q.pc \in {"lookup", "insert", "account", "mark"}
  BY DEF AcceptShapes
<1>5. q \in AdminShapes => q.pc = "admin"
  BY DEF AdminShapes
<1>6. q \in InviteShapes => q.pc \in {"lookup", "upsert"}
  BY DEF InviteShapes
<1> QED
  BY <1>1, <1>2, <1>3, <1>4, <1>5, <1>6 DEF Shapes

\* Whoever goes on keeps what it holds.
LEMMA LookupGoesOn ==
    ASSUME NEW q \in Shapes, q.pc = "lookup",
           NEW n, n = [q EXCEPT !.pc = IF q.op = "invite" THEN "upsert" ELSE "insert"]
    PROVE  /\ n \in Shapes /\ n.pc \in {"upsert", "insert"} /\ n.op = q.op
           /\ q.op = "accept" => n.token = q.token /\ n.invite = q.invite
<1>1. CASE q \in CreateShapes
  BY <1>1 DEF CreateShapes, Shapes
<1>2. CASE q \in AcceptShapes
  BY <1>2 DEF AcceptShapes, Shapes
<1>3. CASE q \in InviteShapes
  BY <1>3 DEF InviteShapes, Shapes
<1> QED
  BY <1>1, <1>2, <1>3, CounterTellsShape

Inserted(q, id) == [q EXCEPT !.pc = "account", !.id = id]
LEMMA InsertGoesOn ==
    ASSUME NEW q \in Shapes, q.pc = "insert", NEW id \in Nat
    PROVE  /\ Inserted(q, id) \in Shapes /\ Inserted(q, id).pc = "account" /\ Inserted(q, id).op = q.op
           /\ q.op \in {"create", "accept"}
           /\ q.op = "accept" => /\ Inserted(q, id).token = q.token /\ Inserted(q, id).invite = q.invite
                                /\ q.late = FALSE
           /\ q.email \in Emails /\ q.role \in Roles
<1>1. CASE q \in CreateShapes
  BY <1>1 DEF CreateShapes, Shapes, Inserted
<1>2. CASE q \in AcceptShapes
  BY <1>2 DEF AcceptShapes, Shapes, Inserted
<1> QED
  BY <1>1, <1>2, CounterTellsShape

LEMMA AccountGoesOn ==
    ASSUME NEW q \in Shapes, q.pc = "account", q.op = "accept", NEW n, n = [q EXCEPT !.pc = "mark"]
    PROVE  n \in Shapes /\ n.pc = "mark" /\ n.op = q.op /\ n.token = q.token /\ n.invite = q.invite
<1>1. q \in AcceptShapes
  BY CounterTellsShape DEF InstallShapes, CreateShapes
<1> QED
  BY <1>1 DEF AcceptShapes, Shapes

\* An installation in progress is alone, so no request that is under way disturbs it.
LEMMA InstallationUndisturbed ==
    ASSUME InstallsAlone, NEW r \in Requests, requests[r] # Idle, Moves(r), past.outdated => past'.outdated
    PROVE  InstallsAlone'
  BY DEF InstallsAlone, Claims, Moves

\* Acceptances keep their invitations where no invitation gets another token.
LEMMA ErrandsKept ==
    ASSUME AcceptancesKnowTheirs, NEW r \in Requests, Moves(r),
           issued'.tokens = issued.tokens, DOMAIN userInvite' \subseteq DOMAIN userInvite,
           \A e \in DOMAIN userInvite' : userInvite'[e].token = userInvite[e].token /\ userInvite'[e].id = userInvite[e].id
    PROVE  AcceptancesKnowTheirs'
  BY DEF AcceptancesKnowTheirs, Accepts, Moves, SameErrand

LEMMA PatchIsBoolean ==
    ASSUME NEW patch \in Patches
    PROVE  /\ "role" \in DOMAIN patch => patch.role \in Roles
           /\ "banned" \in DOMAIN patch => patch.banned \in BOOLEAN
<1>1. CASE patch \in [role : Roles]
  BY <1>1
<1>2. CASE patch \in [banned : BOOLEAN]
  BY <1>2
<1>3. CASE patch \in [role : Roles, banned : BOOLEAN]
  BY <1>3
<1> QED
  BY <1>1, <1>2, <1>3 DEF Patches

\* A patched row is a row: the columns the patch names are the patch's.
LEMMA PatchedIsRow ==
    ASSUME NEW row \in Rows, NEW patch \in Patches
    PROVE  /\ Patched(row, patch) \in Rows
           /\ Patched(row, patch).password = row.password
           /\ "role" \notin DOMAIN patch => Patched(row, patch).role = row.role
           /\ "role" \in DOMAIN patch => Patched(row, patch).role = patch.role
           /\ "banned" \notin DOMAIN patch => Patched(row, patch).banned = row.banned
           /\ "banned" \in DOMAIN patch => Patched(row, patch).banned = patch.banned
<1>1. /\ "role" \in DOMAIN patch => patch.role \in Roles
      /\ "banned" \in DOMAIN patch => patch.banned \in BOOLEAN
  BY PatchIsBoolean
<1> QED
  BY <1>1 DEF Patched, Rows

LEMMA AccountsStepInv == AccountsInv /\ [AccountsNext]_accountVars => AccountsInv'
<1> SUFFICES ASSUME AccountsInv, [AccountsNext]_accountVars PROVE AccountsInv'
  OBVIOUS
<1> USE DEF AccountsInv, AccountsTypeOK
<1>1. ASSUME NEW r \in Requests, NEW e \in Emails, Claim(r, e) PROVE AccountsInv'
  <2>1. /\ requests' \in [Requests -> Shapes]
        /\ requests'[r] = [pc |-> "account", op |-> "bootstrap", id |-> issued.users + 1]
        /\ \A s \in Requests \ {r} : requests'[s] = requests[s]
    <3>1. [pc |-> "account", op |-> "bootstrap", id |-> issued.users + 1] \in Shapes
      BY DEF Shapes, InstallShapes
    <3> QED
      BY <1>1, <3>1, GotoMoves DEF Claim
  <2>2. AccountsTypeOK'
    <3>1. issued' \in [users : Nat, tokens : Nat]
      BY <1>1 DEF Claim, MayClaim, NewUser
    <3>2. DOMAIN users' \subseteq 1..issued'.users /\ users' \in [DOMAIN users' -> Rows]
      BY <1>1 DEF Claim, MayClaim, NewUser, Rows, Roles
    <3> QED
      BY <1>1, <2>1, <3>1, <3>2 DEF Claim, Moves
  <2>3. Nascent' /\ SomebodyThere'
    BY <1>1, <2>1 DEF Nascent, SomebodyThere, IsAdmin, Claim, MayClaim, NewUser
  <2>4. InstallsAlone'
    BY <1>1, <2>1 DEF Nascent, SomebodyThere, InstallsAlone, Claims, IsAdmin, Claim, MayClaim, NewUser
  <2>5. AdminsSignedIn'
    BY <1>1, <2>1 DEF AdminsSignedIn, Claim, MayClaim, NewUser
  <2>6. AdminRemains'
    BY <1>1, <2>1 DEF AdminRemains, IsAdmin, Idle, Claim, MayClaim, NewUser
  <2>7. TokensDrawn' /\ AcceptancesKnowTheirs'
    BY <1>1, <2>1 DEF TokensDrawn, AcceptancesKnowTheirs, Accepts, Claim, MayClaim, NewUser
  <2>8. SpentIsUsed' /\ UsedMeansRedeemed'
    BY <1>1 DEF TokensDrawn, SpentIsUsed, UsedMeansRedeemed, Claim, MayClaim, NewUser
  <2> QED
    BY <2>2, <2>3, <2>4, <2>5, <2>6, <2>7, <2>8
<1>2. ASSUME NEW r \in Requests, NEW e \in Emails, Accept(r, e) PROVE AccountsInv'
  <2>1. /\ requests' \in [Requests -> Shapes]
        /\ requests'[r].pc = "lookup" /\ requests'[r].op = "accept"
        /\ requests'[r].token = userInvite[e].token /\ requests'[r].invite = userInvite[e].id
        /\ \A s \in Requests \ {r} : requests'[s] = requests[s]
    <3> DEFINE inv == userInvite[e]
               next == [pc |-> "lookup", op |-> "accept", email |-> e, role |-> inv.role, id |-> 0,
                        invite |-> inv.id, token |-> inv.token, late |-> inv.token \in past.spent]
    <3>1. inv \in InviteRows /\ (inv.token \in past.spent) = FALSE
      BY <1>2 DEF Accept, Redeemable, SpentIsUsed
    <3>2. next \in AcceptShapes
      BY <3>1 DEF AcceptShapes, InviteRows
    <3>3. next \in Shapes
      BY <3>2 DEF Shapes
    <3> QED
      BY <1>2, <3>3, GotoMoves DEF Accept
  <2>2. AccountsTypeOK'
    BY <1>2, <2>1 DEF Accept, Moves
  <2>3. Nascent' /\ SomebodyThere'
    BY <1>2, <2>1 DEF Nascent, SomebodyThere, IsAdmin, Accept, Redeemable
  <2>4. InstallsAlone'
    BY <1>2, <2>1 DEF Nascent, SomebodyThere, InstallsAlone, Claims, IsAdmin, Accept, Redeemable
  <2>5. AdminsSignedIn'
    BY <1>2, <2>1 DEF AdminsSignedIn, Accept, Redeemable
  <2>6. AdminRemains'
    BY <1>2, <2>1 DEF AdminRemains, IsAdmin, Idle, Accept, Redeemable
  <2>7. TokensDrawn' /\ AcceptancesKnowTheirs'
    BY <1>2, <2>1 DEF TokensDrawn, AcceptancesKnowTheirs, Accepts, Accept, Redeemable
  <2>8. SpentIsUsed' /\ UsedMeansRedeemed'
    BY <1>2 DEF TokensDrawn, SpentIsUsed, UsedMeansRedeemed, Accept, Redeemable
  <2> QED
    BY <2>2, <2>3, <2>4, <2>5, <2>6, <2>7, <2>8
<1>3. ASSUME NEW r \in Requests, LookupEmail(r) PROVE AccountsInv'
  <2>1. Moves(r) /\ requests[r] # Idle
    <3> DEFINE n == [requests[r] EXCEPT !.pc = IF requests[r].op = "invite" THEN "upsert" ELSE "insert"]
    <3>1. /\ n \in Shapes /\ n.pc \in {"upsert", "insert"} /\ n.op = requests[r].op
          /\ requests[r].op = "accept" => n.token = requests[r].token /\ n.invite = requests[r].invite
      BY <1>3, LookupGoesOn DEF LookupEmail
    <3>2. CASE Finish(r)
      BY <1>3, <3>2, FinishMoves DEF LookupEmail, Idle
    <3>3. CASE Goto(r, n)
      <4> HIDE DEF n
      <4> QED
        BY <1>3, <3>1, <3>3, GotoMoves DEF LookupEmail, Moves, SameErrand, Claims, Accepts, Idle
    <3> QED
      BY <1>3, <3>2, <3>3 DEF LookupEmail
  <2>2. AccountsTypeOK'
    BY <1>3, <2>1 DEF LookupEmail, Moves
  <2>3. Nascent' /\ SomebodyThere'
    BY <1>3, <2>1 DEF Nascent, SomebodyThere, IsAdmin, LookupEmail
  <2>4. InstallsAlone'
    BY <1>3, <2>1, InstallationUndisturbed DEF LookupEmail
  <2>5. AdminsSignedIn'
    BY <1>3, <2>1 DEF AdminsSignedIn, Moves, LookupEmail
  <2>6. AdminRemains'
    BY <1>3, <2>1 DEF AdminRemains, IsAdmin, Moves, Nascent, AdminsSignedIn, InstallsAlone, Claims, LookupEmail
  <2>7. TokensDrawn' /\ AcceptancesKnowTheirs'
    BY <1>3, <2>1, ErrandsKept DEF TokensDrawn, LookupEmail
  <2>8. SpentIsUsed' /\ UsedMeansRedeemed'
    BY <1>3 DEF TokensDrawn, SpentIsUsed, UsedMeansRedeemed, LookupEmail
  <2> QED
    BY <2>2, <2>3, <2>4, <2>5, <2>6, <2>7, <2>8
<1>4. ASSUME NEW r \in Requests, InsertUser(r) PROVE AccountsInv'
  <2>1. Moves(r) /\ requests[r] # Idle
    <3> DEFINE n == Inserted(requests[r], issued.users + 1)
    <3>0. requests[r] \in Shapes /\ requests[r].pc = "insert" /\ issued.users + 1 \in Nat
      BY <1>4 DEF InsertUser
    <3>1. /\ n \in Shapes /\ n.pc = "account" /\ n.op = requests[r].op /\ n.op # "bootstrap"
          /\ requests[r].op = "accept" => n.token = requests[r].token /\ n.invite = requests[r].invite
      BY <3>0, InsertGoesOn
    <3>2. CASE Finish(r)
      BY <1>4, <3>2, FinishMoves DEF InsertUser, Idle
    <3>3. CASE Goto(r, n)
      <4> HIDE DEF n
      <4> QED
        BY <1>4, <3>1, <3>3, GotoMoves DEF InsertUser, Moves, SameErrand, Claims, Accepts, Idle
    <3> QED
      BY <1>4, <3>2, <3>3 DEF InsertUser, Inserted
  <2>2. AccountsTypeOK'
    <3>0. requests[r].email \in Emails /\ requests[r].role \in Roles /\ (requests[r].op = "accept" => ~requests[r].late)
      <4>1. requests[r] \in Shapes /\ requests[r].pc = "insert" /\ 0 \in Nat
        BY <1>4 DEF InsertUser
      <4> QED
        BY <4>1, InsertGoesOn
    <3>a. [email |-> requests[r].email, role |-> requests[r].role, banned |-> FALSE, password |-> FALSE] \in Rows
      BY <3>0 DEF Rows
    <3>b. DOMAIN users' \subseteq 1..issued'.users /\ users' \in [DOMAIN users' -> Rows]
      <4>1. CASE issued' = issued /\ users' = users
        BY <4>1
      <4>2. CASE NewUser(requests[r].email, requests[r].role)
        <5>1. issued'.users = issued.users + 1
          BY <4>2 DEF NewUser
        <5>2. DOMAIN users' = DOMAIN users \cup {issued.users + 1}
          BY <4>2 DEF NewUser
        <5>3. \A u \in DOMAIN users' : users'[u] \in Rows
          BY <3>a, <4>2 DEF NewUser
        <5>4. DOMAIN users' \subseteq 1..issued'.users
          BY <5>1, <5>2
        <5>5. users' \in [DOMAIN users' -> Rows]
          BY <4>2, <5>3 DEF NewUser
        <5> QED
          BY <5>4, <5>5
      <4> QED
        BY <1>4, <4>1, <4>2 DEF InsertUser
    <3>1. issued' \in [users : Nat, tokens : Nat]
      BY <3>0, <3>b, <1>4 DEF InsertUser, NewUser
    <3>2. DOMAIN users' \subseteq 1..issued'.users /\ users' \in [DOMAIN users' -> Rows]
      BY <3>0, <3>b, <1>4 DEF InsertUser, NewUser
    <3>3. past' \in [died : BOOLEAN, selfBan : BOOLEAN, outdated : BOOLEAN, spent : TokenSets,
               reopened : {FALSE}, crossed : TokenSets]
      BY <3>0, <3>b, <1>4 DEF InsertUser, NewUser
    <3> QED
      BY <1>4, <2>1, <3>1, <3>2, <3>3 DEF InsertUser, Moves
  <2>3. Nascent' /\ SomebodyThere'
    BY <1>4, <2>1 DEF Nascent, SomebodyThere, IsAdmin, InsertUser, NewUser
  <2>4. InstallsAlone'
    BY <1>4, <2>1, InstallationUndisturbed DEF InsertUser
  <2>5. AdminsSignedIn'
    BY <1>4, <2>1 DEF AdminsSignedIn, Moves, InsertUser, NewUser
  <2>6. AdminRemains'
    BY <1>4, <2>1, SMTT(30) DEF AdminRemains, IsAdmin, Moves, Nascent, AdminsSignedIn, InstallsAlone, Claims, InsertUser, NewUser
  <2>7. TokensDrawn' /\ AcceptancesKnowTheirs'
    BY <1>4, <2>1, ErrandsKept DEF TokensDrawn, InsertUser, NewUser
  <2>8. SpentIsUsed' /\ UsedMeansRedeemed'
    BY <1>4 DEF TokensDrawn, SpentIsUsed, UsedMeansRedeemed, InsertUser, NewUser
  <2> QED
    BY <2>2, <2>3, <2>4, <2>5, <2>6, <2>7, <2>8
<1>5. ASSUME NEW r \in Requests, InsertAccount(r) PROVE AccountsInv'
  <2>1. Moves(r) /\ requests[r] # Idle
    <3> DEFINE n == [requests[r] EXCEPT !.pc = "mark"]
    <3>1. CASE Finish(r)
      BY <1>5, <3>1, FinishMoves DEF InsertAccount, Idle
    <3>2. CASE requests[r].op = "accept" /\ Goto(r, n)
      <4>1. /\ n \in Shapes /\ n.pc = "mark" /\ n.op = "accept"
            /\ n.token = requests[r].token /\ n.invite = requests[r].invite
        BY <1>5, <3>2, AccountGoesOn DEF InsertAccount
      <4> HIDE DEF n
      <4> QED
        BY <1>5, <4>1, <3>2, GotoMoves DEF InsertAccount, Moves, SameErrand, Claims, Accepts, Idle
    <3> QED
      BY <1>5, <3>1, <3>2 DEF InsertAccount
  <2>a. /\ DOMAIN users' = DOMAIN users
        /\ \A u \in DOMAIN users :
              /\ users'[u].role = users[u].role /\ users'[u].banned = users[u].banned
              /\ users[u].password => users'[u].password
              /\ u = requests[r].id => users'[u].password
        /\ users' \in [DOMAIN users' -> Rows]
    <3>1. \A u \in DOMAIN users : [users[u] EXCEPT !.password = TRUE] \in Rows
      BY DEF Rows
    <3>2. \A u \in DOMAIN users : users[u] \in Rows
      OBVIOUS
    <3> QED
      BY <1>5, <3>1, <3>2 DEF InsertAccount, Rows
  <2>2. AccountsTypeOK'
    <3>1. DOMAIN users' \subseteq 1..issued'.users /\ users' \in [DOMAIN users' -> Rows]
      BY <2>a, <1>5 DEF InsertAccount
    <3> QED
      BY <1>5, <2>1, <3>1 DEF InsertAccount, Moves
  <2>3. Nascent' /\ SomebodyThere'
    BY <1>5, <2>1 DEF Nascent, SomebodyThere, IsAdmin, InsertAccount
  <2>4. InstallsAlone'
    BY <1>5, <2>1, InstallationUndisturbed DEF InsertAccount
  <2>5. AdminsSignedIn'
    BY <2>a, <1>5, <2>1 DEF AdminsSignedIn, Moves, InsertAccount
  <2>6. AdminRemains'
    <3>1. CASE \E u \in DOMAIN users : IsAdmin(u) /\ users[u].password
      BY <1>5, <2>a, <3>1 DEF AdminRemains, IsAdmin, InsertAccount
    <3>2. CASE Claims(r) /\ ~past.outdated
      BY <1>5, <2>a, <3>2 DEF AdminRemains, InstallsAlone, IsAdmin, InsertAccount
    <3>3. ASSUME NEW s \in Requests \ {r}, Claims(s) PROVE AdminRemains'
      BY <1>5, <2>1, <3>3 DEF AdminRemains, Claims, Moves
    <3>4. CASE issued.users = 0 \/ past.died \/ past.selfBan \/ past.outdated
      BY <1>5, <3>4 DEF AdminRemains, InsertAccount
    <3> QED
      BY <3>1, <3>2, <3>3, <3>4 DEF AdminRemains, Claims
  <2>7. TokensDrawn' /\ AcceptancesKnowTheirs'
    BY <1>5, <2>1, ErrandsKept DEF TokensDrawn, InsertAccount
  <2>8. SpentIsUsed' /\ UsedMeansRedeemed'
    BY <1>5 DEF TokensDrawn, SpentIsUsed, UsedMeansRedeemed, InsertAccount
  <2> QED
    BY <2>2, <2>3, <2>4, <2>5, <2>6, <2>7, <2>8
<1>6. ASSUME NEW r \in Requests, MarkUsed(r) PROVE AccountsInv'
  <2>1. Moves(r) /\ requests[r] # Idle
    BY <1>6, FinishMoves DEF MarkUsed, Idle
  <2>a. /\ DOMAIN userInvite' = DOMAIN userInvite
        /\ userInvite' \in [DOMAIN userInvite' -> InviteRows]
        /\ \A e \in DOMAIN userInvite :
              /\ userInvite'[e].id = userInvite[e].id /\ userInvite'[e].token = userInvite[e].token
              /\ userInvite[e].usedAt => userInvite'[e].usedAt
              /\ userInvite[e].id = requests[r].invite => userInvite'[e].usedAt
              /\ userInvite[e].id # requests[r].invite => userInvite'[e] = userInvite[e]
    BY <1>6, ZenonT(60) DEF MarkUsed, InviteRows
  <2>b. Accepts(r) /\ requests[r].token \in Nat
    <3>1. requests[r] \in AcceptShapes
      BY <1>6, CounterTellsShape DEF MarkUsed
    <3> QED
      BY <1>6, <3>1 DEF MarkUsed, AcceptShapes, Accepts
  <2>c. /\ past' \in [died : BOOLEAN, selfBan : BOOLEAN, outdated : BOOLEAN, spent : TokenSets,
                       reopened : {FALSE}, crossed : TokenSets]
        /\ past'.spent = past.spent \cup {requests[r].token}
        /\ past.crossed \subseteq past'.crossed
        /\ \A e \in DOMAIN userInvite : userInvite[e].id = requests[r].invite
              => userInvite[e].token \in past'.spent \cup past'.crossed
    <3> DEFINE row == {e \in DOMAIN userInvite : userInvite[e].id = requests[r].invite}
               crossed == past.crossed \cup ({userInvite[e].token : e \in row} \ {requests[r].token})
    <3>0. past.spent \in TokenSets /\ past.crossed \in TokenSets
      OBVIOUS
    <3>1. past.spent \cup {requests[r].token} \in TokenSets
      BY <2>b, <3>0 DEF TokenSets
    <3>2. crossed \in TokenSets
      BY <3>0 DEF TokenSets, InviteRows
    <3>3. past' = [past EXCEPT !.spent = @ \cup {requests[r].token}, !.crossed = crossed]
      BY <1>6 DEF MarkUsed
    <3>4. \A e \in row : userInvite[e].token \in crossed \cup {requests[r].token}
      OBVIOUS
    <3>5. past.crossed \subseteq crossed
      OBVIOUS
    <3> HIDE DEF crossed
    <3> QED
      BY <3>1, <3>2, <3>3, <3>4, <3>5
  <2>2. AccountsTypeOK'
    <3>1. userInvite' \in [DOMAIN userInvite' -> InviteRows]
      BY <2>a, <2>c, <1>6 DEF MarkUsed, AcceptShapes
    <3>2. past' \in [died : BOOLEAN, selfBan : BOOLEAN, outdated : BOOLEAN, spent : TokenSets,
               reopened : {FALSE}, crossed : TokenSets]
      BY <2>a, <2>c, <1>6 DEF MarkUsed, AcceptShapes
    <3> QED
      BY <1>6, <2>1, <3>1, <3>2 DEF MarkUsed, Moves
  <2>3. Nascent' /\ SomebodyThere'
    BY <1>6, <2>1 DEF Nascent, SomebodyThere, IsAdmin, MarkUsed
  <2>4. InstallsAlone'
    BY <1>6, <2>1, InstallationUndisturbed DEF MarkUsed
  <2>5. AdminsSignedIn'
    BY <2>a, <1>6, <2>1 DEF AdminsSignedIn, Moves, MarkUsed
  <2>6. AdminRemains'
    BY <2>a, <1>6, <2>1 DEF AdminRemains, IsAdmin, Moves, Nascent, AdminsSignedIn, InstallsAlone, Claims, MarkUsed
  <2>7. TokensDrawn' /\ AcceptancesKnowTheirs'
    BY <2>a, <2>b, <2>c, <1>6, <2>1, ErrandsKept DEF TokensDrawn, AcceptancesKnowTheirs, MarkUsed
  <2>8. SpentIsUsed' /\ UsedMeansRedeemed'
    BY <2>a, <2>b, <2>c DEF AcceptancesKnowTheirs, SpentIsUsed, UsedMeansRedeemed
  <2> QED
    BY <2>2, <2>3, <2>4, <2>5, <2>6, <2>7, <2>8
<1>7. ASSUME NEW r \in Requests, NEW id \in 1..MaxUsers, Authorise(r, id) PROVE AccountsInv'
  <2>1. /\ requests' \in [Requests -> Shapes]
        /\ requests'[r] = [pc |-> "admin", me |-> id]
        /\ \A s \in Requests \ {r} : requests'[s] = requests[s]
    <3>1. [pc |-> "admin", me |-> id] \in Shapes
      BY DEF Shapes, AdminShapes
    <3> QED
      BY <1>7, <3>1, GotoMoves DEF Authorise
  <2>2. AccountsTypeOK'
    BY <1>7, <2>1 DEF Authorise, Moves
  <2>3. Nascent' /\ SomebodyThere'
    BY <1>7, <2>1 DEF Nascent, SomebodyThere, IsAdmin, Authorise, RequireAdmin
  <2>4. InstallsAlone'
    <3>1. ~Claims(r)' /\ past' = past /\ users' = users /\ userInvite' = userInvite
      BY <1>7, <2>1 DEF Authorise, Claims
    <3>2. ASSUME NEW s \in Requests \ {r}, Claims(s), ~past.outdated PROVE FALSE
      <4>1. DOMAIN users = {requests[s].id} /\ ~users[requests[s].id].password
        BY <3>2 DEF InstallsAlone
      <4>2. id \in DOMAIN users /\ users[id].password
        BY <1>7 DEF Authorise
      <4> QED
        BY <4>1, <4>2
    <3> QED
      BY <2>1, <3>1, <3>2 DEF InstallsAlone, Claims
  <2>5. AdminsSignedIn'
    BY <1>7, <2>1 DEF AdminsSignedIn, Authorise, RequireAdmin
  <2>6. AdminRemains'
    BY <1>7, <2>1 DEF AdminRemains, IsAdmin, Idle, Authorise, RequireAdmin
  <2>7. TokensDrawn' /\ AcceptancesKnowTheirs'
    BY <1>7, <2>1 DEF TokensDrawn, AcceptancesKnowTheirs, Accepts, Authorise, RequireAdmin
  <2>8. SpentIsUsed' /\ UsedMeansRedeemed'
    BY <1>7 DEF TokensDrawn, SpentIsUsed, UsedMeansRedeemed, Authorise, RequireAdmin
  <2> QED
    BY <2>2, <2>3, <2>4, <2>5, <2>6, <2>7, <2>8
<1>8. ASSUME NEW r \in Requests, NEW e \in Emails, NEW role \in Roles, CreateUser(r, e, role) PROVE AccountsInv'
  <2>1. Moves(r) /\ requests[r] # Idle
    <3> DEFINE n == [pc |-> "lookup", op |-> "create", email |-> e, role |-> role, id |-> 0]
    <3>1. n \in Shapes
      BY DEF Shapes, CreateShapes
    <3> QED
      BY <1>8, <3>1, GotoMoves DEF CreateUser, Moves, SameErrand, Claims, Accepts, Idle
  <2>2. AccountsTypeOK'
    BY <1>8, <2>1 DEF CreateUser, Moves
  <2>3. Nascent' /\ SomebodyThere'
    BY <1>8, <2>1 DEF Nascent, SomebodyThere, IsAdmin, CreateUser
  <2>4. InstallsAlone'
    BY <1>8, <2>1, InstallationUndisturbed DEF CreateUser
  <2>5. AdminsSignedIn'
    BY <1>8, <2>1 DEF AdminsSignedIn, Moves, CreateUser
  <2>6. AdminRemains'
    BY <1>8, <2>1 DEF AdminRemains, IsAdmin, Moves, Nascent, AdminsSignedIn, InstallsAlone, Claims, CreateUser
  <2>7. TokensDrawn' /\ AcceptancesKnowTheirs'
    BY <1>8, <2>1, ErrandsKept DEF TokensDrawn, CreateUser
  <2>8. SpentIsUsed' /\ UsedMeansRedeemed'
    BY <1>8 DEF TokensDrawn, SpentIsUsed, UsedMeansRedeemed, CreateUser
  <2> QED
    BY <2>2, <2>3, <2>4, <2>5, <2>6, <2>7, <2>8
<1>9. ASSUME NEW r \in Requests, NEW e \in Emails, NEW role \in Roles, Invite(r, e, role) PROVE AccountsInv'
  <2>1. Moves(r) /\ requests[r] # Idle
    <3> DEFINE n == [pc |-> "lookup", op |-> "invite", me |-> requests[r].me, email |-> e, role |-> role]
    <3>1. n \in Shapes
      <4>1. requests[r].me \in Nat
        BY <1>9, CounterTellsShape DEF Invite, AdminShapes
      <4> QED
        BY <4>1 DEF Shapes, InviteShapes
    <3> QED
      BY <1>9, <3>1, GotoMoves DEF Invite, Moves, SameErrand, Claims, Accepts, Idle
  <2>2. AccountsTypeOK'
    BY <1>9, <2>1 DEF Invite, Moves
  <2>3. Nascent' /\ SomebodyThere'
    BY <1>9, <2>1 DEF Nascent, SomebodyThere, IsAdmin, Invite
  <2>4. InstallsAlone'
    BY <1>9, <2>1, InstallationUndisturbed DEF Invite
  <2>5. AdminsSignedIn'
    BY <1>9, <2>1 DEF AdminsSignedIn, Moves, Invite
  <2>6. AdminRemains'
    BY <1>9, <2>1 DEF AdminRemains, IsAdmin, Moves, Nascent, AdminsSignedIn, InstallsAlone, Claims, Invite
  <2>7. TokensDrawn' /\ AcceptancesKnowTheirs'
    BY <1>9, <2>1, ErrandsKept DEF TokensDrawn, Invite
  <2>8. SpentIsUsed' /\ UsedMeansRedeemed'
    BY <1>9 DEF TokensDrawn, SpentIsUsed, UsedMeansRedeemed, Invite
  <2> QED
    BY <2>2, <2>3, <2>4, <2>5, <2>6, <2>7, <2>8
<1>10. ASSUME NEW r \in Requests, NEW id \in 1..MaxUsers, NEW patch \in Patches, PatchUser(r, id, patch) PROVE AccountsInv'
  <2>1. Moves(r) /\ requests[r] # Idle
    BY <1>10, FinishMoves DEF PatchUser, Idle
  <2>a. /\ DOMAIN users' = DOMAIN users
        /\ \A u \in DOMAIN users :
              /\ users'[u].password = users[u].password
              /\ u # id => users'[u] = users[u]
              /\ u = id /\ id = requests[r].me /\ IsAdmin(id) =>
                    IsAdmin(id)' \/ ("banned" \in DOMAIN patch /\ patch.banned)
        /\ users' \in [DOMAIN users' -> Rows]
    <3>1. users[id] \in Rows /\ users' = [users EXCEPT ![id] = Patched(users[id], patch)]
      BY <1>10 DEF PatchUser
    <3>2. /\ Patched(users[id], patch) \in Rows
          /\ Patched(users[id], patch).password = users[id].password
          /\ "role" \notin DOMAIN patch => Patched(users[id], patch).role = users[id].role
          /\ "role" \in DOMAIN patch => Patched(users[id], patch).role = patch.role
          /\ "banned" \notin DOMAIN patch => Patched(users[id], patch).banned = users[id].banned
          /\ "banned" \in DOMAIN patch => Patched(users[id], patch).banned = patch.banned
      BY <3>1, PatchedIsRow
    <3>3. id \in DOMAIN users /\ ~(id = requests[r].me /\ "role" \in DOMAIN patch /\ patch.role # "admin")
      BY <1>10 DEF PatchUser, DemotesSelf
    <3> QED
      BY <3>1, <3>2, <3>3, PatchIsBoolean DEF IsAdmin
  <2>b. /\ past'.died = past.died
        /\ past'.outdated = (past.outdated \/ ~IsAdmin(requests[r].me))
        /\ past'.selfBan = (past.selfBan \/ (id = requests[r].me /\ "banned" \in DOMAIN patch /\ patch.banned))
        /\ issued' = issued
    BY <1>10 DEF PatchUser, Outdated
  <2>2. AccountsTypeOK'
    <3>1. DOMAIN users' \subseteq 1..issued'.users /\ users' \in [DOMAIN users' -> Rows]
      BY <2>a, <1>10 DEF PatchUser, Patched, Outdated, DemotesSelf
    <3>2. past' \in [died : BOOLEAN, selfBan : BOOLEAN, outdated : BOOLEAN, spent : TokenSets,
               reopened : {FALSE}, crossed : TokenSets]
      BY <2>a, <1>10 DEF PatchUser, Patched, Outdated, DemotesSelf
    <3> QED
      BY <1>10, <2>1, <3>1, <3>2 DEF PatchUser, Moves
  <2>3. Nascent' /\ SomebodyThere'
    BY <1>10, <2>1 DEF Nascent, SomebodyThere, IsAdmin, PatchUser, Patched, Outdated, DemotesSelf
  <2>4. InstallsAlone'
    BY <1>10, <2>1, InstallationUndisturbed DEF PatchUser, Outdated
  <2>5. AdminsSignedIn'
    BY <2>a, <1>10, <2>1 DEF AdminsSignedIn, Moves, PatchUser
  <2>6. AdminRemains'
    <3>1. CASE past.outdated \/ ~IsAdmin(requests[r].me)
      BY <2>b, <3>1 DEF AdminRemains
    <3>2. CASE IsAdmin(requests[r].me)
      <4>1. requests[r].me \in DOMAIN users /\ users[requests[r].me].password
        BY <1>10, <3>2 DEF AdminsSignedIn, IsAdmin, PatchUser
      <4>2. CASE id = requests[r].me
        BY <2>a, <2>b, <3>2, <4>1, <4>2 DEF AdminRemains
      <4>3. CASE id # requests[r].me
        BY <2>a, <3>2, <4>1, <4>3 DEF AdminRemains, IsAdmin
      <4> QED
        BY <4>2, <4>3
    <3> QED
      BY <3>1, <3>2
  <2>7. TokensDrawn' /\ AcceptancesKnowTheirs'
    BY <1>10, <2>1, ErrandsKept DEF TokensDrawn, PatchUser, Patched, Outdated, DemotesSelf
  <2>8. SpentIsUsed' /\ UsedMeansRedeemed'
    BY <1>10 DEF TokensDrawn, SpentIsUsed, UsedMeansRedeemed, PatchUser, Patched, Outdated, DemotesSelf
  <2> QED
    BY <2>2, <2>3, <2>4, <2>5, <2>6, <2>7, <2>8
<1>11. ASSUME NEW r \in Requests, NEW id \in 1..MaxUsers, DeleteUser(r, id) PROVE AccountsInv'
  <2>1. Moves(r) /\ requests[r] # Idle
    BY <1>11, FinishMoves DEF DeleteUser, Idle
  <2>2. AccountsTypeOK'
    <3>1. DOMAIN users' \subseteq 1..issued'.users /\ users' \in [DOMAIN users' -> Rows]
      BY <1>11 DEF DeleteUser, Without, Outdated
    <3>2. userInvite' \in [DOMAIN userInvite' -> InviteRows]
      BY <1>11 DEF DeleteUser, Without, Outdated
    <3>3. past' \in [died : BOOLEAN, selfBan : BOOLEAN, outdated : BOOLEAN, spent : TokenSets,
               reopened : {FALSE}, crossed : TokenSets]
      BY <1>11 DEF DeleteUser, Without, Outdated
    <3> QED
      BY <1>11, <2>1, <3>1, <3>2, <3>3 DEF DeleteUser, Moves
  <2>3. Nascent' /\ SomebodyThere'
    BY <1>11, <2>1 DEF Nascent, SomebodyThere, IsAdmin, DeleteUser, Without, Outdated
  <2>4. InstallsAlone'
    BY <1>11, <2>1, InstallationUndisturbed DEF DeleteUser, Outdated
  <2>5. AdminsSignedIn'
    BY <1>11, <2>1 DEF AdminsSignedIn, Moves, DeleteUser, Without, Outdated
  <2>6. AdminRemains'
    BY <1>11, <2>1 DEF AdminRemains, IsAdmin, Moves, Nascent, AdminsSignedIn, InstallsAlone, Claims, DeleteUser, Without, Outdated
  <2>7. TokensDrawn' /\ AcceptancesKnowTheirs'
    BY <1>11, <2>1, ErrandsKept DEF TokensDrawn, DeleteUser, Without, Outdated
  <2>8. SpentIsUsed' /\ UsedMeansRedeemed'
    BY <1>11 DEF TokensDrawn, SpentIsUsed, UsedMeansRedeemed, DeleteUser, Without, Outdated
  <2> QED
    BY <2>2, <2>3, <2>4, <2>5, <2>6, <2>7, <2>8
<1>12. ASSUME NEW r \in Requests, NEW e \in Emails, DeleteInvite(r, e) PROVE AccountsInv'
  <2>1. Moves(r) /\ requests[r] # Idle
    BY <1>12, FinishMoves DEF DeleteInvite, Idle
  <2>2. AccountsTypeOK'
    <3>1. userInvite' \in [DOMAIN userInvite' -> InviteRows]
      BY <1>12 DEF DeleteInvite, Without
    <3> QED
      BY <1>12, <2>1, <3>1 DEF DeleteInvite, Moves
  <2>3. Nascent' /\ SomebodyThere'
    BY <1>12, <2>1 DEF Nascent, SomebodyThere, IsAdmin, DeleteInvite, Without
  <2>4. InstallsAlone'
    BY <1>12, <2>1, InstallationUndisturbed DEF DeleteInvite
  <2>5. AdminsSignedIn'
    BY <1>12, <2>1 DEF AdminsSignedIn, Moves, DeleteInvite, Without
  <2>6. AdminRemains'
    BY <1>12, <2>1 DEF AdminRemains, IsAdmin, Moves, Nascent, AdminsSignedIn, InstallsAlone, Claims, DeleteInvite, Without
  <2>7. TokensDrawn' /\ AcceptancesKnowTheirs'
    BY <1>12, <2>1, ErrandsKept DEF TokensDrawn, DeleteInvite, Without
  <2>8. SpentIsUsed' /\ UsedMeansRedeemed'
    BY <1>12 DEF TokensDrawn, SpentIsUsed, UsedMeansRedeemed, DeleteInvite, Without
  <2> QED
    BY <2>2, <2>3, <2>4, <2>5, <2>6, <2>7, <2>8
<1>13. ASSUME NEW r \in Requests, UpsertInvite(r) PROVE AccountsInv'
  <2>1. Moves(r) /\ requests[r] # Idle
    BY <1>13, FinishMoves DEF UpsertInvite, Idle
  <2>a. /\ issued' = [issued EXCEPT !.tokens = issued.tokens + 1]
        /\ past' = past
        /\ DOMAIN userInvite' = DOMAIN userInvite \cup {requests[r].email}
        /\ userInvite' \in [DOMAIN userInvite' -> InviteRows]
        /\ userInvite'[requests[r].email].token = issued.tokens + 1
        /\ ~userInvite'[requests[r].email].usedAt
        /\ \A e \in DOMAIN userInvite : e # requests[r].email => userInvite'[e] = userInvite[e]
    <3> DEFINE q == requests[r]
               t == issued.tokens + 1
               new == [id |-> t, token |-> t, role |-> q.role, by |-> q.me, usedAt |-> FALSE]
    <3>1. q.me \in Nat /\ q.role \in Roles
      BY <1>13, CounterTellsShape DEF UpsertInvite, InviteShapes
    <3>2. new \in InviteRows /\ new.token = t /\ ~new.usedAt
      BY <3>1 DEF InviteRows
    <3>3. \A e \in DOMAIN userInvite : /\ Reissued(userInvite[e], new) \in InviteRows
                                      /\ Reissued(userInvite[e], new).token = t
                                      /\ ~Reissued(userInvite[e], new).usedAt
      BY <3>2 DEF Reissued, InviteRows
    <3>4. userInvite' = [e \in DOMAIN userInvite \cup {q.email} |->
                            IF e # q.email THEN userInvite[e]
                            ELSE IF e \in DOMAIN userInvite THEN Reissued(userInvite[e], new) ELSE new]
      BY <1>13 DEF UpsertInvite
    <3>5. q.email \in DOMAIN userInvite' /\ past' = past /\ issued' = [issued EXCEPT !.tokens = t]
      BY <1>13, <3>4 DEF UpsertInvite
    <3>6. userInvite'[q.email] \in {new} \cup {Reissued(userInvite[e], new) : e \in DOMAIN userInvite}
      BY <3>4
    <3>7. \A e \in DOMAIN userInvite : e # q.email => userInvite'[e] = userInvite[e]
      <4> HIDE DEF new, q
      <4> QED
        BY <3>4
    <3>8. userInvite' \in [DOMAIN userInvite' -> InviteRows]
      <4>1. DOMAIN userInvite' = DOMAIN userInvite \cup {q.email}
        BY <3>4
      <4>2. \A e \in DOMAIN userInvite' : userInvite'[e] \in InviteRows
        <5> HIDE DEF new, q, t
        <5> QED
          BY <3>2, <3>3, <3>6, <3>7, <4>1
      <4> QED
        BY <3>4, <4>2
    <3> HIDE DEF new
    <3> QED
      BY <3>2, <3>3, <3>4, <3>5, <3>6, <3>7, <3>8
  <2>2. AccountsTypeOK'
    <3>1. issued' \in [users : Nat, tokens : Nat]
      BY <2>a, <1>13 DEF UpsertInvite, Reissued, InviteShapes
    <3>2. userInvite' \in [DOMAIN userInvite' -> InviteRows]
      BY <2>a, <1>13 DEF UpsertInvite, Reissued, InviteShapes
    <3> QED
      BY <1>13, <2>1, <3>1, <3>2 DEF UpsertInvite, Moves
  <2>3. Nascent' /\ SomebodyThere'
    BY <1>13, <2>1 DEF Nascent, SomebodyThere, IsAdmin, UpsertInvite, Reissued
  <2>4. InstallsAlone'
    BY <1>13, <2>1, InstallationUndisturbed DEF UpsertInvite
  <2>5. AdminsSignedIn'
    BY <2>a, <1>13, <2>1 DEF AdminsSignedIn, Moves, UpsertInvite
  <2>6. AdminRemains'
    BY <2>a, <1>13, <2>1, SMTT(30) DEF AdminRemains, IsAdmin, Moves, Nascent, AdminsSignedIn, InstallsAlone, Claims, UpsertInvite, Reissued
  <2>7. TokensDrawn' /\ AcceptancesKnowTheirs'
    <3>1. TokensDrawn'
      <4>1. issued'.tokens = issued.tokens + 1 /\ issued.tokens \in Nat
        BY <2>a
      <4>2. \A e \in DOMAIN userInvite' : userInvite'[e].token \in 1..issued'.tokens
        BY <2>a, <4>1 DEF TokensDrawn
      <4>3. past'.spent \subseteq 1..issued'.tokens
        BY <2>a, <4>1 DEF TokensDrawn
      <4>4. \A e, f \in DOMAIN userInvite' : userInvite'[e].token = userInvite'[f].token => e = f
        BY <2>a, <4>1 DEF TokensDrawn
      <4> QED
        BY <4>2, <4>3, <4>4 DEF TokensDrawn
    <3>2. AcceptancesKnowTheirs'
      BY <2>a, <2>1 DEF TokensDrawn, AcceptancesKnowTheirs, Accepts, Moves, SameErrand
    <3> QED
      BY <3>1, <3>2
  <2>8. SpentIsUsed' /\ UsedMeansRedeemed'
    BY <1>13 DEF TokensDrawn, SpentIsUsed, UsedMeansRedeemed, UpsertInvite, Reissued
  <2> QED
    BY <2>2, <2>3, <2>4, <2>5, <2>6, <2>7, <2>8
<1>14. ASSUME NEW r \in Requests, UpsertRefused(r) PROVE AccountsInv'
  <2>1. Moves(r) /\ requests[r] # Idle
    BY <1>14, FinishMoves DEF UpsertRefused, Idle
  <2>2. AccountsTypeOK'
    BY <1>14, <2>1 DEF UpsertRefused, Moves
  <2>3. Nascent' /\ SomebodyThere'
    BY <1>14, <2>1 DEF Nascent, SomebodyThere, IsAdmin, UpsertRefused
  <2>4. InstallsAlone'
    BY <1>14, <2>1, InstallationUndisturbed DEF UpsertRefused
  <2>5. AdminsSignedIn'
    BY <1>14, <2>1 DEF AdminsSignedIn, Moves, UpsertRefused
  <2>6. AdminRemains'
    BY <1>14, <2>1 DEF AdminRemains, IsAdmin, Moves, Nascent, AdminsSignedIn, InstallsAlone, Claims, UpsertRefused
  <2>7. TokensDrawn' /\ AcceptancesKnowTheirs'
    BY <1>14, <2>1, ErrandsKept DEF TokensDrawn, UpsertRefused
  <2>8. SpentIsUsed' /\ UsedMeansRedeemed'
    BY <1>14 DEF TokensDrawn, SpentIsUsed, UsedMeansRedeemed, UpsertRefused
  <2> QED
    BY <2>2, <2>3, <2>4, <2>5, <2>6, <2>7, <2>8
<1>15. ASSUME NEW r \in Requests, Die(r) PROVE AccountsInv'
  <2>1. Moves(r) /\ requests[r] # Idle
    BY <1>15, FinishMoves DEF Die
  <2>2. AccountsTypeOK'
    <3>1. past' \in [died : BOOLEAN, selfBan : BOOLEAN, outdated : BOOLEAN, spent : TokenSets,
               reopened : {FALSE}, crossed : TokenSets]
      BY <1>15 DEF Die
    <3> QED
      BY <1>15, <2>1, <3>1 DEF Die, Moves
  <2>3. Nascent' /\ SomebodyThere'
    BY <1>15, <2>1 DEF Nascent, SomebodyThere, IsAdmin, Die
  <2>4. InstallsAlone'
    BY <1>15, <2>1, InstallationUndisturbed DEF Die
  <2>5. AdminsSignedIn'
    BY <1>15, <2>1 DEF AdminsSignedIn, Moves, Die
  <2>6. AdminRemains'
    BY <1>15, <2>1 DEF AdminRemains, IsAdmin, Moves, Nascent, AdminsSignedIn, InstallsAlone, Claims, Die
  <2>7. TokensDrawn' /\ AcceptancesKnowTheirs'
    BY <1>15, <2>1, ErrandsKept DEF TokensDrawn, Die
  <2>8. SpentIsUsed' /\ UsedMeansRedeemed'
    BY <1>15 DEF TokensDrawn, SpentIsUsed, UsedMeansRedeemed, Die
  <2> QED
    BY <2>2, <2>3, <2>4, <2>5, <2>6, <2>7, <2>8
<1>16. CASE UNCHANGED accountVars
  <2>1. AccountsTypeOK'
    BY <1>16 DEF accountVars
  <2>2. Nascent' /\ SomebodyThere' /\ InstallsAlone' /\ AdminsSignedIn' /\ AdminRemains'
    BY <1>16 DEF accountVars, Nascent, SomebodyThere, InstallsAlone, Claims, AdminsSignedIn, AdminRemains, IsAdmin
  <2>3. TokensDrawn' /\ AcceptancesKnowTheirs' /\ SpentIsUsed' /\ UsedMeansRedeemed'
    BY <1>16 DEF accountVars, TokensDrawn, AcceptancesKnowTheirs, Accepts, SpentIsUsed, UsedMeansRedeemed
  <2> QED
    BY <2>1, <2>2, <2>3
<1> HIDE DEF AccountsInv, AccountsTypeOK
<1> QED
  BY <1>1, <1>2, <1>3, <1>4, <1>5, <1>6, <1>7, <1>8, <1>9, <1>10, <1>11, <1>12, <1>13, <1>14, <1>15, <1>16 DEF AccountsNext

\* The rows and the requests are what every statement expects of them.
THEOREM AccountsInvariant == AccountsSpec => []AccountsInv
  BY AccountsInitInv, AccountsStepInv, PTL DEF AccountsSpec

\* There is one installation and from then on an administrator who can sign in, for any number
\* of requests and users, with the three exceptions AdminRemains names (bootstrap.ts:31-48,
\* users.ts:117-145, middleware.ts:22-36).
THEOREM AdministeredForever == AccountsSpec => []Administered
<1>1. AccountsInv => Administered
  BY DEF AccountsInv, AccountsTypeOK, Administered, OneInstallation, InstallsAlone, Claims
<1> QED
  BY <1>1, AccountsInvariant, PTL

\* An invitation makes one account and a used one has made it, for any number of invitations,
\* renewals and overlapping acceptances (users.ts:35-50, 173-186).
THEOREM InvitationsAreSpentOnce == AccountsSpec => []InvitationsSpentOnce
<1>1. AccountsInv => InvitationsSpentOnce
  BY DEF AccountsInv, AccountsTypeOK, InvitationsSpentOnce, SpentTokensStaySpent
<1> QED
  BY <1>1, AccountsInvariant, PTL

-----------------------------------------------------------------------------
(***************************************************************************)
(* MailboxAccess: every person, handler and fingerprint.                   *)
(***************************************************************************)
Grants == SUBSET Bits
Groups == SUBSET People
Prints == Fingerprints \cup {"none"}
Types == {"personal", "group"}
MigrationShapes == [owner : People] \cup [type : Types] \cup [owner : People, type : Types]

HandlerSteps ==
    [pc : {"waiting"}]
    \cup [pc : {"manage"}, seen : Prints]
    \cup [pc : {"join", "drop"}, who : People, bits : Grants]
    \cup [pc : {"migrate"}, patch : MigrationShapes]
    \cup [pc : {"mode"}, mode : Modes]
    \cup [pc : {"discovered"}, key : [fingerprint : Fingerprints, source : {"tofu", "wkd"}, verified : {FALSE}]]

AccessTypeOK ==
    /\ mailbox \in [owner : People, type : Types, doomed : BOOLEAN, pgpMode : Modes, pgpKey : BOOLEAN]
    /\ DOMAIN member \subseteq People
    /\ DOMAIN invited \subseteq People
    /\ invited \in [DOMAIN invited -> Grants]
    /\ contact \in [fingerprint : Prints, source : {"none", "import", "tofu", "wkd"}, verified : BOOLEAN]
    /\ handlers \in [Handlers -> HandlerSteps]
    /\ trail \in [revoked : Groups, overlapped : Groups, doubled : Groups,
                  joined : BOOLEAN, unkeyed : BOOLEAN, confirmed : Prints, swapped : BOOLEAN]

\* Nobody who was put out is still invited, or selected to join, unless it is excused.
OutsidersUninvited ==
    /\ \A p \in DOMAIN invited : p \notin trail.revoked \ trail.overlapped
    /\ \A h \in Handlers : handlers[h].pc \in {"join", "drop"}
          => handlers[h].who \notin trail.revoked \ trail.overlapped

\* A member with an invitation on file: a handler is about to delete it, or will never.
InvitedMembersAreKnown ==
    \A p \in DOMAIN member \cap DOMAIN invited :
        p \in trail.doubled \/ \E h \in Handlers : handlers[h].pc = "drop" /\ handlers[h].who = p

\* The members were shed before the mailbox is made personal.
MigratesUnshared ==
    \A h \in Handlers : handlers[h].pc = "migrate" /\ BecomesPersonal(handlers[h].patch) /\ ~trail.joined
        => DOMAIN member = {}

\* A mode that was let through saw a key.
ModesSawKey ==
    \A h \in Handlers : handlers[h].pc = "mode" /\ handlers[h].mode # "off"
        => mailbox.pgpKey \/ trail.unkeyed

AccessInv ==
    /\ AccessTypeOK
    /\ RevokedStayOut /\ OutsidersUninvited /\ InvitedMembersAreKnown
    /\ PersonalIsUnshared /\ MigratesUnshared
    /\ ModeHasKey /\ ModesSawKey /\ VerifiedWasConfirmed

LEMMA AccessInitInv == AccessInit => AccessInv
  BY DEF AccessInit, AccessInv, AccessTypeOK, HandlerSteps, Prints, Types, Modes, NoKey, Waiting, Clean,
         RevokedStayOut, OutsidersUninvited, InvitedMembersAreKnown, PersonalIsUnshared, MigratesUnshared,
         ModeHasKey, ModesSawKey, VerifiedWasConfirmed, Grants, Groups

\* Putting somebody out touches nothing but who is out.
LEMMA PutOutKeepsTypes ==
    ASSUME AccessTypeOK, NEW p \in People, PutOut(p)
    PROVE  trail' \in [revoked : Groups, overlapped : Groups, doubled : Groups,
                       joined : BOOLEAN, unkeyed : BOOLEAN, confirmed : Prints, swapped : BOOLEAN]
<1>1. trail.revoked \cup {p} \in Groups
  BY DEF AccessTypeOK, Groups
<1>2. trail.overlapped \cup ({p} \cap (Selected \cup trail.doubled)) \in Groups
  BY DEF AccessTypeOK, Groups
<1> QED
  BY <1>1, <1>2 DEF AccessTypeOK, PutOut

LEMMA AccessStepInv == AccessInv /\ [AccessNext]_accessVars => AccessInv'
<1> SUFFICES ASSUME AccessInv, [AccessNext]_accessVars PROVE AccessInv'
  OBVIOUS
<1> USE DEF AccessInv, AccessTypeOK, HandlerSteps, Turn, Done, Waiting
<1>1. ASSUME NEW h \in Handlers, NEW p \in People, Authorize(h, p, "manage") PROVE AccessInv'
  <2>1. AccessTypeOK'
    BY <1>1 DEF Prints, Authorize
  <2>2. RevokedStayOut' /\ OutsidersUninvited' /\ InvitedMembersAreKnown'
    BY <1>1 DEF RevokedStayOut, OutsidersUninvited, InvitedMembersAreKnown, Authorize
  <2>3. PersonalIsUnshared' /\ MigratesUnshared'
    BY <1>1 DEF PersonalIsUnshared, MigratesUnshared, BecomesPersonal, Authorize
  <2>4. ModeHasKey' /\ ModesSawKey'
    BY <1>1 DEF ModeHasKey, ModesSawKey, Authorize
  <2>5. VerifiedWasConfirmed'
    BY <1>1 DEF VerifiedWasConfirmed, Authorize
  <2> QED
    BY <2>1, <2>2, <2>3, <2>4, <2>5
<1>2. ASSUME NEW h \in Handlers, Abandon(h) PROVE AccessInv'
  <2>1. AccessTypeOK'
    BY <1>2, ZenonT(60) DEF Groups, Abandon
  <2>2. RevokedStayOut' /\ OutsidersUninvited' /\ InvitedMembersAreKnown'
    BY <1>2 DEF RevokedStayOut, OutsidersUninvited, InvitedMembersAreKnown, Abandon
  <2>3. PersonalIsUnshared' /\ MigratesUnshared'
    BY <1>2 DEF PersonalIsUnshared, MigratesUnshared, BecomesPersonal, Abandon
  <2>4. ModeHasKey' /\ ModesSawKey'
    BY <1>2 DEF ModeHasKey, ModesSawKey, Abandon
  <2>5. VerifiedWasConfirmed'
    BY <1>2 DEF VerifiedWasConfirmed, Abandon
  <2> QED
    BY <2>1, <2>2, <2>3, <2>4, <2>5
<1>3. ASSUME NEW h \in Handlers, Join(h) PROVE AccessInv'
  <2>1. AccessTypeOK'
    <3>1. mailbox' \in [owner : People, type : Types, doomed : BOOLEAN, pgpMode : Modes, pgpKey : BOOLEAN]
      BY <1>3 DEF Join, Admit, Put
    <3>2. DOMAIN member' \subseteq People
      BY <1>3 DEF Join, Admit, Put
    <3>3. DOMAIN invited' \subseteq People /\ invited' \in [DOMAIN invited' -> Grants]
      BY <1>3 DEF Join, Admit, Put
    <3>a. [handlers[h] EXCEPT !.pc = "drop"] \in HandlerSteps
      BY <1>3, ZenonT(60) DEF Join
    <3>4. (handlers \in [Handlers -> HandlerSteps])'
      BY <3>a, <1>3 DEF Join, Admit, Put
    <3>5. trail' \in [revoked : Groups, overlapped : Groups, doubled : Groups,
                    joined : BOOLEAN, unkeyed : BOOLEAN, confirmed : Prints, swapped : BOOLEAN]
      BY <1>3 DEF Join, Admit, Put
    <3> QED
      BY <1>3, <3>1, <3>2, <3>3, <3>4, <3>5 DEF Join, Admit, Put
  <2>2. RevokedStayOut' /\ OutsidersUninvited' /\ InvitedMembersAreKnown'
    BY <1>3 DEF RevokedStayOut, OutsidersUninvited, InvitedMembersAreKnown, Join, Admit, Put
  <2>3. PersonalIsUnshared' /\ MigratesUnshared'
    BY <1>3 DEF PersonalIsUnshared, MigratesUnshared, BecomesPersonal, Join, Admit, Put
  <2>4. ModeHasKey' /\ ModesSawKey'
    BY <1>3 DEF ModeHasKey, ModesSawKey, Join, Admit, Put
  <2>5. VerifiedWasConfirmed'
    BY <1>3 DEF VerifiedWasConfirmed, Join, Admit, Put
  <2> QED
    BY <2>1, <2>2, <2>3, <2>4, <2>5
<1>4. ASSUME NEW h \in Handlers, DropInvite(h) PROVE AccessInv'
  <2>1. AccessTypeOK'
    BY <1>4 DEF DropInvite, DeletesInvite, Drop
  <2>2. RevokedStayOut' /\ OutsidersUninvited' /\ InvitedMembersAreKnown'
    BY <1>4 DEF RevokedStayOut, OutsidersUninvited, InvitedMembersAreKnown, DropInvite, DeletesInvite, Drop
  <2>3. PersonalIsUnshared' /\ MigratesUnshared'
    BY <1>4 DEF PersonalIsUnshared, MigratesUnshared, BecomesPersonal, DropInvite, DeletesInvite, Drop
  <2>4. ModeHasKey' /\ ModesSawKey'
    BY <1>4 DEF ModeHasKey, ModesSawKey, DropInvite, DeletesInvite, Drop
  <2>5. VerifiedWasConfirmed'
    BY <1>4 DEF VerifiedWasConfirmed, DropInvite, DeletesInvite, Drop
  <2> QED
    BY <2>1, <2>2, <2>3, <2>4, <2>5
<1>5. ASSUME NEW h \in Handlers, WriteMigration(h) PROVE AccessInv'
  <2>1. AccessTypeOK'
    <3>a. handlers[h].patch \in MigrationShapes
      BY <1>5 DEF WriteMigration
    <3>1. mailbox' \in [owner : People, type : Types, doomed : BOOLEAN, pgpMode : Modes, pgpKey : BOOLEAN]
      BY <3>a, <1>5 DEF MigrationShapes, Types, WriteMigration
    <3>2. DOMAIN member' \subseteq People
      BY <1>5 DEF MigrationShapes, Types, WriteMigration
    <3>3. DOMAIN invited' \subseteq People /\ invited' \in [DOMAIN invited' -> Grants]
      BY <1>5 DEF MigrationShapes, Types, WriteMigration
    <3>4. (handlers \in [Handlers -> HandlerSteps])'
      BY <1>5 DEF MigrationShapes, Types, WriteMigration
    <3>5. trail' \in [revoked : Groups, overlapped : Groups, doubled : Groups,
                    joined : BOOLEAN, unkeyed : BOOLEAN, confirmed : Prints, swapped : BOOLEAN]
      BY <1>5 DEF MigrationShapes, Types, WriteMigration
    <3> QED
      BY <1>5, <3>1, <3>2, <3>3, <3>4, <3>5 DEF WriteMigration
  <2>2. RevokedStayOut' /\ OutsidersUninvited' /\ InvitedMembersAreKnown'
    BY <1>5 DEF RevokedStayOut, OutsidersUninvited, InvitedMembersAreKnown, WriteMigration
  <2>3. PersonalIsUnshared' /\ MigratesUnshared'
    BY <1>5 DEF PersonalIsUnshared, MigratesUnshared, BecomesPersonal, WriteMigration
  <2>4. ModeHasKey' /\ ModesSawKey'
    BY <1>5 DEF ModeHasKey, ModesSawKey, WriteMigration
  <2>5. VerifiedWasConfirmed'
    BY <1>5 DEF VerifiedWasConfirmed, WriteMigration
  <2> QED
    BY <2>1, <2>2, <2>3, <2>4, <2>5
<1>6. ASSUME NEW h \in Handlers, NEW p \in People, SelectInvites(h, p) PROVE AccessInv'
  <2>1. AccessTypeOK'
    BY <1>6 DEF SelectInvites
  <2>2. RevokedStayOut' /\ OutsidersUninvited' /\ InvitedMembersAreKnown'
    BY <1>6 DEF RevokedStayOut, OutsidersUninvited, InvitedMembersAreKnown, SelectInvites
  <2>3. PersonalIsUnshared' /\ MigratesUnshared'
    BY <1>6 DEF PersonalIsUnshared, MigratesUnshared, BecomesPersonal, SelectInvites
  <2>4. ModeHasKey' /\ ModesSawKey'
    BY <1>6 DEF ModeHasKey, ModesSawKey, SelectInvites
  <2>5. VerifiedWasConfirmed'
    BY <1>6 DEF VerifiedWasConfirmed, SelectInvites
  <2> QED
    BY <2>1, <2>2, <2>3, <2>4, <2>5
<1>7. ASSUME NEW h \in Handlers, NEW p \in People, RemoveMember(h, p) PROVE AccessInv'
  <2>1. AccessTypeOK'
    <3>1. mailbox' \in [owner : People, type : Types, doomed : BOOLEAN, pgpMode : Modes, pgpKey : BOOLEAN]
      BY <1>7 DEF PutOut, RemoveMember, Drop
    <3>2. DOMAIN member' \subseteq People
      BY <1>7 DEF PutOut, RemoveMember, Drop
    <3>3. DOMAIN invited' \subseteq People /\ invited' \in [DOMAIN invited' -> Grants]
      BY <1>7 DEF PutOut, RemoveMember, Drop
    <3>4. (handlers \in [Handlers -> HandlerSteps])'
      BY <1>7 DEF PutOut, RemoveMember, Drop
    <3>5. trail' \in [revoked : Groups, overlapped : Groups, doubled : Groups,
                    joined : BOOLEAN, unkeyed : BOOLEAN, confirmed : Prints, swapped : BOOLEAN]
      BY PutOutKeepsTypes, <1>7 DEF RemoveMember, Drop
    <3> QED
      BY <1>7, <3>1, <3>2, <3>3, <3>4, <3>5 DEF RemoveMember, Drop
  <2>2. RevokedStayOut' /\ OutsidersUninvited' /\ InvitedMembersAreKnown'
    <3>1. CASE p \in DOMAIN member
      <4>1. PutOut(p)
        BY <1>7, <3>1 DEF RemoveMember, Drop
      <4>2. /\ trail'.revoked = trail.revoked \cup {p}
            /\ trail'.overlapped = trail.overlapped \cup ({p} \cap (Selected \cup trail.doubled))
            /\ trail'.doubled = trail.doubled
        BY <4>1 DEF PutOut
      <4>3. RevokedStayOut'
        BY <1>7, <3>1, <4>2 DEF RevokedStayOut, RemoveMember, Drop
      <4>4. OutsidersUninvited'
        BY <1>7, <3>1, <4>2 DEF OutsidersUninvited, InvitedMembersAreKnown, Selected, RemoveMember, Drop
      <4>5. InvitedMembersAreKnown'
        BY <1>7, <3>1, <4>2 DEF InvitedMembersAreKnown, RemoveMember, Drop
      <4> QED
        BY <4>3, <4>4, <4>5
    <3>2. CASE ~(p \in DOMAIN member)
      BY <1>7, <3>2 DEF RevokedStayOut, OutsidersUninvited, InvitedMembersAreKnown, RemoveMember, Drop
    <3> QED
      BY <3>1, <3>2
  <2>3. PersonalIsUnshared' /\ MigratesUnshared'
    BY <1>7 DEF PersonalIsUnshared, MigratesUnshared, BecomesPersonal, RemoveMember, Drop, PutOut, Selected
  <2>4. ModeHasKey' /\ ModesSawKey'
    BY <1>7 DEF ModeHasKey, ModesSawKey, RemoveMember, Drop, PutOut, Selected
  <2>5. VerifiedWasConfirmed'
    BY <1>7 DEF VerifiedWasConfirmed, RemoveMember, Drop, PutOut, Selected
  <2> QED
    BY <2>1, <2>2, <2>3, <2>4, <2>5
<1>8. ASSUME NEW h \in Handlers, NEW p \in People, WithdrawInvite(h, p) PROVE AccessInv'
  <2>1. AccessTypeOK'
    <3>1. mailbox' \in [owner : People, type : Types, doomed : BOOLEAN, pgpMode : Modes, pgpKey : BOOLEAN]
      BY <1>8 DEF PutOut, WithdrawInvite, Drop
    <3>2. DOMAIN member' \subseteq People
      BY <1>8 DEF PutOut, WithdrawInvite, Drop
    <3>3. DOMAIN invited' \subseteq People /\ invited' \in [DOMAIN invited' -> Grants]
      BY <1>8 DEF PutOut, WithdrawInvite, Drop
    <3>4. (handlers \in [Handlers -> HandlerSteps])'
      BY <1>8 DEF PutOut, WithdrawInvite, Drop
    <3>5. trail' \in [revoked : Groups, overlapped : Groups, doubled : Groups,
                    joined : BOOLEAN, unkeyed : BOOLEAN, confirmed : Prints, swapped : BOOLEAN]
      BY PutOutKeepsTypes, <1>8 DEF WithdrawInvite, Drop
    <3> QED
      BY <1>8, <3>1, <3>2, <3>3, <3>4, <3>5 DEF WithdrawInvite, Drop
  <2>2. RevokedStayOut' /\ OutsidersUninvited' /\ InvitedMembersAreKnown'
    <3>1. CASE p \notin DOMAIN member
      <4>1. PutOut(p)
        BY <1>8, <3>1 DEF WithdrawInvite, Drop
      <4>2. /\ trail'.revoked = trail.revoked \cup {p}
            /\ trail'.overlapped = trail.overlapped \cup ({p} \cap (Selected \cup trail.doubled))
            /\ trail'.doubled = trail.doubled
        BY <4>1 DEF PutOut
      <4>3. RevokedStayOut'
        BY <1>8, <3>1, <4>2 DEF RevokedStayOut, WithdrawInvite, Drop
      <4>4. OutsidersUninvited'
        BY <1>8, <3>1, <4>2 DEF OutsidersUninvited, InvitedMembersAreKnown, Selected, WithdrawInvite, Drop
      <4>5. InvitedMembersAreKnown'
        BY <1>8, <3>1, <4>2 DEF InvitedMembersAreKnown, WithdrawInvite, Drop
      <4> QED
        BY <4>3, <4>4, <4>5
    <3>2. CASE ~(p \notin DOMAIN member)
      BY <1>8, <3>2 DEF RevokedStayOut, OutsidersUninvited, InvitedMembersAreKnown, WithdrawInvite, Drop
    <3> QED
      BY <3>1, <3>2
  <2>3. PersonalIsUnshared' /\ MigratesUnshared'
    BY <1>8 DEF PersonalIsUnshared, MigratesUnshared, BecomesPersonal, WithdrawInvite, Drop, PutOut, Selected
  <2>4. ModeHasKey' /\ ModesSawKey'
    BY <1>8 DEF ModeHasKey, ModesSawKey, WithdrawInvite, Drop, PutOut, Selected
  <2>5. VerifiedWasConfirmed'
    BY <1>8 DEF VerifiedWasConfirmed, WithdrawInvite, Drop, PutOut, Selected
  <2> QED
    BY <2>1, <2>2, <2>3, <2>4, <2>5
<1>9. ASSUME NEW h \in Handlers, NEW p \in People, NEW bits \in {{"read"}, Bits}, GrantMember(h, p, bits) PROVE AccessInv'
  <2>1. AccessTypeOK'
    BY <1>9 DEF Groups, Grants, GrantMember, Put
  <2>2. RevokedStayOut' /\ OutsidersUninvited' /\ InvitedMembersAreKnown'
    BY <1>9 DEF RevokedStayOut, OutsidersUninvited, InvitedMembersAreKnown, GrantMember, Put
  <2>3. PersonalIsUnshared' /\ MigratesUnshared'
    BY <1>9 DEF PersonalIsUnshared, MigratesUnshared, BecomesPersonal, GrantMember, Put
  <2>4. ModeHasKey' /\ ModesSawKey'
    BY <1>9 DEF ModeHasKey, ModesSawKey, GrantMember, Put
  <2>5. VerifiedWasConfirmed'
    BY <1>9 DEF VerifiedWasConfirmed, GrantMember, Put
  <2> QED
    BY <2>1, <2>2, <2>3, <2>4, <2>5
<1>10. ASSUME NEW h \in Handlers, NEW patch \in MigrationPatches, Migrate(h, patch) PROVE AccessInv'
  <2>1. AccessTypeOK'
    <3>1. mailbox' \in [owner : People, type : Types, doomed : BOOLEAN, pgpMode : Modes, pgpKey : BOOLEAN]
      BY <1>10 DEF MigrationPatches, MigrationShapes, Types, Migrate, Sheds
    <3>2. DOMAIN member' \subseteq People
      BY <1>10 DEF MigrationPatches, MigrationShapes, Types, Migrate, Sheds
    <3>3. DOMAIN invited' \subseteq People /\ invited' \in [DOMAIN invited' -> Grants]
      BY <1>10 DEF MigrationPatches, MigrationShapes, Types, Migrate, Sheds
    <3>4. (handlers \in [Handlers -> HandlerSteps])'
      BY <1>10 DEF MigrationPatches, MigrationShapes, Types, Migrate, Sheds
    <3>5. trail' \in [revoked : Groups, overlapped : Groups, doubled : Groups,
                    joined : BOOLEAN, unkeyed : BOOLEAN, confirmed : Prints, swapped : BOOLEAN]
      BY <1>10 DEF MigrationPatches, MigrationShapes, Types, Migrate, Sheds
    <3> QED
      BY <1>10, <3>1, <3>2, <3>3, <3>4, <3>5 DEF Migrate, Sheds
  <2>2. RevokedStayOut' /\ OutsidersUninvited' /\ InvitedMembersAreKnown'
    BY <1>10 DEF RevokedStayOut, OutsidersUninvited, InvitedMembersAreKnown, Migrate, Sheds
  <2>3. PersonalIsUnshared' /\ MigratesUnshared'
    BY <1>10 DEF PersonalIsUnshared, MigratesUnshared, BecomesPersonal, Migrate, Sheds
  <2>4. ModeHasKey' /\ ModesSawKey'
    BY <1>10 DEF ModeHasKey, ModesSawKey, Migrate, Sheds
  <2>5. VerifiedWasConfirmed'
    BY <1>10 DEF VerifiedWasConfirmed, Migrate, Sheds
  <2> QED
    BY <2>1, <2>2, <2>3, <2>4, <2>5
<1>11. ASSUME NEW p \in People, MarkDeleted(p) PROVE AccessInv'
  <2>1. AccessTypeOK'
    BY <1>11 DEF MarkDeleted
  <2>2. RevokedStayOut' /\ OutsidersUninvited' /\ InvitedMembersAreKnown'
    BY <1>11 DEF RevokedStayOut, OutsidersUninvited, InvitedMembersAreKnown, MarkDeleted
  <2>3. PersonalIsUnshared' /\ MigratesUnshared'
    BY <1>11 DEF PersonalIsUnshared, MigratesUnshared, BecomesPersonal, MarkDeleted
  <2>4. ModeHasKey' /\ ModesSawKey'
    BY <1>11 DEF ModeHasKey, ModesSawKey, MarkDeleted
  <2>5. VerifiedWasConfirmed'
    BY <1>11 DEF VerifiedWasConfirmed, MarkDeleted
  <2> QED
    BY <2>1, <2>2, <2>3, <2>4, <2>5
<1>12. ASSUME NEW h \in Handlers, StoreKeypair(h) PROVE AccessInv'
  <2>1. AccessTypeOK'
    BY <1>12 DEF StoreKeypair
  <2>2. RevokedStayOut' /\ OutsidersUninvited' /\ InvitedMembersAreKnown'
    BY <1>12 DEF RevokedStayOut, OutsidersUninvited, InvitedMembersAreKnown, StoreKeypair
  <2>3. PersonalIsUnshared' /\ MigratesUnshared'
    BY <1>12 DEF PersonalIsUnshared, MigratesUnshared, BecomesPersonal, StoreKeypair
  <2>4. ModeHasKey' /\ ModesSawKey'
    BY <1>12 DEF ModeHasKey, ModesSawKey, StoreKeypair
  <2>5. VerifiedWasConfirmed'
    BY <1>12 DEF VerifiedWasConfirmed, StoreKeypair
  <2> QED
    BY <2>1, <2>2, <2>3, <2>4, <2>5
<1>13. ASSUME NEW h \in Handlers, RemoveKeypair(h) PROVE AccessInv'
  <2>1. AccessTypeOK'
    BY <1>13 DEF Modes, RemoveKeypair, Unkeyed
  <2>2. RevokedStayOut' /\ OutsidersUninvited' /\ InvitedMembersAreKnown'
    BY <1>13 DEF RevokedStayOut, OutsidersUninvited, InvitedMembersAreKnown, RemoveKeypair, Unkeyed
  <2>3. PersonalIsUnshared' /\ MigratesUnshared'
    BY <1>13 DEF PersonalIsUnshared, MigratesUnshared, BecomesPersonal, RemoveKeypair, Unkeyed
  <2>4. ModeHasKey' /\ ModesSawKey'
    BY <1>13 DEF ModeHasKey, ModesSawKey, RemoveKeypair, Unkeyed
  <2>5. VerifiedWasConfirmed'
    BY <1>13 DEF VerifiedWasConfirmed, RemoveKeypair, Unkeyed
  <2> QED
    BY <2>1, <2>2, <2>3, <2>4, <2>5
<1>14. ASSUME NEW h \in Handlers, WriteMode(h) PROVE AccessInv'
  <2>1. AccessTypeOK'
    BY <1>14 DEF WriteMode
  <2>2. RevokedStayOut' /\ OutsidersUninvited' /\ InvitedMembersAreKnown'
    BY <1>14 DEF RevokedStayOut, OutsidersUninvited, InvitedMembersAreKnown, WriteMode
  <2>3. PersonalIsUnshared' /\ MigratesUnshared'
    BY <1>14 DEF PersonalIsUnshared, MigratesUnshared, BecomesPersonal, WriteMode
  <2>4. ModeHasKey' /\ ModesSawKey'
    BY <1>14 DEF ModeHasKey, ModesSawKey, WriteMode
  <2>5. VerifiedWasConfirmed'
    BY <1>14 DEF VerifiedWasConfirmed, WriteMode
  <2> QED
    BY <2>1, <2>2, <2>3, <2>4, <2>5
<1>15. ASSUME NEW h \in Handlers, StoreDiscoveredKey(h) PROVE AccessInv'
  <2>1. AccessTypeOK'
    BY <1>15 DEF Prints, StoreDiscoveredKey, Keeps
  <2>2. RevokedStayOut' /\ OutsidersUninvited' /\ InvitedMembersAreKnown'
    BY <1>15 DEF RevokedStayOut, OutsidersUninvited, InvitedMembersAreKnown, StoreDiscoveredKey, Keeps
  <2>3. PersonalIsUnshared' /\ MigratesUnshared'
    BY <1>15 DEF PersonalIsUnshared, MigratesUnshared, BecomesPersonal, StoreDiscoveredKey, Keeps
  <2>4. ModeHasKey' /\ ModesSawKey'
    BY <1>15 DEF ModeHasKey, ModesSawKey, StoreDiscoveredKey, Keeps
  <2>5. VerifiedWasConfirmed'
    BY <1>15 DEF VerifiedWasConfirmed, StoreDiscoveredKey, Keeps
  <2> QED
    BY <2>1, <2>2, <2>3, <2>4, <2>5
<1>16. ASSUME NEW h \in Handlers, DeleteContact(h) PROVE AccessInv'
  <2>1. AccessTypeOK'
    BY <1>16 DEF Prints, DeleteContact, NoKey
  <2>2. RevokedStayOut' /\ OutsidersUninvited' /\ InvitedMembersAreKnown'
    BY <1>16 DEF RevokedStayOut, OutsidersUninvited, InvitedMembersAreKnown, DeleteContact, NoKey
  <2>3. PersonalIsUnshared' /\ MigratesUnshared'
    BY <1>16 DEF PersonalIsUnshared, MigratesUnshared, BecomesPersonal, DeleteContact, NoKey
  <2>4. ModeHasKey' /\ ModesSawKey'
    BY <1>16 DEF ModeHasKey, ModesSawKey, DeleteContact, NoKey
  <2>5. VerifiedWasConfirmed'
    BY <1>16 DEF VerifiedWasConfirmed, DeleteContact, NoKey
  <2> QED
    BY <2>1, <2>2, <2>3, <2>4, <2>5
<1>17. ASSUME NEW h \in Handlers, NEW mode \in Modes, CheckMode(h, mode) PROVE AccessInv'
  <2>1. AccessTypeOK'
    BY <1>17 DEF CheckMode
  <2>2. RevokedStayOut' /\ OutsidersUninvited' /\ InvitedMembersAreKnown'
    BY <1>17 DEF RevokedStayOut, OutsidersUninvited, InvitedMembersAreKnown, CheckMode
  <2>3. PersonalIsUnshared' /\ MigratesUnshared'
    BY <1>17 DEF PersonalIsUnshared, MigratesUnshared, BecomesPersonal, CheckMode
  <2>4. ModeHasKey' /\ ModesSawKey'
    BY <1>17 DEF ModeHasKey, ModesSawKey, CheckMode
  <2>5. VerifiedWasConfirmed'
    BY <1>17 DEF VerifiedWasConfirmed, CheckMode
  <2> QED
    BY <2>1, <2>2, <2>3, <2>4, <2>5
<1>18. ASSUME NEW h \in Handlers, NEW f \in Fingerprints, ImportContact(h, f) PROVE AccessInv'
  <2>1. AccessTypeOK'
    BY <1>18 DEF Prints, ImportContact, Key
  <2>2. RevokedStayOut' /\ OutsidersUninvited' /\ InvitedMembersAreKnown'
    BY <1>18 DEF RevokedStayOut, OutsidersUninvited, InvitedMembersAreKnown, ImportContact, Key
  <2>3. PersonalIsUnshared' /\ MigratesUnshared'
    BY <1>18 DEF PersonalIsUnshared, MigratesUnshared, BecomesPersonal, ImportContact, Key
  <2>4. ModeHasKey' /\ ModesSawKey'
    BY <1>18 DEF ModeHasKey, ModesSawKey, ImportContact, Key
  <2>5. VerifiedWasConfirmed'
    BY <1>18 DEF VerifiedWasConfirmed, ImportContact, Key
  <2> QED
    BY <2>1, <2>2, <2>3, <2>4, <2>5
<1>19. ASSUME NEW h \in Handlers, NEW f \in Fingerprints, NEW s \in {"tofu", "wkd"}, LookupKey(h, f, s) PROVE AccessInv'
  <2>1. AccessTypeOK'
    BY <1>19 DEF LookupKey, Key
  <2>2. RevokedStayOut' /\ OutsidersUninvited' /\ InvitedMembersAreKnown'
    BY <1>19 DEF RevokedStayOut, OutsidersUninvited, InvitedMembersAreKnown, LookupKey, Key
  <2>3. PersonalIsUnshared' /\ MigratesUnshared'
    BY <1>19 DEF PersonalIsUnshared, MigratesUnshared, BecomesPersonal, LookupKey, Key
  <2>4. ModeHasKey' /\ ModesSawKey'
    BY <1>19 DEF ModeHasKey, ModesSawKey, LookupKey, Key
  <2>5. VerifiedWasConfirmed'
    BY <1>19 DEF VerifiedWasConfirmed, LookupKey, Key
  <2> QED
    BY <2>1, <2>2, <2>3, <2>4, <2>5
<1>20. ASSUME NEW h \in Handlers, NEW f \in Fingerprints, NEW s \in {"tofu", "wkd"}, TrustSender(h, f, s) PROVE AccessInv'
  <2>1. AccessTypeOK'
    BY <1>20 DEF Prints, TrustSender, Trusted, Key
  <2>2. RevokedStayOut' /\ OutsidersUninvited' /\ InvitedMembersAreKnown'
    BY <1>20 DEF RevokedStayOut, OutsidersUninvited, InvitedMembersAreKnown, TrustSender, Trusted, Key
  <2>3. PersonalIsUnshared' /\ MigratesUnshared'
    BY <1>20 DEF PersonalIsUnshared, MigratesUnshared, BecomesPersonal, TrustSender, Trusted, Key
  <2>4. ModeHasKey' /\ ModesSawKey'
    BY <1>20 DEF ModeHasKey, ModesSawKey, TrustSender, Trusted, Key
  <2>5. VerifiedWasConfirmed'
    BY <1>20 DEF VerifiedWasConfirmed, TrustSender, Trusted, Key
  <2> QED
    BY <2>1, <2>2, <2>3, <2>4, <2>5
<1>21. ASSUME NEW h \in Handlers, NEW v \in BOOLEAN, VerifyContact(h, v) PROVE AccessInv'
  <2>1. AccessTypeOK'
    BY <1>21 DEF Prints, VerifyContact
  <2>2. RevokedStayOut' /\ OutsidersUninvited' /\ InvitedMembersAreKnown'
    BY <1>21 DEF RevokedStayOut, OutsidersUninvited, InvitedMembersAreKnown, VerifyContact
  <2>3. PersonalIsUnshared' /\ MigratesUnshared'
    BY <1>21 DEF PersonalIsUnshared, MigratesUnshared, BecomesPersonal, VerifyContact
  <2>4. ModeHasKey' /\ ModesSawKey'
    BY <1>21 DEF ModeHasKey, ModesSawKey, VerifyContact
  <2>5. VerifiedWasConfirmed'
    BY <1>21 DEF VerifiedWasConfirmed, VerifyContact
  <2> QED
    BY <2>1, <2>2, <2>3, <2>4, <2>5
<1>22. CASE UNCHANGED accessVars
  <2>1. AccessTypeOK'
    BY <1>22 DEF accessVars
  <2>2. RevokedStayOut' /\ OutsidersUninvited' /\ InvitedMembersAreKnown'
    BY <1>22 DEF accessVars, RevokedStayOut, OutsidersUninvited, InvitedMembersAreKnown
  <2>3. PersonalIsUnshared' /\ MigratesUnshared'
    BY <1>22 DEF accessVars, PersonalIsUnshared, MigratesUnshared, BecomesPersonal
  <2>4. ModeHasKey' /\ ModesSawKey' /\ VerifiedWasConfirmed'
    BY <1>22 DEF accessVars, ModeHasKey, ModesSawKey, VerifiedWasConfirmed
  <2> QED
    BY <2>1, <2>2, <2>3, <2>4
<1> HIDE DEF AccessInv, AccessTypeOK, HandlerSteps, Turn, Done, Waiting
<1>23. CASE SharingNext
  BY <1>23, <1>1, <1>2, <1>3, <1>4, <1>5, <1>6, <1>7, <1>8, <1>9, <1>10, <1>11 DEF SharingNext, Enter
<1>24. CASE KeysNext
  BY <1>24, <1>1, <1>2, <1>12, <1>13, <1>14, <1>15, <1>16, <1>17, <1>18, <1>19, <1>20, <1>21 DEF KeysNext, Enter
<1> QED
  BY <1>22, <1>23, <1>24 DEF AccessNext

\* The state of a mailbox is what its handlers' statements expect of it.
THEOREM AccessInvariant == AccessSpec => []AccessInv
  BY AccessInitInv, AccessStepInv, PTL DEF AccessSpec

\* Whoever was put out, one by one or with a migration, stays out until let in again, however
\* many managers and materializations overlap or die, with the exceptions RevokedStayOut names
\* (invites.ts:20-39, mailboxes.ts:591-660, admin.ts:152-156).
THEOREM OutsidersAreKeptOut == AccessSpec => []OutsidersStayOut
<1>1. AccessInv => OutsidersStayOut
  BY DEF AccessInv, OutsidersStayOut
<1> QED
  BY <1>1, AccessInvariant, PTL

\* A verified key is the one an owner confirmed and a mode that signs has a key, whatever order
\* lookups, rotations, confirmations and removals run in (receive.ts:473-543, messages.ts:358-382,
\* mailboxes.ts:257-300, 347-363, 440-454).
THEOREM KeysStayTrusted == AccessSpec => []KeysAreTrusted
<1>1. AccessInv => KeysAreTrusted
  BY DEF AccessInv, KeysAreTrusted
<1> QED
  BY <1>1, AccessInvariant, PTL

-----------------------------------------------------------------------------
(***************************************************************************)
(* Blocking: every set of senders, readers and clerks, every bound.        *)
(***************************************************************************)
Listed == Senders \cup Domains
Statuses == {"pending", "approved", "denied"}

ClerkSteps ==
    [pc : {"off"}]
    \cup [pc : {"submit"}, reader : Readers, value : Senders]
    \cup [pc : {"promote", "close"}, request : Nat, value : Senders]
    \cup [pc : {"entry"}, value : Listed]

BlockingTypeOK ==
    /\ entries \subseteq Listed
    /\ asked \in Nat
    /\ DOMAIN blockRequests \subseteq 1..asked
    /\ blockRequests \in [DOMAIN blockRequests -> [reader : Readers, value : Senders, status : Statuses]]
    /\ protected \subseteq Domains
    /\ clerks \in [Clerks -> ClerkSteps]
    /\ ledger \in [removed : SUBSET Listed, straddled : SUBSET Domains, doubled : SUBSET Readers]

\* A sender that was promoted is on the list, or was taken off it since: SenderBlocked by
\* way of the domain would not last.
Taken(v) == v \in entries \cup ledger.removed
PromotedIsTaken ==
    /\ \A r \in DOMAIN blockRequests :
          blockRequests[r].status = "approved" => Taken(blockRequests[r].value)
    /\ \A c \in Clerks : clerks[c].pc = "close" => Taken(clerks[c].value)

\* A review holds the sender of the request it was begun for: no id is drawn twice.
ReviewsKnowTheirs ==
    \A c \in Clerks : clerks[c].pc \in {"promote", "close"} =>
        /\ clerks[c].request <= asked
        /\ clerks[c].request \in DOMAIN blockRequests =>
              blockRequests[clerks[c].request].value = clerks[c].value

EntriesPassed ==
    \A c \in Clerks : clerks[c].pc = "entry" => clerks[c].value \notin protected \ ledger.straddled

SubmitsPassed ==
    \A c \in Clerks : clerks[c].pc = "submit" =>
        /\ NonePending(clerks[c].reader, clerks[c].value) \/ clerks[c].reader \in ledger.doubled
        /\ \A d \in Clerks \ {c} :
              clerks[d].pc = "submit" /\ clerks[d].reader = clerks[c].reader
                => clerks[c].reader \in ledger.doubled

BlockingInv ==
    /\ BlockingTypeOK /\ PromotedIsTaken /\ ReviewsKnowTheirs
    /\ ProtectedStayOpen /\ EntriesPassed
    /\ QueueHasNoDuplicates /\ SubmitsPassed

LEMMA BlockingInitInv == BlockingInit => BlockingInv
  BY DEF BlockingInit, BlockingInv, BlockingTypeOK, PromotedIsTaken, ReviewsKnowTheirs, ProtectedStayOpen,
         EntriesPassed, QueueHasNoDuplicates, SubmitsPassed, ClerkSteps, Off, Listed

LEMMA BlockingStepInv == BlockingInv /\ [BlockingNext]_blockVars => BlockingInv'
<1> SUFFICES ASSUME BlockingInv, [BlockingNext]_blockVars PROVE BlockingInv'
  OBVIOUS
<1> USE BlockingAssumption DEF BlockingInv, BlockingTypeOK, ClerkSteps, Listed, Statuses, Off
<1>1. ASSUME NEW c \in Clerks, NEW u \in Readers, NEW v \in Senders, CheckRequest(c, u, v) PROVE BlockingInv'
  <2>1. BlockingTypeOK'
    BY <1>1 DEF CheckRequest, Busy
  <2>2. PromotedIsTaken'
    BY <1>1 DEF PromotedIsTaken, Taken, ReviewsKnowTheirs, CheckRequest, Busy
  <2>3. ReviewsKnowTheirs'
    BY <1>1 DEF ReviewsKnowTheirs, CheckRequest, Busy
  <2>4. ProtectedStayOpen' /\ EntriesPassed'
    BY <1>1 DEF ProtectedStayOpen, EntriesPassed, Domains, CheckRequest, Busy
  <2>5. QueueHasNoDuplicates'
    BY <1>1 DEF QueueHasNoDuplicates, SubmitsPassed, NonePending, CheckRequest, Busy
  <2>6. SubmitsPassed'
    BY <1>1 DEF SubmitsPassed, NonePending, CheckRequest, Busy
  <2> QED
    BY <2>1, <2>2, <2>3, <2>4, <2>5, <2>6
<1>2. ASSUME NEW c \in Clerks, SubmitRequest(c) PROVE BlockingInv'
  <2>1. BlockingTypeOK'
    BY <1>2 DEF SubmitRequest, Free, Busy
  <2>2. PromotedIsTaken'
    BY <1>2 DEF PromotedIsTaken, Taken, ReviewsKnowTheirs, SubmitRequest, Free, Busy
  <2>3. ReviewsKnowTheirs'
    BY <1>2 DEF ReviewsKnowTheirs, SubmitRequest, Free, Busy
  <2>4. ProtectedStayOpen' /\ EntriesPassed'
    BY <1>2 DEF ProtectedStayOpen, EntriesPassed, Domains, SubmitRequest, Free, Busy
  <2>5. QueueHasNoDuplicates'
    BY <1>2 DEF QueueHasNoDuplicates, SubmitsPassed, NonePending, SubmitRequest, Free, Busy
  <2>6. SubmitsPassed'
    BY <1>2 DEF SubmitsPassed, NonePending, SubmitRequest, Free, Busy
  <2> QED
    BY <2>1, <2>2, <2>3, <2>4, <2>5, <2>6
<1>3. ASSUME NEW c \in Clerks, NEW r \in 1..MaxRequests, BeginApprove(c, r) PROVE BlockingInv'
  <2>1. BlockingTypeOK'
    BY <1>3 DEF BeginApprove, Busy, Approval
  <2>2. PromotedIsTaken'
    BY <1>3 DEF PromotedIsTaken, Taken, ReviewsKnowTheirs, BeginApprove, Busy, Approval
  <2>3. ReviewsKnowTheirs'
    BY <1>3 DEF ReviewsKnowTheirs, BeginApprove, Busy, Approval
  <2>4. ProtectedStayOpen' /\ EntriesPassed'
    BY <1>3 DEF ProtectedStayOpen, EntriesPassed, Domains, BeginApprove, Busy, Approval
  <2>5. QueueHasNoDuplicates'
    BY <1>3 DEF QueueHasNoDuplicates, SubmitsPassed, NonePending, BeginApprove, Busy, Approval
  <2>6. SubmitsPassed'
    BY <1>3 DEF SubmitsPassed, NonePending, BeginApprove, Busy, Approval
  <2> QED
    BY <2>1, <2>2, <2>3, <2>4, <2>5, <2>6
<1>4. ASSUME NEW c \in Clerks, Promote(c) PROVE BlockingInv'
  <2>1. BlockingTypeOK'
    BY <1>4 DEF Promote, Onward, Free, Busy, Approval
  <2>2. PromotedIsTaken'
    BY <1>4 DEF PromotedIsTaken, Taken, ReviewsKnowTheirs, Promote, Onward, Free, Busy, Approval
  <2>3. ReviewsKnowTheirs'
    BY <1>4 DEF ReviewsKnowTheirs, Promote, Onward, Free, Busy, Approval
  <2>4. ProtectedStayOpen' /\ EntriesPassed'
    BY <1>4 DEF ProtectedStayOpen, EntriesPassed, Domains, Promote, Onward, Free, Busy, Approval
  <2>5. QueueHasNoDuplicates'
    BY <1>4 DEF QueueHasNoDuplicates, SubmitsPassed, NonePending, Promote, Onward, Free, Busy, Approval
  <2>6. SubmitsPassed'
    BY <1>4 DEF SubmitsPassed, NonePending, Promote, Onward, Free, Busy, Approval
  <2> QED
    BY <2>1, <2>2, <2>3, <2>4, <2>5, <2>6
<1>5. ASSUME NEW c \in Clerks, Close(c) PROVE BlockingInv'
  <2>1. BlockingTypeOK'
    BY <1>5 DEF Close, SetStatus, Onward, Free, Busy, Approval
  <2>2. PromotedIsTaken'
    BY <1>5 DEF PromotedIsTaken, Taken, ReviewsKnowTheirs, Close, SetStatus, Onward, Free, Busy, Approval
  <2>3. ReviewsKnowTheirs'
    BY <1>5 DEF ReviewsKnowTheirs, Close, SetStatus, Onward, Free, Busy, Approval
  <2>4. ProtectedStayOpen' /\ EntriesPassed'
    BY <1>5 DEF ProtectedStayOpen, EntriesPassed, Domains, Close, SetStatus, Onward, Free, Busy, Approval
  <2>5. QueueHasNoDuplicates'
    BY <1>5 DEF QueueHasNoDuplicates, SubmitsPassed, NonePending, Close, SetStatus, Onward, Free, Busy, Approval
  <2>6. SubmitsPassed'
    BY <1>5, SMTT(30) DEF SubmitsPassed, NonePending, Close, SetStatus, Onward, Free, Busy, Approval
  <2> QED
    BY <2>1, <2>2, <2>3, <2>4, <2>5, <2>6
<1>6. ASSUME NEW r \in 1..MaxRequests, Deny(r) PROVE BlockingInv'
  <2>1. BlockingTypeOK'
    BY <1>6 DEF Deny, SetStatus
  <2>2. PromotedIsTaken'
    BY <1>6 DEF PromotedIsTaken, Taken, ReviewsKnowTheirs, Deny, SetStatus
  <2>3. ReviewsKnowTheirs'
    BY <1>6 DEF ReviewsKnowTheirs, Deny, SetStatus
  <2>4. ProtectedStayOpen' /\ EntriesPassed'
    BY <1>6 DEF ProtectedStayOpen, EntriesPassed, Domains, Deny, SetStatus
  <2>5. QueueHasNoDuplicates'
    BY <1>6 DEF QueueHasNoDuplicates, SubmitsPassed, NonePending, Deny, SetStatus
  <2>6. SubmitsPassed'
    BY <1>6 DEF SubmitsPassed, NonePending, Deny, SetStatus
  <2> QED
    BY <2>1, <2>2, <2>3, <2>4, <2>5, <2>6
<1>7. ASSUME NEW r \in 1..MaxRequests, DeleteRequest(r) PROVE BlockingInv'
  <2>1. BlockingTypeOK'
    BY <1>7 DEF DeleteRequest
  <2>2. PromotedIsTaken'
    BY <1>7 DEF PromotedIsTaken, Taken, ReviewsKnowTheirs, DeleteRequest
  <2>3. ReviewsKnowTheirs'
    BY <1>7 DEF ReviewsKnowTheirs, DeleteRequest
  <2>4. ProtectedStayOpen' /\ EntriesPassed'
    BY <1>7 DEF ProtectedStayOpen, EntriesPassed, Domains, DeleteRequest
  <2>5. QueueHasNoDuplicates'
    BY <1>7 DEF QueueHasNoDuplicates, SubmitsPassed, NonePending, DeleteRequest
  <2>6. SubmitsPassed'
    BY <1>7 DEF SubmitsPassed, NonePending, DeleteRequest
  <2> QED
    BY <2>1, <2>2, <2>3, <2>4, <2>5, <2>6
<1>8. ASSUME NEW c \in Clerks, NEW v \in Senders \cup Domains, CheckEntry(c, v) PROVE BlockingInv'
  <2>1. BlockingTypeOK'
    BY <1>8 DEF CheckEntry, Busy, MayBlock
  <2>2. PromotedIsTaken'
    BY <1>8 DEF PromotedIsTaken, Taken, ReviewsKnowTheirs, CheckEntry, Busy, MayBlock
  <2>3. ReviewsKnowTheirs'
    BY <1>8 DEF ReviewsKnowTheirs, CheckEntry, Busy, MayBlock
  <2>4. ProtectedStayOpen' /\ EntriesPassed'
    BY <1>8 DEF ProtectedStayOpen, EntriesPassed, Domains, CheckEntry, Busy, MayBlock
  <2>5. QueueHasNoDuplicates'
    BY <1>8 DEF QueueHasNoDuplicates, SubmitsPassed, NonePending, CheckEntry, Busy, MayBlock
  <2>6. SubmitsPassed'
    BY <1>8 DEF SubmitsPassed, NonePending, CheckEntry, Busy, MayBlock
  <2> QED
    BY <2>1, <2>2, <2>3, <2>4, <2>5, <2>6
<1>9. ASSUME NEW c \in Clerks, InsertEntry(c) PROVE BlockingInv'
  <2>1. BlockingTypeOK'
    BY <1>9 DEF InsertEntry, Free, Busy
  <2>2. PromotedIsTaken'
    BY <1>9 DEF PromotedIsTaken, Taken, ReviewsKnowTheirs, InsertEntry, Free, Busy
  <2>3. ReviewsKnowTheirs'
    BY <1>9 DEF ReviewsKnowTheirs, InsertEntry, Free, Busy
  <2>4. ProtectedStayOpen' /\ EntriesPassed'
    BY <1>9 DEF ProtectedStayOpen, EntriesPassed, Domains, InsertEntry, Free, Busy
  <2>5. QueueHasNoDuplicates'
    BY <1>9 DEF QueueHasNoDuplicates, SubmitsPassed, NonePending, InsertEntry, Free, Busy
  <2>6. SubmitsPassed'
    BY <1>9 DEF SubmitsPassed, NonePending, InsertEntry, Free, Busy
  <2> QED
    BY <2>1, <2>2, <2>3, <2>4, <2>5, <2>6
<1>10. ASSUME NEW v \in Senders \cup Domains, DeleteEntry(v) PROVE BlockingInv'
  <2>1. BlockingTypeOK'
    BY <1>10 DEF DeleteEntry
  <2>2. PromotedIsTaken'
    BY <1>10 DEF PromotedIsTaken, Taken, ReviewsKnowTheirs, DeleteEntry
  <2>3. ReviewsKnowTheirs'
    BY <1>10 DEF ReviewsKnowTheirs, DeleteEntry
  <2>4. ProtectedStayOpen' /\ EntriesPassed'
    BY <1>10 DEF ProtectedStayOpen, EntriesPassed, Domains, DeleteEntry
  <2>5. QueueHasNoDuplicates'
    BY <1>10 DEF QueueHasNoDuplicates, SubmitsPassed, NonePending, DeleteEntry
  <2>6. SubmitsPassed'
    BY <1>10 DEF SubmitsPassed, NonePending, DeleteEntry
  <2> QED
    BY <2>1, <2>2, <2>3, <2>4, <2>5, <2>6
<1>11. ASSUME NEW domains \in SUBSET Domains, SetProtected(domains) PROVE BlockingInv'
  <2>1. BlockingTypeOK'
    BY <1>11 DEF SetProtected
  <2>2. PromotedIsTaken'
    BY <1>11 DEF PromotedIsTaken, Taken, ReviewsKnowTheirs, SetProtected
  <2>3. ReviewsKnowTheirs'
    BY <1>11 DEF ReviewsKnowTheirs, SetProtected
  <2>4. ProtectedStayOpen' /\ EntriesPassed'
    BY <1>11 DEF ProtectedStayOpen, EntriesPassed, Domains, SetProtected
  <2>5. QueueHasNoDuplicates'
    BY <1>11 DEF QueueHasNoDuplicates, SubmitsPassed, NonePending, SetProtected
  <2>6. SubmitsPassed'
    BY <1>11 DEF SubmitsPassed, NonePending, SetProtected
  <2> QED
    BY <2>1, <2>2, <2>3, <2>4, <2>5, <2>6
<1>12. ASSUME NEW c \in Clerks, Vanish(c) PROVE BlockingInv'
  <2>1. BlockingTypeOK'
    BY <1>12 DEF Vanish, Free, Busy
  <2>2. PromotedIsTaken'
    BY <1>12 DEF PromotedIsTaken, Taken, ReviewsKnowTheirs, Vanish, Free, Busy
  <2>3. ReviewsKnowTheirs'
    BY <1>12 DEF ReviewsKnowTheirs, Vanish, Free, Busy
  <2>4. ProtectedStayOpen' /\ EntriesPassed'
    BY <1>12 DEF ProtectedStayOpen, EntriesPassed, Domains, Vanish, Free, Busy
  <2>5. QueueHasNoDuplicates'
    BY <1>12 DEF QueueHasNoDuplicates, SubmitsPassed, NonePending, Vanish, Free, Busy
  <2>6. SubmitsPassed'
    BY <1>12 DEF SubmitsPassed, NonePending, Vanish, Free, Busy
  <2> QED
    BY <2>1, <2>2, <2>3, <2>4, <2>5, <2>6
<1>13. CASE UNCHANGED blockVars
  BY <1>13 DEF blockVars, BlockingTypeOK, PromotedIsTaken, Taken, ReviewsKnowTheirs, ProtectedStayOpen, EntriesPassed,
     QueueHasNoDuplicates, SubmitsPassed, NonePending
<1> QED
  BY <1>1, <1>2, <1>3, <1>4, <1>5, <1>6, <1>7, <1>8, <1>9, <1>10, <1>11, <1>12, <1>13 DEF BlockingNext

\* The state of the blocklist is what its statements expect of it.
THEOREM BlockingInvariant == BlockingSpec => []BlockingInv
  BY BlockingInitInv, BlockingStepInv, PTL DEF BlockingSpec

\* An approved request stays in effect until an administrator takes the sender off the list,
\* a protected domain stays open and the queue holds nothing twice, for any number of
\* overlapping and dying handlers, with the exceptions ReviewsTakeEffect names
\* (admin-block.ts:48-66, 116-163, messages.ts:195-222).
THEOREM ReviewsTakeTheirEffect == BlockingSpec => []ReviewsTakeEffect
<1>1. BlockingInv => ReviewsTakeEffect
  BY DEF BlockingInv, PromotedIsTaken, Taken, ReviewsTakeEffect, ApprovedIsBlocked, SenderBlocked
<1> QED
  BY <1>1, BlockingInvariant, PTL

-----------------------------------------------------------------------------
(***************************************************************************)
(* What a message is taken for: SpamFilter and Otp, for every message,     *)
(* text and answer.  What is summed up or selected piece by piece is out   *)
(* of reach; what is decided from it is not.                               *)
(***************************************************************************)
\* spam.ts: no listing of a name refuses a message that passed DMARC.
LEMMA NamesSpare ==
  ASSUME NEW m, NEW dns
  PROVE  ScoreDomains(m, dns, TRUE).reject = FALSE
  BY DEF ScoreDomains, RefusesListed

\* What was asked for is among the outcomes.
LEMMA Knows ==
  ASSUME NEW m, NEW level, NEW dqs, NEW dns, NEW ai, NEW opinion \in {ai, "none"}
  PROVE  Outcomes(m, level, dqs, dns, ai)[<<dns, opinion>>] = EvaluateSpam(m, level, dqs, dns, opinion)
  BY DEF Outcomes

\* spam.ts, what to refuse: whatever is listed, whatever the level, the key and the
\* classifier say, a message that passed DMARC is scored and filed and never refused.
THEOREM AuthenticatedIsFiled ==
  ASSUME NEW m, NEW level, NEW dqs, NEW dns, NEW ai
  PROVE  RefusesOnlyForged(m, Outcomes(m, level, dqs, dns, ai), dns, ai)
<1> SUFFICES ASSUME Authenticated(ParseAuthResults(m)) PROVE EvaluateSpam(m, level, dqs, dns, ai).reject = FALSE
  BY Knows DEF RefusesOnlyForged
<1>0. Authenticated(ParseAuthResults(m)) = TRUE
  BY DEF Authenticated
<1>1. QED
  BY <1>0, NamesSpare DEF EvaluateSpam, Blocked

\* spam.ts: the classifier escalates, and without an answer the verdict stays.
LEMMA RefineRank ==
  ASSUME NEW verdict, NEW ai
  PROVE  VerdictRank(Refine(verdict, ai)) >= VerdictRank(verdict) /\ Refine(verdict, "none") = verdict
  BY DEF Refine, VerdictRank

\* spam.ts: whatever the classifier answers, the verdict is no better than without it and
\* the same messages are refused.
THEOREM ClassifierOnlyEscalates ==
  ASSUME NEW m, NEW level, NEW dqs, NEW dns, NEW ai
  PROVE  ClassifierNeverAcquits(m, Outcomes(m, level, dqs, dns, ai), dns, ai)
<1> DEFINE told == EvaluateSpam(m, level, dqs, dns, ai)
           plain == EvaluateSpam(m, level, dqs, dns, "none")
<1>1. \E verdict : told.verdict \in {verdict, Refine(verdict, ai)} /\ plain.verdict = verdict
  BY RefineRank DEF EvaluateSpam, Blocked
<1>2. told.reject = plain.reject
  BY DEF EvaluateSpam, Blocked
<1>3. QED
  BY <1>1, <1>2, Knows, RefineRank DEF ClassifierNeverAcquits, VerdictRank

\* otp.ts: whatever the headers, the text and the sender are, a code is offered on the site
\* of the From address alone, and one that is bound to a domain is that of the only header,
\* whose origin is that very host over https, in a message that passed DMARC.
THEOREM CodesAreBound ==
  ASSUME NEW from, NEW fields, NEW dmarc, NEW subject, NEW body
  PROVE  BoundToSender(from, fields, dmarc, ExtractOtp(from, fields, dmarc, subject, body))
<1> DEFINE token == OtpTokenHeader(fields)
           otp == ExtractOtp(from, fields, dmarc, subject, body)
<1>1. CASE dmarc = "pass" /\ token.host.site # None /\ token.host.site = from.site
  <2>1. otp = [code |-> token.code, domain |-> token.host, bound |-> TRUE]
    BY <1>1 DEF ExtractOtp
  <2>2. /\ Len(fields) = 1
        /\ token = [code |-> fields[1].code.name, origin |-> fields[1].origin, host |-> OriginHost(fields[1].origin)]
    BY <1>1 DEF OtpTokenHeader
  <2>3. fields[1].origin.scheme = "https" /\ fields[1].origin.host = token.host
    BY <1>1, <2>2 DEF OriginHost
  <2>4. QED
    BY <1>1, <2>1, <2>2, <2>3 DEF BoundToSender
<1>2. CASE ~(dmarc = "pass" /\ token.host.site # None /\ token.host.site = from.site)
  <2>1. \/ otp = [code |-> None]
        \/ otp = [code |-> DetectCode(subject, body)[1],
                  domain |-> [site |-> from.site, sub |-> ""], bound |-> FALSE]
    BY <1>2 DEF ExtractOtp
  <2>2. CASE otp = [code |-> None]
    BY <2>2 DEF BoundToSender
  <2>3. CASE otp = [code |-> DetectCode(subject, body)[1],
                   domain |-> [site |-> from.site, sub |-> ""], bound |-> FALSE]
    <3> HIDE DEF otp
    <3> DEFINE home == [site |-> from.site, sub |-> ""]
    <3>0. home.site = from.site
      OBVIOUS
    <3>1. otp.domain = home
      BY <2>3
    <3> HIDE DEF home
    <3>2. otp.domain.site = from.site
      BY <3>0, <3>1
    <3>3. ~otp.bound
      BY <2>3
    <3>4. QED
      BY <3>2, <3>3 DEF BoundToSender, otp
  <2>4. QED
    BY <2>1, <2>2, <2>3
<1>3. QED
  BY <1>1, <1>2

\* A set of natural numbers has a least one.
LEMMA MinIs ==
  ASSUME NEW S, S \subseteq Nat, S # {}
  PROVE  Min(S) \in S /\ \A y \in S : Min(S) <= y
<1> DEFINE R == {p \in Nat \X Nat : p[1] < p[2]}
<1>1. IsWellFoundedOn(R, Nat)
  <2>1. R = OpToRel(<, Nat)
    BY DEF OpToRel
  <2>2. QED
    BY <2>1, NatLessThanWellFounded
<1>2. PICK x \in S : \A y \in S : ~(<<y, x>> \in R)
  BY <1>1, WFMin
<1>3. \A y \in S : x <= y
  <2> SUFFICES ASSUME NEW y \in S PROVE ~(y < x)
    OBVIOUS
  <2>1. y \in Nat /\ x \in Nat
    OBVIOUS
  <2>2. y < x => <<y, x>> \in R
    BY <2>1
  <2>3. QED
    BY <1>2, <2>2
<1>4. QED
  BY <1>3 DEF Min

\* The greatest of zero and two numbers.
LEMMA MaxIs ==
  ASSUME NEW a \in Int, NEW b \in Int
  PROVE  /\ Max({0, a, b}) \in Nat /\ Max({0, a, b}) >= a /\ Max({0, a, b}) >= b
         /\ Max({0, a}) = IF a > 0 THEN a ELSE 0
<1>1. \E x \in {0, a, b} : \A y \in {0, a, b} : x >= y
  <2>1. CASE a >= b /\ a >= 0
    BY <2>1
  <2>2. CASE b >= a /\ b >= 0
    BY <2>2
  <2>3. CASE a <= 0 /\ b <= 0
    BY <2>3
  <2>4. QED
    BY <2>1, <2>2, <2>3
<1>2. Max({0, a, b}) \in {0, a, b} /\ \A y \in {0, a, b} : y <= Max({0, a, b})
  BY <1>1 DEF Max
<1>3. \E x \in {0, a} : \A y \in {0, a} : x >= y
  <2>1. CASE a >= 0
    BY <2>1
  <2>2. CASE a <= 0
    BY <2>2
  <2>3. QED
    BY <2>1, <2>2
<1>4. Max({0, a}) \in {0, a} /\ \A y \in {0, a} : y <= Max({0, a})
  BY <1>3 DEF Max
<1>5. Max({0, a, b}) \in Nat /\ Max({0, a, b}) >= a /\ Max({0, a, b}) >= b
  BY <1>2
<1>6. Max({0, a}) = IF a > 0 THEN a ELSE 0
  BY <1>4
<1>7. QED
  BY <1>5, <1>6

\* How near something at a distance is.
LEMMA NearIs ==
  ASSUME NEW n \in Nat
  PROVE  /\ Max({0, 2 * Reach - n}) \in 0..(2 * Reach)
         /\ Max({0, 2 * Reach - n}) \in Nat
         /\ Max({0, 2 * Reach - n}) = IF 2 * Reach - n > 0 THEN 2 * Reach - n ELSE 0
<1>1. Reach \in Nat /\ 2 * Reach - n \in Int
  BY OtpAssumption DEF Far
<1>2. Max({0, 2 * Reach - n}) = IF 2 * Reach - n > 0 THEN 2 * Reach - n ELSE 0
  BY <1>1, MaxIs
<1>3. QED
  BY <1>1, <1>2

\* A distance is a number, and what is within reach of a code word has one there.
LEMMA DistanceIs ==
  ASSUME NEW text, Measured(text), NEW i \in DOMAIN text
  PROVE  /\ Distance(text, i) \in Nat
         /\ Distance(text, i) <= Reach => \E j \in DOMAIN text : text[j].kind = "codeWord" /\ Within(text, i, j)
<1> DEFINE gap(j) == Max({0, Start(text, j) - End(text, i), Start(text, i) - End(text, j)})
           words == {k \in DOMAIN text : text[k].kind = "codeWord"}
           D == {Far} \cup {gap(j) : j \in words}
<1>1. \A j \in words : /\ gap(j) \in Nat
                       /\ gap(j) >= Start(text, j) - End(text, i)
                       /\ gap(j) >= Start(text, i) - End(text, j)
  <2> SUFFICES ASSUME NEW j \in words
               PROVE  /\ gap(j) \in Nat
                      /\ gap(j) >= Start(text, j) - End(text, i)
                      /\ gap(j) >= Start(text, i) - End(text, j)
    OBVIOUS
  <2> DEFINE a == Start(text, j) - End(text, i)
             b == Start(text, i) - End(text, j)
  <2>1. a \in Int /\ b \in Int
    BY DEF Measured
  <2> HIDE DEF a, b
  <2>2. Max({0, a, b}) \in Nat /\ Max({0, a, b}) >= a /\ Max({0, a, b}) >= b
    BY <2>1, MaxIs
  <2>3. QED
    BY <2>2 DEF a, b
<1>2. Distance(text, i) = Min(D)
  BY DEF Distance
<1> HIDE DEF gap
<1>3. D \subseteq Nat /\ D # {}
  BY <1>1 DEF Far
<1>4. Min(D) \in D
  BY <1>3, MinIs
<1>5. Distance(text, i) \in D /\ Distance(text, i) \in Nat
  BY <1>2, <1>3, <1>4
<1>6. ASSUME Distance(text, i) <= Reach
      PROVE  \E j \in DOMAIN text : text[j].kind = "codeWord" /\ Within(text, i, j)
  <2>1. Distance(text, i) # Far
    BY <1>6, OtpAssumption DEF Far
  <2>2. PICK j \in words : Distance(text, i) = gap(j)
    BY <1>5, <2>1
  <2>3. gap(j) <= Reach
    BY <1>6, <2>2
  <2>4. /\ Start(text, j) \in Int /\ End(text, i) \in Int
        /\ Start(text, i) \in Int /\ End(text, j) \in Int
    BY DEF Measured
  <2>5. Within(text, i, j)
    BY <1>1, <2>3, <2>4, OtpAssumption DEF Within, Far
  <2>6. QED
    BY <2>5
<1>7. QED
  BY <1>5, <1>6

\* What is found in a text.
LEMMA CodesAre ==
  ASSUME NEW text, NEW before, NEW bonus, NEW x
  PROVE  x \in CodesIn(text, before, bonus) <=>
           \E i \in Tokens(text) : LET c == Candidate(text, i)
                                   IN  Plausible(c) /\ Near(c) /\ x = <<Score(c, bonus), -(before + i), c.code.name>>
  BY DEF CodesIn

\* Scores are bounded.
LEMMA ScoreIs ==
  ASSUME NEW text, Measured(text), NEW i \in DOMAIN text, NEW bonus \in {0, 40}
  PROVE  Score(Candidate(text, i), bonus) \in 0..(2 * Reach + 200)
<1> DEFINE c == Candidate(text, i)
<1>1. c.distance \in Nat
  BY DistanceIs DEF Candidate
<1>2. Max({0, 2 * Reach - c.distance}) \in 0..(2 * Reach)
  BY <1>1, NearIs
<1> HIDE DEF c
<1>3. Score(c, bonus) \in 0..(2 * Reach + 200)
  BY <1>2, OtpAssumption DEF Score, Far
<1>4. QED
  BY <1>3 DEF c

\* Of what is found one is the best.
LEMMA BestIs ==
  ASSUME NEW all, all # {}, NEW B \in Nat,
         \A x \in all : x[1] \in 0..B /\ -x[2] \in Nat /\ x[2] \in Int
  PROVE  Best(all) \in all /\ \A d \in all : d[1] <= Best(all)[1]
<1> DEFINE S == {B - x[1] : x \in all}
           T == {-x[2] : x \in {y \in all : y[1] = B - Min(S)}}
<1>1. S \subseteq Nat /\ S # {}
  OBVIOUS
<1>2. Min(S) \in S /\ \A s \in S : Min(S) <= s
  BY <1>1, MinIs
<1>3. T \subseteq Nat /\ T # {}
  <2>1. PICK x \in all : Min(S) = B - x[1]
    BY <1>2
  <2>2. x[1] = B - Min(S)
    BY <2>1
  <2>3. -x[2] \in T
    BY <2>2
  <2>4. QED
    BY <2>3
<1>4. Min(T) \in T /\ \A t \in T : Min(T) <= t
  BY <1>3, MinIs
<1>5. PICK c \in all : c[1] = B - Min(S) /\ Min(T) = -c[2]
  BY <1>4
<1>6. \A d \in all : c[1] > d[1] \/ (c[1] = d[1] /\ c[2] >= d[2])
  <2> SUFFICES ASSUME NEW d \in all, ~(c[1] > d[1]) PROVE c[1] = d[1] /\ c[2] >= d[2]
    OBVIOUS
  <2>1. B - d[1] \in S
    OBVIOUS
  <2>2. c[1] = d[1]
    <3> HIDE DEF S
    <3>1. Min(S) <= B - d[1] /\ Min(S) \in Nat
      BY <1>1, <1>2, <2>1
    <3>2. d[1] \in Int /\ c[1] \in Int /\ c[1] = B - Min(S)
      BY <1>5
    <3>3. QED
      BY <3>1, <3>2
  <2>3. -d[2] \in T
    BY <1>5, <2>2
  <2>4. -c[2] <= -d[2] /\ c[2] \in Int /\ d[2] \in Int
    BY <1>4, <1>5, <2>3
  <2>5. QED
    BY <2>2, <2>4
<1>7. Best(all) \in all /\ \A d \in all : Best(all)[1] > d[1] \/ (Best(all)[1] = d[1] /\ Best(all)[2] >= d[2])
  BY <1>6 DEF Best
<1>8. QED
  BY <1>7

\* What is better at something and worse at nothing scores higher, and is found as well.
LEMMA BetterScores ==
  ASSUME NEW text, Measured(text), NEW i \in DOMAIN text, NEW j \in DOMAIN text, NEW bonus \in {0, 40},
         LET c == Candidate(text, i)
             d == Candidate(text, j)
         IN  Near(c) /\ d.code.class = "plain" /\ Betters(d, c)
  PROVE  LET c == Candidate(text, i)
             d == Candidate(text, j)
         IN  Plausible(d) /\ Near(d) /\ Score(d, bonus) > Score(c, bonus)
<1> DEFINE c == Candidate(text, i)
           d == Candidate(text, j)
           near(x) == Max({0, 2 * Reach - x.distance})
           good(x) == <<IF x.isolated THEN 1 ELSE 0, near(x),
                        IF x.code.len = 6 THEN 1 ELSE 0, IF x.code.digits THEN 1 ELSE 0>>
<1>1. c.distance \in Nat /\ d.distance \in Nat
  BY DistanceIs DEF Candidate
<1>2. /\ near(c) = IF 2 * Reach - c.distance > 0 THEN 2 * Reach - c.distance ELSE 0
      /\ near(d) = IF 2 * Reach - d.distance > 0 THEN 2 * Reach - d.distance ELSE 0
  <2> HIDE DEF c, d
  <2>1. QED
    BY <1>1, NearIs
<1>3. Near(c) /\ d.code.class = "plain"
  OBVIOUS
<1>4. good(d) # good(c) /\ \A n \in 1..4 : good(d)[n] >= good(c)[n]
  BY DEF Betters
<1> HIDE DEF c, d
<1>5. near(c) \in Nat /\ near(d) \in Nat
  BY <1>1, NearIs
<1>6. /\ good(d)[1] >= good(c)[1] /\ good(d)[2] >= good(c)[2]
      /\ good(d)[3] >= good(c)[3] /\ good(d)[4] >= good(c)[4]
  BY <1>4
<1>7. /\ c.isolated => d.isolated
      /\ near(d) >= near(c)
      /\ c.code.len = 6 => d.code.len = 6
      /\ c.code.digits => d.code.digits
  BY <1>6
<1>8. ~ /\ d.isolated => c.isolated
        /\ near(d) = near(c)
        /\ d.code.len = 6 => c.code.len = 6
        /\ d.code.digits => c.code.digits
  BY <1>4, <1>7
<1>9. Score(d, bonus) > Score(c, bonus)
  <2> HIDE DEF near
  <2>1. \A x : Score(x, bonus) = 2 * bonus + (IF x.isolated THEN 60 ELSE 0) + near(x)
                    + (IF x.code.len = 6 THEN 40 ELSE 0) + (IF x.code.digits THEN 20 ELSE 0)
    BY DEF Score, near
  <2>2. QED
    BY <1>5, <1>7, <1>8, <2>1
<1>10. Plausible(d)
  BY <1>3 DEF Plausible
<1>11. Near(d)
  <2>1. CASE c.isolated
    BY <1>7, <2>1 DEF Near
  <2>2. CASE c.distance <= Reach
    BY <1>1, <1>2, <1>7, <2>2, OtpAssumption DEF Near, Far
  <2>3. QED
    BY <1>3, <2>1, <2>2 DEF Near
<1>12. QED
  BY <1>9, <1>10, <1>11 DEF c, d

\* otp.ts: in every subject and body, however long and whatever the window, the code that is
\* offered is read in one of them: it is no example and no year in a sentence, stands alone
\* or by a code word, and no other plain one of that text is as good in everything and
\* better in something.  That places are numbers is left to the runs (Measured).
THEOREM CodesHaveReasons ==
  ASSUME NEW Parts, NEW subject \in Seq(Parts), NEW body \in Seq(Parts),
         Measured(subject), Measured(body)
  PROVE  FoundForAReason(subject, body, DetectCode(subject, body))
<1> DEFINE all == CodesIn(subject, 0, 40) \cup CodesIn(body, Len(subject), 0)
           best == Best(all)
           found == DetectCode(subject, body)
<1> SUFFICES ASSUME found # <<>>
             PROVE  /\ HasCodeWord(subject) \/ HasCodeWord(body)
                    /\ \E text \in {subject, body} : \E i \in Tokens(text) :
                          /\ text[i].code.name = found[1]
                          /\ Reasonable(text, i, Candidate(text, i), {Candidate(text, j) : j \in Tokens(text)})
  BY DEF FoundForAReason
<1>1. /\ HasCodeWord(subject) \/ HasCodeWord(body)
      /\ all # {} /\ found = <<best[3]>>
  BY DEF DetectCode
<1>2. \A x \in all : x[1] \in 0..(2 * Reach + 200) /\ -x[2] \in Nat /\ x[2] \in Int
  <2>1. ASSUME NEW x \in all, NEW text \in {subject, body}, NEW before \in Nat, NEW bonus \in {0, 40},
               NEW i \in Tokens(text), x = <<Score(Candidate(text, i), bonus), -(before + i), Candidate(text, i).code.name>>
        PROVE  x[1] \in 0..(2 * Reach + 200) /\ -x[2] \in Nat /\ x[2] \in Int
    <3>1. i \in DOMAIN text /\ i \in Nat /\ Measured(text)
      BY DEF Tokens
    <3>2. x[1] = Score(Candidate(text, i), bonus) /\ x[2] = -(before + i)
      BY <2>1
    <3>3. QED
      BY <3>1, <3>2, ScoreIs
  <2>2. Len(subject) \in Nat
    OBVIOUS
  <2>3. QED
    BY <2>1, <2>2, CodesAre
<1>3. best \in all /\ \A x \in all : x[1] <= best[1]
  <2>1. 2 * Reach + 200 \in Nat
    BY OtpAssumption DEF Far
  <2> HIDE DEF all
  <2>2. QED
    BY <1>1, <1>2, <2>1, BestIs
<1>4. ASSUME NEW text \in {subject, body}, NEW before \in Nat, NEW bonus \in {0, 40},
             CodesIn(text, before, bonus) \subseteq all, best \in CodesIn(text, before, bonus)
      PROVE  \E i \in Tokens(text) :
                /\ text[i].code.name = found[1]
                /\ Reasonable(text, i, Candidate(text, i), {Candidate(text, j) : j \in Tokens(text)})
  <2> DEFINE c(i) == Candidate(text, i)
  <2>1. PICK i \in Tokens(text) : /\ Plausible(c(i)) /\ Near(c(i))
                                  /\ best = <<Score(c(i), bonus), -(before + i), c(i).code.name>>
    BY <1>4, CodesAre
  <2>2. i \in DOMAIN text /\ Measured(text)
    BY DEF Tokens
  <2>3. text[i].code.name = found[1]
    BY <1>1, <2>1 DEF Candidate
  <2>4. c(i).code.class # "example" /\ (c(i).code.class = "year" => c(i).isolated)
    BY <2>1 DEF Plausible
  <2>5. ~c(i).isolated => \E j \in DOMAIN text : text[j].kind = "codeWord" /\ Within(text, i, j)
    BY <2>1, <2>2, DistanceIs DEF Near, Candidate
  <2>6. ASSUME NEW j \in Tokens(text), c(j).code.class = "plain", Betters(c(j), c(i)) PROVE FALSE
    <3>1. j \in DOMAIN text
      BY DEF Tokens
    <3>2. Plausible(c(j)) /\ Near(c(j)) /\ Score(c(j), bonus) > Score(c(i), bonus)
      BY <2>1, <2>2, <2>6, <3>1, BetterScores
    <3>3. <<Score(c(j), bonus), -(before + j), c(j).code.name>> \in all
      BY <1>4, <3>2, CodesAre
    <3>4. Score(c(j), bonus) <= Score(c(i), bonus)
      <4> DEFINE x == <<Score(c(j), bonus), -(before + j), c(j).code.name>>
      <4>1. x[1] = Score(c(j), bonus) /\ best[1] = Score(c(i), bonus)
        BY <2>1
      <4>2. x[1] <= best[1]
        BY <1>3, <3>3
      <4>3. QED
        BY <4>1, <4>2
    <3>5. Score(c(j), bonus) \in Int /\ Score(c(i), bonus) \in Int
      BY <2>2, <3>1, ScoreIs
    <3>6. QED
      BY <3>2, <3>4, <3>5
  <2>7. Reasonable(text, i, c(i), {c(j) : j \in Tokens(text)})
    BY <2>4, <2>5, <2>6 DEF Reasonable
  <2>8. QED
    BY <2>3, <2>7
<1>5. CASE best \in CodesIn(subject, 0, 40)
  BY <1>1, <1>4, <1>5
<1>6. CASE best \in CodesIn(body, Len(subject), 0)
  <2>1. Len(subject) \in Nat
    OBVIOUS
  <2>2. QED
    BY <1>1, <1>4, <1>6, <2>1
<1>7. QED
  BY <1>3, <1>5, <1>6
=============================================================================
