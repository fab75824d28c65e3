------------------------------ MODULE Accounts ------------------------------
(***************************************************************************)
(* Users, their first installation, administration and invitations:        *)
(* apps/worker/src/api/bootstrap.ts, api/users.ts and middleware.ts.       *)
(*                                                                         *)
(* A request is a process: it is authorised, and then runs one D1          *)
(* statement per step, in any order with the statements of the others.     *)
(* It may die between two of them.  Foreign keys cascade, email addresses  *)
(* are unique.  Whoever has a credential may be signed in: sessions belong *)
(* to the auth library, and the admin routes do not believe their cookie.  *)
(***************************************************************************)
EXTENDS Naturals, FiniteSets

CONSTANTS
    Emails,     \* addresses of users
    Requests,   \* requests that may be in flight at once
    MaxUsers,   \* bound: user rows ever inserted
    MaxTokens   \* bound: invitation tokens ever issued

ASSUME AccountsAssumption == MaxUsers \in Nat \ {0} /\ MaxTokens \in Nat

VARIABLES
    users,      \* id -> [email, role, banned, password]
    issued,     \* [users, tokens]: how many ids and tokens were drawn
    userInvite, \* email -> [id, token, role, usedAt]
    requests,   \* what each request is about to do
    past        \* history: what the properties have to excuse

accountVars == <<users, issued, userInvite, requests, past>>

Roles == {"admin", "user"}
Idle == [pc |-> "idle"]

Nothing == [died |-> FALSE, selfBan |-> FALSE, outdated |-> FALSE,
            spent |-> {}, reopened |-> FALSE, crossed |-> {}]

AccountsInit ==
    /\ users = <<>>
    /\ issued = [users |-> 0, tokens |-> 0]
    /\ userInvite = <<>>
    /\ requests = [r \in Requests |-> Idle]
    /\ past = Nothing

(***************************************************************************)
(* Rows.                                                                   *)
(***************************************************************************)
Registered(e) == \E u \in DOMAIN users : users[u].email = e
IsAdmin(u) == u \in DOMAIN users /\ users[u].role = "admin" /\ ~users[u].banned

Without(f, x) == [y \in DOMAIN f \ {x} |-> f[y]]

NewUser(e, role) ==
    /\ issued.users < MaxUsers
    /\ issued' = [issued EXCEPT !.users = @ + 1]
    /\ users' = [u \in DOMAIN users \cup {issued.users + 1} |->
                   IF u \in DOMAIN users THEN users[u]
                   ELSE [email |-> e, role |-> role, banned |-> FALSE, password |-> FALSE]]

Goto(r, next) == requests' = [requests EXCEPT ![r] = next]
Finish(r) == Goto(r, Idle)

(***************************************************************************)
(* POST /bootstrap: the claim inserts only into an empty table.            *)
(***************************************************************************)
MayClaim == users = <<>>

Claim(r, e) ==
    /\ requests[r] = Idle /\ MayClaim
    /\ NewUser(e, "admin")
    /\ Goto(r, [pc |-> "account", op |-> "bootstrap", id |-> issued.users + 1])
    /\ UNCHANGED <<userInvite, past>>

(***************************************************************************)
(* createUserWithPassword: look the address up, insert the user, insert    *)
(* the credential.  An invitation is marked used at the end.               *)
(***************************************************************************)
\* Mutant of Redeemable: a used invitation is accepted again.
RedeemableTwice(inv, t) == inv.token = t
Redeemable(inv, t) == inv.token = t /\ ~inv.usedAt

Accept(r, e) ==
    /\ requests[r] = Idle /\ e \in DOMAIN userInvite
    /\ LET inv == userInvite[e] IN
         /\ Redeemable(inv, inv.token)
         /\ Goto(r, [pc |-> "lookup", op |-> "accept", email |-> e, role |-> inv.role, id |-> 0,
                     invite |-> inv.id, token |-> inv.token,
                     late |-> inv.token \in past.spent])
    /\ UNCHANGED <<users, issued, userInvite, past>>

LookupEmail(r) ==
    /\ requests[r].pc = "lookup"
    /\ IF Registered(requests[r].email) THEN Finish(r)
       ELSE Goto(r, [requests[r] EXCEPT !.pc = IF requests[r].op = "invite" THEN "upsert" ELSE "insert"])
    /\ UNCHANGED <<users, issued, userInvite, past>>

InsertUser(r) ==
    LET q == requests[r] IN
    /\ q.pc = "insert"
    /\ IF Registered(q.email)
       THEN Finish(r) /\ UNCHANGED <<users, issued, past>>
       ELSE /\ NewUser(q.email, q.role)
            /\ Goto(r, [q EXCEPT !.pc = "account", !.id = issued.users + 1])
            /\ past' = [past EXCEPT !.reopened = @ \/ (q.op = "accept" /\ q.late)]
    /\ UNCHANGED <<userInvite>>

InsertAccount(r) ==
    LET q == requests[r] IN
    /\ q.pc = "account"
    /\ IF q.id \notin DOMAIN users
       THEN Finish(r) /\ UNCHANGED users
       ELSE /\ users' = [users EXCEPT ![q.id].password = TRUE]
            /\ IF q.op = "accept" THEN Goto(r, [q EXCEPT !.pc = "mark"]) ELSE Finish(r)
    /\ UNCHANGED <<issued, userInvite, past>>

MarkUsed(r) ==
    LET q == requests[r]
        row == {e \in DOMAIN userInvite : userInvite[e].id = q.invite}
    IN  /\ q.pc = "mark"
        /\ Finish(r)
        /\ userInvite' = [e \in DOMAIN userInvite |->
                            IF e \in row THEN [userInvite[e] EXCEPT !.usedAt = TRUE]
                            ELSE userInvite[e]]
        /\ past' = [past EXCEPT !.spent = @ \cup {q.token},
                                !.crossed = @ \cup ({userInvite[e].token : e \in row} \ {q.token})]
        /\ UNCHANGED <<users, issued>>

(***************************************************************************)
(* requireAdmin reads the row again, and then the handler runs.            *)
(***************************************************************************)
RequireAdmin(u) == IsAdmin(u)

\* A patch is the columns it sets.
Patches == [role : Roles] \cup [banned : BOOLEAN] \cup [role : Roles, banned : BOOLEAN]
Patched(row, patch) ==
    [row EXCEPT !.role = IF "role" \in DOMAIN patch THEN patch.role ELSE @,
                !.banned = IF "banned" \in DOMAIN patch THEN patch.banned ELSE @]

\* What the handlers refuse an administrator to do to their own row.
\* Mutant of DemotesSelf: nothing, the last administrator may step down.
DemotesNobody(me, id, patch) == FALSE
DemotesSelf(me, id, patch) == id = me /\ "role" \in DOMAIN patch /\ patch.role # "admin"

Authorise(r, me) ==
    /\ requests[r] = Idle /\ me \in DOMAIN users /\ users[me].password
    /\ RequireAdmin(me)
    /\ Goto(r, [pc |-> "admin", me |-> me])
    /\ UNCHANGED <<users, issued, userInvite, past>>

CreateUser(r, e, role) ==
    /\ requests[r].pc = "admin"
    /\ Goto(r, [pc |-> "lookup", op |-> "create", email |-> e, role |-> role, id |-> 0])
    /\ UNCHANGED <<users, issued, userInvite, past>>

Invite(r, e, role) ==
    /\ requests[r].pc = "admin"
    /\ Goto(r, [pc |-> "lookup", op |-> "invite", me |-> requests[r].me, email |-> e, role |-> role])
    /\ UNCHANGED <<users, issued, userInvite, past>>

\* The actor lost the right to write between the check and the write.
Outdated(r) == past.outdated \/ ~IsAdmin(requests[r].me)

PatchUser(r, id, patch) ==
    LET me == requests[r].me IN
    /\ requests[r].pc = "admin" /\ id \in DOMAIN users /\ ~DemotesSelf(me, id, patch)
    /\ users' = [users EXCEPT ![id] = Patched(@, patch)]
    /\ past' = [past EXCEPT !.outdated = Outdated(r),
                            !.selfBan = @ \/ (id = me /\ "banned" \in DOMAIN patch /\ patch.banned)]
    /\ Finish(r)
    /\ UNCHANGED <<issued, userInvite>>

\* The invitations a user sent go with the user.
DeleteUser(r, id) ==
    /\ requests[r].pc = "admin" /\ id \in DOMAIN users /\ id # requests[r].me
    /\ users' = Without(users, id)
    /\ userInvite' = [e \in {x \in DOMAIN userInvite : userInvite[x].by # id} |-> userInvite[e]]
    /\ past' = [past EXCEPT !.outdated = Outdated(r)]
    /\ Finish(r)
    /\ UNCHANGED <<issued>>

DeleteInvite(r, e) ==
    /\ requests[r].pc = "admin" /\ e \in DOMAIN userInvite
    /\ userInvite' = Without(userInvite, e)
    /\ Finish(r)
    /\ UNCHANGED <<users, issued, past>>

\* Inviting an address again draws a new token for the same row.
Reissued(old, new) == [new EXCEPT !.id = old.id]

UpsertInvite(r) ==
    LET q == requests[r]
        t == issued.tokens + 1
        new == [id |-> t, token |-> t, role |-> q.role, by |-> q.me, usedAt |-> FALSE]
    IN  /\ q.pc = "upsert" /\ t <= MaxTokens
        /\ q.me \in DOMAIN users
        /\ issued' = [issued EXCEPT !.tokens = t]
        /\ userInvite' = [e \in DOMAIN userInvite \cup {q.email} |->
                            IF e # q.email THEN userInvite[e]
                            ELSE IF e \in DOMAIN userInvite THEN Reissued(userInvite[e], new) ELSE new]
        /\ Finish(r)
        /\ UNCHANGED <<users, past>>

\* The inviter's row is gone: the foreign key refuses the insert.
UpsertRefused(r) ==
    /\ requests[r].pc = "upsert" /\ requests[r].me \notin DOMAIN users
    /\ Finish(r)
    /\ UNCHANGED <<users, issued, userInvite, past>>

\* A request dies: its remaining statements never run.
Die(r) ==
    /\ requests[r] # Idle
    /\ past' = [past EXCEPT !.died = @ \/ requests[r].pc = "account"]
    /\ Finish(r)
    /\ UNCHANGED <<users, issued, userInvite>>

AccountsNext ==
    \/ \E r \in Requests :
         \/ LookupEmail(r) \/ InsertUser(r) \/ InsertAccount(r) \/ MarkUsed(r)
         \/ UpsertInvite(r) \/ UpsertRefused(r) \/ Die(r)
         \/ \E e \in Emails : \/ Claim(r, e) \/ Accept(r, e) \/ DeleteInvite(r, e)
                              \/ \E role \in Roles : CreateUser(r, e, role) \/ Invite(r, e, role)
         \/ \E id \in 1..MaxUsers : \/ Authorise(r, id) \/ DeleteUser(r, id)
                                    \/ \E patch \in Patches : PatchUser(r, id, patch)

AccountsSpec == AccountsInit /\ [][AccountsNext]_accountVars

-----------------------------------------------------------------------------
\* Once somebody has installed the system there is an administrator who can
\* sign in.  Only three things lose the last one: the installation dying
\* between the user and the credential, an administrator banning himself,
\* and two administrators acting on each other at once, each authorised
\* before the other's write (bootstrap.ts:31-48, users.ts:117-145,
\* middleware.ts:22-36).
AdminRemains ==
    \/ issued.users = 0
    \/ past.died \/ past.selfBan \/ past.outdated
    \/ \E r \in Requests : requests[r].pc = "account" /\ requests[r].op = "bootstrap"
    \/ \E u \in DOMAIN users : IsAdmin(u) /\ users[u].password

\* One installation makes one first administrator: every other row was
\* written by an administrator or by an invitation one of them sent, so no
\* two claims are in progress and none starts beside existing users
\* (bootstrap.ts:31-41).
OneInstallation ==
    \A r \in Requests : requests[r].pc = "account" /\ requests[r].op = "bootstrap" =>
        past.outdated \/ \A u \in DOMAIN users : u = requests[r].id

\* An invitation that was redeemed makes nobody again, so a user an
\* administrator deleted does not come back through it (users.ts:35-50).
SpentTokensStaySpent == ~past.reopened

\* An invitation marked as used was redeemed with its own token: whoever is
\* invited again can accept.  The exception is an acceptance still running
\* when its invitation is issued anew, which marks the row by its id
\* (users.ts:50, 173-186).
UsedMeansRedeemed ==
    \A e \in DOMAIN userInvite :
        userInvite[e].usedAt => userInvite[e].token \in past.spent \cup past.crossed

\* One installation, and from then on somebody to administer it.
Administered == OneInstallation /\ AdminRemains

\* An invitation makes one account, and a used one has made it.
InvitationsSpentOnce == SpentTokensStaySpent /\ UsedMeansRedeemed
=============================================================================
