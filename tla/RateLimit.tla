------------------------------ MODULE RateLimit ------------------------------
(***************************************************************************)
(* The fixed-window limiter of apps/worker/src/rate-limit.ts, for one key. *)
(*                                                                         *)
(* The caller reads the clock, and one upsert resets or counts and returns *)
(* the count.  The upsert may be late: others with a later clock may have  *)
(* run before it.  A failing database lets the caller through.             *)
(***************************************************************************)
EXTENDS Naturals, FiniteSets, Sequences

CONSTANTS
    Limit,     \* max
    Window,    \* windowMs
    Callers,   \* checks in flight at once
    LastTick,  \* bound: the clock stops here
    MaxHits    \* bound: checks ever made

ASSUME RateAssumption == Limit \in Nat \ {0} /\ Window \in Nat \ {0} /\ LastTick \in Nat

VARIABLES
    now,      \* Date.now()
    counter,  \* the row [count, start], or NoRow
    callers,  \* the clock each caller has read, or Absent
    log       \* history: <<[at, late, allowed]>>, the upserts that ran

rateVars == <<now, counter, callers, log>>

NoRow == [count |-> 0, start |-> LastTick + 1]
Absent == LastTick + 1

RateInit ==
    /\ now = 0 /\ counter = NoRow /\ log = <<>>
    /\ callers = [c \in Callers |-> Absent]

Tick == now < LastTick /\ now' = now + 1 /\ UNCHANGED <<counter, callers, log>>

BeginCheck(c) ==
    /\ callers[c] = Absent /\ Len(log) < MaxHits
    /\ callers' = [callers EXCEPT ![c] = now]
    /\ UNCHANGED <<now, counter, log>>

Lapsed(row, t) == row # NoRow /\ row.start + Window <= t

Counted(row, t) ==
    IF row = NoRow \/ Lapsed(row, t) THEN [count |-> 1, start |-> t]
    ELSE [count |-> row.count + 1, start |-> row.start]

Upsert(c) ==
    LET t == callers[c]
        row == Counted(counter, t)
    IN  /\ t # Absent
        /\ counter' = row
        /\ log' = Append(log, [at |-> now, late |-> t # now, allowed |-> row.count <= Limit])
        /\ callers' = [callers EXCEPT ![c] = Absent]
        /\ UNCHANGED now

\* The statement fails: the caller goes on as if allowed.
FailOpen(c) ==
    /\ callers[c] # Absent
    /\ callers' = [callers EXCEPT ![c] = Absent]
    /\ UNCHANGED <<now, counter, log>>

RateNext == Tick \/ \E c \in Callers : BeginCheck(c) \/ Upsert(c) \/ FailOpen(c)

RateSpec == RateInit /\ [][RateNext]_rateVars

-----------------------------------------------------------------------------
Within(t) == {i \in DOMAIN log : log[i].at >= t /\ log[i].at < t + Window}

\* However the checks fall on the windows, no interval as long as a window
\* lets more than twice the limit through, of those whose upsert ran at the
\* time the caller read (rate-limit.ts:20-40).
BurstsBounded ==
    \A t \in 0..LastTick :
        Cardinality({i \in Within(t) : log[i].allowed /\ ~log[i].late}) <= 2 * Limit

\* Nobody is kept out for being out: a punctual check is refused only when
\* the last window length saw as many others as the limit, so refused
\* retries do not extend the lockout (rate-limit.ts:30-31).
RefusedOnlyWhenBusy ==
    \A i \in DOMAIN log :
        log[i].allowed \/ log[i].late
        \/ Cardinality({j \in 1..i : log[j].at + Window > log[i].at}) > Limit

\* The window lets through what it should and nothing else.
WindowHolds == BurstsBounded /\ RefusedOnlyWhenBusy

------------------------------------------------------------------------------
(***************************************************************************)
(* App passwords: minting and deleting them (apps/worker/src/api/          *)
(* app-passwords.ts) and the IMAP login that tries them                    *)
(* (apps/worker/src/app-passwords.ts).                                     *)
(*                                                                         *)
(* One user's sign-in email is also the address of one of the mailboxes,   *)
(* so the login's disjunction can match on either side.                    *)
(***************************************************************************)

CONSTANTS
    Holders,     \* users
    Boxes,       \* mailboxes, which are also their addresses
    Email,       \* holder -> the name they sign in by, perhaps an address
    PerUser,     \* MAX_PER_USER; also the login's limit on candidates
    Minters,     \* mint requests in flight at once
    MaxMinted    \* bound: passwords ever minted

ASSUME AppPasswordsAssumption == PerUser \in Nat \ {0} /\ MaxMinted \in Nat

VARIABLES
    passwords, \* id -> [user, mailbox]
    minted,    \* ids drawn
    readers,   \* pairs <<user, mailbox>> that resolveAccess grants READ
    minters,   \* what each mint request is about to do
    logins     \* history: a password was not tried; why that may be

passwordVars == <<passwords, minted, readers, minters, logins>>

Unused == [pc |-> "unused"]

PasswordsInit ==
    /\ passwords = <<>> /\ minted = 0
    /\ readers = Holders \X Boxes
    /\ minters = [r \in Minters |-> Unused]
    /\ logins = [refused |-> FALSE, raced |-> FALSE, crowded |-> FALSE]

OwnedBy(u) == {i \in DOMAIN passwords : passwords[i].user = u}

MayMint(u) == Cardinality(OwnedBy(u)) < PerUser

\* requirePerm and the count, and then the insert after hashing.
CheckMint(r, u, m) ==
    /\ minters[r] = Unused /\ <<u, m>> \in readers /\ MayMint(u)
    /\ minters' = [minters EXCEPT ![r] = [pc |-> "insert", user |-> u, mailbox |-> m]]
    /\ UNCHANGED <<passwords, minted, readers, logins>>

Minting(q, u) == minters[q] # Unused /\ minters[q].user = u

InsertPassword(r) ==
    LET me == minters[r] IN
    /\ me.pc = "insert" /\ minted < MaxMinted
    /\ minted' = minted + 1
    /\ passwords' = [i \in DOMAIN passwords \cup {minted + 1} |->
                       IF i = minted + 1 THEN [user |-> me.user, mailbox |-> me.mailbox] ELSE passwords[i]]
    /\ minters' = [minters EXCEPT ![r] = Unused]
    /\ logins' = [refused |-> logins.refused, crowded |-> logins.crowded,
                  raced |-> logins.raced \/ \E q \in Minters \ {r} : Minting(q, me.user)]
    /\ UNCHANGED readers

DeletePassword(u, i) ==
    /\ i \in OwnedBy(u)
    /\ passwords' = [j \in DOMAIN passwords \ {i} |-> passwords[j]]
    /\ UNCHANGED <<minted, readers, minters, logins>>

\* Membership changes (module MailboxAccess).  The passwords stay.
Revoke(u, m) ==
    /\ <<u, m>> \in readers /\ readers' = readers \ {<<u, m>>}
    /\ UNCHANGED <<passwords, minted, minters, logins>>

Regrant(u, m) ==
    /\ <<u, m>> \notin readers /\ readers' = readers \cup {<<u, m>>}
    /\ UNCHANGED <<passwords, minted, minters, logins>>

\* The rows the login may try: a user by email, a mailbox by address.
Matches(name) == {i \in DOMAIN passwords : \/ passwords[i].mailbox = name
                                           \/ Email[passwords[i].user] = name}

\* No ORDER BY: any PerUser of them are fetched.
Candidates(name) ==
    {C \in SUBSET Matches(name) : /\ Cardinality(C) <= PerUser
                                  /\ C # Matches(name) => Cardinality(C) = PerUser}

\* Somebody presents password i under a name of theirs.  It is refused when
\* its row was not among the candidates, and forbidden when access is gone.
Login(i, name) ==
    /\ i \in Matches(name)
    /\ \E C \in Candidates(name) :
         logins' = [refused |-> logins.refused \/ i \notin C, raced |-> logins.raced,
                    crowded |-> logins.crowded \/ \E j \in Matches(name) :
                                                     passwords[j].user # passwords[i].user]
    /\ UNCHANGED <<passwords, minted, readers, minters>>

PasswordsNext ==
    \/ \E r \in Minters : \/ InsertPassword(r)
                          \/ \E u \in Holders, m \in Boxes : CheckMint(r, u, m)
    \/ \E u \in Holders : \/ \E i \in OwnedBy(u) : DeletePassword(u, i)
                          \/ \E m \in Boxes : Revoke(u, m) \/ Regrant(u, m)
    \/ \E i \in DOMAIN passwords : \E name \in {passwords[i].mailbox, Email[passwords[i].user]} :
          Login(i, name)

PasswordsSpec == PasswordsInit /\ [][PasswordsNext]_passwordVars

-----------------------------------------------------------------------------
\* A password that exists signs in: the login fetches at most as many rows as
\* one user may have, which is enough unless the name matches passwords of
\* several users - every member of a shared mailbox has some - or two mints
\* passed the count together (app-passwords.ts:78-96, api/
\* app-passwords.ts:73-85).
HolderIsTried == logins.refused => logins.crowded \/ logins.raced
=============================================================================
