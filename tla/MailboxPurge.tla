---------------------------- MODULE MailboxPurge ----------------------------
(***************************************************************************)
(* The background purge of one mailbox (mailbox-purge.ts, cron.ts): admins *)
(* and the owner mark it "empty" or "delete", cron invocations that may    *)
(* overlap drain its threads in batches and finalize the mark, while mail  *)
(* is routed to it (mail/receive.ts) and its address is taken again.       *)
(* Blobs are the subject of MailStore.                                     *)
(***************************************************************************)
EXTENDS Integers, FiniteSets

CONSTANTS
  Ticks,       \* cron invocations that may be running at the same time
  Old,         \* threads the mailbox starts with
  Mail,        \* incoming messages, each opening a thread of its own
  Modes,       \* what is asked for: a subset of {"empty", "delete"}
  Redirected,  \* whether some other address redirects to the mailbox
  BatchSize,   \* MAILBOX_PURGE_THREAD_BATCH
  Budget,      \* MAILBOX_PURGE_THREADS_PER_TICK
  MaxRequests, \* bound on the requests to empty or delete the mailbox
  MaxKills     \* bound on invocations that are killed or throw

ASSUME ModesAssumption == Modes \subseteq {"empty", "delete"}
ASSUME RedirectedAssumption == Redirected \in BOOLEAN
ASSUME PurgeBoundsAssumption ==
  BatchSize \in Nat \ {0} /\ Budget \in Nat \ {0} /\ MaxRequests \in Nat
  /\ MaxKills \in Nat
ASSUME ThreadsAssumption == Old \intersect Mail = {} /\ IsFiniteSet(Old) /\ IsFiniteSet(Mail)

VARIABLES
  purge,     \* mailbox.pendingPurge, "null" when clear, "dropped" once the row is gone
  taken,     \* whether another mailbox was created at the address
  threads,   \* threads of the mailbox
  mail,      \* where each incoming message is
  pc,        \* where each invocation is
  mode,      \* pendingPurge as each invocation selected it
  batch,     \* threads each invocation is about to delete
  budget,    \* what is left of each invocation's budget
  requests,  \* history: requests so far
  kills,     \* history: failed invocations so far
  condemned  \* history: threads present when the purge was last asked for

tick == <<pc, mode, batch, budget>>
purgeVars == <<purge, taken, threads, mail, tick, requests, kills, condemned>>

PurgeTypeOK ==
  /\ purge \in {"null", "empty", "delete", "dropped"}
  /\ taken \in BOOLEAN
  /\ threads \subseteq Old \union Mail
  /\ mail \in [Mail -> {"new", "routed", "stored", "bounced"}]
  /\ pc \in [Ticks -> {"idle", "select", "remove", "final"}]
  /\ mode \in [Ticks -> {"empty", "delete"}]
  /\ batch \in [Ticks -> SUBSET (Old \union Mail)]
  /\ budget \in [Ticks -> (1 - BatchSize)..Budget]
  /\ requests \in 0..MaxRequests
  /\ kills \in 0..MaxKills
  /\ condemned \subseteq Old \union Mail

PurgeInit ==
  /\ purge = "null"
  /\ taken = FALSE
  /\ threads = Old
  /\ mail = [d \in Mail |-> "new"]
  /\ pc = [t \in Ticks |-> "idle"]
  /\ mode = [t \in Ticks |-> "empty"]
  /\ batch = [t \in Ticks |-> {}]
  /\ budget = [t \in Ticks |-> 0]
  /\ requests = 0
  /\ kills = 0
  /\ condemned = {}

----------------------------------------------------------------------------
(***************************************************************************)
(* Requests, routing and the address.                                      *)
(***************************************************************************)
\* mailboxNotDeletePending, over an existing row.
NotDeletePending == purge \in {"null", "empty"}

\* Mutant: an "empty" overwrites a "delete".
MarkAnyway(m) ==
  /\ requests < MaxRequests
  /\ purge # "dropped"
  /\ purge' = m
  /\ requests' = requests + 1
  /\ condemned' = threads
  /\ UNCHANGED <<taken, threads, mail, tick, kills>>

\* markMailboxPurge, asked for by an admin, the owner or the expiry of a temp mailbox.
Mark(m) ==
  /\ requests < MaxRequests
  /\ NotDeletePending
  /\ purge' = m
  /\ requests' = requests + 1
  /\ condemned' = threads
  /\ UNCHANGED <<taken, threads, mail, tick, kills>>

\* The unique address index leaves delete-pending rows out.
Recreate ==
  /\ ~NotDeletePending
  /\ ~taken
  /\ taken' = TRUE
  /\ UNCHANGED <<purge, threads, mail, tick, requests, kills, condemned>>

\* Only the direct lookup filters; a redirect loads its target by id.
Reachable == NotDeletePending \/ (Redirected /\ purge # "dropped")

Route(d) ==
  /\ mail[d] = "new"
  /\ mail' = [mail EXCEPT ![d] = IF Reachable THEN "routed" ELSE "bounced"]
  /\ UNCHANGED <<purge, taken, threads, tick, requests, kills, condemned>>

\* ingestRaw opens the thread; without the mailbox row its foreign key fails.
Store(d) ==
  /\ mail[d] = "routed"
  /\ IF purge = "dropped"
       THEN mail' = [mail EXCEPT ![d] = "bounced"] /\ UNCHANGED threads
       ELSE mail' = [mail EXCEPT ![d] = "stored"] /\ threads' = threads \union {d}
  /\ UNCHANGED <<purge, taken, tick, requests, kills, condemned>>

----------------------------------------------------------------------------
(***************************************************************************)
(* purgePendingMailboxes, one D1 statement at a time.                      *)
(***************************************************************************)
Start(t) ==
  /\ pc[t] = "idle"
  /\ purge \in {"empty", "delete"}
  /\ mode' = [mode EXCEPT ![t] = purge]
  /\ budget' = [budget EXCEPT ![t] = Budget]
  /\ pc' = [pc EXCEPT ![t] = "select"]
  /\ UNCHANGED <<purge, taken, threads, mail, batch, requests, kills, condemned>>

\* The select has no order: any full batch may come back.
Batches == {b \in SUBSET threads :
              \/ b = threads /\ Cardinality(b) <= BatchSize
              \/ Cardinality(b) = BatchSize}

SelectBatch(t) ==
  /\ pc[t] = "select"
  /\ budget[t] > 0
  /\ \E b \in Batches :
       /\ batch' = [batch EXCEPT ![t] = b]
       /\ pc' = [pc EXCEPT ![t] = IF b = {} THEN "final" ELSE "remove"]
  /\ UNCHANGED <<purge, taken, threads, mail, mode, budget, requests, kills, condemned>>

\* Mutant: an invocation out of budget finalizes.
FinalizeOutOfBudget(t) ==
  /\ pc[t] = "select"
  /\ budget[t] <= 0
  /\ pc' = [pc EXCEPT ![t] = "final"]
  /\ UNCHANGED <<purge, taken, threads, mail, mode, batch, budget, requests, kills, condemned>>

\* Still threads left: the mark stays for the next invocation.
OutOfBudget(t) ==
  /\ pc[t] = "select"
  /\ budget[t] <= 0
  /\ pc' = [pc EXCEPT ![t] = "idle"]
  /\ UNCHANGED <<purge, taken, threads, mail, mode, batch, budget, requests, kills, condemned>>

RemoveBatch(t) ==
  /\ pc[t] = "remove"
  /\ threads' = threads \ batch[t]
  /\ budget' = [budget EXCEPT ![t] = @ - Cardinality(batch[t])]
  /\ batch' = [batch EXCEPT ![t] = {}]
  /\ pc' = [pc EXCEPT ![t] = "select"]
  /\ UNCHANGED <<purge, taken, mail, mode, requests, kills, condemned>>

Finish(t) == pc[t] = "final" /\ pc' = [pc EXCEPT ![t] = "idle"]

\* Mutant: the row stays, its mark too.
DropNothing(t) ==
  /\ Finish(t)
  /\ mode[t] = "delete"
  /\ UNCHANGED <<purge, taken, threads, mail, mode, batch, budget, requests, kills, condemned>>

\* The row goes, and what arrived meanwhile with it.
Drop(t) ==
  /\ Finish(t)
  /\ mode[t] = "delete"
  /\ purge' = "dropped"
  /\ threads' = {}
  /\ UNCHANGED <<taken, mail, mode, batch, budget, requests, kills, condemned>>

\* The update is by id, whatever the mark is by now; where the address was taken
\* again the unique index refuses it and the invocation throws.
Collides == purge = "delete" /\ taken

Clear(t) ==
  /\ Finish(t)
  /\ mode[t] = "empty"
  /\ purge' = IF Collides \/ purge = "dropped" THEN purge ELSE "null"
  /\ UNCHANGED <<taken, threads, mail, mode, batch, budget, requests, kills, condemned>>

\* A statement fails or the invocation is killed; what it deleted stays deleted.
Killed(t) ==
  /\ kills < MaxKills
  /\ kills' = kills + 1
  /\ pc[t] # "idle"
  /\ pc' = [pc EXCEPT ![t] = "idle"]
  /\ batch' = [batch EXCEPT ![t] = {}]
  /\ UNCHANGED <<purge, taken, threads, mail, mode, budget, requests, condemned>>

----------------------------------------------------------------------------
Drain(t) ==
  \/ Start(t) \/ SelectBatch(t) \/ OutOfBudget(t) \/ RemoveBatch(t) \/ Drop(t) \/ Clear(t)

PurgeNext ==
  \/ \E m \in Modes : Mark(m)
  \/ Recreate
  \/ \E d \in Mail : Route(d) \/ Store(d)
  \/ \E t \in Ticks : Drain(t) \/ Killed(t)

PurgeSpec == PurgeInit /\ [][PurgeNext]_purgeVars

\* The cron fires every minute and each of its calls returns.
FairPurgeSpec == PurgeSpec /\ \A t \in Ticks : WF_purgeVars(Drain(t))

----------------------------------------------------------------------------
(***************************************************************************)
(* Properties.                                                             *)
(***************************************************************************)

\* The first request ends only when every thread present at it is gone: an emptied
\* mailbox shows nothing of what was to be emptied, and the row is dropped without
\* cascading over the old threads.  (A second request made while a stale invocation
\* is about to finalize may be cleared with its mail still there.)
FirstRequestDrains ==
  [][requests = 1 /\ purge # purge' /\ purge' \in {"null", "dropped"} =>
       condemned \intersect threads = {}]_purgeVars

\* The address is never held by two mailboxes, however many requests and stale
\* invocations are about.
AddressExclusive == taken => ~NotDeletePending

\* A purge that was asked for ends.
PurgeEnds == (purge \in {"empty", "delete"}) ~> (purge \in {"null", "dropped"})
============================================================================
