--------------------------- MODULE ScheduledSend ---------------------------
(***************************************************************************)
(* One scheduled draft, its author, and the cron invocations that dispatch *)
(* it through sendFromMailbox (cron.ts, mail/send.ts, api/drafts.ts).      *)
(* Every action of an invocation is one D1 statement, R2 call or           *)
(* EMAIL.send; nothing locks the draft between them.  The pure steps       *)
(* (quote, MIME and PGP assembly) are part of Compose.                     *)
(***************************************************************************)
EXTENDS Integers

CONSTANTS
  Ticks,       \* cron invocations that may be running at the same time
  Recipients,  \* envelope recipients of the payload
  Pgp,         \* TRUE: one EMAIL.send per recipient; FALSE: one for all
  Upload,      \* TRUE: the payload attaches an uploaded blob
  MaxAttempts, \* SCHEDULED_SEND_MAX_ATTEMPTS
  MaxUser,     \* bound on the author's changes to the draft
  MaxFaults    \* bound on storage failures and killed invocations

ASSUME BooleansAssumption == Pgp \in BOOLEAN /\ Upload \in BOOLEAN
ASSUME BoundsAssumption ==
  MaxAttempts \in Nat \ {0} /\ MaxUser \in Nat /\ MaxFaults \in Nat

Versions == 1..(MaxUser + 1)

NoDraft == [sched |-> "gone", payload |-> 0, attempts |-> 0, error |-> 0, rev |-> 0]

VARIABLES
  draft,      \* the draft row, NoDraft once deleted
  upload,     \* whether the blob under draft/<user>/ exists
  discarding, \* whether a DELETE of the draft is under way
  pc,         \* where each cron invocation is
  row,        \* the draft row each invocation selected
  pending,    \* recipients whose EMAIL.send is outstanding
  failed,     \* whether an EMAIL.send of the current attempt failed
  sentRows,   \* Sent messages stored, per payload version
  delivered,  \* copies each recipient got, per payload version
  user,       \* history: changes the author made
  faults      \* history: failures and kills so far

cron == <<pc, row, pending, failed>>
mail == <<sentRows, delivered>>
vars == <<draft, upload, discarding, cron, mail, user, faults>>

Drafts == [sched : {"no", "future", "due"}, payload : {0} \union Versions,
           attempts : 0..MaxAttempts, error : {0} \union Versions, rev : Versions]

TypeOK ==
  /\ draft \in Drafts \union {NoDraft}
  /\ upload \in BOOLEAN
  /\ discarding \in BOOLEAN
  /\ pc \in [Ticks -> {"idle", "compose", "persist", "attach", "deliver", "finish",
                       "rollback", "uploads", "delete", "catch"}]
  /\ row \in [Ticks -> Drafts \union {NoDraft}]
  /\ pending \in [Ticks -> SUBSET Recipients]
  /\ failed \in [Ticks -> BOOLEAN]
  /\ sentRows \in [Versions -> Int]
  /\ delivered \in [Versions -> [Recipients -> Nat]]
  /\ user \in 0..MaxUser
  /\ faults \in 0..MaxFaults

Init ==
  /\ draft = [sched |-> "future", payload |-> 1, attempts |-> 0, error |-> 0, rev |-> 1]
  /\ upload = Upload
  /\ discarding = FALSE
  /\ pc = [t \in Ticks |-> "idle"]
  /\ row = [t \in Ticks |-> NoDraft]
  /\ pending = [t \in Ticks |-> {}]
  /\ failed = [t \in Ticks |-> FALSE]
  /\ sentRows = [v \in Versions |-> 0]
  /\ delivered = [v \in Versions |-> [r \in Recipients |-> 0]]
  /\ user = 0
  /\ faults = 0

----------------------------------------------------------------------------
(***************************************************************************)
(* The author (api/drafts.ts) and the clock.                               *)
(***************************************************************************)
Exists == draft # NoDraft

UserActs == Exists /\ user < MaxUser /\ user' = user + 1

BecomesDue ==
  /\ draft.sched = "future"
  /\ draft' = [draft EXCEPT !.sched = "due"]
  /\ UNCHANGED <<upload, discarding, cron, mail, user, faults>>

\* POST /:id/schedule, with a payload of its own.
Schedule ==
  /\ UserActs
  /\ draft' = [sched |-> "future", payload |-> draft.rev + 1, attempts |-> 0,
               error |-> 0, rev |-> draft.rev + 1]
  /\ UNCHANGED <<upload, discarding, cron, mail, faults>>

\* DELETE /:id/schedule
Cancel ==
  /\ UserActs
  /\ draft' = [sched |-> "no", payload |-> 0, attempts |-> 0, error |-> 0,
               rev |-> draft.rev + 1]
  /\ UNCHANGED <<upload, discarding, cron, mail, faults>>

\* PATCH /:id changes the draft's own fields, not the scheduled payload.
Edit ==
  /\ UserActs
  /\ draft' = [draft EXCEPT !.rev = @ + 1]
  /\ UNCHANGED <<upload, discarding, cron, mail, faults>>

\* DELETE /:id: the uploads go first, then the row.
DiscardUploads ==
  /\ UserActs
  /\ upload' = FALSE
  /\ discarding' = TRUE
  /\ UNCHANGED <<draft, cron, mail, faults>>

DiscardRow ==
  /\ discarding
  /\ draft' = NoDraft
  /\ discarding' = FALSE
  /\ UNCHANGED <<upload, cron, mail, user, faults>>

----------------------------------------------------------------------------
(***************************************************************************)
(* dispatchScheduledSends and sendFromMailbox, one call at a time.         *)
(***************************************************************************)
Goto(t, from, to) == pc[t] = from /\ pc' = [pc EXCEPT ![t] = to]

Fault == faults < MaxFaults /\ faults' = faults + 1

\* The SELECT of due drafts.
Select(t) ==
  /\ draft.sched = "due"
  /\ Goto(t, "idle", "compose")
  /\ row' = [row EXCEPT ![t] = draft]
  /\ UNCHANGED <<draft, upload, discarding, pending, failed, mail, user, faults>>

\* Quote, mailbox, attachments ("attachment missing"), thread: reads only.
Compose(t) ==
  /\ Goto(t, "compose", "persist")
  /\ Upload => upload
  /\ UNCHANGED <<draft, upload, discarding, row, pending, failed, mail, user, faults>>

ComposeFails(t) ==
  /\ Goto(t, "compose", "catch")
  /\ \/ Upload /\ ~upload /\ UNCHANGED faults
     \/ Fault
  /\ UNCHANGED <<draft, upload, discarding, row, pending, failed, mail, user>>

v(t) == row[t].payload

\* The raw blob and the Sent row are written in parallel.
Persist(t) ==
  /\ Goto(t, "persist", "attach")
  /\ sentRows' = [sentRows EXCEPT ![v(t)] = @ + 1]
  /\ UNCHANGED <<draft, upload, discarding, row, pending, failed, delivered, user, faults>>

\* Either write may fail while the other succeeds; neither is undone.
PersistFails(t) ==
  /\ Fault
  /\ Goto(t, "persist", "catch")
  /\ \/ sentRows' = [sentRows EXCEPT ![v(t)] = @ + 1]
     \/ UNCHANGED sentRows
  /\ UNCHANGED <<draft, upload, discarding, row, pending, failed, delivered, user>>

\* persistSentAttachments, inside the try that rolls back.
Attach(t) ==
  /\ Goto(t, "attach", "deliver")
  /\ pending' = [pending EXCEPT ![t] = Recipients]
  /\ failed' = [failed EXCEPT ![t] = FALSE]
  /\ UNCHANGED <<draft, upload, discarding, row, mail, user, faults>>

AttachFails(t) ==
  /\ Fault
  /\ Goto(t, "attach", "rollback")
  /\ UNCHANGED <<draft, upload, discarding, row, pending, failed, mail, user>>

\* One EMAIL.send: to everybody at once, or to one recipient with PGP.
Batch(t) == IF Pgp THEN {{r} : r \in pending[t]} ELSE {pending[t]} \ {{}}

\* Promise.all gives up at the first failure, with the other sends still under way.
Sending(t) == pc[t] \in {"deliver", "rollback", "catch"}

Deliver(t) ==
  /\ Sending(t)
  /\ \E b \in Batch(t) :
       /\ delivered' = [delivered EXCEPT ![v(t)] =
            [r \in Recipients |-> IF r \in b THEN @[r] + 1 ELSE @[r]]]
       /\ pending' = [pending EXCEPT ![t] = @ \ b]
  /\ UNCHANGED <<draft, upload, discarding, pc, row, failed, sentRows, user, faults>>

DeliverFails(t) ==
  /\ Sending(t)
  /\ \E b \in Batch(t) : pending' = [pending EXCEPT ![t] = @ \ b]
  /\ failed' = [failed EXCEPT ![t] = TRUE]
  /\ UNCHANGED <<draft, upload, discarding, pc, row, mail, user, faults>>

\* Mutant of Delivered: a failed EMAIL.send is taken for a delivery.
DeliveredAnyway(t) ==
  /\ pending[t] = {}
  /\ Goto(t, "deliver", "finish")
  /\ UNCHANGED <<draft, upload, discarding, row, pending, failed, mail, user, faults>>

Delivered(t) ==
  /\ failed[t] \/ pending[t] = {}
  /\ Goto(t, "deliver", IF failed[t] THEN "rollback" ELSE "finish")
  /\ UNCHANGED <<draft, upload, discarding, row, pending, failed, mail, user, faults>>

\* Mutant of Rollback: the Sent row stays.
RollbackNothing(t) ==
  /\ Goto(t, "rollback", "catch")
  /\ UNCHANGED <<draft, upload, discarding, row, pending, failed, mail, user, faults>>

\* cleanupFailedSend is best effort: its own failure is swallowed.
Rollback(t) ==
  /\ Goto(t, "rollback", "catch")
  /\ sentRows' = [sentRows EXCEPT ![v(t)] = @ - 1]
  /\ UNCHANGED <<draft, upload, discarding, row, pending, failed, delivered, user, faults>>

RollbackFails(t) ==
  /\ Fault
  /\ Goto(t, "rollback", "catch")
  /\ UNCHANGED <<draft, upload, discarding, row, pending, failed, mail, user>>

\* Message-ID, bumpThread, broadcast and the follow-up reminder.
Finish(t) ==
  /\ Goto(t, "finish", "uploads")
  /\ UNCHANGED <<draft, upload, discarding, row, pending, failed, mail, user, faults>>

\* The runtime cancels the calls nobody awaits when the invocation ends.
Done(t) ==
  /\ row' = [row EXCEPT ![t] = NoDraft]
  /\ pending' = [pending EXCEPT ![t] = {}]

\* Mutant of DropUploads: the dispatcher returns right after the send.
SkipCleanup(t) ==
  /\ Goto(t, "uploads", "idle")
  /\ Done(t)
  /\ UNCHANGED <<draft, upload, discarding, failed, mail, user, faults>>

DropUploads(t) ==
  /\ Goto(t, "uploads", "delete")
  /\ upload' = FALSE
  /\ UNCHANGED <<draft, discarding, row, pending, failed, mail, user, faults>>

DropDraft(t) ==
  /\ Goto(t, "delete", "idle")
  /\ draft' = NoDraft
  /\ Done(t)
  /\ UNCHANGED <<upload, discarding, failed, mail, user, faults>>

\* A statement after the delivery throws: nothing is rolled back.
LateFailure(t) ==
  /\ Fault
  /\ pc[t] \in {"finish", "uploads", "delete"}
  /\ pc' = [pc EXCEPT ![t] = "catch"]
  /\ UNCHANGED <<draft, upload, discarding, row, pending, failed, mail, user>>

\* The catch block counts from the row it selected, whatever the row holds now.
Attempts(t) == row[t].attempts + 1

\* Mutants: a retry that is not counted, and a revert that leaves the row scheduled.
RetryUncounted(t) ==
  /\ Attempts(t) < MaxAttempts
  /\ Goto(t, "catch", "idle")
  /\ Done(t)
  /\ UNCHANGED <<draft, upload, discarding, failed, mail, user, faults>>

RevertScheduled(t) ==
  /\ Attempts(t) >= MaxAttempts
  /\ Goto(t, "catch", "idle")
  /\ draft' = IF Exists THEN [draft EXCEPT !.payload = 0, !.attempts = Attempts(t),
                                !.error = v(t)]
              ELSE draft
  /\ Done(t)
  /\ UNCHANGED <<upload, discarding, failed, mail, user, faults>>

Retry(t) ==
  /\ Attempts(t) < MaxAttempts
  /\ Goto(t, "catch", "idle")
  /\ draft' = IF Exists THEN [draft EXCEPT !.attempts = Attempts(t)] ELSE draft
  /\ Done(t)
  /\ UNCHANGED <<upload, discarding, failed, mail, user, faults>>

Revert(t) ==
  /\ Attempts(t) >= MaxAttempts
  /\ Goto(t, "catch", "idle")
  /\ draft' = IF Exists THEN [draft EXCEPT !.sched = "no", !.payload = 0,
                                !.attempts = Attempts(t), !.error = v(t)]
              ELSE draft
  /\ Done(t)
  /\ UNCHANGED <<upload, discarding, failed, mail, user, faults>>

\* The invocation is killed, or the catch block's own statement fails.
Killed(t) ==
  /\ Fault
  /\ pc[t] # "idle"
  /\ pc' = [pc EXCEPT ![t] = "idle"]
  /\ Done(t)
  /\ UNCHANGED <<draft, upload, discarding, failed, mail, user>>

----------------------------------------------------------------------------
Proceed(t) ==
  \/ Select(t) \/ Compose(t) \/ ComposeFails(t) \/ Persist(t) \/ PersistFails(t)
  \/ Attach(t) \/ AttachFails(t) \/ Deliver(t) \/ DeliverFails(t) \/ Delivered(t)
  \/ Rollback(t) \/ RollbackFails(t) \/ Finish(t) \/ DropUploads(t) \/ DropDraft(t)
  \/ LateFailure(t) \/ Retry(t) \/ Revert(t)

Next ==
  \/ BecomesDue \/ Schedule \/ Cancel \/ Edit \/ DiscardUploads \/ DiscardRow
  \/ \E t \in Ticks : Proceed(t) \/ Killed(t)

Spec == Init /\ [][Next]_vars

\* The cron fires every minute and an awaited call settles one way or the other.
FairSpec == Spec /\ WF_vars(BecomesDue) /\ \A t \in Ticks : WF_vars(Proceed(t))

----------------------------------------------------------------------------
(***************************************************************************)
(* Properties.                                                             *)
(***************************************************************************)

\* A scheduled row always carries its payload, no error and an attempt to spare,
\* whichever of the author's and the cron's writes come last (so the "corrupt"
\* branch of the dispatcher, a scheduled row without a payload, is dead code).
ScheduledIsComplete ==
  draft.sched \in {"future", "due"} =>
    draft.payload # 0 /\ draft.error = 0 /\ draft.attempts < MaxAttempts

\* No recipient gets the same payload twice.
NoDuplicateDelivery ==
  \A x \in Versions, r \in Recipients : delivered[x][r] <= 1

\* Between invocations the Sent folder tells the truth: one Sent message for a
\* payload everybody got, none for a payload nobody got.
Quiet == \A t \in Ticks : pc[t] = "idle"
SentFolderTruthful ==
  Quiet => \A x \in Versions, r \in Recipients : sentRows[x] = delivered[x][r]

\* The author is told of a failure only if the payload did not go out.
FailureIsReal ==
  draft.error # 0 => \A r \in Recipients : delivered[draft.error][r] = 0

\* Whatever fails, the draft the cron deletes was delivered to everybody.
DroppedAfterDelivery ==
  [][\A t \in Ticks : DropDraft(t) =>
       \A r \in Recipients : delivered[v(t)][r] >= 1]_vars

\* A due draft does not stay due: it is sent and deleted, cancelled, or reverted
\* after MaxAttempts failures.
DueSettles == (draft.sched = "due") ~> (draft.sched # "due")
============================================================================
