-------------------------- MODULE MCScheduledSend --------------------------
EXTENDS ScheduledSend

CONSTANTS t1, t2, r1, r2

TwoTicks == {t1, t2}
MCRecipients == {r1, r2}

----------------------------------------------------------------------------
(***************************************************************************)
(* Several invocations and failures in one instance, with a history of     *)
(* what is known to send a mail twice, so that the properties can say that *)
(* nothing else does.                                                      *)
(***************************************************************************)
VARIABLE excused  \* invocations overlapped, or something failed with somebody served

Overlap == \E t, u \in Ticks : t # u /\ pc[t] # "idle" /\ pc[u] # "idle"
Served == \E x \in Versions, r \in Recipients : delivered[x][r] > 0

\* With PGP the sends of one attempt fail one by one.
PartlyServed == Served /\ \E t \in Ticks : pc[t] # "idle" /\ failed[t]

MCInit == Init /\ excused = FALSE

MCNext ==
  /\ Next
  /\ excused' = (excused \/ Overlap' \/ PartlyServed' \/ (faults' # faults /\ Served))

mcvars == <<vars, excused>>

MCSpec == /\ MCInit /\ [][MCNext]_mcvars
          /\ WF_vars(BecomesDue) /\ \A t \in Ticks : WF_vars(Proceed(t))

\* cron.ts, mail/send.ts: while invocations do not overlap and nothing fails once
\* somebody has the mail, nobody gets it twice, whatever fails before and however the
\* author changes the draft meanwhile.
OnceUnlessExcused == ~excused => NoDuplicateDelivery

\* cron.ts, retry and revert: under the same conditions a reported failure is one.
FailureRealUnlessExcused == ~excused => FailureIsReal

\* mail/send.ts, roll back: if nothing but deliveries fails, the Sent folder of an
\* invocation that ended holds what was delivered and nothing else.
SentTruthfulUnlessExcused == ~excused /\ faults = 0 => SentFolderTruthful

\* What the author is told, by the Sent folder or by a failure, is the truth.
ReportsAreTrue == FailureRealUnlessExcused /\ SentTruthfulUnlessExcused
============================================================================
