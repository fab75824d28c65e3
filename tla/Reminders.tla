------------------------------ MODULE Reminders ------------------------------
(***************************************************************************)
(* Reminders on one thread: set by hand, or with a sent mail ("remind me   *)
(* if no reply"), snoozed and dismissed (apps/worker/src/api/reminders.ts, *)
(* mail/send.ts), cancelled by a reply (mail/receive.ts) and fired by the  *)
(* cron (cron.ts dispatchReminders).                                       *)
(*                                                                         *)
(* The cron selects what is due and handles each row on its own: mark it   *)
(* fired by its id, then notify.  Invocations may overlap or be cut off.   *)
(***************************************************************************)
EXTENDS Naturals, FiniteSets

CONSTANTS
    Reminds,   \* reminder ids
    Ticks,     \* cron invocations that may overlap
    LastTime,  \* bound: the clock stops here
    MaxArmed   \* bound: times a reminder is set or snoozed

ASSUME RemindersAssumption == LastTime \in Nat /\ MaxArmed \in Nat

VARIABLES
    time,
    reminders, \* id -> [kind, status, at], for the rows there are
    ticks,     \* invocation -> rows it has selected: id -> "mark" or "notify"
    replies,   \* deferred cancellations of replies that were stored
    story      \* id -> history, see Untold

remindVars == <<time, reminders, ticks, replies, story>>

\* armed: times set.  notified: notifications since it was last set.
\* wanted: the user has not dismissed it, nor a reply cancelled it.
\* overtaken: it was set or dismissed while an invocation held it.  shared:
\* two invocations held it at once.
Untold == [armed |-> 0, notified |-> 0, wanted |-> FALSE, overtaken |-> FALSE, shared |-> FALSE]

RemindersInit ==
    /\ time = 0 /\ reminders = <<>> /\ replies = 0
    /\ ticks = [t \in Ticks |-> <<>>]
    /\ story = [r \in Reminds |-> Untold]

Pass == time < LastTime /\ time' = time + 1 /\ UNCHANGED <<reminders, ticks, replies, story>>

Held(r) == \E t \in Ticks : r \in DOMAIN ticks[t]
Overtake(r) == story[r].overtaken \/ Held(r)

Armed(r) == [armed |-> story[r].armed + 1, notified |-> 0, wanted |-> TRUE,
             overtaken |-> Overtake(r), shared |-> story[r].shared]
Dropped(r) == [story[r] EXCEPT !.wanted = FALSE, !.overtaken = Overtake(r)]

(***************************************************************************)
(* The user.                                                               *)
(***************************************************************************)
\* POST /reminders, or the follow-up inserted after a send.
Set(r, kind, at) ==
    /\ story[r].armed = 0 /\ at > time
    /\ reminders' = [q \in DOMAIN reminders \cup {r} |->
                       IF q = r THEN [kind |-> kind, status |-> "pending", at |-> at] ELSE reminders[q]]
    /\ story' = [story EXCEPT ![r] = Armed(r)]
    /\ UNCHANGED <<time, ticks, replies>>

\* Rescheduling revives whatever the row's status is.
Snooze(r, at) ==
    /\ r \in DOMAIN reminders /\ story[r].armed < MaxArmed /\ at > time
    /\ reminders' = [reminders EXCEPT ![r].at = at, ![r].status = "pending"]
    /\ story' = [story EXCEPT ![r] = Armed(r)]
    /\ UNCHANGED <<time, ticks, replies>>

Dismiss(r) ==
    /\ r \in DOMAIN reminders
    /\ reminders' = [reminders EXCEPT ![r].status = "done"]
    /\ story' = [story EXCEPT ![r] = Dropped(r)]
    /\ UNCHANGED <<time, ticks, replies>>

DeleteReminder(r) ==
    /\ r \in DOMAIN reminders
    /\ reminders' = [q \in DOMAIN reminders \ {r} |-> reminders[q]]
    /\ story' = [story EXCEPT ![r] = Dropped(r)]
    /\ UNCHANGED <<time, ticks, replies>>

(***************************************************************************)
(* A reply is stored; its cancellation is deferred, and may be lost.       *)
(***************************************************************************)
StoreReply == replies = 0 /\ replies' = 1 /\ UNCHANGED <<time, reminders, ticks, story>>
LoseCancel == replies = 1 /\ replies' = 0 /\ UNCHANGED <<time, reminders, ticks, story>>

Silences(row) == row.kind = "follow_up" /\ row.status = "pending"

CancelFollowUps ==
    /\ replies = 1 /\ replies' = 0
    /\ reminders' = [r \in DOMAIN reminders |->
                       IF Silences(reminders[r]) THEN [reminders[r] EXCEPT !.status = "cancelled"]
                       ELSE reminders[r]]
    /\ story' = [r \in Reminds |->
                   IF /\ r \in DOMAIN reminders /\ reminders[r].kind = "follow_up"
                      /\ reminders[r].status = "pending"
                   THEN Dropped(r) ELSE story[r]]
    /\ UNCHANGED <<time, ticks>>

(***************************************************************************)
(* The cron.                                                               *)
(***************************************************************************)
Due(r) == r \in DOMAIN reminders /\ reminders[r].at <= time /\ reminders[r].status = "pending"

Select(t) ==
    LET due == {r \in Reminds : Due(r)} IN
    /\ ticks[t] = <<>> /\ due # {}
    /\ ticks' = [ticks EXCEPT ![t] = [r \in due |-> "mark"]]
    /\ story' = [r \in Reminds |-> IF r \in due /\ Held(r) THEN [story[r] EXCEPT !.shared = TRUE]
                                   ELSE story[r]]
    /\ UNCHANGED <<time, reminders, replies>>

Moves(t, r, next) ==
    ticks' = [ticks EXCEPT ![t] = IF next = "gone" THEN [q \in DOMAIN @ \ {r} |-> @[q]]
                                  ELSE [@ EXCEPT ![r] = next]]

\* Mutant of MarkFired: the row is marked once the push is out.
MarkFiredLater(r) == UNCHANGED reminders
MarkFired(r) ==
    reminders' = IF r \in DOMAIN reminders THEN [reminders EXCEPT ![r].status = "fired"]
                 ELSE reminders

Mark(t, r) ==
    /\ r \in DOMAIN ticks[t] /\ ticks[t][r] = "mark"
    /\ MarkFired(r)
    /\ Moves(t, r, "notify")
    /\ UNCHANGED <<time, replies, story>>

\* The broadcast and the push.
Notify(t, r) ==
    /\ r \in DOMAIN ticks[t] /\ ticks[t][r] = "notify"
    /\ story' = [story EXCEPT ![r].notified = @ + 1]
    /\ Moves(t, r, "gone")
    /\ UNCHANGED <<time, reminders, replies>>

CutOff(t) ==
    /\ ticks[t] # <<>>
    /\ ticks' = [ticks EXCEPT ![t] = <<>>]
    /\ UNCHANGED <<time, reminders, replies, story>>

RemindersNext ==
    \/ Pass \/ StoreReply \/ LoseCancel \/ CancelFollowUps
    \/ \E r \in Reminds :
         \/ Dismiss(r) \/ DeleteReminder(r)
         \/ \E at \in 1..LastTime : \/ Snooze(r, at)
                                    \/ \E kind \in {"manual", "follow_up"} : Set(r, kind, at)
         \/ \E t \in Ticks : Mark(t, r) \/ Notify(t, r)
    \/ \E t \in Ticks : Select(t) \/ CutOff(t)

RemindersSpec == RemindersInit /\ [][RemindersNext]_remindVars

-----------------------------------------------------------------------------
\* Nobody is notified of a reminder they dismissed or a reply settled, unless
\* the cron held the row at that moment (cron.ts:216-229).
DismissedStaysQuiet ==
    \A r \in Reminds : story'[r].notified > story[r].notified =>
        story[r].wanted \/ story[r].overtaken

\* One notification each time a reminder is set, wherever an invocation is
\* cut off; two only when two invocations held the row, or it was set again
\* under one that did (cron.ts:226-245).
NotifiedOnce ==
    \A r \in Reminds : story[r].notified <= 1 \/ story[r].shared \/ story[r].overtaken

\* A reminder somebody still wants is waiting, or its time has come: snoozing
\* and setting are not undone by a reply or by an earlier firing, unless the
\* cron held the row (reminders.ts:64-80, receive.ts:297-309).
WantedIsPending ==
    \A r \in Reminds :
        story[r].wanted => \/ reminders[r].status = "pending"
                           \/ reminders[r].status = "fired" /\ reminders[r].at <= time
                           \/ story[r].overtaken

\* A reminder fires once, if it is still wanted, and does not get lost.
RemindersHold == [][DismissedStaysQuiet /\ NotifiedOnce' /\ WantedIsPending']_remindVars
=============================================================================
