------------------------------ MODULE Composer -------------------------------
(***************************************************************************)
(* One composer of the web client and the drafts it keeps on the server    *)
(* (apps/web/src/components/compose-dock.tsx, compose/use-draft-           *)
(* persistence.ts; apps/worker/src/api/drafts.ts).                         *)
(*                                                                         *)
(* What the form holds is one value, Blank when there is nothing worth     *)
(* keeping.  An edit arms a timer that saves it; saves run one at a time,  *)
(* the newest of the others waits in `queued`.  The mutations that send,   *)
(* schedule and delete call the server beside them.  A request may fail    *)
(* before it is handled, or lose its answer after.                         *)
(***************************************************************************)
EXTENDS Naturals, FiniteSets

CONSTANTS
    Texts,    \* what may be written
    Blank,    \* nothing
    DraftIds, \* ids of drafts on the server; also bounds how many are made
    None,
    MaxEdits, \* bound: edits
    MaxFails  \* bound: requests that fail or lose their answer

ASSUME ComposerAssumption ==
    /\ Texts # {} /\ DraftIds # {}
    /\ Blank \notin Texts /\ None \notin Texts \cup {Blank} \cup DraftIds
    /\ MaxEdits \in Nat /\ MaxFails \in Nat

VARIABLES
    form,   \* [text, first: the text it opened with, latest: what the close-flush
            \*  would save (latestRef), id (draftIdRef), saved (savedKeyRef)]
    timer,  \* the text the debounce timer will save, None when it is not armed
    queued, \* the save that waits for the one in flight
    calls,  \* requests in flight or answered
    task,   \* the mutation at work: [by, at: what it awaits, text: what it sends]
    drafts, \* the server: id -> its text and the text scheduled; ids not yet made are absent
    gone,   \* ids of deleted drafts
    outcome,\* how the composer ended
    mishaps,\* history of what the promises excuse
    bounds  \* [edits, fails] so far

composerVars == <<form, timer, queued, calls, task, drafts, gone, outcome, mishaps, bounds>>

Idle == [by |-> "none", at |-> "none", text |-> None]

Draft(text) == [text |-> text, due |-> None]

\* A new message, a reply (something is there before the user writes) or a
\* reopened draft.
ComposerInit ==
    /\ \E t \in {Blank, CHOOSE i \in Texts : TRUE}, d \in {None, CHOOSE i \in DraftIds : TRUE} :
          /\ d # None => t # Blank
          /\ form = [text |-> t, first |-> t, latest |-> t, id |-> d, saved |-> t]
          /\ drafts = [i \in {d} \ {None} |-> Draft(t)]
    /\ timer = None /\ queued = None /\ calls = {} /\ task = Idle /\ gone = {}
    /\ outcome = "editing" /\ mishaps = {} /\ bounds = [edits |-> 0, fails |-> 0]

(***************************************************************************)
(* Saving.                                                                 *)
(***************************************************************************)
Request(op, id, text, by) == [op |-> op, id |-> id, text |-> text, by |-> by, answer |-> "none"]

Saving == \E c \in calls : c.by = "save"

\* The request a save makes, if any: nothing to keep deletes the draft there is.
SaveOf(text, f) ==
    IF text # Blank THEN {Request(IF f.id = None THEN "post" ELSE "patch", f.id, text, "save")}
    ELSE IF f.id # None THEN {Request("delete", f.id, text, "save")}
    ELSE {}

\* The form once the save has begun: a draft to delete is forgotten first, and
\* a save without a request is over.
FormAfter(text, f) ==
    [f EXCEPT !.id = IF text = Blank THEN None ELSE @,
              !.saved = IF SaveOf(text, f) = {} THEN text ELSE @]

Flush(text, f, others) ==
    IF Saving THEN queued' = text /\ form' = f /\ calls' = others
    ELSE /\ form' = FormAfter(text, f)
         /\ calls' = others \cup SaveOf(text, f)
         /\ UNCHANGED queued

\* Code that awaits a microtask runs before the next event.
Listening == outcome = "editing" /\ task.at # "resume"

Overlapped == Saving \/ queued # None

Note(set) == mishaps' = mishaps \cup set

\* The effect of a change re-arms the timer unless the text is the saved one.
Armed(text) == IF text = form.saved THEN None ELSE text

Edit(text) ==
    /\ Listening /\ text # form.text /\ bounds.edits < MaxEdits
    /\ bounds' = [bounds EXCEPT !.edits = @ + 1]
    /\ form' = [form EXCEPT !.text = text, !.latest = text]
    /\ timer' = Armed(text)
    /\ Note((IF text = form.saved /\ Overlapped THEN {"undone"} ELSE {})
            \cup (IF task # Idle THEN {"edited"} ELSE {}))
    /\ UNCHANGED <<queued, calls, task, drafts, gone, outcome>>

Debounce ==
    /\ Listening /\ timer # None
    /\ timer' = None
    /\ Flush(timer, form, calls)
    /\ Note(IF task.at = "remove" THEN {"overlap"} ELSE {})
    /\ UNCHANGED <<task, drafts, gone, outcome, bounds>>

\* Mutant of Pending: closing relies on the timer.
PendingNever(f) == FALSE

\* Whether closing has an edit to save.
Pending(f) == f.latest # None /\ f.latest # f.saved

\* Unmounting saves the last edit and stops the timer.
Unmount(f, others, how) ==
    /\ IF Pending(f) THEN Flush(f.latest, [f EXCEPT !.saved = f.latest], others)
       ELSE form' = f /\ calls' = others /\ UNCHANGED queued
    /\ timer' = None
    /\ outcome' = how

\* The close button.  A mutation in flight goes on.
Close ==
    /\ Listening
    /\ Unmount(form, calls, "closed")
    /\ Note((IF task.at = "remove" THEN {"overlap"} ELSE {})
            \cup (IF ~Pending(form) /\ Overlapped THEN {"undone"} ELSE {}))
    /\ UNCHANGED <<task, drafts, gone, bounds>>

\* The tab is closed (pagehide): requests that were made may still be handled,
\* and nothing else of the composer survives.
TearDown ==
    /\ Listening
    /\ IF Pending(form) /\ ~Saving
       THEN calls' = calls \cup SaveOf(form.latest, form)
       ELSE UNCHANGED calls
    /\ outcome' = "torn" /\ task' = Idle /\ timer' = None /\ queued' = None
    /\ Note(IF Overlapped \/ task.by = "send" THEN {"cut"} ELSE {})
    /\ UNCHANGED <<form, drafts, gone, bounds>>

(***************************************************************************)
(* The server (api/drafts.ts).                                             *)
(***************************************************************************)
Answered(c, answer, id) == (calls \ {c}) \cup {[c EXCEPT !.answer = answer, !.id = id]}

Replaced(id, row) == [d \in DOMAIN drafts \cup {id} |-> IF d = id THEN row ELSE drafts[d]]

\* A draft that is not there is a 404; sending touches no draft.
Handled(c, id) ==
    CASE c.op = "post" -> drafts' = Replaced(id, Draft(c.text)) /\ UNCHANGED gone
      [] c.op = "patch" -> drafts' = Replaced(id, [drafts[id] EXCEPT !.text = c.text]) /\ UNCHANGED gone
      [] c.op = "schedule" -> drafts' = Replaced(id, [drafts[id] EXCEPT !.due = c.text]) /\ UNCHANGED gone
      [] c.op = "delete" -> /\ drafts' = [d \in DOMAIN drafts \ {id} |-> drafts[d]]
                            /\ gone' = gone \cup {id}
      [] c.op = "send" -> UNCHANGED <<drafts, gone>>

Handle(c) ==
    /\ c.answer = "none"
    /\ LET unused == DraftIds \ (DOMAIN drafts \cup gone)
           id == IF c.op = "post" THEN CHOOSE i \in unused : TRUE ELSE c.id  \* ids are alike
       IN /\ c.op = "post" => unused # {}
          /\ IF c.op \in {"post", "send"} \/ id \in DOMAIN drafts
             THEN /\ Handled(c, id)
                  /\ \/ calls' = Answered(c, "ok", id) /\ UNCHANGED <<mishaps, bounds>>
                     \/ /\ bounds.fails < MaxFails /\ bounds' = [bounds EXCEPT !.fails = @ + 1]
                        /\ calls' = Answered(c, "failed", id) /\ Note({"failed"})
             ELSE calls' = Answered(c, "failed", id) /\ Note({"failed"}) /\ UNCHANGED <<drafts, gone, bounds>>
    /\ UNCHANGED <<form, timer, queued, task, outcome>>

Fail(c) ==
    /\ c.answer = "none" /\ bounds.fails < MaxFails
    /\ bounds' = [bounds EXCEPT !.fails = @ + 1]
    /\ calls' = Answered(c, "failed", c.id) /\ Note({"failed"})
    /\ UNCHANGED <<form, timer, queued, task, drafts, gone, outcome>>

\* A torn-down page reads no answer.
Ignore(c) ==
    /\ outcome = "torn" /\ c.answer # "none"
    /\ calls' = calls \ {c}
    /\ UNCHANGED <<form, timer, queued, task, drafts, gone, outcome, mishaps, bounds>>

(***************************************************************************)
(* The composer reads the answers.                                         *)
(***************************************************************************)
Reads(c, by) == outcome # "torn" /\ c.by = by /\ c.answer # "none" /\ task.at # "resume"

Learnt(c) ==
    IF c.answer = "ok"
    THEN [form EXCEPT !.saved = c.text, !.id = IF c.op = "post" THEN c.id ELSE @]
    ELSE form

\* The save that waited begins; whoever awaited this one goes on.
SaveSettled(c) ==
    /\ Reads(c, "save")
    /\ LET rest == calls \ {c}
           f == Learnt(c)
       IN IF queued = None THEN form' = f /\ calls' = rest
          ELSE form' = FormAfter(queued, f) /\ calls' = rest \cup SaveOf(queued, f)
    /\ queued' = None
    /\ task' = IF task.at = "save" THEN [task EXCEPT !.at = "resume"] ELSE task
    /\ UNCHANGED <<timer, drafts, gone, outcome, mishaps, bounds>>

\* deleteDraft outside a save: not serialised with the saves.
Drop(by) == IF form.id = None THEN {} ELSE {Request("delete", form.id, Blank, by)}

\* Mutant of Forgets: the close-flush is not suppressed.
ForgetsNothing(f) == f

\* suppressCloseFlush.
Forgets(f) == [f EXCEPT !.latest = None]

Discard ==
    /\ Listening
    /\ Unmount(Forgets([form EXCEPT !.id = None]), calls \cup Drop("discard"), "discarded")
    /\ Note((IF Overlapped THEN {"overlap"} ELSE {}) \cup (IF task # Idle THEN {"edited"} ELSE {}))
    /\ UNCHANGED <<task, drafts, gone, bounds>>

Discarded(c) ==
    /\ Reads(c, "discard")
    /\ calls' = calls \ {c}
    /\ UNCHANGED <<form, timer, queued, task, drafts, gone, outcome, mishaps, bounds>>

Send ==
    /\ Listening /\ task = Idle /\ form.text # Blank
    /\ task' = [by |-> "send", at |-> "answer", text |-> form.text]
    /\ calls' = calls \cup {Request("send", None, form.text, "send")}
    /\ UNCHANGED <<form, timer, queued, drafts, gone, outcome, mishaps, bounds>>

\* The mutation outlives the composer: it ends the dock that is open, or none.
Finish(f, others, how) ==
    IF outcome = "editing" THEN Unmount(f, others, how)
    ELSE form' = f /\ calls' = others /\ outcome' = how /\ UNCHANGED <<timer, queued>>

\* A failed send leaves the composer as it is; a good one deletes the draft,
\* and closes once that is answered.
Sent(c) ==
    /\ Reads(c, "send")
    /\ IF c.answer = "failed"
       THEN /\ calls' = calls \ {c} /\ task' = Idle
            /\ UNCHANGED <<form, timer, queued, outcome, mishaps>>
       ELSE /\ Note(IF Overlapped THEN {"overlap"} ELSE {})
            /\ IF form.id # None
               THEN /\ calls' = (calls \ {c}) \cup Drop("sent") /\ task' = [task EXCEPT !.at = "remove"]
                    /\ form' = [form EXCEPT !.id = None]
                    /\ UNCHANGED <<timer, queued, outcome>>
               ELSE Finish(Forgets(form), calls \ {c}, "sent") /\ task' = Idle
    /\ UNCHANGED <<drafts, gone, bounds>>

SentRemoved(c) ==
    /\ Reads(c, "sent")
    /\ Finish(Forgets(form), calls \ {c}, "sent")
    /\ task' = Idle
    /\ Note(IF Overlapped THEN {"overlap"} ELSE {})
    /\ UNCHANGED <<drafts, gone, bounds>>

(***************************************************************************)
(* Scheduling and popping out save first (ensureDraftSaved), and go on     *)
(* with the id there is then.  `flush` returns at once while another save  *)
(* is in flight.                                                           *)
(***************************************************************************)
Ensured == IF Saving THEN "resume" ELSE "save"

SaveFirst(by) ==
    /\ Flush(form.text, [form EXCEPT !.saved = form.text], calls)
    /\ task' = [by |-> by, at |-> Ensured, text |-> form.text]

\* The button that schedules is off without a recipient.
Ensure(by) ==
    /\ Listening /\ task = Idle
    /\ by = "schedule" => form.text # Blank
    /\ IF form.text = Blank
       THEN /\ task' = [by |-> by, at |-> "resume", text |-> Blank]
            /\ UNCHANGED <<form, calls, queued, mishaps>>
       ELSE /\ SaveFirst(by)
            /\ Note(IF Saving THEN {"overlap"} ELSE {})
    /\ UNCHANGED <<timer, drafts, gone, outcome, bounds>>

\* The new window is given the draft, or an empty form; the dock closes.
OpenWindow ==
    /\ task.at = "resume" /\ task.by = "popOut"
    /\ task' = [task EXCEPT !.at = IF form.id = None THEN "empty" ELSE "opened"]
    /\ IF outcome = "editing" THEN Unmount(form, calls, "popped")
       ELSE UNCHANGED <<form, timer, queued, calls, outcome>>
    /\ UNCHANGED <<drafts, gone, mishaps, bounds>>

\* Without an id there is "Nothing to schedule".
RequestSchedule ==
    /\ task.at = "resume" /\ task.by = "schedule"
    /\ IF form.id = None THEN task' = Idle /\ UNCHANGED calls
       ELSE /\ task' = [task EXCEPT !.at = "answer"]
            /\ calls' = calls \cup {Request("schedule", form.id, task.text, "schedule")}
    /\ UNCHANGED <<form, timer, queued, drafts, gone, outcome, mishaps, bounds>>

Scheduled(c) ==
    /\ Reads(c, "schedule")
    /\ IF c.answer = "failed"
       THEN calls' = calls \ {c} /\ UNCHANGED <<form, timer, queued, outcome>>
       ELSE Finish(Forgets(form), calls \ {c}, "scheduled")
    /\ task' = Idle
    /\ UNCHANGED <<drafts, gone, mishaps, bounds>>

ComposerNext ==
    \/ \E t \in Texts \cup {Blank} : Edit(t)
    \/ Debounce \/ Close \/ TearDown \/ Discard \/ Send
    \/ \E by \in {"popOut", "schedule"} : Ensure(by)
    \/ OpenWindow \/ RequestSchedule
    \/ \E c \in calls :
          \/ Handle(c) \/ Fail(c) \/ Ignore(c)
          \/ SaveSettled(c) \/ Discarded(c) \/ Sent(c) \/ SentRemoved(c) \/ Scheduled(c)

ComposerSpec == ComposerInit /\ [][ComposerNext]_composerVars

(***************************************************************************)
(* What the composer promises, once nothing is in flight.                  *)
(***************************************************************************)
Settled == calls = {} /\ queued = None /\ timer = None /\ task.at # "resume"

Unless(excuses) == mishaps \cap excuses = {}

\* The drafts that are there to stay.
Kept == {d \in DOMAIN drafts : ~\E c \in calls : c.op = "delete" /\ c.id = d}

\* A composer at rest, closed, or torn down has left on the server what it
\* shows, an untouched one nothing.  Excused: a request failed; while a
\* save was in flight, the text was that of an earlier one as it was edited or
\* closed; or the tab was closed then, or while the message was being sent.
AtRestIsSaved ==
    (/\ outcome \in {"editing", "closed", "torn"} /\ Settled
     /\ Unless({"failed", "undone", "cut"}))
        => \/ \E d \in Kept : Kept = {d} /\ drafts[d].text = form.text
           \/ Kept = {} /\ form.text \in {Blank, form.first}

\* A composer makes one draft, however its saves overlap with its edits, unless
\* a request failed.
OneDraftEach == Unless({"failed"}) => Cardinality(Kept) <= 1

\* A message that was sent or discarded leaves no draft behind, unless a save
\* was in flight or waiting as its draft was deleted or made meanwhile, or a
\* request failed.
NoGhostDraft ==
    (outcome \in {"sent", "discarded"} /\ Settled /\ Unless({"failed", "overlap"})) => Kept = {}

\* The window a composer is popped out to opens the draft that holds what the
\* composer showed, unless a save was in flight, the user went on typing or a
\* request failed.
PopOutCarries ==
    (/\ task.at \in {"opened", "empty"} /\ task.text # Blank /\ Settled
     /\ Unless({"failed", "overlap", "edited"}))
        => task.at = "opened" /\ form.id \in Kept /\ drafts[form.id].text = task.text

\* The draft of a scheduled message shows what will be sent, unless the user
\* typed or discarded it while it was being scheduled, or a save was in flight.
ScheduledAsShown ==
    (outcome = "scheduled" /\ Settled /\ Unless({"failed", "edited", "overlap"}))
        => \E d \in Kept : Kept = {d} /\ drafts[d].due = drafts[d].text

\* One composer, one draft: none once it was sent or discarded, and the window it
\* pops out to and the schedule it makes mean the draft it shows.
DraftsFollowComposer == OneDraftEach /\ NoGhostDraft /\ PopOutCarries /\ ScheduledAsShown
=============================================================================
