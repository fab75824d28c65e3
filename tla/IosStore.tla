------------------------------ MODULE IosStore ------------------------------
(***************************************************************************)
(* The thread list of the iOS app: the place on show, the pages loaded of  *)
(* it, the loads in flight and the flags they share, and the moves that    *)
(* leave the list before the server has answered                           *)
(* (apps/ios/CFMail/Core/Store/MailStore.swift).                           *)
(*                                                                         *)
(* Threads are numbered by their last message, and a page is the next of   *)
(* them below a cursor.  The inbox and the trash stand for all the views.  *)
(* The store lives on the main actor: a step is what runs between two      *)
(* awaits.  Labels are only awaited, and the badges are left out.          *)
(***************************************************************************)
EXTENDS Naturals, FiniteSets, Sequences, SequencesExt

CONSTANTS
    Conversations, \* 1..n, the newest last
    PageSize,
    MaxPages,      \* pages a narrow category may pull in
    MaxTaps,       \* bound: what the user does, and arrivals
    MaxFaults      \* bound: requests that fail, and events that are lost

ASSUME IosAssumption ==
    /\ IsFiniteSet(Conversations) /\ Conversations = 1..Cardinality(Conversations)
    /\ {PageSize, MaxPages} \subseteq Nat \ {0} /\ {MaxTaps, MaxFaults} \subseteq Nat

VARIABLES
    home,    \* the server: where each thread is
    place,   \* scope and view
    rows,    \* threads, in the order shown
    cursor,  \* nextCursor, 0 for none
    flags,   \* [list, more]: isLoadingList and isLoadingMore
    loads,   \* performLoads in flight
    moves,   \* moves and deletes in flight
    offer,   \* the undo on show
    due,     \* a reload is asked for: by a selection, a failure or the debounce
    excuses, \* history: what a list that differs is excused by
    used     \* [taps, faults] so far

iosVars == <<home, place, rows, cursor, flags, loads, moves, offer, due, excuses, used>>

Views == {"inbox", "trash"}
Top == 1 + Cardinality(Conversations)
NoOffer == [ids |-> {}, to |-> "none"]

Tap == used.taps < MaxTaps /\ used' = [used EXCEPT !.taps = @ + 1]
Fault == used.faults < MaxFaults /\ used' = [used EXCEPT !.faults = @ + 1]

(***************************************************************************)
(* GET /threads.                                                           *)
(***************************************************************************)
Listed(p, c) == {t \in Conversations : home[t] = p /\ t < c}

\* Numbers, the greatest first; the k-th has k - 1 above it.
Descending(S) == [k \in 1..Cardinality(S) |-> CHOOSE t \in S : Cardinality({s \in S : s > t}) = k - 1]

Page(p, c) ==
    LET below == Descending(Listed(p, c))
    IN SubSeq(below, 1, IF Len(below) < PageSize THEN Len(below) ELSE PageSize)

\* A page that is not full has none after it.
NextCursor(page) == IF Len(page) < PageSize THEN 0 ELSE page[Len(page)]

IosInit ==
    /\ home \in [Conversations -> Views \cup {"coming"}]
    /\ \A t \in Conversations : home[t] = "coming" => t + 1 = Top
    /\ place = "inbox" /\ rows = Page(place, Top) /\ cursor = NextCursor(rows)
    /\ flags = [list |-> FALSE, more |-> FALSE]
    /\ loads = {} /\ moves = {} /\ offer = NoOffer /\ due = FALSE /\ excuses = {}
    /\ used = [taps |-> 0, faults |-> 0]

(***************************************************************************)
(* performLoad: the latest to start owns the flags, and only the owner     *)
(* puts them down.                                                         *)
(***************************************************************************)
Load(kind, slot, c, left) ==
    [kind |-> kind, slot |-> slot, place |-> place, cursor |-> c, left |-> left,
     stage |-> "asked", answer |-> <<>>, owner |-> TRUE, missed |-> {}]

Disowned(ls) == {[l EXCEPT !.owner = FALSE] : l \in ls}

\* Mutant of Outlasting: the load of the list before goes on.
AllGoOn(ls) == ls

\* loadList cancels the list's load before, never a page's.
Outlasting(ls) == {l \in ls : l.kind # "list"}

Reload ==
    /\ due /\ due' = FALSE
    /\ loads' = Disowned(Outlasting(loads)) \cup {Load("list", 0, Top, 0)}
    /\ flags' = [flags EXCEPT !.list = TRUE]
    /\ UNCHANGED <<home, place, rows, cursor, moves, offer, excuses, used>>

\* A page is asked for, unless one is already on its way: the token is taken from it then.
Paging(ls, fs, es, kind, slot, left) ==
    IF fs.more
    THEN /\ loads' = Disowned(ls) /\ flags' = fs /\ excuses' = es \cup {"collided"}
    ELSE /\ loads' = Disowned(ls) \cup {Load(kind, slot, cursor, left)}
         /\ flags' = [fs EXCEPT !.more = TRUE] /\ excuses' = es

\* Tells loads that are alike apart.
FreeSlot == Min((1..Cardinality(loads) + 1) \ {l.slot : l \in loads})

\* loadMoreIfNeeded, by a row near the end.
Scroll ==
    /\ Tap /\ cursor # 0 /\ ~flags.more /\ ~flags.list
    /\ Paging(loads, flags, excuses, "row", FreeSlot, 0)
    /\ UNCHANGED <<home, place, rows, cursor, moves, offer, due>>

\* Another category tab: pages are pulled in until enough of it shows.
PickCategory ==
    /\ Tap /\ cursor # 0
    /\ Paging(loads, flags, excuses, "fill", FreeSlot, MaxPages - 1)
    /\ UNCHANGED <<home, place, rows, cursor, moves, offer, due>>

Answer(l) ==
    /\ l.stage = "asked"
    /\ loads' = (loads \ {l}) \cup {[l EXCEPT !.stage = "answered", !.answer = Page(l.place, l.cursor)]}
    /\ UNCHANGED <<home, place, rows, cursor, flags, moves, offer, due, excuses, used>>

\* A page of another list, or of a part the list no longer ends with.
Stale(l) == l.place # place \/ l.cursor # cursor

\* The answer is shown, and its labels are awaited.
Land(l) ==
    /\ l.stage = "answered"
    /\ loads' = (loads \ {l}) \cup {[l EXCEPT !.stage = "labels"]}
    /\ cursor' = NextCursor(l.answer)
    /\ IF l.kind = "list"
       THEN rows' = l.answer /\ excuses' = (excuses \cap {"collided"}) \cup l.missed
       ELSE /\ rows' = rows \o l.answer
            /\ excuses' = excuses \cup l.missed \cup (IF Stale(l) THEN {"stale"} ELSE {})
    /\ UNCHANGED <<home, place, flags, moves, offer, due, used>>

\* The end of a load; a fill may go on with the next page.
End(l, again, es) ==
    LET rest  == loads \ {l}
        fs    == IF l.owner THEN [list |-> FALSE, more |-> FALSE] ELSE flags
        still == IF l.owner THEN es \ {"collided"} ELSE es
    IN IF again
       THEN l.kind = "fill" /\ l.left > 0 /\ cursor # 0 /\ Paging(rest, fs, still, "fill", l.slot, l.left - 1)
       ELSE loads' = rest /\ flags' = fs /\ excuses' = still

Labelled(l, again) ==
    /\ l.stage = "labels" /\ End(l, again, excuses)
    /\ UNCHANGED <<home, place, rows, cursor, moves, offer, due, used>>

LoadFails(l, again) ==
    /\ l.stage = "asked" /\ Fault
    /\ End(l, again, IF l.kind = "list" THEN excuses \cup {"failed"} ELSE excuses)
    /\ UNCHANGED <<home, place, rows, cursor, moves, offer, due>>

\* The row that asked leaves the screen, and its task with it.
RowLeaves(l) ==
    /\ l.kind = "row" /\ l.stage # "labels" /\ End(l, FALSE, excuses)
    /\ UNCHANGED <<home, place, rows, cursor, moves, offer, due, used>>

(***************************************************************************)
(* The place on show.                                                      *)
(***************************************************************************)
\* The rows go at once, and with them the loads they asked for.
Select(p) ==
    /\ Tap /\ p # place
    /\ place' = p /\ rows' = <<>> /\ cursor' = 0 /\ due' = TRUE
    /\ loads' = {l \in loads : l.kind # "row" \/ l.stage = "labels"}
    /\ flags' = IF \E l \in loads \ loads' : l.owner THEN [list |-> FALSE, more |-> FALSE] ELSE flags
    /\ UNCHANGED <<home, moves, offer, excuses>>

\* Pulling the list down, or returning to the app.
Refresh ==
    /\ Tap /\ ~due /\ due' = TRUE
    /\ UNCHANGED <<home, place, rows, cursor, flags, loads, moves, offer, excuses>>

(***************************************************************************)
(* Moves: gone from the list at once, one request per thread.              *)
(***************************************************************************)
Targets == [trash |-> "inbox", restore |-> "trash", delete |-> "trash"]  \* where each is offered
Homes == [trash |-> "trash", restore |-> "inbox", delete |-> "gone"]

\* A single trash or restore can be undone, and a trash of many.
Undoing(m) == IF m.kind = "trash" \/ (m.kind = "restore" /\ Cardinality(m.ids) = 1)
              THEN [ids |-> m.ids, to |-> Targets[m.kind]] ELSE NoOffer

\* What stays of a list, in its order.
Spared(list, ids) ==
    LET kept == Descending({i \in DOMAIN list : list[i] \notin ids})
    IN [k \in DOMAIN kept |-> list[kept[Len(kept) + 1 - k]]]

Act(kind, ids) ==
    /\ Tap /\ place = Targets[kind] /\ ids # {} /\ ids \subseteq Range(rows)
    /\ rows' = Spared(rows, ids)
    /\ moves' = moves \cup {[number |-> used.taps, kind |-> kind, to |-> Homes[kind], ids |-> ids, todo |-> ids]}
    /\ UNCHANGED <<home, place, cursor, flags, loads, offer, due, excuses>>

Undo ==
    /\ Tap /\ offer # NoOffer /\ offer' = NoOffer
    /\ moves' = moves \cup {[number |-> used.taps, kind |-> "undo", to |-> offer.to,
                             ids |-> offer.ids, todo |-> offer.ids]}
    /\ UNCHANGED <<home, place, rows, cursor, flags, loads, due, excuses>>

\* What was read before the server changed t is no longer what it has.
Outruns(t, from, to, p, list) == p = to \/ (p = from /\ t \in Range(list))

\* PATCH or DELETE, in the order of the selection.  Neither is announced.
MoveOne(m) ==
    \E t \in m.todo :
        /\ home[t] # "gone"
        /\ home' = [home EXCEPT ![t] = m.to]
        /\ moves' = (moves \ {m}) \cup {[m EXCEPT !.todo = @ \ {t}]}
        /\ excuses' = IF home[t] # m.to /\ Outruns(t, home[t], m.to, place, rows)
                      THEN excuses \cup {"outrun"} ELSE excuses
        /\ loads' = {IF /\ l.stage = "answered" /\ home[t] # m.to
                        /\ Outruns(t, home[t], m.to, l.place, l.answer)
                     THEN [l EXCEPT !.missed = @ \cup {"outrun"}] ELSE l : l \in loads}
        /\ UNCHANGED <<place, rows, cursor, flags, offer, due, used>>

\* Only an undo loads the list again: a move is taken to be as it shows.
Moved(m) ==
    /\ m.todo = {} /\ moves' = moves \ {m}
    /\ IF m.kind = "undo" THEN due' = TRUE /\ UNCHANGED offer ELSE offer' = Undoing(m) /\ UNCHANGED due
    /\ UNCHANGED <<home, place, rows, cursor, flags, loads, excuses, used>>

\* A move that failed puts the list back by loading it; an undo does not.
AfterFailure(m) == due \/ m.kind # "undo"

\* A thread that is gone cannot be moved.  An undo of several goes on past one that fails.
MoveFails(m) ==
    /\ \E t \in m.todo :
        /\ IF home[t] = "gone" THEN UNCHANGED used ELSE Fault
        /\ moves' = (moves \ {m}) \cup
               (IF m.kind = "undo" /\ Cardinality(m.ids) > 1 THEN {[m EXCEPT !.todo = @ \ {t}]} ELSE {})
    /\ due' = AfterFailure(m)
    /\ UNCHANGED <<home, place, rows, cursor, flags, loads, offer, excuses>>

(***************************************************************************)
(* Events.                                                                 *)
(***************************************************************************)
\* New mail, whose event asks for a reload; or is lost, and nothing makes up for it.
Receive(t, lost) ==
    /\ home[t] = "coming" /\ home' = [home EXCEPT ![t] = "inbox"]
    /\ IF lost
       THEN /\ Fault /\ UNCHANGED due
            /\ excuses' = IF place = "inbox" THEN excuses \cup {"lost"} ELSE excuses
            /\ loads' = {IF l.stage = "answered" /\ l.place = "inbox"
                         THEN [l EXCEPT !.missed = @ \cup {"lost"}] ELSE l : l \in loads}
       ELSE due' = TRUE /\ UNCHANGED <<excuses, loads, used>>
    /\ UNCHANGED <<place, rows, cursor, flags, moves, offer>>

IosNext ==
    \/ Reload \/ Scroll \/ PickCategory \/ Refresh \/ Undo
    \/ \E l \in loads : Answer(l) \/ Land(l) \/ RowLeaves(l)
    \/ \E l \in loads, again \in BOOLEAN : Labelled(l, again) \/ LoadFails(l, again)
    \/ \E p \in Views : Select(p)
    \/ \E kind \in DOMAIN Targets, ids \in SUBSET Conversations : Act(kind, ids)
    \/ \E m \in moves : MoveOne(m) \/ Moved(m) \/ MoveFails(m)
    \/ \E t \in Conversations, lost \in BOOLEAN : Receive(t, lost)

IosSpec == IosInit /\ [][IosNext]_iosVars

(***************************************************************************)
(* What the list promises once nothing is on its way.                      *)
(***************************************************************************)
AtEase == ~due /\ loads = {} /\ moves = {}

\* All of them once, the newest first.
Shows(list, some) == Range(list) = some /\ \A i, j \in DOMAIN list : i < j => list[i] > list[j]

\* Whatever order reloads, pages, moves, undos and their failures came in, the
\* list ends as the server's, from its top down to the cursor, without gaps or
\* doubles, and the spinners are off.  Excused until the next reload are an
\* event lost, a reload that failed, a page that came to another list than it
\* was asked for, and a thread moved while the list that has it was on its way;
\* the spinners are excused once two fills have collided.
IosListSettles ==
    AtEase =>
        /\ "collided" \in excuses \/ flags = [list |-> FALSE, more |-> FALSE]
        /\ excuses \subseteq {"collided"} =>
               Shows(rows, {t \in Conversations : home[t] = place /\ t >= cursor})

------------------------------------------------------------------------------
(***************************************************************************)
(* The compose sheet of the iOS app and the drafts it keeps on the server  *)
(* (apps/ios/CFMail/Features/Compose/ComposeModel.swift, ComposeView.swift; *)
(* apps/worker/src/api/drafts.ts).                                         *)
(*                                                                         *)
(* What is written is one value, Empty when there is nothing worth         *)
(* keeping.  A change starts the autosave over: cancelling it in the       *)
(* middle of its request leaves the request to nobody, and it may still    *)
(* be handled.  Saves are not serialised: the menu, the prompt and the     *)
(* schedule save beside the autosave.                                      *)
(***************************************************************************)

CONSTANTS
    Wordings,   \* what may be written
    Empty,      \* nothing
    Copies,     \* ids of drafts on the server; also bounds how many are made
    NoCopy,
    MaxStrokes, \* bound: what the user does
    MaxDrops    \* bound: requests that fail or lose their answer

ASSUME IosComposerAssumption ==
    /\ Empty \notin Wordings /\ Wordings # {} /\ NoCopy \notin Copies /\ Copies # {}
    /\ MaxStrokes \in Nat /\ MaxDrops \in Nat

VARIABLES
    sheet,    \* [text, first: the text it opened with, id: draftId, closed: isClosed,
              \*  sending: isSending, ended: how it left the screen]
    autosave, \* saveTask: idle, sleeping, or saving
    requests, \* in flight or answered
    copies,   \* the server: the drafts there are
    made,     \* ids of all drafts there ever were
    pardons,  \* history of what the promise excuses
    strokes   \* [taps, drops] so far

sheetVars == <<sheet, autosave, requests, copies, made, pardons, strokes>>

Stroke == strokes.taps < MaxStrokes /\ strokes' = [strokes EXCEPT !.taps = @ + 1]
Copy(id, text, number) == [id |-> id, text |-> text, number |-> number, due |-> Empty]

\* A new message, a reply with its quote, or a reopened draft.
SheetInit ==
    /\ \E t \in {Empty, CHOOSE w \in Wordings : TRUE}, id \in {NoCopy, CHOOSE i \in Copies : TRUE} :
        /\ id # NoCopy => t # Empty
        /\ sheet = [text |-> t, first |-> t, id |-> id, closed |-> FALSE, sending |-> FALSE, ended |-> "no"]
        /\ copies = IF id = NoCopy THEN {} ELSE {Copy(id, t, 0)}
    /\ made = {c.id : c \in copies}
    /\ autosave = "idle" /\ requests = {} /\ pardons = {}
    /\ strokes = [taps |-> 0, drops |-> 0]

(***************************************************************************)
(* Requests.  A request is newer the more was done before it.              *)
(***************************************************************************)
Ask(op, id, text, by) ==
    [op |-> op, id |-> id, text |-> text, by |-> by, answer |-> "none", number |-> strokes.taps]

Savers == {"autosave", "menu", "prompt", "schedule"}

CanSave(s) == ~s.closed /\ s.text # Empty

Save(by) == Ask(IF sheet.id = NoCopy THEN "post" ELSE "patch", sheet.id, sheet.text, by)

\* Two saves that both make a draft.
Twice(by) == IF sheet.id = NoCopy /\ \E r \in requests : r.op = "post" /\ r.by \notin {by, "nobody"}
             THEN {"twice"} ELSE {}

\* saveTask.cancel(): what the autosave has asked for is no longer waited for,
\* and an answer on its way is dropped.
Abandoned(rs) ==
    {r \in rs : r.by # "autosave"}
    \cup {[r EXCEPT !.by = "nobody"] : r \in {s \in rs : s.by = "autosave" /\ s.answer = "none"}}

\* A draft was made whose id was in that answer.
Orphaned(rs) == IF \E r \in rs : r.by = "autosave" /\ r.op = "post" /\ r.answer = "ok" THEN {"orphan"} ELSE {}

(***************************************************************************)
(* The server (api/drafts.ts).  A draft that is gone is a 404.             *)
(***************************************************************************)
\* What a request leaves behind; sending touches no draft.
After(r, id) ==
    LET others == {c \in copies : c.id # id}
        mine == copies \ others
    IN CASE r.op = "post" -> copies \cup {Copy(id, r.text, r.number)}
         [] r.op = "patch" -> others \cup {[c EXCEPT !.text = r.text, !.number = r.number] : c \in mine}
         [] r.op = "plan" -> others \cup {[c EXCEPT !.due = r.text] : c \in mine}
         [] r.op = "delete" -> others
         [] r.op = "send" -> copies

\* A draft nobody waits for, and an old text that comes after a newer one.
Mishap(r, id) ==
    (IF r.op = "post" /\ r.by = "nobody" THEN {"orphan"} ELSE {})
    \cup (IF r.op = "patch" /\ \E c \in copies : c.id = id /\ c.number > r.number THEN {"late"} ELSE {})

Settle(r, id, answer) ==
    (requests \ {r}) \cup (IF r.by = "nobody" THEN {} ELSE {[r EXCEPT !.id = id, !.answer = answer]})

NewCopy == CHOOSE id \in Copies : id \notin made  \* ids are alike

Serve(r) ==
    /\ r.answer = "none"
    /\ r.op = "post" => made # Copies
    /\ \E lost \in BOOLEAN :
        /\ lost => r.by # "nobody" /\ strokes.drops < MaxDrops
        /\ LET id == IF r.op = "post" THEN NewCopy ELSE r.id
               there == r.op \in {"post", "send"} \/ \E c \in copies : c.id = id
           IN /\ copies' = IF there THEN After(r, id) ELSE copies
              /\ made' = IF r.op = "post" THEN made \cup {id} ELSE made
              /\ requests' = Settle(r, id, IF there /\ ~lost THEN "ok" ELSE "failed")
              /\ pardons' = pardons \cup Mishap(r, id) \cup (IF there /\ ~lost THEN {} ELSE {"failed"})
        /\ strokes' = [strokes EXCEPT !.drops = IF lost THEN @ + 1 ELSE @]
    /\ UNCHANGED <<sheet, autosave>>

\* Fails before it is handled; what nobody waits for may just as well never arrive.
Refuse(r) ==
    /\ r.answer = "none"
    /\ requests' = Settle(r, r.id, "failed")
    /\ IF r.by = "nobody" THEN UNCHANGED strokes
       ELSE strokes.drops < MaxDrops /\ strokes' = [strokes EXCEPT !.drops = @ + 1]
    /\ pardons' = IF r.by = "nobody" /\ r.op # "delete" THEN pardons ELSE pardons \cup {"failed"}
    /\ UNCHANGED <<sheet, autosave, copies, made>>

(***************************************************************************)
(* Writing and saving.                                                     *)
(***************************************************************************)
OnScreen == sheet.ended = "no"

\* The user goes on while the sheet is about to close.
More == IF sheet.sending \/ sheet.closed \/ \E r \in requests : r.by = "prompt" THEN {"more"} ELSE {}

Write(text) ==
    /\ OnScreen /\ Stroke /\ text # sheet.text
    /\ sheet' = [sheet EXCEPT !.text = text]
    /\ autosave' = "sleeping" /\ requests' = Abandoned(requests)
    /\ pardons' = pardons \cup More \cup Orphaned(requests)
    /\ UNCHANGED <<copies, made>>

\* Two seconds after the last change.
Wake ==
    /\ autosave = "sleeping"
    /\ autosave' = IF CanSave(sheet) THEN "saving" ELSE "idle"
    /\ requests' = IF CanSave(sheet) THEN requests \cup {Save("autosave")} ELSE requests
    /\ pardons' = IF CanSave(sheet) THEN pardons \cup Twice("autosave") ELSE pardons
    /\ UNCHANGED <<sheet, copies, made, strokes>>

\* Save Draft in the menu, or in the prompt of Cancel, which closes the sheet after it.
SaveDraft(by) ==
    /\ OnScreen /\ Stroke /\ CanSave(sheet) /\ ~\E r \in requests : r.by = by
    /\ requests' = requests \cup {Save(by)}
    /\ pardons' = pardons \cup Twice(by) \cup (IF by = "prompt" THEN More ELSE {})
    /\ UNCHANGED <<sheet, autosave, copies, made>>

\* Leaving the screen lets go of a debounce that sleeps.
Leave(s, how) ==
    IF s.ended # "no" THEN sheet' = s /\ UNCHANGED autosave
    ELSE /\ sheet' = [s EXCEPT !.ended = how]
         /\ autosave' = IF autosave = "sleeping" THEN "idle" ELSE autosave

\* Whoever saved goes on.
GoOn(by, s, rest, ok) ==
    CASE by = "autosave" -> sheet' = s /\ autosave' = "idle" /\ requests' = rest
      [] by = "menu" -> sheet' = s /\ requests' = rest /\ UNCHANGED autosave
      [] by = "prompt" -> Leave(s, "kept") /\ requests' = rest
      [] by = "schedule" ->
            /\ sheet' = [s EXCEPT !.sending = ok /\ s.id # NoCopy]
            /\ requests' = IF ok /\ s.id # NoCopy THEN rest \cup {Ask("plan", s.id, s.text, "plan")} ELSE rest
            /\ UNCHANGED autosave

\* Mutant of Resurrects: a draft that was made after the end stays.
ResurrectsAny(r) == FALSE

\* "Sent or discarded while this save was on the wire."
Resurrects(r) == r.op = "post" /\ r.answer = "ok" /\ sheet.closed

Saved(r) ==
    /\ r.by \in Savers /\ r.answer # "none"
    /\ LET rest == requests \ {r}
       IN IF Resurrects(r)
          THEN requests' = rest \cup {Ask("delete", r.id, Empty, r.by)} /\ UNCHANGED <<sheet, autosave>>
          ELSE GoOn(r.by, IF r.op = "post" /\ r.answer = "ok" THEN [sheet EXCEPT !.id = r.id] ELSE sheet, rest,
                    r.op # "delete" /\ r.answer = "ok")
    /\ UNCHANGED <<copies, made, pardons, strokes>>

(***************************************************************************)
(* Sending, scheduling, discarding.                                        *)
(***************************************************************************)
Dispatch ==
    /\ OnScreen /\ Stroke /\ ~sheet.sending /\ sheet.text # Empty
    /\ sheet' = [sheet EXCEPT !.sending = TRUE]
    /\ autosave' = "idle"
    /\ requests' = Abandoned(requests) \cup {Ask("send", NoCopy, sheet.text, "send")}
    /\ pardons' = pardons \cup More \cup Orphaned(requests)
    /\ UNCHANGED <<copies, made>>

\* A message that went takes its draft along, and the sheet closes after.
Dispatched(r) ==
    /\ r.by = "send" /\ r.answer # "none"
    /\ IF r.op = "send" /\ r.answer = "ok" /\ sheet.id # NoCopy
       THEN /\ sheet' = [sheet EXCEPT !.closed = TRUE]
            /\ requests' = (requests \ {r}) \cup {Ask("delete", sheet.id, Empty, "send")}
            /\ UNCHANGED autosave
       ELSE /\ requests' = requests \ {r}
            /\ IF r.op = "send" /\ r.answer = "failed"
               THEN sheet' = [sheet EXCEPT !.sending = FALSE] /\ UNCHANGED autosave
               ELSE Leave([sheet EXCEPT !.closed = TRUE, !.sending = FALSE], "sent")
    /\ UNCHANGED <<copies, made, pardons, strokes>>

Plan ==
    /\ OnScreen /\ Stroke /\ ~sheet.sending /\ CanSave(sheet)
    /\ sheet' = [sheet EXCEPT !.sending = TRUE]
    /\ requests' = requests \cup {Save("schedule")}
    /\ pardons' = pardons \cup Twice("schedule") \cup More
    /\ UNCHANGED <<autosave, copies, made>>

Planned(r) ==
    /\ r.by = "plan" /\ r.answer # "none"
    /\ requests' = requests \ {r}
    /\ IF r.answer = "ok" THEN Leave([sheet EXCEPT !.closed = TRUE, !.sending = FALSE], "scheduled")
       ELSE sheet' = [sheet EXCEPT !.sending = FALSE] /\ UNCHANGED autosave
    /\ UNCHANGED <<copies, made, pardons, strokes>>

\* Delete Draft in the prompt, or Cancel when nothing is left of a draft that was saved.
DiscardSheet ==
    /\ OnScreen /\ Stroke /\ (sheet.text # Empty \/ sheet.id # NoCopy)
    /\ ~\E r \in requests : r.by = "discard"
    /\ pardons' = pardons \cup More \cup Orphaned(requests)
    /\ IF sheet.id = NoCopy
       THEN /\ sheet' = [sheet EXCEPT !.closed = TRUE, !.ended = "discarded"]
            /\ requests' = Abandoned(requests)
       ELSE /\ sheet' = [sheet EXCEPT !.closed = TRUE]
            /\ requests' = Abandoned(requests) \cup {Ask("delete", sheet.id, Empty, "discard")}
    /\ autosave' = "idle"
    /\ UNCHANGED <<copies, made>>

Discarding(r) ==
    /\ r.by = "discard" /\ r.answer # "none"
    /\ requests' = requests \ {r}
    /\ Leave(IF r.answer = "ok" THEN [sheet EXCEPT !.id = NoCopy] ELSE sheet, "discarded")
    /\ UNCHANGED <<copies, made, pardons, strokes>>

\* Cancel, or a swipe, with nothing written and no draft known.
CloseEmpty ==
    /\ OnScreen /\ sheet.text = Empty /\ sheet.id = NoCopy
    /\ Leave(sheet, "empty")
    /\ UNCHANGED <<requests, copies, made, pardons, strokes>>

SheetNext ==
    \/ \E t \in Wordings \cup {Empty} : Write(t)
    \/ Wake \/ Dispatch \/ Plan \/ DiscardSheet \/ CloseEmpty
    \/ \E by \in {"menu", "prompt"} : SaveDraft(by)
    \/ \E r \in requests :
        Serve(r) \/ Refuse(r) \/ Saved(r) \/ Dispatched(r) \/ Planned(r) \/ Discarding(r)

SheetSpec == SheetInit /\ [][SheetNext]_sheetVars

(***************************************************************************)
(* What the sheet promises once nothing is on its way.                     *)
(***************************************************************************)
AllQuiet == requests = {} /\ autosave = "idle"

Pardoned(set) == pardons \cap set # {}

\* Kept open or kept as a draft, the sheet has one draft that holds what it
\* shows; sent or discarded, it has none; scheduled, one, due as it shows.
\* Excused: a request that failed, a draft made for an autosave that was
\* cancelled meanwhile, two saves at once that both made a draft, an old save
\* handled after a newer one, and, for what is kept or due, writing on while
\* the sheet was about to close.
IosSheetKeepsOne ==
    AllQuiet /\ ~Pardoned({"failed", "orphan", "twice"}) =>
        /\ Cardinality(copies) <= 1
        /\ sheet.ended \in {"sent", "discarded"} => copies = {}
        /\ sheet.ended \in {"no", "kept"} /\ sheet.text # Empty /\ ~Pardoned({"late", "more"}) =>
              \/ \E c \in copies : c.text = sheet.text
              \/ copies = {} /\ sheet.text = sheet.first
        /\ sheet.ended = "scheduled" /\ ~Pardoned({"late", "more"}) =>
              \E c \in copies : c.due = sheet.text /\ c.text = sheet.text
=============================================================================
