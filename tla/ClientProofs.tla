---------------------------- MODULE ClientProofs -----------------------------
(***************************************************************************)
(* What the clients promise, for every value of the constants.             *)
(***************************************************************************)
EXTENDS RealtimeView, IosStore, Composer, FiniteSetTheorems, FunctionTheorems, TLAPS

(***************************************************************************)
(* The cached lists.  A refresh of a query is still to come while an event *)
(* is on the stream, the coalescer's timer runs or a mutation has not      *)
(* settled; without any, the query has what the server has or is marked,   *)
(* and so does the answer that is on its way to it.                        *)
(***************************************************************************)

\* The mutation will refresh q, or tell the stream of every change it makes.
Refreshes(a, q) == ~a.settled /\ (q # Own \/ a.root = Own \/ a.kind = "trash")

Outstanding(q) == events # <<>> \/ pending \/ \E a \in acts : Refreshes(a, q)

Current(q) ==
    /\ cache[q] = Truth(q) \/ q \in invalid
    /\ fetches[q].at = "answered" => fetches[q].data = Truth(q)

EventsSeq == Seq([kind : {"new_message", "thread_read"}, thread : Threads])

ViewShape ==
    /\ cache = [q \in Queries |-> cache[q]]
    /\ fetches = [q \in Queries |-> fetches[q]]
    /\ mounted \in Lists
    /\ events \in EventsSeq
    /\ pending \in BOOLEAN
    /\ \A a \in acts : a.root \in Lists /\ a.settled \in BOOLEAN /\ a.kind \in {"trash", "read"}

ViewInv ==
    /\ ViewShape
    /\ ~Lost({"stream", "early", "outrun"}) =>
          /\ \A a \in acts : a.settled => a.todo = {}
          /\ \A q \in Queries \ (IF Lost({"aside"}) THEN {Own} ELSE {}) : Outstanding(q) \/ Current(q)

Excusing == {"stream", "early", "outrun"}

\* What the server has only changes with the server.
LEMMA TruthStays == ASSUME UNCHANGED server PROVE \A q : Truth(q)' = Truth(q)
BY DEF Truth

\* A query is marked by an invalidation, and no answer that was on its way to it
\* is taken for the server's, unless it outruns the mark.
LEMMA Marked ==
    ASSUME ViewShape, NEW qs \in SUBSET Queries, Invalidated(qs), NEW q \in Queries
    PROVE /\ fetches' = [p \in Queries |-> fetches'[p]]
          /\ q \in qs /\ Outrun(qs) = {} => q \in invalid' /\ fetches'[q].at # "answered"
          /\ q \notin qs => fetches'[q] = fetches[q] /\ (q \in invalid' <=> q \in invalid)
BY DEF ViewShape, Invalidated, Outrun, Busy, Begun, At

\* Another event on the stream.
LEMMA Appended ==
    ASSUME ViewShape, NEW kind \in {"new_message", "thread_read"}, NEW t \in Threads, Broadcast(kind, t)
    PROVE events' \in EventsSeq /\ events' # <<>>
<1>1. Event(kind, t) \in [kind : {"new_message", "thread_read"}, thread : Threads]
    BY DEF Event
<1>2. events \in Seq([kind : {"new_message", "thread_read"}, thread : Threads])
    BY DEF ViewShape, EventsSeq
<1> QED BY <1>1, <1>2 DEF Broadcast, EventsSeq

LEMMA ViewInitInv == ViewInit => ViewInv
<1> SUFFICES ASSUME ViewInit PROVE ViewInv
    OBVIOUS
<1>1. ViewShape
    <2>1. /\ cache = [q \in Queries |-> cache[q]] /\ fetches = [q \in Queries |-> fetches[q]]
        BY DEF ViewInit
    <2>2. events \in EventsSeq
        BY DEF ViewInit, EventsSeq
    <2> QED BY <2>1, <2>2 DEF ViewInit, ViewShape
<1>2. \A q \in Queries : Current(q)
    BY DEF ViewInit, Current
<1> QED BY <1>1, <1>2 DEF ViewInit, ViewInv

\* Fetches.
LEMMA FetchKeepsView ==
    ASSUME ViewInv, NEW q \in Queries, FetchRead(q) \/ FetchArrives(q) \/ FetchFails(q)
    PROVE ViewInv'
<1> USE DEF ViewInv, ViewShape
<1>0. /\ events' = events /\ pending' = pending /\ acts' = acts /\ missed' = missed /\ server' = server
      /\ mounted' = mounted
    BY DEF FetchRead, FetchArrives, FetchFails
<1>1. ViewShape'
    BY <1>0 DEF FetchRead, FetchArrives, FetchFails, At
<1>2. \A p \in Queries : Truth(p)' = Truth(p) /\ (Outstanding(p)' <=> Outstanding(p))
    BY <1>0, TruthStays DEF Outstanding, Refreshes
<1>3. ASSUME NEW p \in Queries, Current(p) PROVE Current(p)'
    BY <1>2, <1>3 DEF Current, FetchRead, FetchArrives, FetchFails, At
<1> QED BY <1>0, <1>1, <1>2, <1>3 DEF Lost

\* What the user visits.
LEMMA VisitKeepsView ==
    ASSUME ViewInv, NEW q \in Lists, NEW aged \in BOOLEAN, Visit(q, aged) PROVE ViewInv'
<1> USE DEF ViewInv, ViewShape
<1>0. /\ events' = events /\ pending' = pending /\ acts' = acts /\ missed' = missed /\ server' = server
      /\ cache' = cache /\ invalid' = invalid
    BY DEF Visit
<1>1. ViewShape'
    BY <1>0 DEF Visit, Begun, At, Queries
<1>2. \A p \in Queries : Truth(p)' = Truth(p) /\ (Outstanding(p)' <=> Outstanding(p))
    BY <1>0, TruthStays DEF Outstanding, Refreshes
<1>3. ASSUME NEW p \in Queries, Current(p) PROVE Current(p)'
    <2>1. fetches'[p] = fetches[p] \/ fetches'[p].at # "answered"
        BY DEF Visit, Begun, At, Queries
    <2> QED BY <1>0, <1>2, <1>3, <2>1 DEF Current
<1> QED BY <1>0, <1>1, <1>2, <1>3 DEF Lost

\* The stream: whatever changes the server is on it, or the stream has broken.
LEMMA StreamKeepsView ==
    ASSUME ViewInv, (\E t \in Threads : Arrive(t)) \/ Break \/ OnEvent PROVE ViewInv'
<1> USE DEF ViewInv, ViewShape
<1>0. fetches' = fetches /\ mounted' = mounted /\ acts' = acts /\ missed \subseteq missed'
    BY DEF Arrive, Break, OnEvent
<1>1. ViewShape'
    <2>1. cache' = [q \in Queries |-> cache'[q]]
        BY DEF Arrive, Break, OnEvent
    <2>2. events' \in EventsSeq
        <3>1. CASE \E t \in Threads : Arrive(t)
            BY <3>1, Appended DEF Arrive
        <3>2. CASE Break
            BY <3>2 DEF Break, EventsSeq
        <3>3. CASE OnEvent
            BY <3>3 DEF OnEvent, EventsSeq
        <3> QED BY <3>1, <3>2, <3>3
    <2>3. pending' \in BOOLEAN
        BY DEF Arrive, Break, OnEvent
    <2> QED BY <1>0, <2>1, <2>2, <2>3
<1>2. "stream" \in missed' \/ events' # <<>> \/ pending'
    <2>1. CASE \E t \in Threads : Arrive(t)
        BY <2>1, Appended DEF Arrive
    <2>2. CASE Break
        BY <2>2 DEF Break
    <2>3. CASE OnEvent
        BY <2>3 DEF OnEvent
    <2> QED BY <2>1, <2>2, <2>3
<1>3. ~Lost(Excusing)' => ~Lost(Excusing) /\ \A q \in Queries : Outstanding(q)'
    BY <1>0, <1>2 DEF Lost, Excusing, Outstanding
<1> QED BY <1>0, <1>1, <1>3 DEF Lost, Excusing

\* The window of the coalescer refreshes every query.
LEMMA CoalescedKeepsView == ASSUME ViewInv, ViewAssumption, Coalesced PROVE ViewInv'
<1> USE DEF ViewInv
<1>1. Roots(Own) \cup {"badge"} = Queries
    BY DEF Roots, Queries, ViewAssumption
<1>2. /\ fetches' = [p \in Queries |-> fetches'[p]]
      /\ \A q \in Queries : Outrun(Queries) = {} => q \in invalid' /\ fetches'[q].at # "answered"
    BY <1>1, Marked DEF Coalesced
<1>3. missed' = missed \cup Outrun(Queries) /\ Outrun(Queries) \in SUBSET {"outrun"}
    BY <1>1 DEF Coalesced, Outrun
<1>4. /\ cache' = cache /\ mounted' = mounted /\ events' = events /\ acts' = acts /\ pending' = FALSE
    BY DEF Coalesced
<1>5. ViewShape'
    BY <1>2, <1>4 DEF ViewShape
<1>6. ~Lost(Excusing)' => ~Lost(Excusing) /\ \A q \in Queries : Current(q)'
    BY <1>2, <1>3 DEF Lost, Excusing, Current
<1> QED BY <1>4, <1>5, <1>6 DEF Lost, Excusing

\* Mutations: the list they change, and every list once the server has changed,
\* is refreshed as they settle.
LEMMA MutateKeepsView ==
    ASSUME ViewInv, NEW kind \in {"trash", "read"}, NEW ids, Mutate(kind, ids) PROVE ViewInv'
<1> USE DEF ViewInv
<1> DEFINE a == [number |-> spent.moves, kind |-> kind, root |-> mounted, todo |-> ids,
                 before |-> cache[mounted], settled |-> FALSE]
<1>1. /\ acts' = acts \cup {a} /\ a.root = mounted /\ a.settled = FALSE /\ a.kind = kind
      /\ server' = server /\ mounted' = mounted /\ events' = events /\ pending' = pending /\ missed' = missed
      /\ invalid' = invalid \ {mounted}
    BY DEF Mutate
<1> HIDE DEF a
<1>2. /\ cache' = [p \in Queries |-> cache'[p]] /\ fetches' = [p \in Queries |-> fetches'[p]]
      /\ \A p \in Queries \ {mounted} : cache'[p] = cache[p] /\ fetches'[p] = fetches[p]
    BY DEF Mutate, ViewShape
<1>3. ViewShape'
    BY <1>1, <1>2 DEF ViewShape
<1>4. \A p \in Queries : Truth(p)' = Truth(p) /\ (Outstanding(p) => Outstanding(p)')
    BY <1>1, TruthStays DEF Outstanding, Refreshes
<1>5. Outstanding(mounted)'
    BY <1>1 DEF Outstanding, Refreshes
<1>6. \A p \in Queries \ {mounted} : Current(p) => Current(p)'
    BY <1>1, <1>2, <1>4 DEF Current
<1> QED BY <1>1, <1>3, <1>4, <1>5, <1>6 DEF Lost

LEMMA ApplyKeepsView ==
    ASSUME ViewInv, ViewAssumption, NEW a \in acts, NEW t \in Threads, Apply(a, t) PROVE ViewInv'
<1> USE DEF ViewInv
<1> DEFINE b == Without(a, t, a.settled)
<1>1. /\ acts' = (acts \ {a}) \cup {b} /\ b.root = a.root /\ b.settled = a.settled /\ b.kind = a.kind
      /\ b.todo = a.todo \ {t}
      /\ cache' = cache /\ fetches' = fetches /\ mounted' = mounted /\ pending' = pending /\ missed' = missed
    BY DEF Apply, Without
<1> HIDE DEF b
<1>2. events' \in EventsSeq
    BY Appended DEF Apply, ViewShape
<1>3. ViewShape'
    BY <1>1, <1>2 DEF ViewShape
<1>4. ~Lost(Excusing) => ~a.settled
    BY DEF Apply, Lost, Excusing
<1>5. ASSUME ~a.settled PROVE \A q \in Queries : Outstanding(q)'
    <2>1. CASE a.kind = "trash"
        BY <1>1, <1>5, <2>1 DEF Outstanding, Refreshes
    <2>2. CASE a.kind # "trash"
        <3>1. events' # <<>>
            BY <2>2, Appended DEF Apply
        <3> QED BY <3>1 DEF Outstanding
    <2> QED BY <2>1, <2>2
<1> QED BY <1>1, <1>3, <1>4, <1>5 DEF Lost, Excusing

\* What a mutation settles, either way: its list, the combined one and the badge.
LEMMA Settles ==
    ASSUME ViewShape, ViewAssumption, NEW a \in acts PROVE
    /\ Settling(a) \in SUBSET Queries
    /\ \A q \in Queries : q \notin Settling(a) => q = Own /\ a.root = All
BY DEF Settling, Roots, Queries, ViewShape, ViewAssumption

LEMMA SucceedKeepsView ==
    ASSUME ViewInv, ViewAssumption, NEW a \in acts, Succeed(a) PROVE ViewInv'
<1> USE DEF ViewInv
<1>1. /\ acts' = acts \ {a} /\ cache' = cache /\ server' = server /\ mounted' = mounted /\ events' = events
      /\ pending' = pending /\ missed' = missed \cup Outrun(Settling(a)) \cup Aside(a)
    BY DEF Succeed
<1>2. /\ fetches' = [p \in Queries |-> fetches'[p]]
      /\ \A q \in Queries :
            /\ q \in Settling(a) /\ Outrun(Settling(a)) = {} => q \in invalid' /\ fetches'[q].at # "answered"
            /\ q \notin Settling(a) => fetches'[q] = fetches[q] /\ (q \in invalid' <=> q \in invalid)
    BY Settles, Marked DEF Succeed, Invalidated
<1>3. ViewShape'
    BY <1>1, <1>2 DEF ViewShape
<1>4. \A p \in Queries : Truth(p)' = Truth(p)
    BY <1>1, TruthStays
<1>5. Outrun(Settling(a)) \in SUBSET {"outrun"}
    BY DEF Outrun
<1>6. ASSUME ~Lost(Excusing)', NEW q \in Queries \ (IF Lost({"aside"})' THEN {Own} ELSE {})
      PROVE Outstanding(q)' \/ Current(q)'
    <2>1. CASE q \in Settling(a)
        BY <1>1, <1>2, <1>5, <1>6, <2>1 DEF Lost, Excusing, Current
    <2>2. CASE q \notin Settling(a)
        <3>1. q = Own /\ a.root = All
            BY Settles, <2>2
        <3>2. a.kind # "trash"
            BY <1>1, <1>6, <3>1 DEF Aside, Lost
        <3>3. Outstanding(q) => Outstanding(q)'
            BY <1>1, <3>1, <3>2 DEF Outstanding, Refreshes, ViewAssumption
        <3>4. Current(q) => Current(q)'
            BY <1>1, <1>2, <1>4, <2>2 DEF Current
        <3> QED BY <1>1, <1>6, <3>3, <3>4 DEF Lost, Excusing
    <2> QED BY <2>1, <2>2
<1> QED BY <1>1, <1>3, <1>6 DEF Lost, Excusing

LEMMA RejectKeepsView ==
    ASSUME ViewInv, ViewAssumption, NEW a \in acts, Reject(a) PROVE ViewInv'
<1> USE DEF ViewInv
<1>0. PICK t \in a.todo : /\ acts' = (acts \ {a}) \cup {Without(a, t, TRUE)}
                          /\ missed' = missed \cup Outrun(Settling(a)) \cup Aside(a)
                                              \cup (IF a.todo = {t} THEN {} ELSE {"early"})
    BY DEF Reject
<1> DEFINE b == Without(a, t, TRUE)
<1>1. /\ acts' = (acts \ {a}) \cup {b} /\ b.root = a.root /\ b.settled /\ b.settled \in BOOLEAN /\ b.kind = a.kind
      /\ b.todo = a.todo \ {t}
      /\ server' = server /\ mounted' = mounted /\ events' = events /\ pending' = pending
    BY <1>0 DEF Reject, Without
<1> HIDE DEF b
<1>2. /\ cache' = [p \in Queries |-> cache'[p]]
      /\ \A q \in Queries \ {a.root} : cache'[q] = cache[q]
    BY DEF Reject, ViewShape
<1>3. /\ fetches' = [p \in Queries |-> fetches'[p]]
      /\ \A q \in Queries :
            /\ q \in Settling(a) /\ Outrun(Settling(a)) = {} => q \in invalid' /\ fetches'[q].at # "answered"
            /\ q \notin Settling(a) => fetches'[q] = fetches[q] /\ (q \in invalid' <=> q \in invalid)
    BY Settles, Marked DEF Reject, Invalidated
<1>4. ViewShape'
    BY <1>1, <1>2, <1>3 DEF ViewShape
<1>5. \A p \in Queries : Truth(p)' = Truth(p)
    BY <1>1, TruthStays
<1>6. Outrun(Settling(a)) \in SUBSET {"outrun"}
    BY DEF Outrun
<1>7. ASSUME ~Lost(Excusing)', NEW q \in Queries \ (IF Lost({"aside"})' THEN {Own} ELSE {})
      PROVE Outstanding(q)' \/ Current(q)'
    <2>1. CASE q \in Settling(a)
        BY <1>0, <1>3, <1>6, <1>7, <2>1 DEF Lost, Excusing, Current
    <2>2. CASE q \notin Settling(a)
        <3>1. q = Own /\ a.root = All
            BY Settles, <2>2
        <3>2. a.kind # "trash"
            BY <1>0, <1>7, <3>1 DEF Aside, Lost
        <3>3. Outstanding(q) => Outstanding(q)'
            BY <1>1, <3>1, <3>2 DEF Outstanding, Refreshes, ViewAssumption
        <3>4. Current(q) => Current(q)'
            BY <1>1, <1>2, <1>3, <1>5, <2>2, <3>1 DEF Current, ViewAssumption
        <3> QED BY <1>0, <1>7, <3>3, <3>4 DEF Lost, Excusing
    <2> QED BY <2>1, <2>2
<1>8. ~Lost(Excusing)' => ~Lost(Excusing) /\ b.todo = {}
    BY <1>0, <1>1 DEF Lost, Excusing
<1> QED BY <1>1, <1>4, <1>7, <1>8 DEF Lost, Excusing

LEMMA OverKeepsView == ASSUME ViewInv, NEW a \in acts, Over(a) PROVE ViewInv'
<1> USE DEF ViewInv
<1>1. acts' = acts \ {a} /\ a.settled
    BY DEF Over
<1>2. \A p \in Queries : Truth(p)' = Truth(p) /\ (Outstanding(p) => Outstanding(p)')
    BY <1>1, TruthStays DEF Over, Outstanding, Refreshes
<1>3. \A p \in Queries : Current(p) => Current(p)'
    BY <1>2 DEF Over, Current
<1> QED BY <1>1, <1>2, <1>3 DEF Over, Lost, ViewShape

LEMMA ViewStepInv == ViewInv /\ ViewNext => ViewInv'
<1> SUFFICES ASSUME ViewInv, ViewNext PROVE ViewInv'
    OBVIOUS
<1>1. ASSUME NEW q \in Queries, FetchRead(q) \/ FetchArrives(q) \/ FetchFails(q) PROVE ViewInv'
    BY <1>1, FetchKeepsView
<1>2. ASSUME NEW q \in Lists, NEW aged \in BOOLEAN, Visit(q, aged) PROVE ViewInv'
    BY <1>2, VisitKeepsView
<1>3. ASSUME (\E t \in Threads : Arrive(t)) \/ Break \/ OnEvent PROVE ViewInv'
    BY <1>3, StreamKeepsView
<1>4. ASSUME Coalesced PROVE ViewInv'
    BY <1>4, CoalescedKeepsView, ViewAssumption
<1>5. ASSUME NEW kind \in {"trash", "read"}, NEW ids \in SUBSET Threads, Mutate(kind, ids) PROVE ViewInv'
    BY <1>5, MutateKeepsView
<1>6. ASSUME NEW a \in acts, Succeed(a) \/ Reject(a) \/ Over(a) \/ \E t \in Threads : Apply(a, t) PROVE ViewInv'
    BY <1>6, SucceedKeepsView, RejectKeepsView, OverKeepsView, ApplyKeepsView, ViewAssumption
<1> QED BY <1>1, <1>2, <1>3, <1>4, <1>5, <1>6 DEF ViewNext

LEMMA ViewInvariance == ViewSpec => []ViewInv
<1>1. ViewInv /\ UNCHANGED viewVars => ViewInv'
    <2> SUFFICES ASSUME ViewInv, UNCHANGED viewVars PROVE ViewInv'
        OBVIOUS
    <2>1. \A q \in Queries : /\ Truth(q)' = Truth(q) /\ (Outstanding(q)' <=> Outstanding(q))
                             /\ (Current(q)' <=> Current(q))
        BY DEF viewVars, Truth, Outstanding, Refreshes, Current
    <2> QED BY <2>1 DEF viewVars, ViewInv, ViewShape, Lost
<1> QED BY <1>1, ViewInitInv, ViewStepInv, PTL DEF ViewSpec

\* However the events, the optimistic changes, their failures and the refetches
\* of a tab interleave, a query that counts as up to date ends with what the
\* server has (sse.ts, invalidate.ts, thread-mutations.ts).
THEOREM ViewsSettle == ViewSpec => []CacheSettles
<1>1. ViewInv => CacheSettles
    BY DEF ViewInv, CacheSettles, Quiet, Outstanding, Current
<1> QED BY <1>1, ViewInvariance, PTL

(***************************************************************************)
(* The composer of the web client.  Saves are serialised, so there is one  *)
(* to follow; the last of them, or what the form takes to be saved, is what*)
(* it shows, unless an edit undid it meanwhile.  What is excused is told   *)
(* apart in the invariant as it is in the promises.                        *)
(***************************************************************************)
Writings == Texts \cup {Blank}
Forms == [text : Writings, first : Writings, latest : Writings \cup {None},
          id : DraftIds \cup {None}, saved : Writings]
Posts == [op : {"post", "patch", "delete", "send", "schedule"}, id : DraftIds \cup {None},
          text : Writings \cup {None}, by : {"save", "discard", "send", "sent", "schedule"},
          answer : {"none", "ok", "failed"}]
Tasks == [by : {"none", "send", "popOut", "schedule"},
          at : {"none", "answer", "remove", "save", "resume", "opened", "empty"}, text : Writings \cup {None}]
Rows == [text : Writings, due : Writings \cup {None}]
Outcomes == {"editing", "closed", "torn", "popped", "sent", "discarded", "scheduled"}

ComposerTyped ==
    /\ form \in Forms /\ timer \in Writings \cup {None} /\ queued \in Writings \cup {None}
    /\ calls \subseteq Posts /\ task \in Tasks /\ outcome \in Outcomes
    /\ DOMAIN drafts \subseteq DraftIds /\ drafts \in [DOMAIN drafts -> Rows] /\ gone \subseteq DraftIds

Made == DOMAIN drafts \cup gone

\* Who calls for what.
Calling(c) ==
    /\ c.by = "save" => c.op \in {"post", "patch", "delete"} /\ (c.op = "delete" <=> c.text = Blank) /\ c.text # None
    /\ c.by \in {"discard", "sent"} => c.op = "delete"
    /\ c.by \in {"send", "schedule"} => c.op = c.by
    /\ c.op \in {"patch", "delete", "schedule"} \/ (c.op = "post" /\ c.answer = "ok") => c.id \in Made
    /\ c.op = "delete" /\ c.answer = "ok" => c.id \in gone

\* The mutation at work is the one whose answer is awaited.
Working(c) ==
    /\ c.by = "send" => task.by = "send" /\ task.at = "answer"
    /\ c.by = "sent" => task.by = "send" /\ task.at = "remove"
    /\ c.by = "schedule" => task.by = "schedule" /\ task.at = "answer"

\* Saves are serialised; the newest of the others waits.
Serial ==
    /\ \A c \in calls : Calling(c)
    /\ \A c, d \in calls : c.by = "save" /\ d.by = "save" => c = d
    /\ form.id \in Made \cup {None}
    /\ gone \cap DOMAIN drafts = {}
    /\ outcome # "editing" => timer = None
    /\ outcome = "editing" => form.latest = form.text /\ timer \in {None, form.text}
    /\ outcome # "torn" =>
          /\ queued # None => Saving
          /\ task.at = "save" => Saving
          /\ task.at = "remove" => \E c \in calls : c.by = "sent"
          /\ task.at \in {"save", "resume", "opened", "empty"} => task.by \in {"popOut", "schedule"}
          /\ task.by = "schedule" => task.text # Blank
          /\ \A c \in calls : Working(c)
          /\ \A c, d \in calls : {c.by, d.by} \subseteq {"send", "sent", "schedule"} => c = d
          /\ \A c \in calls : /\ c.op = "post" => form.id = None
                              /\ c.by = "save" /\ c.op = "delete" => form.id = None
                              /\ c.op = "patch" => form.id \in {c.id, None}
                              /\ c.by = "discard" => outcome \in {"discarded", "sent", "scheduled"}
    /\ outcome = "torn" => queued = None /\ task = Idle

\* Unless a request failed, there is one draft, and the form or an answer knows it.
OneDraft ==
    /\ \A c \in calls : c.answer # "failed"
    /\ \A d, e \in Kept : d = e
    /\ (\E c \in calls : c.op = "post" /\ c.answer = "none") => Kept = {}
    /\ outcome # "torn" => \A d \in Kept : d = form.id \/ \E c \in calls : c.op = "post" /\ c.answer = "ok" /\ c.id = d

\* Once it was sent or discarded, no draft is left and no save can make another.
Ghostless ==
    (outcome \in {"sent", "discarded"} \/ (task.at = "remove" /\ outcome # "torn")) =>
        Kept = {} /\ ~Saving /\ queued = None

\* What is popped out or scheduled is what the form showed.
Carried ==
    (outcome # "torn" /\ ((task.by \in {"popOut", "schedule"} /\ task.text # Blank) \/ outcome = "scheduled")) =>
        /\ form.text # Blank /\ (task # Idle => task.text = form.text) /\ task.at # "empty"
        /\ queued \in {None, form.text}
        /\ \A c \in calls : /\ c.op # "delete"
                            /\ c.op = "patch" => c.id = form.id
                            /\ c.by = "save" => c.text = form.text
                            /\ c.by = "save" /\ c.answer = "ok" => c.id \in DOMAIN drafts /\ drafts[c.id].text = form.text
                            /\ c.op = "schedule" => c.id = form.id /\ c.text = form.text
                            /\ c.op = "schedule" /\ c.answer = "ok" => drafts[c.id].due = form.text
        /\ task.at # "save" => form.id \in DOMAIN drafts /\ drafts[form.id].text = form.text
        /\ outcome = "scheduled" => drafts[form.id].due = form.text /\ task = Idle

\* The last of the saves under way, or the last there was, has what the form shows.
Following ==
    /\ queued # None => queued = form.text
    /\ queued = None => \A c \in calls : c.by = "save" => c.text = form.text
    /\ queued = None /\ ~Saving => form.saved = form.text

\* What the form takes to be saved is.
Faithful ==
    /\ form.id # None => form.id \in Kept
    /\ \A c \in calls : c.by = "save" /\ c.op # "delete" /\ c.answer = "ok" => c.id \in Kept /\ drafts[c.id].text = c.text
    /\ \A c \in calls : c.by = "save" /\ c.op = "patch" => c.id = form.id
    /\ ~Saving => IF form.id = None THEN form.saved \in {Blank, form.first} ELSE drafts[form.id].text = form.saved

\* The requests that outlive the page.
Outlived ==
    /\ \A c \in calls : c.op = "delete" => c.by = "save"
    /\ \A c \in calls : c.by = "save" =>
          /\ c.text = form.text
          /\ c.op = "delete" => Kept = {}
          /\ c.op = "patch" => c.id \in Kept
          /\ c.op # "delete" /\ c.answer = "ok" => c.id \in Kept /\ drafts[c.id].text = form.text
    /\ ~Saving => \/ Kept = {} /\ form.text \in {Blank, form.first}
                  \/ \E d \in Kept : drafts[d].text = form.text

ComposerInv ==
    /\ ComposerTyped /\ Serial
    /\ Unless({"failed"}) => OneDraft
    /\ Unless({"failed", "overlap"}) => Ghostless
    /\ Unless({"failed", "overlap", "edited"}) => Carried
    /\ Unless({"failed", "undone", "cut"}) =>
          /\ outcome \in {"editing", "closed"} /\ timer = None => Following
          /\ outcome \in {"editing", "closed"} /\ task.at # "remove" => Faithful
          /\ outcome = "torn" => Outlived

Clear == Unless({"failed"})

\* The request a save begins with, and the form once it has.
LEMMA BeginFacts ==
    ASSUME NEW text \in Writings, NEW f \in Forms
    PROVE  \/ /\ text = Blank /\ f.id = None /\ SaveOf(text, f) = {}
              /\ FormAfter(text, f) \in Forms /\ FormAfter(text, f).text = f.text
              /\ FormAfter(text, f).first = f.first /\ FormAfter(text, f).latest = f.latest
              /\ FormAfter(text, f).id = None /\ FormAfter(text, f).saved = Blank
           \/ \E q \in Posts :
              /\ text # Blank \/ f.id # None
              /\ SaveOf(text, f) = {q} /\ q.by = "save" /\ q.text = text /\ q.id = f.id /\ q.answer = "none"
              /\ q.op = IF text = Blank THEN "delete" ELSE IF f.id = None THEN "post" ELSE "patch"
              /\ FormAfter(text, f) \in Forms /\ FormAfter(text, f).text = f.text
              /\ FormAfter(text, f).first = f.first /\ FormAfter(text, f).latest = f.latest
              /\ FormAfter(text, f).id = (IF text = Blank THEN None ELSE f.id) /\ FormAfter(text, f).saved = f.saved
<1>1. CASE text = Blank /\ f.id = None
    BY <1>1 DEF SaveOf, FormAfter, Forms, Writings
<1>2. CASE text # Blank \/ f.id # None
    <2> DEFINE q == Request(IF text = Blank THEN "delete" ELSE IF f.id = None THEN "post" ELSE "patch", f.id, text, "save")
    <2>1. /\ q \in Posts /\ q.by = "save" /\ q.text = text /\ q.id = f.id /\ q.answer = "none"
          /\ q.op = IF text = Blank THEN "delete" ELSE IF f.id = None THEN "post" ELSE "patch"
        BY DEF Request, Posts, Forms
    <2>2. SaveOf(text, f) = {q}
        BY <1>2 DEF SaveOf
    <2>3. SaveOf(text, f) # {}
        BY <2>2
    <2> HIDE DEF q
    <2>4. /\ FormAfter(text, f) \in Forms /\ FormAfter(text, f).text = f.text
          /\ FormAfter(text, f).first = f.first /\ FormAfter(text, f).latest = f.latest
          /\ FormAfter(text, f).id = (IF text = Blank THEN None ELSE f.id) /\ FormAfter(text, f).saved = f.saved
        BY <2>3 DEF FormAfter, Forms
    <2> QED BY <1>2, <2>1, <2>2, <2>4
<1> QED BY <1>1, <1>2

LEMMA RequestFacts ==
    ASSUME NEW op \in {"post", "patch", "delete", "send", "schedule"}, NEW id \in DraftIds \cup {None},
           NEW text \in Writings \cup {None}, NEW by \in {"save", "discard", "send", "sent", "schedule"}
    PROVE LET q == Request(op, id, text, by)
          IN q \in Posts /\ q.op = op /\ q.id = id /\ q.text = text /\ q.by = by /\ q.answer = "none"
BY DEF Request, Posts

LEMMA EditKeepsComposer == ASSUME ComposerInv, NEW text \in Writings, Edit(text) PROVE ComposerInv'
<1> USE DEF ComposerInv
<1>1. /\ outcome = "editing" /\ task.at # "resume" /\ timer' = Armed(text) /\ queued' = queued /\ calls' = calls
      /\ task' = task /\ drafts' = drafts /\ gone' = gone /\ outcome' = outcome
      /\ mishaps' = mishaps \cup ((IF text = form.saved /\ Overlapped THEN {"undone"} ELSE {})
                                  \cup (IF task # Idle THEN {"edited"} ELSE {}))
    BY DEF Edit, Listening, Note
<1>2. /\ form' \in Forms /\ form'.text = text /\ form'.latest = text /\ form'.first = form.first
      /\ form'.id = form.id /\ form'.saved = form.saved
    BY DEF Edit, ComposerTyped, Forms
<1>3. timer' \in {None, text}
    BY <1>1 DEF Armed
<1>4. ComposerTyped'
    BY <1>1, <1>2, <1>3 DEF ComposerTyped
<1>5. Serial'
    BY <1>1, <1>2, <1>3 DEF Serial, Calling, Made, Working, Saving
<1>6. Kept' = Kept /\ Saving' = Saving
    BY <1>1 DEF Kept, Saving
<1>7. Clear' => OneDraft'
    BY <1>1, <1>2, <1>6 DEF Clear, Unless, OneDraft
<1>8. Unless({"failed", "overlap"})' => Ghostless'
    BY <1>1, <1>6 DEF Unless, Ghostless
<1>9. Unless({"failed", "overlap", "edited"})' => Carried'
    BY <1>1 DEF Unless, Carried, Idle
<1>10. Unless({"failed", "undone", "cut"})' =>
          /\ outcome' \in {"editing", "closed"} /\ timer' = None => Following'
          /\ outcome' \in {"editing", "closed"} /\ task'.at # "remove" => Faithful'
          /\ outcome' = "torn" => Outlived'
    <2>1. Unless({"failed", "undone", "cut"})' => Unless({"failed", "undone", "cut"})
        BY <1>1 DEF Unless
    <2>2. ASSUME Unless({"failed", "undone", "cut"})', timer' = None PROVE Following'
        <3>1. text = form.saved /\ ~Saving /\ queued = None
            BY <1>1, <2>2, ComposerAssumption DEF Armed, Overlapped, Unless, Writings
        <3> QED BY <1>1, <1>2, <3>1 DEF Following, Saving
    <2>3. Faithful => Faithful'
        BY <1>1, <1>2, <1>6 DEF Faithful
    <2> QED BY <1>1, <2>1, <2>2, <2>3
<1> QED BY <1>4, <1>5, <1>7, <1>8, <1>9, <1>10 DEF Clear

\* Only a failed request moves no draft.
LEMMA FailedOnly ==
    ASSUME ComposerTyped', Serial', "failed" \in mishaps' PROVE ComposerInv'
BY DEF ComposerInv, Unless

LEMMA AnsweredFacts ==
    ASSUME NEW c \in Posts, NEW answer \in {"none", "ok", "failed"}, NEW id \in DraftIds \cup {None}
    PROVE  \E q \in Posts :
              /\ Answered(c, answer, id) = (calls \ {c}) \cup {q}
              /\ q.op = c.op /\ q.id = id /\ q.text = c.text /\ q.by = c.by /\ q.answer = answer
<1> DEFINE q == [c EXCEPT !.answer = answer, !.id = id]
<1>1. q \in Posts /\ q.op = c.op /\ q.id = id /\ q.text = c.text /\ q.by = c.by /\ q.answer = answer
    BY DEF Posts
<1>2. Answered(c, answer, id) = (calls \ {c}) \cup {q}
    BY DEF Answered
<1> QED BY <1>1, <1>2

LEMMA FailKeepsComposer == ASSUME ComposerInv, NEW c \in calls, Fail(c) PROVE ComposerInv'
<1> USE DEF ComposerInv
<1>1. /\ form' = form /\ timer' = timer /\ queued' = queued /\ task' = task /\ drafts' = drafts
      /\ gone' = gone /\ outcome' = outcome /\ mishaps' = mishaps \cup {"failed"}
      /\ calls' = Answered(c, "failed", c.id) /\ c.answer = "none" /\ c \in Posts
    BY DEF Fail, Note, ComposerTyped
<1>2. c.id \in DraftIds \cup {None}
    BY <1>1 DEF Posts
<1>3. PICK q \in Posts :
         /\ calls' = (calls \ {c}) \cup {q}
         /\ q.op = c.op /\ q.id = c.id /\ q.text = c.text /\ q.by = c.by /\ q.answer = "failed"
    BY <1>1, <1>2, AnsweredFacts
<1>4. ComposerTyped'
    BY <1>1, <1>3 DEF ComposerTyped
<1>5. Serial'
    BY <1>1, <1>3 DEF Serial, Calling, Made, Working, Saving
<1> QED BY <1>1, <1>4, <1>5, FailedOnly

LEMMA IgnoreKeepsComposer == ASSUME ComposerInv, NEW c \in calls, Ignore(c) PROVE ComposerInv'
<1> USE DEF ComposerInv
<1>1. /\ form' = form /\ timer' = timer /\ queued' = queued /\ task' = task /\ drafts' = drafts
      /\ gone' = gone /\ outcome' = outcome /\ mishaps' = mishaps
      /\ calls' = calls \ {c} /\ c.answer # "none" /\ c \in Posts /\ outcome = "torn"
    BY DEF Ignore, ComposerTyped
<1>2. ComposerTyped'
    BY <1>1 DEF ComposerTyped
<1>3. Serial'
    BY <1>1 DEF Serial, Calling, Made, Working, Saving
<1>4. Clear => Kept' = Kept /\ c.answer = "ok"
    BY <1>1 DEF Clear, Unless, OneDraft, Kept, Serial, Calling, Posts
<1>5. Clear => OneDraft'
    BY <1>1, <1>4 DEF Clear, Unless, OneDraft
<1>6. Unless({"failed", "overlap"})' => Ghostless'
    BY <1>1 DEF Unless, Ghostless, Serial, Idle
<1>7. Unless({"failed", "overlap", "edited"})' => Carried'
    BY <1>1 DEF Carried
<1>8. Unless({"failed", "undone", "cut"})' => Outlived'
    <2>1. Unless({"failed", "undone", "cut"})' => Clear /\ Outlived
        BY <1>1 DEF Unless, Clear
    <2>2. ASSUME Clear, Outlived, ~Saving' PROVE \/ Kept = {} /\ form.text \in {Blank, form.first}
                                              \/ \E d \in Kept : drafts[d].text = form.text
        <3>1. CASE Saving
            <4>1. c.by = "save"
                BY <1>1, <2>2, <3>1 DEF Saving
            <4> QED BY <1>4, <2>2, <4>1 DEF Outlived, Serial, Calling
        <3> QED BY <2>2, <3>1 DEF Outlived
    <2>3. ASSUME Clear, Outlived PROVE Outlived'
        BY <1>1, <1>4, <2>2, <2>3 DEF Outlived
    <2> QED BY <2>1, <2>3
<1> QED BY <1>1, <1>2, <1>3, <1>5, <1>6, <1>7, <1>8 DEF Clear, Unless

LEMMA DiscardedKeepsComposer == ASSUME ComposerInv, NEW c \in calls, Discarded(c) PROVE ComposerInv'
<1> USE DEF ComposerInv
<1>1. /\ form' = form /\ timer' = timer /\ queued' = queued /\ task' = task /\ drafts' = drafts
      /\ gone' = gone /\ outcome' = outcome /\ mishaps' = mishaps
      /\ calls' = calls \ {c} /\ c.answer # "none" /\ c \in Posts /\ outcome # "torn" /\ c.by = "discard"
    BY DEF Discarded, Reads, ComposerTyped
<1>2. c.op = "delete" /\ outcome \notin {"editing", "closed"}
    BY <1>1 DEF Serial, Calling
<1>3. ComposerTyped'
    BY <1>1 DEF ComposerTyped
<1>4. Saving' = Saving
    BY <1>1 DEF Saving
<1>5. Serial'
    BY <1>1, <1>4 DEF Serial, Calling, Made, Working
<1>6. Clear => Kept' = Kept
    BY <1>1 DEF Clear, Unless, OneDraft, Kept, Serial, Calling, Posts
<1>7. Clear => OneDraft'
    BY <1>1, <1>2, <1>6 DEF Clear, Unless, OneDraft
<1>8. Unless({"failed", "overlap"})' => Ghostless'
    BY <1>1, <1>4, <1>6 DEF Unless, Clear, Ghostless
<1>9. Unless({"failed", "overlap", "edited"})' => Carried'
    BY <1>1 DEF Carried, Unless
<1> QED BY <1>1, <1>2, <1>3, <1>5, <1>7, <1>8, <1>9 DEF Clear, Unless

LEMMA SendKeepsComposer == ASSUME ComposerInv, Send PROVE ComposerInv'
<1> USE DEF ComposerInv
<1>1. PICK q \in Posts : /\ calls' = calls \cup {q} /\ q.op = "send" /\ q.id = None /\ q.text = form.text
                         /\ q.by = "send" /\ q.answer = "none"
    <2> DEFINE q == Request("send", None, form.text, "send")
    <2>1. form.text \in Writings \cup {None}
        BY DEF ComposerTyped, Forms
    <2>2. q \in Posts /\ q.op = "send" /\ q.id = None /\ q.text = form.text /\ q.by = "send" /\ q.answer = "none"
        BY <2>1, RequestFacts
    <2>3. calls' = calls \cup {q}
        BY DEF Send
    <2> QED BY <2>2, <2>3
<1>2. /\ form' = form /\ timer' = timer /\ queued' = queued /\ drafts' = drafts
      /\ gone' = gone /\ outcome' = outcome /\ mishaps' = mishaps
      /\ outcome = "editing" /\ task = Idle
    BY DEF Send, Listening
<1>3. task' \in Tasks /\ task'.by = "send" /\ task'.at = "answer"
    BY DEF Send, Tasks, ComposerTyped, Forms
<1>4. ComposerTyped'
    BY <1>1, <1>2, <1>3 DEF ComposerTyped
<1>5. Saving' = Saving /\ Kept' = Kept
    BY <1>1, <1>2 DEF Saving, Kept
<1>6. \A c \in calls : c.by \notin {"send", "sent", "schedule"}
    BY <1>2 DEF Serial, Working, Idle
<1>7. Serial'
    BY <1>1, <1>2, <1>3, <1>5, <1>6 DEF Serial, Calling, Made, Working, Idle
<1>8. Clear => OneDraft'
    BY <1>1, <1>2, <1>5 DEF Clear, Unless, OneDraft
<1>9. Unless({"failed", "overlap"})' => Ghostless'
    BY <1>2, <1>3 DEF Ghostless
<1>10. Unless({"failed", "overlap", "edited"})' => Carried'
    BY <1>2, <1>3 DEF Carried
<1>11. Unless({"failed", "undone", "cut"})' =>
          /\ timer' = None => Following'
          /\ Faithful'
    <2>1. Unless({"failed", "undone", "cut"})' => Unless({"failed", "undone", "cut"}) /\ task.at # "remove"
        BY <1>2 DEF Unless, Idle
    <2>2. Following => Following'
        BY <1>1, <1>2, <1>5 DEF Following
    <2>3. Faithful => Faithful'
        BY <1>1, <1>2, <1>5 DEF Faithful
    <2> QED BY <1>2, <2>1, <2>2, <2>3
<1> QED BY <1>2, <1>4, <1>7, <1>8, <1>9, <1>10, <1>11 DEF Clear, Unless

LEMMA RequestScheduleKeepsComposer == ASSUME ComposerInv, RequestSchedule PROVE ComposerInv'
<1> USE DEF ComposerInv
<1>1. /\ form' = form /\ timer' = timer /\ queued' = queued /\ drafts' = drafts
      /\ gone' = gone /\ outcome' = outcome /\ mishaps' = mishaps
      /\ task.at = "resume" /\ task.by = "schedule" /\ outcome # "torn" /\ task.text # Blank
    BY DEF RequestSchedule, Serial, Idle
<1>2. task.text \in Writings \cup {None} /\ form.id \in DraftIds \cup {None}
    BY DEF ComposerTyped, Tasks, Forms
<1>3. \A c \in calls : c.by \notin {"send", "sent", "schedule"}
    BY <1>1 DEF Serial, Working
<1>4. CASE form.id = None
    <2>1. task' = Idle /\ calls' = calls
        BY <1>4 DEF RequestSchedule
    <2>2. ComposerTyped'
        BY <1>1, <2>1 DEF ComposerTyped, Idle, Tasks
    <2>3. Saving' = Saving /\ Kept' = Kept
        BY <1>1, <2>1 DEF Saving, Kept
    <2>4. Serial'
        BY <1>1, <1>3, <2>1, <2>3 DEF Serial, Calling, Made, Working, Idle
    <2>5. Clear => OneDraft'
        BY <1>1, <2>1, <2>3 DEF Clear, Unless, OneDraft
    <2>6. Unless({"failed", "overlap"})' => Ghostless'
        BY <1>1, <2>1, <2>3 DEF Unless, Ghostless, Idle
    <2>7. Unless({"failed", "overlap", "edited"})' => Carried'
        BY <1>1, <1>4, <2>1 DEF Unless, Carried, Idle
    <2>8. Following => Following'
        BY <1>1, <2>1, <2>3 DEF Following
    <2>9. Faithful => Faithful'
        BY <1>1, <2>1, <2>3 DEF Faithful
    <2> QED BY <1>1, <2>2, <2>4, <2>5, <2>6, <2>7, <2>8, <2>9 DEF Clear, Unless
<1>5. CASE form.id # None
    <2> DEFINE q == Request("schedule", form.id, task.text, "schedule")
    <2>1. q \in Posts /\ q.op = "schedule" /\ q.id = form.id /\ q.text = task.text /\ q.by = "schedule" /\ q.answer = "none"
        BY <1>2, RequestFacts
    <2>2. calls' = calls \cup {q} /\ task' = [task EXCEPT !.at = "answer"]
        BY <1>5 DEF RequestSchedule
    <2> HIDE DEF q
    <2>3. task' \in Tasks /\ task'.at = "answer" /\ task'.by = "schedule" /\ task'.text = task.text /\ task' # Idle
        BY <1>1, <2>2 DEF ComposerTyped, Tasks, Idle
    <2>4. ComposerTyped'
        BY <1>1, <2>1, <2>2, <2>3 DEF ComposerTyped
    <2>5. Saving' = Saving /\ Kept' = Kept
        BY <1>1, <2>1, <2>2 DEF Saving, Kept
    <2>6. Serial'
        BY <1>1, <1>3, <1>5, <2>1, <2>2, <2>3, <2>5 DEF Serial, Calling, Made, Working, Idle
    <2>7. Clear => OneDraft'
        BY <1>1, <2>1, <2>2, <2>5 DEF Clear, Unless, OneDraft
    <2>8. Unless({"failed", "overlap"})' => Ghostless'
        BY <1>1, <2>3, <2>5 DEF Unless, Ghostless
    <2>9. Unless({"failed", "overlap", "edited"})' => Carried'
        <3>1. SUFFICES ASSUME Unless({"failed", "overlap", "edited"}), task.text # Blank \/ outcome = "scheduled" PROVE Carried'
            BY <1>1, <2>3 DEF Unless, Carried
        <3>2. Carried /\ task # Idle
            BY <1>1, <3>1 DEF Idle
        <3> QED BY <1>1, <2>1, <2>2, <2>3, <3>1, <3>2 DEF Carried
    <2>10. Following => Following'
        BY <1>1, <2>1, <2>2, <2>5 DEF Following
    <2>11. Faithful => Faithful'
        BY <1>1, <2>1, <2>2, <2>5 DEF Faithful
    <2> QED BY <1>1, <2>3, <2>4, <2>6, <2>7, <2>8, <2>9, <2>10, <2>11 DEF Clear, Unless
<1> QED BY <1>4, <1>5

\* A request that is handled, whether or not its answer arrives.
LEMMA HandledFacts ==
    ASSUME ComposerInv, NEW c \in calls, c.answer = "none", NEW id, Handled(c, id),
           c.op = "post" => id \in DraftIds \ (DOMAIN drafts \cup gone),
           c.op # "post" => id = c.id /\ (c.op = "send" \/ id \in DOMAIN drafts)
    PROVE  /\ DOMAIN drafts' \subseteq DraftIds /\ drafts' \in [DOMAIN drafts' -> Rows] /\ gone' \subseteq DraftIds
           /\ gone' \cap DOMAIN drafts' = {} /\ Made \subseteq Made'
           /\ c.op = "post" => /\ DOMAIN drafts' = DOMAIN drafts \cup {id} /\ gone' = gone
                               /\ drafts'[id].text = c.text
           /\ c.op \in {"patch", "schedule"} =>
                 /\ DOMAIN drafts' = DOMAIN drafts /\ gone' = gone
                 /\ drafts'[id].text = (IF c.op = "patch" THEN c.text ELSE drafts[id].text)
                 /\ drafts'[id].due = (IF c.op = "schedule" THEN c.text ELSE drafts[id].due)
           /\ c.op = "delete" => DOMAIN drafts' = DOMAIN drafts \ {id} /\ gone' = gone \cup {id}
           /\ c.op = "send" => drafts' = drafts /\ gone' = gone
           /\ \A d \in DOMAIN drafts \ {id} : drafts'[d] = drafts[d]
<1> USE DEF ComposerInv
<1>1. /\ c.text \in Writings \cup {None}
      /\ c.by = "save" => c.text \in Writings
      /\ c.op \in {"post", "patch", "delete", "send", "schedule"} /\ c.id \in DraftIds \cup {None}
    BY DEF ComposerTyped, Posts, Serial, Calling
<1>2. c.op \in {"post", "patch"} => c.by = "save"
    BY DEF ComposerTyped, Posts, Serial, Calling
<1>3. CASE c.op = "post"
    <2>1. drafts' = Replaced(id, Draft(c.text)) /\ gone' = gone
        BY <1>3 DEF Handled
    <2>2. Draft(c.text) \in Rows /\ Draft(c.text).text = c.text
        BY <1>1, <1>2, <1>3 DEF Draft, Rows
    <2> HIDE DEF Draft
    <2>3. DOMAIN drafts' = DOMAIN drafts \cup {id} /\ drafts'[id] = Draft(c.text)
          /\ \A d \in DOMAIN drafts \ {id} : drafts'[d] = drafts[d]
        BY <2>1 DEF Replaced
    <2>4. drafts' \in [DOMAIN drafts' -> Rows]
        BY <2>1, <2>2 DEF ComposerTyped, Replaced
    <2> QED BY <1>3, <2>1, <2>2, <2>3, <2>4 DEF ComposerTyped, Serial, Made
<1>4. CASE c.op \in {"patch", "schedule"}
    <2> DEFINE row == IF c.op = "patch" THEN [drafts[id] EXCEPT !.text = c.text] ELSE [drafts[id] EXCEPT !.due = c.text]
    <2>1. drafts' = Replaced(id, row) /\ gone' = gone
        BY <1>4 DEF Handled
    <2>2. drafts[id] \in Rows /\ id \in DOMAIN drafts
        BY <1>4 DEF ComposerTyped
    <2>3. row \in Rows /\ row.text = (IF c.op = "patch" THEN c.text ELSE drafts[id].text)
          /\ row.due = (IF c.op = "schedule" THEN c.text ELSE drafts[id].due)
        BY <1>1, <1>2, <1>4, <2>2 DEF Rows
    <2> HIDE DEF row
    <2>4. DOMAIN drafts' = DOMAIN drafts /\ drafts'[id] = row
          /\ \A d \in DOMAIN drafts \ {id} : drafts'[d] = drafts[d]
        BY <2>1, <2>2 DEF Replaced
    <2>5. drafts' \in [DOMAIN drafts' -> Rows]
        BY <2>1, <2>3 DEF ComposerTyped, Replaced
    <2> QED BY <1>4, <2>1, <2>3, <2>4, <2>5 DEF ComposerTyped, Serial, Made
<1>5. CASE c.op = "delete"
    <2>1. drafts' = [d \in DOMAIN drafts \ {id} |-> drafts[d]] /\ gone' = gone \cup {id}
        BY <1>5 DEF Handled
    <2>2. DOMAIN drafts' = DOMAIN drafts \ {id} /\ \A d \in DOMAIN drafts \ {id} : drafts'[d] = drafts[d]
        BY <2>1
    <2>3. drafts' \in [DOMAIN drafts' -> Rows]
        BY <2>1 DEF ComposerTyped
    <2> QED BY <1>5, <2>1, <2>2, <2>3 DEF ComposerTyped, Serial, Made
<1>6. CASE c.op = "send"
    <2>1. drafts' = drafts /\ gone' = gone
        BY <1>6 DEF Handled
    <2> QED BY <1>6, <2>1 DEF ComposerTyped, Serial, Made
<1> QED BY <1>1, <1>3, <1>4, <1>5, <1>6

LEMMA HandleKeepsComposer == ASSUME ComposerInv, NEW c \in calls, Handle(c) PROVE ComposerInv'
<1> USE DEF ComposerInv
<1> DEFINE unused == DraftIds \ (DOMAIN drafts \cup gone)
           id == IF c.op = "post" THEN CHOOSE i \in unused : TRUE ELSE c.id
           there == c.op \in {"post", "send"} \/ id \in DOMAIN drafts
           unmoved == drafts' = drafts /\ gone' = gone
<1>1. /\ form' = form /\ timer' = timer /\ queued' = queued /\ task' = task /\ outcome' = outcome
      /\ c.answer = "none" /\ c \in Posts
    BY DEF Handle, ComposerTyped
<1>2. /\ c.op = "post" => id \in DraftIds \ (DOMAIN drafts \cup gone)
      /\ c.op # "post" => id = c.id
    BY DEF Handle
<1>3. id \in DraftIds \cup {None}
    BY <1>1, <1>2 DEF Posts
<1>4. \/ there /\ Handled(c, id) /\ calls' = Answered(c, "ok", id) /\ mishaps' = mishaps
      \/ there /\ Handled(c, id) /\ calls' = Answered(c, "failed", id) /\ mishaps' = mishaps \cup {"failed"}
      \/ unmoved /\ calls' = Answered(c, "failed", id) /\ mishaps' = mishaps \cup {"failed"}
    BY DEF Handle, Note
<1> HIDE DEF id
<1> DEFINE Sound == /\ DOMAIN drafts' \subseteq DraftIds /\ drafts' \in [DOMAIN drafts' -> Rows] /\ gone' \subseteq DraftIds
                    /\ gone' \cap DOMAIN drafts' = {} /\ Made \subseteq Made' /\ gone \subseteq gone'
<1>5. ASSUME Sound, NEW answer \in {"ok", "failed"}, calls' = Answered(c, answer, id),
             answer = "ok" => /\ c.op = "post" => id \in Made'
                              /\ c.op = "delete" => id \in gone'
      PROVE  ComposerTyped' /\ Serial'
    <2>1. PICK q \in Posts :
             /\ calls' = (calls \ {c}) \cup {q}
             /\ q.op = c.op /\ q.id = id /\ q.text = c.text /\ q.by = c.by /\ q.answer = answer
        BY <1>1, <1>3, <1>5, AnsweredFacts
    <2>2. ComposerTyped'
        BY <1>1, <1>5, <2>1 DEF ComposerTyped
    <2>3. \A d \in calls' : Calling(d)'
        <3>1. Calling(c) /\ \A d \in calls : Calling(d)
            BY DEF Serial
        <3>2. TAKE d \in calls'
        <3>3. CASE d = q
            BY <1>1, <1>2, <1>5, <2>1, <3>1, <3>3 DEF Calling
        <3>4. CASE d # q
            BY <1>5, <2>1, <3>1, <3>4 DEF Calling
        <3> QED BY <3>3, <3>4
    <2>4. Saving' = Saving
        BY <2>1 DEF Saving
    <2>6. form.id' \in Made' \cup {None} /\ gone' \cap DOMAIN drafts' = {}
        BY <1>1, <1>5 DEF Serial
    <2>7. Serial'
        BY <1>1, <1>2, <2>1, <2>3, <2>4, <2>6 DEF Serial, Working
    <2> QED BY <2>2, <2>7
<1>6. CASE unmoved /\ calls' = Answered(c, "failed", id) /\ mishaps' = mishaps \cup {"failed"}
    <2>1. Sound
        BY <1>6 DEF ComposerTyped, Serial, Made
    <2>2. ComposerTyped' /\ Serial'
        BY <1>5, <1>6, <2>1
    <2> QED BY <1>6, <2>2, FailedOnly
<1>7. CASE /\ there /\ Handled(c, id)
           /\ \/ calls' = Answered(c, "ok", id) /\ mishaps' = mishaps
              \/ calls' = Answered(c, "failed", id) /\ mishaps' = mishaps \cup {"failed"}
    <2>1. /\ DOMAIN drafts' \subseteq DraftIds /\ drafts' \in [DOMAIN drafts' -> Rows] /\ gone' \subseteq DraftIds
          /\ gone' \cap DOMAIN drafts' = {} /\ Made \subseteq Made'
          /\ c.op = "post" => /\ DOMAIN drafts' = DOMAIN drafts \cup {id} /\ gone' = gone
                              /\ drafts'[id].text = c.text
          /\ c.op \in {"patch", "schedule"} =>
                /\ DOMAIN drafts' = DOMAIN drafts /\ gone' = gone
                /\ drafts'[id].text = (IF c.op = "patch" THEN c.text ELSE drafts[id].text)
                /\ drafts'[id].due = (IF c.op = "schedule" THEN c.text ELSE drafts[id].due)
          /\ c.op = "delete" => DOMAIN drafts' = DOMAIN drafts \ {id} /\ gone' = gone \cup {id}
          /\ c.op = "send" => drafts' = drafts /\ gone' = gone
          /\ \A d \in DOMAIN drafts \ {id} : drafts'[d] = drafts[d]
        BY <1>1, <1>2, <1>7, HandledFacts
    <2>2. /\ gone \subseteq gone'
          /\ c.op = "post" => id \in Made'
          /\ c.op = "delete" => id \in gone'
        BY <1>1, <2>1 DEF Posts, Made
    <2>3. ComposerTyped' /\ Serial'
        BY <1>5, <1>7, <2>1, <2>2
    <2>4. CASE mishaps' = mishaps \cup {"failed"}
        BY <2>3, <2>4, FailedOnly
    <2>5. CASE calls' = Answered(c, "ok", id) /\ mishaps' = mishaps
        <3>1. PICK q \in Posts :
                 /\ calls' = (calls \ {c}) \cup {q}
                 /\ q.op = c.op /\ q.id = id /\ q.text = c.text /\ q.by = c.by /\ q.answer = "ok"
            BY <1>1, <1>3, <2>5, AnsweredFacts, SMTT(30)
        <3>2. Calling(c) /\ \A d \in calls : Calling(d)
            BY DEF Serial
        <3>3. Saving' = Saving
            BY <3>1 DEF Saving
        <3>4. c.op \in {"post", "patch"} => c.by = "save"
            BY <1>1, <3>2 DEF Calling, Posts
        <3>5. Kept' = IF c.op = "post" THEN Kept \cup {id} ELSE Kept
            BY <1>1, <1>2, <2>1, <3>1, <3>2 DEF Kept, Calling, Posts, Made
        <3>6. Clear => OneDraft'
            <4>1. SUFFICES ASSUME Clear PROVE OneDraft'
                OBVIOUS
            <4>2. OneDraft
                BY <4>1 DEF Clear
            <4>3. \A d \in calls' : d.answer # "failed"
                BY <3>1, <4>2 DEF OneDraft
            <4>4. c.op = "post" => Kept = {}
                BY <1>1, <4>2 DEF OneDraft
            <4>5. \A d, e \in Kept' : d = e
                BY <3>5, <4>2, <4>4 DEF OneDraft
            <4>6. c.op = "post" => \A d \in calls' : d.op = "post" => d = q
                BY <3>1, <3>2, <3>4 DEF Serial, Calling, Posts, ComposerTyped
            <4>7. (\E d \in calls' : d.op = "post" /\ d.answer = "none") => Kept' = {}
                BY <3>1, <3>5, <4>2, <4>6 DEF OneDraft
            <4>8. outcome' # "torn" => \A d \in Kept' : d = form'.id \/ \E e \in calls' : e.op = "post" /\ e.answer = "ok" /\ e.id = d
                BY <1>1, <3>1, <3>5, <4>2, <4>4 DEF OneDraft
            <4> QED BY <4>3, <4>5, <4>7, <4>8 DEF OneDraft
        <3>7. Unless({"failed", "overlap"})' => Ghostless'
            BY <1>1, <2>5, <3>1, <3>3, <3>4, <3>5 DEF Unless, Ghostless, Saving
        <3>8. Unless({"failed", "overlap", "edited"})' => Carried'
            <4>1. SUFFICES ASSUME Unless({"failed", "overlap", "edited"}), outcome # "torn",
                                  (task.by \in {"popOut", "schedule"} /\ task.text # Blank) \/ outcome = "scheduled"
                           PROVE  Carried'
                BY <1>1, <2>5 DEF Unless, Carried
            <4>2. Carried
                BY <4>1
            <4>3. c.op \in {"post", "patch", "schedule", "send"}
                BY <1>1, <4>1, <4>2 DEF Carried, Posts
            <4>4. c.op = "post" => form.id = None /\ None \notin DOMAIN drafts
                BY <4>1, ComposerAssumption DEF Serial, ComposerTyped
            <4>5. \A d \in DOMAIN drafts : /\ d \in DOMAIN drafts'
                                           /\ drafts[d].text = form.text => drafts'[d].text = form.text
                                           /\ drafts[d].due = form.text => drafts'[d].due = form.text
                BY <1>1, <1>2, <2>1, <3>4, <4>1, <4>2, <4>3 DEF Carried
            <4>6. /\ q.by = "save" => id \in DOMAIN drafts' /\ drafts'[id].text = form.text
                  /\ q.op = "schedule" => drafts'[id].due = form.text /\ id = form.id
                BY <1>1, <1>2, <1>7, <2>1, <3>1, <3>2, <4>1, <4>2, <4>3 DEF Carried, Calling
            <4>7. \A d \in calls : d.op = "schedule" /\ d.answer = "ok" => d.id \in DOMAIN drafts
                BY <3>2, <4>1, <4>2 DEF Carried, Calling, Serial, Working, ComposerTyped, Posts
            <4>8. /\ form.text # Blank /\ (task # Idle => task.text = form.text) /\ task.at # "empty"
                  /\ queued \in {None, form.text}
                  /\ \A d \in calls : /\ d.op # "delete"
                                      /\ d.op = "patch" => d.id = form.id
                                      /\ d.by = "save" => d.text = form.text
                                      /\ d.by = "save" /\ d.answer = "ok" => d.id \in DOMAIN drafts /\ drafts[d.id].text = form.text
                                      /\ d.op = "schedule" => d.id = form.id /\ d.text = form.text
                                      /\ d.op = "schedule" /\ d.answer = "ok" => drafts[d.id].due = form.text
                  /\ task.at # "save" => form.id \in DOMAIN drafts /\ drafts[form.id].text = form.text
                  /\ outcome = "scheduled" => drafts[form.id].due = form.text /\ task = Idle
                BY <4>1, <4>2 DEF Carried
            <4> HIDE DEF ComposerInv
            <4>9. \A d \in calls' : /\ d.op # "delete"
                                    /\ d.op = "patch" => d.id = form.id
                                    /\ d.by = "save" => d.text = form.text
                                    /\ d.by = "save" /\ d.answer = "ok" => d.id \in DOMAIN drafts' /\ drafts'[d.id].text = form.text
                                    /\ d.op = "schedule" => d.id = form.id /\ d.text = form.text
                                    /\ d.op = "schedule" /\ d.answer = "ok" => drafts'[d.id].due = form.text
                BY <1>2, <3>1, <4>3, <4>5, <4>6, <4>7, <4>8
            <4>10. task.at # "save" => form.id \in DOMAIN drafts' /\ drafts'[form.id].text = form.text
                BY <4>5, <4>8
            <4>11. outcome = "scheduled" => drafts'[form.id].due = form.text /\ task = Idle
                BY <4>5, <4>8 DEF Idle
            <4> QED BY <1>1, <4>8, <4>9, <4>10, <4>11 DEF Carried
        <3>9. Following => Following'
            BY <1>1, <3>1, <3>3 DEF Following
        <3>10. ASSUME Faithful, Clear PROVE Faithful'
            <4>1. form'.id # None => form'.id \in Kept'
                BY <1>1, <3>5, <3>10 DEF Faithful
            <4>2. \A d \in calls' : d.by = "save" /\ d.op = "patch" => d.id = form'.id
                BY <1>1, <1>2, <3>1, <3>10 DEF Faithful
            <4>3. \A d \in calls' : d.by = "save" /\ c.by = "save" => d = q
                BY <3>1 DEF Serial
            <4>4. c.by # "save" => \A d \in Kept : d \in Kept' /\ drafts'[d].text = drafts[d].text
                BY <1>1, <1>2, <2>1, <3>4, <3>5 DEF Kept, Posts
            <4>5. c.by = "save" /\ c.op # "delete" => id \in Kept' /\ drafts'[id].text = c.text
                BY <1>1, <1>2, <1>7, <2>1, <3>2, <3>5, <3>10, ComposerAssumption DEF Faithful, Calling, ComposerTyped
            <4>6. \A d \in calls' : d.by = "save" /\ d.op # "delete" /\ d.answer = "ok" => d.id \in Kept' /\ drafts'[d.id].text = d.text
                BY <3>1, <3>10, <4>3, <4>4, <4>5 DEF Faithful
            <4>7. ~Saving => c.by # "save"
                BY DEF Saving
            <4>8. ~Saving' => IF form'.id = None THEN form'.saved \in {Blank, form'.first} ELSE drafts'[form'.id].text = form'.saved
                BY <1>1, <3>3, <3>10, <4>4, <4>7 DEF Faithful
            <4> QED BY <4>1, <4>2, <4>6, <4>8 DEF Faithful
        <3>11. ASSUME Outlived, Clear PROVE Outlived'
            <4>1. \A d \in calls' : d.op = "delete" => d.by = "save"
                BY <3>1, <3>11 DEF Outlived
            <4>2. \A d \in calls' : d.by = "save" /\ c.by = "save" => d = q
                BY <3>1 DEF Serial
            <4>3. c.by # "save" => Kept' = Kept /\ \A d \in Kept : drafts'[d].text = drafts[d].text
                BY <1>1, <1>2, <2>1, <3>4, <3>5, <3>11 DEF Kept, Posts, Outlived
            <4>4. c.by = "save" => /\ c.text = form.text
                                   /\ c.op = "delete" => Kept' = {}
                                   /\ c.op # "delete" => id \in Kept' /\ drafts'[id].text = form.text
                BY <1>1, <1>2, <2>1, <3>2, <3>5, <3>11 DEF Outlived, Calling
            <4>5. \A d \in calls' : d.by = "save" =>
                     /\ d.text = form'.text
                     /\ d.op = "delete" => Kept' = {}
                     /\ d.op = "patch" => d.id \in Kept'
                     /\ d.op # "delete" /\ d.answer = "ok" => d.id \in Kept' /\ drafts'[d.id].text = form'.text
                BY <1>1, <3>1, <3>11, <4>2, <4>3, <4>4 DEF Outlived
            <4>6. ~Saving => c.by # "save"
                BY DEF Saving
            <4>7. ~Saving' => \/ Kept' = {} /\ form'.text \in {Blank, form'.first}
                              \/ \E d \in Kept' : drafts'[d].text = form'.text
                BY <1>1, <3>3, <3>11, <4>3, <4>6 DEF Outlived
            <4> QED BY <4>1, <4>5, <4>7 DEF Outlived
        <3> QED BY <1>1, <2>3, <2>5, <3>6, <3>7, <3>8, <3>9, <3>10, <3>11 DEF Clear, Unless
    <2> QED BY <1>7, <2>4, <2>5
<1> QED BY <1>4, <1>6, <1>7

\* What begins, or waits, when the form is saved.
LEMMA FlushFacts ==
    ASSUME ComposerInv, outcome = "editing", NEW f \in Forms, Flush(form.text, f, calls),
           f.text = form.text, f.first = form.first, f.latest = form.latest, f.id = form.id
    PROVE  /\ form' \in Forms /\ form'.text = form.text /\ form'.first = form.first /\ form'.latest = form.latest
           /\ \/ Saving /\ queued' = form.text /\ calls' = calls /\ form'.id = form.id
              \/ /\ ~Saving /\ queued' = None /\ queued = None
                 /\ form.text = Blank /\ form.id = None /\ form'.id = None /\ form'.saved = Blank /\ calls' = calls
              \/ /\ ~Saving /\ queued' = None /\ queued = None
                 /\ form'.id = IF form.text = Blank THEN None ELSE form.id
                 /\ \E q \in Posts :
                       /\ calls' = calls \cup {q} /\ q.by = "save" /\ q.text = form.text /\ q.id = form.id
                       /\ q.answer = "none" /\ (form.text # Blank \/ form.id # None)
                       /\ q.op = IF form.text = Blank THEN "delete" ELSE IF form.id = None THEN "post" ELSE "patch"
<1>1. form.text \in Writings /\ (queued # None => Saving)
    BY DEF ComposerInv, ComposerTyped, Forms, Serial
<1>2. CASE Saving
    BY <1>2 DEF Flush
<1>3. CASE ~Saving
    <2>1. form' = FormAfter(form.text, f) /\ calls' = calls \cup SaveOf(form.text, f) /\ queued' = None /\ queued = None
        BY <1>1, <1>3 DEF Flush
    <2>2. CASE /\ form.text = Blank /\ f.id = None /\ SaveOf(form.text, f) = {}
               /\ form' \in Forms /\ form'.text = f.text
               /\ form'.first = f.first /\ form'.latest = f.latest
               /\ form'.id = None /\ form'.saved = Blank
        BY <1>3, <2>1, <2>2
    <2>3. CASE \E q \in Posts :
                  /\ form.text # Blank \/ f.id # None
                  /\ SaveOf(form.text, f) = {q} /\ q.by = "save" /\ q.text = form.text /\ q.id = f.id /\ q.answer = "none"
                  /\ q.op = IF form.text = Blank THEN "delete" ELSE IF f.id = None THEN "post" ELSE "patch"
                  /\ form' \in Forms /\ form'.text = f.text
                  /\ form'.first = f.first /\ form'.latest = f.latest
                  /\ form'.id = (IF form.text = Blank THEN None ELSE f.id) /\ form'.saved = f.saved
        BY <1>3, <2>1, <2>3
    <2> QED BY <1>1, <2>1, <2>2, <2>3, BeginFacts
<1> QED BY <1>2, <1>3

\* A form that is saved keeps what it shows, and one draft.
SaveBegun ==
    /\ form' \in Forms /\ form'.text = form.text /\ form'.latest = form.text
    /\ form.text # Blank => form'.id = form.id
    /\ queued' \in {queued, form.text}
    /\ calls' \subseteq Posts /\ calls \subseteq calls'
    /\ \A c \in calls' \ calls : /\ c.by = "save" /\ c.text = form.text /\ c.id = form.id /\ c.answer = "none"
                                 /\ form.text # Blank => c.op \in {"post", "patch"}
    /\ \A c \in calls' : Calling(c)'
    /\ \A c, d \in calls' : c.by = "save" /\ d.by = "save" => c = d
    /\ form'.id \in Made' \cup {None}
    /\ queued' # None => Saving'
    /\ Saving => Saving'
    /\ \A c \in calls' : /\ c.op = "post" => form'.id = None
                         /\ c.by = "save" /\ c.op = "delete" => form'.id = None
                         /\ c.op = "patch" => form'.id \in {c.id, None}
    /\ OneDraft => OneDraft'
    /\ Faithful => Faithful'

\* A save that begins keeps one draft, and follows the form.
LEMMA SaveBegins ==
    ASSUME ComposerInv, outcome = "editing", NEW f \in Forms, Flush(form.text, f, calls),
           f.text = form.text, f.first = form.first, f.latest = form.latest, f.id = form.id,
           drafts' = drafts, gone' = gone, outcome' # "torn"
    PROVE  /\ SaveBegun /\ Following'
           /\ form.text # Blank => Saving'
<1> USE DEF ComposerInv
<1>1. /\ form' \in Forms /\ form'.text = form.text /\ form'.first = form.first /\ form'.latest = form.latest
      /\ form.latest = form.text /\ form.text # None
      /\ \A c \in calls : Calling(c)
      /\ calls \subseteq Posts /\ form.id \in Made \cup {None} /\ Made' = Made
    BY FlushFacts, ComposerAssumption DEF Serial, ComposerTyped, Made, Forms, Writings
<1>2. CASE Saving /\ queued' = form.text /\ calls' = calls /\ form'.id = form.id
    <2>1. Saving' /\ Kept' = Kept
        BY <1>2 DEF Saving, Kept
    <2>2. \A c \in calls' : Calling(c)'
        BY <1>1, <1>2 DEF Calling
    <2>3. OneDraft => OneDraft'
        BY <1>2, <2>1 DEF OneDraft
    <2>4. Following'
        BY <1>1, <1>2, <2>1 DEF Following
    <2>5. Faithful => Faithful'
        BY <1>2, <2>1 DEF Faithful
    <2> QED BY <1>1, <1>2, <2>1, <2>2, <2>3, <2>4, <2>5 DEF Serial, SaveBegun
<1>3. CASE /\ ~Saving /\ queued' = None /\ queued = None
           /\ form.text = Blank /\ form.id = None /\ form'.id = None /\ form'.saved = Blank /\ calls' = calls
    <2>1. ~Saving' /\ Kept' = Kept
        BY <1>3 DEF Saving, Kept
    <2>2. \A c \in calls' : Calling(c)'
        BY <1>1, <1>3 DEF Calling
    <2>3. OneDraft => OneDraft'
        BY <1>3, <2>1 DEF OneDraft
    <2>4. Following'
        BY <1>1, <1>3, <2>1 DEF Following, Saving
    <2>5. Faithful => Faithful'
        BY <1>3, <2>1 DEF Faithful
    <2> QED BY <1>1, <1>3, <2>1, <2>2, <2>3, <2>4, <2>5 DEF Serial, SaveBegun
<1>4. ASSUME ~Saving /\ queued' = None /\ queued = None,
             form'.id = IF form.text = Blank THEN None ELSE form.id,
             NEW q \in Posts,
             /\ calls' = calls \cup {q} /\ q.by = "save" /\ q.text = form.text /\ q.id = form.id
             /\ q.answer = "none" /\ (form.text # Blank \/ form.id # None)
             /\ q.op = IF form.text = Blank THEN "delete" ELSE IF form.id = None THEN "post" ELSE "patch"
      PROVE  /\ SaveBegun /\ Following'
             /\ form.text # Blank => Saving'
    <2>1. Saving'
        BY <1>4 DEF Saving
    <2>2. \A c \in calls : c.by # "save" /\ c.op \notin {"post", "patch"}
        BY <1>1, <1>4 DEF Saving, Calling, Posts
    <2>3. Kept' = IF form.text = Blank THEN Kept \ {form.id} ELSE Kept
        BY <1>4 DEF Kept
    <2>4. Calling(q)'
        BY <1>1, <1>4, ComposerAssumption DEF Calling, Made, Writings
    <2>5. \A c \in calls' : Calling(c)'
        BY <1>1, <1>4, <2>4 DEF Calling
    <2>6. ASSUME OneDraft PROVE OneDraft'
        <3>1. Kept \subseteq {form.id}
            BY <1>4, <2>2, <2>6 DEF OneDraft
        <3>2. q.op \in {"post", "delete"} => Kept' = {}
            BY <1>1, <1>4, <2>3, <3>1, ComposerAssumption DEF Kept, ComposerTyped
        <3>3. Kept' \subseteq {form'.id}
            BY <1>4, <2>3, <3>1, <3>2
        <3> QED BY <1>4, <2>2, <2>6, <3>2, <3>3 DEF OneDraft
    <2>7. Following'
        BY <1>1, <1>4, <2>1, <2>2 DEF Following
    <2>8. ASSUME Faithful PROVE Faithful'
        BY <1>4, <2>1, <2>2, <2>3, <2>8 DEF Faithful
    <2>9. \A c, d \in calls' : c.by = "save" /\ d.by = "save" => c = d
        BY <1>4, <2>2
    <2>10. form'.id \in Made' \cup {None}
        BY <1>1, <1>4
    <2>11. \A c \in calls' : /\ c.op = "post" => form'.id = None
                             /\ c.by = "save" /\ c.op = "delete" => form'.id = None
                             /\ c.op = "patch" => form'.id \in {c.id, None}
        BY <1>1, <1>4, <2>2
    <2> QED BY <1>1, <1>4, <2>1, <2>5, <2>6, <2>7, <2>8, <2>9, <2>10, <2>11 DEF SaveBegun
<1>5. \/ Saving /\ queued' = form.text /\ calls' = calls /\ form'.id = form.id
      \/ /\ ~Saving /\ queued' = None /\ queued = None
         /\ form.text = Blank /\ form.id = None /\ form'.id = None /\ form'.saved = Blank /\ calls' = calls
      \/ /\ ~Saving /\ queued' = None /\ queued = None
         /\ form'.id = IF form.text = Blank THEN None ELSE form.id
         /\ \E q \in Posts :
               /\ calls' = calls \cup {q} /\ q.by = "save" /\ q.text = form.text /\ q.id = form.id
               /\ q.answer = "none" /\ (form.text # Blank \/ form.id # None)
               /\ q.op = IF form.text = Blank THEN "delete" ELSE IF form.id = None THEN "post" ELSE "patch"
    BY FlushFacts
<1> QED BY <1>1, <1>2, <1>3, <1>4, <1>5

LEMMA DebounceKeepsComposer == ASSUME ComposerInv, Debounce PROVE ComposerInv'
<1> USE DEF ComposerInv
<1>1. /\ outcome = "editing" /\ task.at # "resume" /\ timer = form.text /\ timer' = None /\ Flush(form.text, form, calls)
      /\ mishaps' = mishaps \cup (IF task.at = "remove" THEN {"overlap"} ELSE {})
      /\ task' = task /\ drafts' = drafts /\ gone' = gone /\ outcome' = outcome /\ form \in Forms
    BY DEF Debounce, Listening, Note, Serial, ComposerTyped
<1>2. /\ SaveBegun /\ Following'
      /\ form.text # Blank => Saving'
    BY <1>1, SaveBegins
<1>3. ComposerTyped'
    BY <1>1, <1>2 DEF ComposerTyped, Forms, SaveBegun
<1>4. Serial'
    BY <1>1, <1>2 DEF Serial, Working, SaveBegun
<1>5. Unless({"failed", "overlap"})' => Ghostless'
    BY <1>1 DEF Unless, Ghostless
<1>6. Unless({"failed", "overlap", "edited"})' => Carried'
    <2>1. SUFFICES ASSUME Unless({"failed", "overlap", "edited"}), task.by \in {"popOut", "schedule"}, task.text # Blank
                   PROVE  Carried'
        BY <1>1 DEF Unless, Carried
    <2>2. Carried
        BY <2>1
    <2> QED BY <1>1, <1>2, <2>1, <2>2 DEF Carried, SaveBegun
<1> QED BY <1>1, <1>2, <1>3, <1>4, <1>5, <1>6 DEF Clear, Unless, SaveBegun

\* Unmounting a form that has an edit to save, or none.
LEMMA UnmountFacts ==
    ASSUME ComposerInv, outcome = "editing", NEW how \in Outcomes \ {"torn"}, Unmount(form, calls, how),
           drafts' = drafts, gone' = gone
    PROVE  /\ timer' = None /\ outcome' = how
           /\ SaveBegun
           /\ Following' \/ (form' = form /\ calls' = calls /\ queued' = queued /\ ~Pending(form) /\ (~Overlapped => Following'))
<1> USE DEF ComposerInv
<1>1. /\ form \in Forms /\ form.latest = form.text /\ form.text \in Writings /\ form.text # None /\ calls \subseteq Posts
      /\ \A c \in calls : Calling(c)
    BY ComposerAssumption DEF ComposerTyped, Forms, Serial, Writings
<1>2. timer' = None /\ outcome' = how /\ how # "torn"
    BY DEF Unmount
<1>3. CASE Pending(form)
    <2> DEFINE f == [form EXCEPT !.saved = form.latest]
    <2>1. f \in Forms /\ f.text = form.text /\ f.first = form.first /\ f.latest = form.latest /\ f.id = form.id
        BY <1>1 DEF Forms
    <2>2. Flush(form.text, f, calls)
        BY <1>1, <1>3 DEF Unmount
    <2> HIDE DEF f
    <2>3. /\ SaveBegun /\ Following'
          /\ form.text # Blank => Saving'
        BY <1>2, <2>1, <2>2, SaveBegins
    <2> QED BY <1>2, <2>3
<1>4. CASE ~Pending(form)
    <2>1. form' = form /\ calls' = calls /\ queued' = queued
        BY <1>4 DEF Unmount
    <2>2. Saving' = Saving /\ Kept' = Kept /\ Made' = Made
        BY <2>1 DEF Saving, Kept, Made
    <2>3. \A c \in calls' : Calling(c)'
        BY <1>1, <2>1 DEF Calling, Made
    <2>4. OneDraft => OneDraft'
        BY <1>2, <2>1, <2>2 DEF OneDraft
    <2>5. Faithful => Faithful'
        BY <2>1, <2>2 DEF Faithful
    <2>6. form.saved = form.text
        BY <1>1, <1>4 DEF Pending
    <2>7. ~Overlapped => Following'
        BY <2>1, <2>2, <2>6 DEF Overlapped, Following, Saving
    <2> QED BY <1>1, <1>2, <1>4, <2>1, <2>2, <2>3, <2>4, <2>5, <2>7 DEF Serial, SaveBegun
<1> QED BY <1>3, <1>4

LEMMA CloseKeepsComposer == ASSUME ComposerInv, Close PROVE ComposerInv'
<1> USE DEF ComposerInv
<1>1. /\ outcome = "editing" /\ task.at # "resume" /\ Unmount(form, calls, "closed")
      /\ mishaps' = mishaps \cup ((IF task.at = "remove" THEN {"overlap"} ELSE {})
                                  \cup (IF ~Pending(form) /\ Overlapped THEN {"undone"} ELSE {}))
      /\ task' = task /\ drafts' = drafts /\ gone' = gone
    BY DEF Close, Listening, Note
<1>2. /\ timer' = None /\ outcome' = "closed"
      /\ SaveBegun
      /\ Following' \/ (form' = form /\ calls' = calls /\ queued' = queued /\ ~Pending(form) /\ (~Overlapped => Following'))
    BY <1>1, UnmountFacts DEF Outcomes
<1>3. ComposerTyped'
    BY <1>1, <1>2 DEF ComposerTyped, Forms, Outcomes, SaveBegun
<1>4. Serial'
    BY <1>1, <1>2 DEF Serial, Working, SaveBegun
<1>5. Unless({"failed", "overlap"})' => Ghostless'
    BY <1>1, <1>2 DEF Unless, Ghostless
<1>6. Unless({"failed", "overlap", "edited"})' => Carried'
    <2>1. SUFFICES ASSUME Unless({"failed", "overlap", "edited"}), task.by \in {"popOut", "schedule"}, task.text # Blank
                   PROVE  Carried'
        BY <1>1, <1>2 DEF Unless, Carried
    <2>2. Carried
        BY <2>1
    <2> QED BY <1>1, <1>2, <2>1, <2>2 DEF Carried, SaveBegun
<1>7. Unless({"failed", "undone", "cut"})' => Following'
    BY <1>1, <1>2 DEF Unless
<1> QED BY <1>1, <1>2, <1>3, <1>4, <1>5, <1>6, <1>7 DEF Clear, Unless, SaveBegun

LEMMA EnsureKeepsComposer == ASSUME ComposerInv, NEW by \in {"popOut", "schedule"}, Ensure(by) PROVE ComposerInv'
<1> USE DEF ComposerInv
<1>1. /\ outcome = "editing" /\ task = Idle /\ timer' = timer
      /\ drafts' = drafts /\ gone' = gone /\ outcome' = outcome /\ form \in Forms
      /\ form.text \in Writings /\ form.latest = form.text
    BY DEF Ensure, Listening, Serial, ComposerTyped, Forms
<1>2. \A c \in calls : c.by = "save" \/ (c.by = "discard" /\ FALSE)
    BY <1>1 DEF Serial, Working, Idle, ComposerTyped, Posts
<1>3. CASE form.text = Blank
    <2>1. /\ task' = [by |-> by, at |-> "resume", text |-> Blank] /\ by = "popOut"
          /\ form' = form /\ calls' = calls /\ queued' = queued /\ mishaps' = mishaps
        BY <1>3 DEF Ensure
    <2>2. task' \in Tasks
        BY <2>1 DEF Tasks, Writings
    <2>3. ComposerTyped'
        BY <1>1, <2>1, <2>2 DEF ComposerTyped
    <2>4. Saving' = Saving /\ Kept' = Kept
        BY <1>1, <2>1 DEF Saving, Kept
    <2>5. Serial'
        BY <1>1, <1>2, <2>1, <2>4 DEF Serial, Calling, Made, Working, Idle
    <2>6. Clear => OneDraft'
        BY <1>1, <2>1, <2>4 DEF Clear, Unless, OneDraft
    <2>7. Ghostless' /\ Carried'
        BY <1>1, <2>1 DEF Ghostless, Carried
    <2>8. Following => Following'
        BY <1>1, <2>1, <2>4 DEF Following
    <2>9. Faithful => Faithful'
        BY <1>1, <2>1, <2>4 DEF Faithful
    <2> QED BY <1>1, <2>1, <2>3, <2>5, <2>6, <2>7, <2>8, <2>9 DEF Clear, Unless, Idle
<1>4. CASE form.text # Blank
    <2> DEFINE f == [form EXCEPT !.saved = form.text]
    <2>1. f \in Forms /\ f.text = form.text /\ f.first = form.first /\ f.latest = form.latest /\ f.id = form.id
        BY <1>1 DEF Forms
    <2>2. /\ Flush(form.text, f, calls) /\ task' = [by |-> by, at |-> Ensured, text |-> form.text]
          /\ mishaps' = mishaps \cup (IF Saving THEN {"overlap"} ELSE {})
        BY <1>4 DEF Ensure, SaveFirst, Note
    <2> HIDE DEF f
    <2>3. /\ SaveBegun /\ Following'
          /\ form.text # Blank => Saving'
        BY <1>1, <2>1, <2>2, SaveBegins
    <2>4. task' \in Tasks /\ task'.by = by /\ task'.at = Ensured /\ task'.text = form.text /\ Ensured \in {"save", "resume"}
        BY <1>1, <2>2 DEF Tasks, Ensured
    <2>5. ComposerTyped'
        BY <1>1, <2>3, <2>4 DEF ComposerTyped, Forms, SaveBegun
    <2>6. \A c \in calls' : c.by = "save"
        BY <1>2, <2>3 DEF SaveBegun
    <2>7. Serial'
        BY <1>1, <1>4, <2>3, <2>4, <2>6 DEF Serial, Working, SaveBegun
    <2>8. Ghostless'
        BY <1>1, <2>4 DEF Ghostless
    <2>9. Unless({"failed", "overlap", "edited"})' => Carried'
        <3>1. SUFFICES ASSUME ~Saving PROVE Carried'
            BY <2>2 DEF Unless
        <3>2. calls = {} /\ queued = None
            BY <1>1, <1>2, <3>1 DEF Saving, Serial
        <3>3. task'.at = "save"
            BY <2>4, <3>1 DEF Ensured
        <3>4. \A c \in calls' : c.op \in {"post", "patch"} /\ c.text = form.text /\ c.id = form.id /\ c.answer = "none"
            BY <1>4, <2>3, <3>2 DEF SaveBegun
        <3> QED BY <1>1, <1>4, <2>3, <2>4, <3>2, <3>3, <3>4 DEF Carried, SaveBegun
    <2> QED BY <1>1, <2>2, <2>3, <2>5, <2>7, <2>8, <2>9 DEF Clear, Unless, SaveBegun, Idle
<1> QED BY <1>3, <1>4

LEMMA OpenWindowKeepsComposer == ASSUME ComposerInv, OpenWindow PROVE ComposerInv'
<1> USE DEF ComposerInv
<1> DEFINE at == IF form.id = None THEN "empty" ELSE "opened"
<1>1. /\ task.at = "resume" /\ task.by = "popOut" /\ task' = [task EXCEPT !.at = at]
      /\ drafts' = drafts /\ gone' = gone /\ mishaps' = mishaps /\ outcome # "torn"
    BY DEF OpenWindow, Serial, Idle
<1>2. /\ task' \in Tasks /\ task'.by = "popOut" /\ task'.at = at /\ task'.text = task.text
    BY <1>1 DEF ComposerTyped, Tasks
<1>3. at \in {"empty", "opened"} /\ (at = "empty" <=> form.id = None)
    OBVIOUS
<1> HIDE DEF at
<1>4. \A c \in calls : c.by \in {"save", "discard"}
    BY <1>1 DEF Serial, Working, ComposerTyped, Posts
<1>5. CASE outcome = "editing"
    <2>1. Unmount(form, calls, "popped") /\ "popped" \in Outcomes \ {"torn"}
        BY <1>5 DEF OpenWindow, Outcomes
    <2>2. /\ timer' = None /\ outcome' = "popped"
          /\ SaveBegun
        BY <1>1, <1>5, <2>1, UnmountFacts
    <2>3. ComposerTyped'
        BY <1>1, <1>2, <2>2 DEF ComposerTyped, Forms, Outcomes, SaveBegun
    <2>4. \A c \in calls' : c.by \in {"save", "discard"}
        BY <1>4, <2>2 DEF SaveBegun
    <2>5. Serial'
        BY <1>1, <1>2, <1>3, <1>5, <2>2, <2>4 DEF Serial, Working, SaveBegun
    <2>6. Ghostless'
        BY <1>2, <1>3, <2>2 DEF Ghostless
    <2>7. Unless({"failed", "overlap", "edited"})' => Carried'
        <3>1. SUFFICES ASSUME Unless({"failed", "overlap", "edited"}), task.text # Blank PROVE Carried'
            BY <1>1, <1>2, <2>2 DEF Unless, Carried
        <3>2. Carried
            BY <3>1
        <3>3. form.id \in DOMAIN drafts /\ drafts[form.id].text = form.text /\ form.text # Blank
              /\ task.text = form.text
            BY <1>1, <3>1, <3>2 DEF Carried, Idle
        <3>4. form.id # None /\ at = "opened"
            BY <1>3, <3>3, ComposerAssumption DEF ComposerTyped
        <3>5. form'.id = form.id /\ form'.text = form.text /\ queued' \in {None, form.text}
            BY <1>1, <2>2, <3>1, <3>2, <3>3 DEF SaveBegun, Carried
        <3>6. \A c \in calls' : /\ c.op # "delete"
                                /\ c.op = "patch" => c.id = form.id
                                /\ c.by = "save" => c.text = form.text
                                /\ c.by = "save" /\ c.answer = "ok" => c.id \in DOMAIN drafts /\ drafts[c.id].text = form.text
                                /\ c.op # "schedule"
            <4>1. TAKE c \in calls'
            <4>2. c.op = "schedule" => c.by = "schedule"
                BY <2>3, <2>5 DEF Serial, Calling, ComposerTyped, Posts
            <4> QED BY <1>1, <2>2, <2>4, <3>1, <3>2, <3>3, <4>2 DEF SaveBegun, Carried
        <3> QED BY <1>1, <1>2, <2>2, <3>3, <3>4, <3>5, <3>6 DEF Carried
    <2> QED BY <1>1, <2>2, <2>3, <2>5, <2>6, <2>7 DEF Clear, Unless, SaveBegun
<1>6. CASE outcome # "editing"
    <2>1. form' = form /\ timer' = timer /\ queued' = queued /\ calls' = calls /\ outcome' = outcome
        BY <1>6 DEF OpenWindow
    <2>2. ComposerTyped'
        BY <1>1, <1>2, <2>1 DEF ComposerTyped
    <2>3. Saving' = Saving /\ Kept' = Kept
        BY <1>1, <2>1 DEF Saving, Kept
    <2>4. Serial'
        BY <1>1, <1>2, <1>3, <1>4, <2>1, <2>3 DEF Serial, Calling, Made, Working
    <2>5. Clear => OneDraft'
        BY <1>1, <2>1, <2>3 DEF Clear, Unless, OneDraft
    <2>6. Unless({"failed", "overlap"})' => Ghostless'
        BY <1>1, <1>2, <1>3, <2>1, <2>3 DEF Unless, Ghostless
    <2>7. Unless({"failed", "overlap", "edited"})' => Carried'
        <3>1. SUFFICES ASSUME Unless({"failed", "overlap", "edited"}), task.text # Blank \/ outcome = "scheduled" PROVE Carried'
            BY <1>1, <1>2, <2>1 DEF Unless, Carried
        <3>2. Carried
            BY <3>1
        <3>3. form.id \in DOMAIN drafts
            BY <1>1, <3>1, <3>2 DEF Carried
        <3>4. at = "opened" /\ outcome # "scheduled"
            BY <1>1, <1>3, <3>1, <3>2, <3>3, ComposerAssumption DEF ComposerTyped, Carried, Idle
        <3> QED BY <1>1, <1>2, <2>1, <3>1, <3>2, <3>4 DEF Carried, Idle
    <2>8. Following => Following'
        BY <1>1, <2>1, <2>3 DEF Following
    <2>9. Faithful => Faithful'
        BY <1>1, <2>1, <2>3 DEF Faithful
    <2> QED BY <1>1, <1>2, <1>3, <2>1, <2>2, <2>4, <2>5, <2>6, <2>7, <2>8, <2>9 DEF Clear, Unless
<1> QED BY <1>5, <1>6

LEMMA TearDownKeepsComposer == ASSUME ComposerInv, TearDown PROVE ComposerInv'
<1> USE DEF ComposerInv
<1>1. /\ outcome = "editing" /\ task.at # "resume" /\ form' = form /\ drafts' = drafts /\ gone' = gone
      /\ outcome' = "torn" /\ task' = Idle /\ timer' = None /\ queued' = None
      /\ mishaps' = mishaps \cup (IF Overlapped \/ task.by = "send" THEN {"cut"} ELSE {})
      /\ form \in Forms /\ form.latest = form.text /\ form.text \in Writings /\ form.text # None
      /\ \A c \in calls : Calling(c)
      /\ calls \subseteq Posts
    BY ComposerAssumption DEF TearDown, Listening, Note, Serial, ComposerTyped, Forms, Writings
<1>2. \/ calls' = calls /\ (Saving \/ form.text = form.saved \/ (form.text = Blank /\ form.id = None))
      \/ ~Saving /\ \E q \in Posts :
            /\ calls' = calls \cup {q} /\ q.by = "save" /\ q.text = form.text /\ q.id = form.id
            /\ q.answer = "none" /\ (form.text # Blank \/ form.id # None)
            /\ q.op = IF form.text = Blank THEN "delete" ELSE IF form.id = None THEN "post" ELSE "patch"
    <2>1. CASE ~(Pending(form) /\ ~Saving)
        BY <1>1, <2>1 DEF TearDown, Pending
    <2>2. CASE Pending(form) /\ ~Saving
        <3>1. calls' = calls \cup SaveOf(form.text, form)
            BY <1>1, <2>2 DEF TearDown
        <3>2. CASE form.text = Blank /\ form.id = None /\ SaveOf(form.text, form) = {}
            BY <3>1, <3>2
        <3>3. CASE \E q \in Posts :
                  /\ form.text # Blank \/ form.id # None
                  /\ SaveOf(form.text, form) = {q} /\ q.by = "save" /\ q.text = form.text /\ q.id = form.id /\ q.answer = "none"
                  /\ q.op = IF form.text = Blank THEN "delete" ELSE IF form.id = None THEN "post" ELSE "patch"
            BY <2>2, <3>1, <3>3
        <3> QED BY <1>1, <3>2, <3>3, BeginFacts
    <2> QED BY <2>1, <2>2
<1>3. ASSUME calls' = calls, Saving \/ form.text = form.saved \/ (form.text = Blank /\ form.id = None)
      PROVE  ComposerInv'
    <2>1. ComposerTyped'
        BY <1>1, <1>3 DEF ComposerTyped, Outcomes, Idle, Tasks
    <2>2. Saving' = Saving /\ Kept' = Kept /\ Made' = Made
        BY <1>1, <1>3 DEF Saving, Kept, Made
    <2>3. Serial'
        BY <1>1, <1>3, <2>2 DEF Serial, Calling
    <2>4. Clear => OneDraft'
        BY <1>1, <1>3, <2>2 DEF Clear, Unless, OneDraft
    <2>5. Ghostless' /\ Carried'
        BY <1>1 DEF Ghostless, Carried, Idle
    <2>6. Unless({"failed", "undone", "cut"})' => Outlived'
        <3>1. SUFFICES ASSUME Unless({"failed", "undone", "cut"}), ~Saving, queued = None, task.by # "send" PROVE Outlived'
            BY <1>1 DEF Unless, Overlapped
        <3>2. \A c \in calls : c.by \notin {"send", "sent", "discard"} /\ task.at # "remove"
            BY <1>1, <3>1 DEF Serial, Working
        <3>3. Faithful /\ OneDraft
            BY <1>1, <3>1, <3>2 DEF Unless, Serial
        <3>4. \A c \in calls : c.op # "delete" /\ c.by # "save" /\ c.op # "post"
            BY <1>1, <3>1, <3>2 DEF Calling, Saving, Posts
        <3>5. form.id = None => Kept = {} /\ form.text \in {Blank, form.first}
            BY <1>1, <1>3, <3>1, <3>3, <3>4, ComposerAssumption DEF OneDraft, Faithful, Kept, ComposerTyped
        <3>6. form.id # None => form.id \in Kept /\ drafts[form.id].text = form.text
            BY <1>1, <1>3, <3>1, <3>3 DEF Faithful
        <3> QED BY <1>1, <1>3, <2>2, <3>4, <3>5, <3>6 DEF Outlived
    <2> QED BY <1>1, <2>1, <2>3, <2>4, <2>5, <2>6 DEF Clear, Unless
<1>4. ASSUME ~Saving, NEW q \in Posts,
             /\ calls' = calls \cup {q} /\ q.by = "save" /\ q.text = form.text /\ q.id = form.id
             /\ q.answer = "none" /\ (form.text # Blank \/ form.id # None)
             /\ q.op = IF form.text = Blank THEN "delete" ELSE IF form.id = None THEN "post" ELSE "patch"
      PROVE  ComposerInv'
    <2>1. ComposerTyped'
        BY <1>1, <1>4 DEF ComposerTyped, Outcomes, Idle, Tasks
    <2>2. Saving' /\ Made' = Made
        BY <1>1, <1>4 DEF Saving, Made
    <2>3. Calling(q)'
        BY <1>1, <1>4, <2>2, ComposerAssumption DEF Calling, Serial
    <2>4. \A c \in calls : c.by # "save" /\ c.op \notin {"post", "patch"}
        BY <1>1, <1>4 DEF Saving, Calling, Posts
    <2>5. Serial'
        BY <1>1, <1>4, <2>2, <2>3, <2>4 DEF Serial, Calling
    <2>6. Kept' = IF form.text = Blank THEN Kept \ {form.id} ELSE Kept
        BY <1>1, <1>4 DEF Kept
    <2>7. OneDraft => Kept \subseteq {form.id} /\ (q.op \in {"post", "delete"} => Kept' = {})
        BY <1>1, <1>4, <2>4, <2>6, ComposerAssumption DEF OneDraft, Kept, ComposerTyped
    <2>8. Clear => OneDraft'
        BY <1>1, <1>4, <2>4, <2>6, <2>7 DEF Clear, Unless, OneDraft
    <2>9. Ghostless' /\ Carried'
        BY <1>1 DEF Ghostless, Carried, Idle
    <2>10. Unless({"failed", "undone", "cut"})' => Outlived'
        <3>1. SUFFICES ASSUME Unless({"failed", "undone", "cut"}), queued = None, task.by # "send" PROVE Outlived'
            BY <1>1 DEF Unless, Overlapped
        <3>2. \A c \in calls : c.by \notin {"send", "sent", "discard"} /\ task.at # "remove"
            BY <1>1, <3>1 DEF Serial, Working
        <3>3. Faithful /\ OneDraft
            BY <1>1, <3>1, <3>2 DEF Unless, Serial
        <3>4. \A c \in calls : c.op # "delete"
            BY <1>1, <1>4, <3>2 DEF Calling, Saving, Posts
        <3>5. q.op = "patch" => form.id \in Kept'
            BY <1>4, <2>6, <3>3 DEF Faithful
        <3> QED BY <1>1, <1>4, <2>2, <2>4, <2>7, <3>3, <3>4, <3>5 DEF Outlived
    <2> QED BY <1>1, <2>1, <2>5, <2>8, <2>9, <2>10 DEF Clear, Unless
<1> QED BY <1>2, <1>3, <1>4

\* The request that deletes the draft the form has, and the drafts left.
LEMMA DropFacts ==
    ASSUME ComposerInv, NEW by \in {"discard", "sent"}, NEW rest \in SUBSET calls,
           calls' = rest \cup Drop(by), form' \in Forms, form'.id = None, drafts' = drafts,
           \A c \in calls \ rest : c.by = "send"
    PROVE  /\ calls' \subseteq Posts
           /\ \A c \in calls' \ rest : c \in Posts /\ c.op = "delete" /\ c.by = by /\ c.id = form.id
                                       /\ c.text = Blank /\ c.answer = "none" /\ c.id \in Made
           /\ form.id # None => \E c \in calls' : c.by = by
           /\ Saving' = Saving
           /\ \A c \in calls : c.by # "send" => c \in rest
           /\ OneDraft => /\ \A d, e \in Kept' : d = e
                          /\ Kept' \subseteq Kept
                          /\ outcome # "torn" => \A d \in Kept' : \E c \in rest : c.op = "post" /\ c.answer = "ok" /\ c.id = d
<1> USE DEF ComposerInv
<1>1. calls \subseteq Posts /\ form.id \in DraftIds \cup {None} /\ Blank \in Writings \cup {None} /\ form.id \in Made \cup {None}
    BY DEF ComposerTyped, Forms, Writings, Serial
<1>2. CASE form.id = None
    <2>1. calls' = rest
        BY <1>2 DEF Drop
    <2>2. \A c \in calls \ rest : c.op = "send"
        BY DEF Serial, Calling
    <2>3. Kept' = Kept
        BY <2>1, <2>2 DEF Kept
    <2>4. Saving' = Saving
        BY <2>1 DEF Saving
    <2>5. OneDraft /\ outcome # "torn" => \A d \in Kept' : \E c \in rest : c.op = "post" /\ c.answer = "ok" /\ c.id = d
        BY <1>2, <2>2, <2>3, ComposerAssumption DEF OneDraft, Kept, ComposerTyped
    <2> QED BY <1>1, <1>2, <2>1, <2>3, <2>4, <2>5 DEF OneDraft
<1>3. CASE form.id # None
    <2> DEFINE q == Request("delete", form.id, Blank, by)
    <2>1. q \in Posts /\ q.op = "delete" /\ q.id = form.id /\ q.text = Blank /\ q.by = by /\ q.answer = "none"
        BY <1>1, RequestFacts
    <2>2. calls' = rest \cup {q}
        BY <1>3 DEF Drop
    <2> HIDE DEF q
    <2>3. \A c \in calls \ rest : c.op = "send"
        BY DEF Serial, Calling
    <2>4. Kept' = Kept \ {form.id}
        BY <2>1, <2>2, <2>3 DEF Kept
    <2>5. Saving' = Saving
        BY <2>1, <2>2 DEF Saving
    <2>6. OneDraft /\ outcome # "torn" => \A d \in Kept' : \E c \in rest : c.op = "post" /\ c.answer = "ok" /\ c.id = d
        BY <2>3, <2>4 DEF OneDraft
    <2> QED BY <1>1, <1>3, <2>1, <2>2, <2>4, <2>5, <2>6 DEF OneDraft
<1> QED BY <1>2, <1>3

LEMMA DiscardKeepsComposer == ASSUME ComposerInv, Discard PROVE ComposerInv'
<1> USE DEF ComposerInv
<1> DEFINE f == Forgets([form EXCEPT !.id = None])
<1>1. /\ outcome = "editing" /\ task.at # "resume" /\ task' = task /\ drafts' = drafts /\ gone' = gone
      /\ mishaps' = mishaps \cup ((IF Overlapped THEN {"overlap"} ELSE {}) \cup (IF task # Idle THEN {"edited"} ELSE {}))
      /\ form \in Forms /\ \A c \in calls : Calling(c)
    BY DEF Discard, Listening, Note, ComposerTyped, Serial
<1>2. f \in Forms /\ f.latest = None /\ f.id = None
    BY <1>1 DEF Forgets, Forms
<1>3. Unmount(f, calls \cup Drop("discard"), "discarded")
    BY DEF Discard
<1> HIDE DEF f
<1>4. /\ form' = f /\ calls' = calls \cup Drop("discard") /\ queued' = queued /\ timer' = None /\ outcome' = "discarded"
    BY <1>2, <1>3 DEF Unmount, Pending
<1>5. /\ calls' \subseteq Posts
      /\ \A c \in calls' \ calls : c \in Posts /\ c.op = "delete" /\ c.by = "discard" /\ c.id = form.id
                                   /\ c.text = Blank /\ c.answer = "none" /\ c.id \in Made
      /\ Saving' = Saving
      /\ OneDraft => /\ \A d, e \in Kept' : d = e
                     /\ Kept' \subseteq Kept
                     /\ \A d \in Kept' : \E c \in calls : c.op = "post" /\ c.answer = "ok" /\ c.id = d
    BY <1>1, <1>2, <1>4, DropFacts
<1>6. calls \subseteq calls' /\ Made' = Made
    BY <1>1, <1>4 DEF Made
<1>7. ComposerTyped'
    BY <1>1, <1>2, <1>4, <1>5 DEF ComposerTyped, Outcomes
<1>8. \A c \in calls' : Calling(c)'
    BY <1>1, <1>5, <1>6 DEF Calling
<1>9. Serial'
    BY <1>1, <1>2, <1>4, <1>5, <1>6, <1>8 DEF Serial, Working
<1>10. Clear => OneDraft'
    BY <1>4, <1>5, <1>6 DEF Clear, OneDraft
<1>11. Unless({"failed", "overlap"})' => Ghostless'
    <2>1. SUFFICES ASSUME Clear, ~Saving, queued = None PROVE Kept' = {}
        BY <1>1, <1>4, <1>5 DEF Unless, Clear, Overlapped, Ghostless
    <2>2. \A c \in calls : c.op # "post"
        BY <1>1, <2>1 DEF Calling, Saving, ComposerTyped, Posts
    <2> QED BY <1>5, <2>1, <2>2 DEF Clear
<1>12. Unless({"failed", "overlap", "edited"})' => Carried'
    BY <1>1, <1>4 DEF Unless, Carried, Idle
<1> QED BY <1>1, <1>4, <1>7, <1>9, <1>10, <1>11, <1>12 DEF Clear, Unless

\* The composer ends without saving.
LEMMA FinishFacts ==
    ASSUME ComposerInv, outcome # "torn", NEW how \in Outcomes \ {"torn", "editing"}, NEW rest \in SUBSET calls,
           Finish(Forgets(form), rest, how)
    PROVE  /\ form' \in Forms /\ form'.text = form.text /\ form'.id = form.id /\ form'.saved = form.saved
           /\ calls' = rest /\ outcome' = how /\ queued' = queued /\ timer' = None
<1> USE DEF ComposerInv
<1> DEFINE f == Forgets(form)
<1>1. f \in Forms /\ f.text = form.text /\ f.id = form.id /\ f.saved = form.saved /\ f.latest = None
    BY DEF Forgets, Forms, ComposerTyped
<1>2. Finish(f, rest, how)
    OBVIOUS
<1> HIDE DEF f
<1>3. form' = f /\ calls' = rest /\ outcome' = how /\ queued' = queued /\ timer' = None
    BY <1>1, <1>2 DEF Finish, Unmount, Pending, Serial
<1> QED BY <1>1, <1>3

\* An answer whose mutation is over, with the composer ended or as it was.
LEMMA AnswerRead ==
    ASSUME ComposerInv, outcome # "torn", NEW c \in calls, c.by \in {"send", "sent", "schedule"}, c.answer # "none",
           form' \in Forms, form'.text = form.text, form'.id = form.id, form'.latest = form.latest \/ outcome' # "editing",
           calls' = calls \ {c}, queued' = queued, task' = Idle,
           outcome' \in Outcomes \ {"torn"}, outcome' = "editing" => outcome = "editing",
           outcome \in {"discarded", "sent", "scheduled"} => outcome' \in {"discarded", "sent", "scheduled"},
           timer' = timer \/ timer' = None, outcome' # "editing" => timer' = None,
           drafts' = drafts, gone' = gone
    PROVE  /\ ComposerTyped' /\ Serial' /\ Saving' = Saving
           /\ \A d \in calls' : d.by \in {"save", "discard"}
           /\ Clear => OneDraft' /\ Kept' = Kept /\ c.answer = "ok"
<1> USE DEF ComposerInv
<1>1. ComposerTyped'
    BY DEF ComposerTyped, Idle, Tasks
<1>2. Saving' = Saving /\ Made' = Made
    BY DEF Saving, Made
<1>3. \A d \in calls' : d.by \in {"save", "discard"}
    BY DEF Serial, ComposerTyped, Posts
<1>4. \A d \in calls' : Calling(d)'
    BY <1>2 DEF Serial, Calling
<1>5. Serial'
    BY <1>2, <1>3, <1>4 DEF Serial, Working, Idle
<1>6. c.op # "post" /\ (c.op = "delete" /\ c.answer = "ok" => c.id \notin DOMAIN drafts)
    BY DEF Serial, Calling
<1>7. ASSUME Clear PROVE OneDraft' /\ Kept' = Kept /\ c.answer = "ok"
    <2>1. OneDraft /\ c.answer = "ok"
        BY <1>7 DEF Clear, OneDraft, ComposerTyped, Posts
    <2>2. Kept' = Kept
        BY <1>6, <2>1 DEF Kept
    <2>3. OneDraft'
        BY <1>6, <2>1, <2>2 DEF OneDraft
    <2> QED BY <2>1, <2>2, <2>3
<1> QED BY <1>1, <1>2, <1>3, <1>5, <1>7

LEMMA SentKeepsComposer == ASSUME ComposerInv, NEW c \in calls, Sent(c) PROVE ComposerInv'
<1> USE DEF ComposerInv
<1>1. /\ outcome # "torn" /\ c.by = "send" /\ c.answer # "none" /\ task.at # "resume"
      /\ drafts' = drafts /\ gone' = gone /\ form \in Forms /\ outcome \in Outcomes
    BY DEF Sent, Reads, ComposerTyped
<1>2. task.by = "send" /\ task.at = "answer"
    BY <1>1 DEF Serial, Working
<1>3. CASE c.answer = "failed"
    <2>1. /\ calls' = calls \ {c} /\ task' = Idle
          /\ form' = form /\ timer' = timer /\ queued' = queued /\ outcome' = outcome /\ mishaps' = mishaps
        BY <1>3 DEF Sent
    <2>2. outcome # "editing" => timer' = None
        BY <2>1 DEF Serial
    <2>3. ComposerTyped' /\ Serial' /\ (Clear => c.answer = "ok")
        BY <1>1, <2>1, <2>2, AnswerRead
    <2> QED BY <1>3, <2>1, <2>3 DEF Clear, Unless
<1>4. CASE c.answer # "failed" /\ form.id # None
    <2>1. /\ calls' = (calls \ {c}) \cup Drop("sent") /\ task' = [task EXCEPT !.at = "remove"]
          /\ form' = [form EXCEPT !.id = None]
          /\ timer' = timer /\ queued' = queued /\ outcome' = outcome
          /\ mishaps' = mishaps \cup (IF Overlapped THEN {"overlap"} ELSE {})
        BY <1>4 DEF Sent, Note
    <2>2. form' \in Forms /\ form'.id = None /\ form'.text = form.text /\ form'.latest = form.latest
          /\ form'.saved = form.saved
        BY <1>1, <2>1 DEF Forms
    <2>3. task' \in Tasks /\ task'.by = "send" /\ task'.at = "remove"
        BY <1>2, <2>1 DEF ComposerTyped, Tasks
    <2> DEFINE rest == calls \ {c}
    <2>4. /\ calls' \subseteq Posts
          /\ \A d \in calls' \ rest : d \in Posts /\ d.op = "delete" /\ d.by = "sent" /\ d.id = form.id
                                      /\ d.text = Blank /\ d.answer = "none" /\ d.id \in Made
          /\ \E d \in calls' : d.by = "sent"
          /\ Saving' = Saving
          /\ OneDraft => /\ \A d, e \in Kept' : d = e
                         /\ Kept' \subseteq Kept
                         /\ \A d \in Kept' : \E e \in rest : e.op = "post" /\ e.answer = "ok" /\ e.id = d
        <3>1. rest \in SUBSET calls /\ calls' = rest \cup Drop("sent") /\ \A d \in calls \ rest : d.by = "send"
            BY <1>1, <2>1
        <3> HIDE DEF rest
        <3> QED BY <1>1, <1>4, <2>2, <3>1, DropFacts
    <2>5. rest \subseteq calls' /\ Made' = Made
        BY <1>1, <2>1 DEF Made
    <2>6. ComposerTyped'
        BY <1>1, <2>1, <2>2, <2>3, <2>4 DEF ComposerTyped
    <2>7. \A d \in calls' : Calling(d)'
        BY <1>1, <2>4, <2>5 DEF Calling, Serial
    <2>8. \A d \in rest : d.by \in {"save", "discard"}
        BY <1>1, <1>2 DEF Serial, ComposerTyped, Posts
    <2>9. \A d, e \in calls' \ rest : d = e
        BY <1>4, <2>1 DEF Drop
    <2>10. Serial'
        BY <1>1, <2>1, <2>2, <2>3, <2>4, <2>5, <2>7, <2>8, <2>9 DEF Serial, Working
    <2>11. Clear => OneDraft'
        BY <2>1, <2>4, <2>5 DEF Clear, OneDraft
    <2>12. Unless({"failed", "overlap"})' => Ghostless'
        <3>1. SUFFICES ASSUME Clear, ~Saving, queued = None PROVE Kept' = {}
            BY <1>1, <2>1, <2>4 DEF Unless, Clear, Overlapped, Ghostless
        <3>2. \A d \in calls : d.op # "post"
            BY <3>1 DEF Serial, Calling, Saving, ComposerTyped, Posts
        <3> QED BY <2>4, <3>1, <3>2 DEF Clear
    <2>13. Unless({"failed", "overlap", "edited"})' => Carried'
        BY <1>2, <2>1, <2>3 DEF Unless, Carried, Idle
    <2>14. Following => Following'
        BY <2>1, <2>2, <2>4, <2>5 DEF Following
    <2> QED BY <1>1, <1>2, <2>1, <2>3, <2>6, <2>10, <2>11, <2>12, <2>13, <2>14 DEF Clear, Unless
<1>5. CASE c.answer # "failed" /\ form.id = None
    <2>1. /\ Finish(Forgets(form), calls \ {c}, "sent") /\ task' = Idle
          /\ mishaps' = mishaps \cup (IF Overlapped THEN {"overlap"} ELSE {})
        BY <1>5 DEF Sent, Note
    <2>2. /\ form' \in Forms /\ form'.text = form.text /\ form'.id = form.id /\ form'.saved = form.saved
          /\ calls' = calls \ {c} /\ outcome' = "sent" /\ queued' = queued /\ timer' = None
        BY <1>1, <2>1, FinishFacts DEF Outcomes
    <2>3. ComposerTyped' /\ Serial' /\ Saving' = Saving /\ (Clear => OneDraft' /\ Kept' = Kept)
        BY <1>1, <2>1, <2>2, AnswerRead DEF Outcomes
    <2>4. Unless({"failed", "overlap"})' => Ghostless'
        <3>1. SUFFICES ASSUME Clear, ~Saving, queued = None PROVE Kept = {}
            BY <1>1, <2>1, <2>2, <2>3 DEF Unless, Clear, Overlapped, Ghostless
        <3>2. \A d \in calls : d.op # "post"
            BY <3>1 DEF Serial, Calling, Saving, ComposerTyped, Posts
        <3>3. None \notin Kept
            BY ComposerAssumption DEF Kept, ComposerTyped
        <3> QED BY <1>1, <1>5, <3>1, <3>2, <3>3 DEF Clear, OneDraft
    <2>5. Carried'
        BY <2>1, <2>2 DEF Carried, Idle
    <2> QED BY <2>1, <2>2, <2>3, <2>4, <2>5 DEF Clear, Unless
<1> QED BY <1>3, <1>4, <1>5

LEMMA SentRemovedKeepsComposer == ASSUME ComposerInv, NEW c \in calls, SentRemoved(c) PROVE ComposerInv'
<1> USE DEF ComposerInv
<1>1. /\ outcome # "torn" /\ c.by = "sent" /\ c.answer # "none" /\ task.at = "remove"
      /\ drafts' = drafts /\ gone' = gone /\ outcome \in Outcomes /\ task' = Idle
      /\ Finish(Forgets(form), calls \ {c}, "sent")
      /\ mishaps' = mishaps \cup (IF Overlapped THEN {"overlap"} ELSE {})
    BY DEF SentRemoved, Reads, Note, ComposerTyped, Serial, Working
<1>2. /\ form' \in Forms /\ form'.text = form.text /\ form'.id = form.id /\ form'.saved = form.saved
      /\ calls' = calls \ {c} /\ outcome' = "sent" /\ queued' = queued /\ timer' = None
    BY <1>1, FinishFacts DEF Outcomes
<1>3. ComposerTyped' /\ Serial' /\ Saving' = Saving /\ (Clear => OneDraft' /\ Kept' = Kept)
    BY <1>1, <1>2, AnswerRead DEF Outcomes
<1>4. Unless({"failed", "overlap"})' => Ghostless'
    BY <1>1, <1>2, <1>3 DEF Unless, Clear, Ghostless
<1>5. Carried'
    BY <1>1, <1>2 DEF Carried, Idle
<1> QED BY <1>1, <1>2, <1>3, <1>4, <1>5 DEF Clear, Unless

LEMMA ScheduledKeepsComposer == ASSUME ComposerInv, NEW c \in calls, Scheduled(c) PROVE ComposerInv'
<1> USE DEF ComposerInv
<1>1. /\ outcome # "torn" /\ c.by = "schedule" /\ c.answer # "none" /\ c.op = "schedule"
      /\ task.at = "answer" /\ task.by = "schedule" /\ task.text # Blank /\ mishaps' = mishaps
      /\ drafts' = drafts /\ gone' = gone /\ outcome \in Outcomes /\ form \in Forms /\ task' = Idle
    BY DEF Scheduled, Reads, ComposerTyped, Serial, Working, Calling
<1>2. CASE c.answer = "failed"
    <2>1. calls' = calls \ {c} /\ form' = form /\ timer' = timer /\ queued' = queued /\ outcome' = outcome
        BY <1>2 DEF Scheduled
    <2>2. outcome # "editing" => timer' = None
        BY <2>1 DEF Serial
    <2>3. ComposerTyped' /\ Serial' /\ (Clear => c.answer = "ok")
        BY <1>1, <2>1, <2>2, AnswerRead
    <2> QED BY <1>1, <1>2, <2>3 DEF Clear, Unless
<1>3. CASE c.answer # "failed"
    <2>1. Finish(Forgets(form), calls \ {c}, "scheduled")
        BY <1>3 DEF Scheduled
    <2>2. /\ form' \in Forms /\ form'.text = form.text /\ form'.id = form.id /\ form'.saved = form.saved
          /\ calls' = calls \ {c} /\ outcome' = "scheduled" /\ queued' = queued /\ timer' = None
        BY <1>1, <2>1, FinishFacts DEF Outcomes
    <2>3. ComposerTyped' /\ Serial' /\ Saving' = Saving /\ (Clear => OneDraft' /\ c.answer = "ok")
        BY <1>1, <2>2, AnswerRead DEF Outcomes
    <2>4. Ghostless'
        BY <1>1, <2>2 DEF Ghostless, Idle
    <2>5. Unless({"failed", "overlap", "edited"})' => Carried'
        <3>1. SUFFICES ASSUME Unless({"failed", "overlap", "edited"}) PROVE Carried'
            BY <1>1 DEF Unless
        <3>2. Carried /\ c.answer = "ok"
            BY <2>3, <3>1 DEF Unless, Clear
        <3>3. drafts[form.id].due = form.text
            BY <1>1, <3>2 DEF Carried
        <3> QED BY <1>1, <2>2, <3>2, <3>3 DEF Carried, Idle
    <2> QED BY <1>1, <2>2, <2>3, <2>4, <2>5 DEF Clear, Unless
<1> QED BY <1>2, <1>3

LEMMA SaveSettledKeepsComposer == ASSUME ComposerInv, NEW c \in calls, SaveSettled(c) PROVE ComposerInv'
<1> USE DEF ComposerInv
<1> DEFINE f == Learnt(c)
           rest == calls \ {c}
<1>1. /\ outcome # "torn" /\ c.by = "save" /\ c.answer # "none" /\ task.at # "resume"
      /\ timer' = timer /\ drafts' = drafts /\ gone' = gone /\ outcome' = outcome /\ mishaps' = mishaps
      /\ queued' = None /\ c \in Posts /\ c.text \in Writings /\ form \in Forms
      /\ task' = IF task.at = "save" THEN [task EXCEPT !.at = "resume"] ELSE task
      /\ c.op \in {"post", "patch", "delete"}
      /\ Calling(c)
    BY DEF SaveSettled, Reads, ComposerTyped, Serial, Calling, Posts
<1>2. /\ f \in Forms /\ f.text = form.text /\ f.latest = form.latest /\ f.first = form.first
      /\ f.id = (IF c.answer = "ok" /\ c.op = "post" THEN c.id ELSE form.id)
      /\ f.saved = (IF c.answer = "ok" THEN c.text ELSE form.saved)
    BY <1>1 DEF Learnt, Forms, Posts
<1>3. \/ queued = None /\ form' = f /\ calls' = rest
      \/ queued # None /\ form' = FormAfter(queued, f) /\ calls' = rest \cup SaveOf(queued, f)
    BY DEF SaveSettled
<1> HIDE DEF f
<1>4. /\ \A d \in rest : d \in Posts /\ d.by # "save" /\ Calling(d) /\ d.op \notin {"post", "patch"}
      /\ rest \subseteq calls
      /\ Saving
    BY <1>1 DEF Serial, ComposerTyped, Calling, Posts, Saving
<1>5. /\ task' \in Tasks /\ task'.by = task.by /\ task'.text = task.text /\ task'.at # "save"
      /\ task'.at # task.at => task.at = "save" /\ task'.at = "resume"
      /\ task = Idle => task' = Idle
    <2>1. task \in Tasks
        BY DEF ComposerTyped
    <2> QED BY <1>1, <2>1 DEF Tasks, Idle
<1>6. f.id \in Made \cup {None}
    BY <1>1, <1>2 DEF Serial, Calling
<1>7. \/ form' = f /\ calls' = rest /\ queued = None
      \/ /\ calls' = rest /\ queued = Blank /\ f.id = None
         /\ form' \in Forms /\ form'.text = f.text /\ form'.first = f.first /\ form'.latest = f.latest
         /\ form'.id = None /\ form'.saved = Blank
      \/ \E q \in Posts :
            /\ calls' = rest \cup {q} /\ queued # None
            /\ queued # Blank \/ f.id # None
            /\ q.by = "save" /\ q.text = queued /\ q.id = f.id /\ q.answer = "none"
            /\ q.op = IF queued = Blank THEN "delete" ELSE IF f.id = None THEN "post" ELSE "patch"
            /\ form' \in Forms /\ form'.text = f.text
            /\ form'.first = f.first /\ form'.latest = f.latest
            /\ form'.id = (IF queued = Blank THEN None ELSE f.id) /\ form'.saved = f.saved
    <2>1. CASE queued = None
        BY <1>3, <2>1
    <2>2. CASE queued # None
        <3>1. queued \in Writings /\ form' = FormAfter(queued, f) /\ calls' = rest \cup SaveOf(queued, f)
            BY <1>3, <2>2 DEF ComposerTyped
        <3>2. CASE queued = Blank /\ f.id = None /\ SaveOf(queued, f) = {}
            BY <1>2, <3>1, <3>2, BeginFacts
        <3>3. CASE ~(queued = Blank /\ f.id = None)
            <4>1. PICK q \in Posts :
                  /\ SaveOf(queued, f) = {q} /\ q.by = "save" /\ q.text = queued /\ q.id = f.id /\ q.answer = "none"
                  /\ q.op = IF queued = Blank THEN "delete" ELSE IF f.id = None THEN "post" ELSE "patch"
                  /\ FormAfter(queued, f) \in Forms /\ FormAfter(queued, f).text = f.text
                  /\ FormAfter(queued, f).first = f.first /\ FormAfter(queued, f).latest = f.latest
                  /\ FormAfter(queued, f).id = (IF queued = Blank THEN None ELSE f.id) /\ FormAfter(queued, f).saved = f.saved
                BY <1>2, <3>1, <3>3, BeginFacts
            <4>2. calls' = rest \cup {q}
                BY <3>1, <4>1
            <4> QED BY <2>2, <3>1, <3>3, <4>1, <4>2
        <3>4. SaveOf(queued, f) = {} \/ ~(queued = Blank /\ f.id = None)
            BY <1>2, <3>1, BeginFacts
        <3> QED BY <3>2, <3>3, <3>4
    <2> QED BY <2>1, <2>2
<1>8. Made' = Made /\ (form'.id = f.id \/ form'.id = None) /\ form'.text = form.text /\ form'.latest = form.latest
      /\ form'.first = form.first /\ form' \in Forms
    BY <1>1, <1>2, <1>7 DEF Made
<1>9. ComposerTyped'
    BY <1>1, <1>4, <1>5, <1>7, <1>8 DEF ComposerTyped
<1>10. \A d \in calls' \ rest : /\ d \in Posts /\ d.by = "save" /\ d.text = queued /\ d.id = f.id /\ d.answer = "none"
                                /\ d.op = IF queued = Blank THEN "delete" ELSE IF f.id = None THEN "post" ELSE "patch"
                                /\ d.op \in {"post", "delete"} => form'.id = None
                                /\ d.op = "patch" => form'.id = d.id
                                /\ d.op # "post" => d.id # None
                                /\ queued # None
    BY <1>7
<1>11. rest \subseteq calls' /\ \A d, e \in calls' \ rest : d = e
    BY <1>7
<1>12. \A d \in calls' : Calling(d)'
    <2>1. \A d \in rest : Calling(d)'
        BY <1>1, <1>4, <1>8 DEF Calling
    <2>2. \A d \in calls' \ rest : Calling(d)'
        BY <1>6, <1>8, <1>10 DEF Calling
    <2> QED BY <2>1, <2>2
<1>13. Serial'
    <2>1. task.at = "save" => \A d \in rest : d.by = "discard"
        BY <1>1, <1>4 DEF Serial, Working, Posts
    <2>2. task.at = "remove" => \E d \in rest : d.by = "sent"
        BY <1>1 DEF Serial
    <2>3. \A d \in calls' : Working(d)'
        BY <1>1, <1>4, <1>5, <1>10, <2>1 DEF Serial, Working
    <2>4. \A d, e \in calls' : d.by = "save" /\ e.by = "save" => d = e
        BY <1>4, <1>10, <1>11
    <2>5. \A d, e \in calls' : {d.by, e.by} \subseteq {"send", "sent", "schedule"} => d = e
        BY <1>1, <1>4, <1>10, <1>11 DEF Serial
    <2>6. \A d \in calls' : /\ d.op = "post" => form'.id = None
                            /\ d.by = "save" /\ d.op = "delete" => form'.id = None
                            /\ d.op = "patch" => form'.id \in {d.id, None}
                            /\ d.by = "discard" => outcome' \in {"discarded", "sent", "scheduled"}
        BY <1>1, <1>4, <1>10, <1>11 DEF Serial
    <2> QED BY <1>1, <1>5, <1>6, <1>8, <1>11, <1>12, <2>2, <2>3, <2>4, <2>5, <2>6 DEF Serial
<1>14. ASSUME Clear
       PROVE  /\ OneDraft' /\ c.answer = "ok" /\ Kept \subseteq {f.id}
              /\ Kept' = IF queued = Blank THEN {} ELSE Kept
    <2>1. OneDraft /\ c.answer = "ok"
        BY <1>1, <1>14 DEF Clear, OneDraft, Posts
    <2>2. c.op = "delete" => c.id \notin DOMAIN drafts
        BY <1>1, <2>1 DEF Calling, Serial
    <2>3. {d \in DOMAIN drafts : ~\E e \in rest : e.op = "delete" /\ e.id = d} = Kept
        BY <2>2 DEF Kept
    <2>4. \A d \in calls : d.op = "post" => d = c /\ form.id = None
        BY <1>1, <1>4 DEF Serial
    <2>5. None \notin Kept
        BY ComposerAssumption DEF Kept, ComposerTyped
    <2>6. Kept \subseteq {f.id}
        BY <1>1, <1>2, <2>1, <2>4, <2>5 DEF OneDraft
    <2>7. Kept' = IF queued = Blank THEN Kept \ {f.id} ELSE Kept
        <3>1. CASE calls' = rest
            BY <1>1, <1>7, <1>10, <2>3, <2>5, <2>6, <3>1, ComposerAssumption DEF Kept
        <3>2. CASE calls' # rest
            <4>1. PICK q \in calls' \ rest : calls' = rest \cup {q}
                BY <1>7, <3>2
            <4> QED BY <1>1, <1>10, <2>3, <4>1 DEF Kept
        <3> QED BY <3>1, <3>2
    <2>8. Kept' = IF queued = Blank THEN {} ELSE Kept
        BY <2>6, <2>7
    <2>9. \A d \in Kept' : d = form'.id
        BY <1>7, <2>5, <2>6, <2>8
    <2>10. \A d \in calls' : d.op = "post" => Kept' = {}
        BY <1>4, <1>10, <2>5, <2>6, <2>8
    <2>11. \A d \in calls' : d.answer # "failed"
        BY <1>10, <2>1 DEF OneDraft
    <2> QED BY <2>1, <2>6, <2>8, <2>9, <2>10, <2>11 DEF OneDraft
<1>15. Unless({"failed", "overlap"})' => Ghostless'
    BY <1>1, <1>4, <1>5 DEF Unless, Ghostless
<1>16. Unless({"failed", "overlap", "edited"})' => Carried'
    <2>1. SUFFICES ASSUME Unless({"failed", "overlap", "edited"}),
                          (task.by \in {"popOut", "schedule"} /\ task.text # Blank) \/ outcome = "scheduled"
                   PROVE  Carried'
        BY <1>1, <1>5 DEF Unless, Carried
    <2>2. Carried /\ c.answer = "ok"
        BY <1>14, <2>1 DEF Unless, Clear
    <2>3. /\ form.text # Blank /\ (task # Idle => task.text = form.text) /\ task.at # "empty"
          /\ queued \in {None, form.text}
          /\ \A d \in calls : /\ d.op # "delete"
                              /\ d.op = "patch" => d.id = form.id
                              /\ d.by = "save" => d.text = form.text
                              /\ d.by = "save" /\ d.answer = "ok" => d.id \in DOMAIN drafts /\ drafts[d.id].text = form.text
                              /\ d.op = "schedule" => d.id = form.id /\ d.text = form.text
                              /\ d.op = "schedule" /\ d.answer = "ok" => drafts[d.id].due = form.text
          /\ task.at # "save" => form.id \in DOMAIN drafts /\ drafts[form.id].text = form.text
          /\ outcome = "scheduled" => drafts[form.id].due = form.text /\ task = Idle
        BY <1>1, <2>1, <2>2 DEF Carried
    <2>4. f.id = c.id /\ c.id \in DOMAIN drafts /\ drafts[c.id].text = form.text
        BY <1>1, <1>2, <2>2, <2>3
    <2>5. c.op = "post" => form.id = None /\ None \notin DOMAIN drafts
        BY <1>1, ComposerAssumption DEF Serial, ComposerTyped
    <2>6. task.at # "save" => f.id = form.id
        BY <1>1, <1>2, <2>3, <2>5
    <2>7. form'.id = f.id /\ f.id # None
        BY <1>7, <2>3, <2>4, ComposerAssumption DEF ComposerTyped
    <2>8. \A d \in rest : d.op = "schedule" => task.at # "save"
        BY <1>1, <1>4 DEF Serial, Working, Posts, Calling
    <2>9. \A d \in calls' : /\ d.op # "delete"
                            /\ d.op = "patch" => d.id = form'.id
                            /\ d.by = "save" => d.text = form.text
                            /\ d.by = "save" /\ d.answer = "ok" => d.id \in DOMAIN drafts /\ drafts[d.id].text = form.text
                            /\ d.op = "schedule" => d.id = form'.id /\ d.text = form.text
                            /\ d.op = "schedule" /\ d.answer = "ok" => drafts[d.id].due = form.text
        BY <1>4, <1>10, <2>3, <2>6, <2>7, <2>8
    <2>10. outcome = "scheduled" => drafts[form'.id].due = form.text /\ task' = Idle
        BY <1>5, <2>3, <2>6, <2>7 DEF Idle
    <2>11. task' # Idle => task'.text = form.text
        BY <1>5, <2>3
    <2> QED BY <1>1, <1>5, <1>8, <2>3, <2>4, <2>7, <2>9, <2>10, <2>11 DEF Carried
<1>17. Saving' = (calls' # rest)
    BY <1>4, <1>10, <1>11 DEF Saving
<1>18. ASSUME Clear, Following PROVE Following'
    <2>1. (queued # None => queued = form.text) /\ (queued = None => c.text = form.text) /\ c.answer = "ok"
        BY <1>1, <1>14, <1>18 DEF Following
    <2>2. \A d \in calls' : d.by = "save" => d.text = form'.text
        BY <1>4, <1>8, <1>10, <2>1
    <2>3. calls' = rest => form'.saved = form'.text
        BY <1>2, <1>4, <1>7, <1>8, <2>1, ComposerAssumption
    <2> QED BY <1>1, <1>17, <2>2, <2>3 DEF Following
<1>19. ASSUME Clear, Faithful PROVE Faithful'
    <2>1. c.answer = "ok" /\ (queued # Blank => Kept' = Kept) /\ (queued = Blank => Kept' = {})
        BY <1>14, <1>19
    <2>2. c.op # "delete" => f.id = c.id /\ c.id \in Kept /\ drafts[c.id].text = c.text
        BY <1>1, <1>2, <1>19, <2>1 DEF Faithful
    <2>3. c.op = "delete" => form.id = None /\ f.id = None /\ f.saved = Blank
        BY <1>1, <1>2, <2>1 DEF Serial, Calling
    <2>4. form'.id # None => form'.id = f.id /\ f.id \in Kept'
        BY <1>1, <1>7, <2>1, <2>2, <2>3, ComposerAssumption
    <2>5. \A d \in calls' : d.by = "save" => d \notin rest
        BY <1>4
    <2>6. calls' = rest => IF form'.id = None THEN form'.saved = Blank ELSE drafts[form'.id].text = form'.saved
        BY <1>1, <1>2, <1>7, <2>1, <2>2, <2>3, <2>4, ComposerAssumption DEF Kept, ComposerTyped
    <2> QED BY <1>1, <1>10, <1>17, <2>4, <2>5, <2>6 DEF Faithful
<1> QED BY <1>1, <1>5, <1>9, <1>13, <1>14, <1>15, <1>16, <1>18, <1>19 DEF Clear, Unless

LEMMA ComposerInitInv == ComposerInit => ComposerInv
<1> SUFFICES ASSUME ComposerInit PROVE ComposerInv
    OBVIOUS
<1>1. PICK t \in {Blank, CHOOSE i \in Texts : TRUE}, d \in {None, CHOOSE i \in DraftIds : TRUE} :
         /\ d # None => t # Blank
         /\ form = [text |-> t, first |-> t, latest |-> t, id |-> d, saved |-> t]
         /\ drafts = [i \in {d} \ {None} |-> Draft(t)]
    BY DEF ComposerInit
<1>2. t \in Writings /\ d \in DraftIds \cup {None}
    BY ComposerAssumption DEF Writings
<1>3. /\ timer = None /\ queued = None /\ calls = {} /\ task = Idle /\ gone = {}
      /\ outcome = "editing" /\ mishaps = {}
    BY DEF ComposerInit
<1>4. Draft(t) \in Rows /\ Draft(t).text = t
    BY <1>2 DEF Draft, Rows
<1> HIDE DEF Draft
<1>5. /\ DOMAIN drafts = {d} \ {None} /\ drafts \in [DOMAIN drafts -> Rows]
      /\ d # None => drafts[d] = Draft(t)
    BY <1>1, <1>4
<1>6. form \in Forms /\ form.text = t /\ form.first = t /\ form.latest = t /\ form.id = d /\ form.saved = t
    BY <1>1, <1>2 DEF Forms
<1>7. ComposerTyped
    BY <1>2, <1>3, <1>5, <1>6 DEF ComposerTyped, Idle, Tasks, Outcomes
<1>8. Serial
    BY <1>3, <1>5, <1>6 DEF Serial, Made, Idle, Saving
<1>9. Kept = {d} \ {None} /\ ~Saving
    BY <1>3, <1>5 DEF Kept, Saving
<1>10. OneDraft
    BY <1>3, <1>6, <1>9 DEF OneDraft
<1>11. Ghostless /\ Carried
    BY <1>3 DEF Ghostless, Carried, Idle
<1>12. Following
    BY <1>3, <1>6 DEF Following
<1>13. Faithful
    BY <1>3, <1>4, <1>5, <1>6, <1>9 DEF Faithful
<1> QED BY <1>3, <1>7, <1>8, <1>10, <1>11, <1>12, <1>13 DEF ComposerInv

LEMMA ComposerStutterInv == ASSUME ComposerInv, UNCHANGED composerVars PROVE ComposerInv'
BY DEF ComposerInv, composerVars, ComposerTyped, Serial, Calling, Made, Working, Saving, OneDraft, Kept,
       Ghostless, Carried, Following, Faithful, Outlived, Unless

LEMMA ComposerStepInv == ASSUME ComposerInv, [ComposerNext]_composerVars PROVE ComposerInv'
<1>1. ASSUME NEW text \in Texts \cup {Blank}, Edit(text) PROVE ComposerInv'
    BY <1>1, EditKeepsComposer DEF Writings
<1>2. CASE Debounce
    BY <1>2, DebounceKeepsComposer
<1>3. CASE Close
    BY <1>3, CloseKeepsComposer
<1>4. CASE TearDown
    BY <1>4, TearDownKeepsComposer
<1>5. CASE Discard
    BY <1>5, DiscardKeepsComposer
<1>6. CASE Send
    BY <1>6, SendKeepsComposer
<1>7. ASSUME NEW by \in {"popOut", "schedule"}, Ensure(by) PROVE ComposerInv'
    BY <1>7, EnsureKeepsComposer
<1>8. CASE OpenWindow
    BY <1>8, OpenWindowKeepsComposer
<1>9. CASE RequestSchedule
    BY <1>9, RequestScheduleKeepsComposer
<1>10. ASSUME NEW c \in calls, Handle(c) PROVE ComposerInv'
    BY <1>10, HandleKeepsComposer
<1>11. ASSUME NEW c \in calls, Fail(c) PROVE ComposerInv'
    BY <1>11, FailKeepsComposer
<1>12. ASSUME NEW c \in calls, Ignore(c) PROVE ComposerInv'
    BY <1>12, IgnoreKeepsComposer
<1>13. ASSUME NEW c \in calls, SaveSettled(c) PROVE ComposerInv'
    BY <1>13, SaveSettledKeepsComposer
<1>14. ASSUME NEW c \in calls, Discarded(c) PROVE ComposerInv'
    BY <1>14, DiscardedKeepsComposer
<1>15. ASSUME NEW c \in calls, Sent(c) PROVE ComposerInv'
    BY <1>15, SentKeepsComposer
<1>16. ASSUME NEW c \in calls, SentRemoved(c) PROVE ComposerInv'
    BY <1>16, SentRemovedKeepsComposer
<1>17. ASSUME NEW c \in calls, Scheduled(c) PROVE ComposerInv'
    BY <1>17, ScheduledKeepsComposer
<1>18. CASE UNCHANGED composerVars
    BY <1>18, ComposerStutterInv
<1> QED BY <1>1, <1>2, <1>3, <1>4, <1>5, <1>6, <1>7, <1>8, <1>9, <1>10, <1>11, <1>12, <1>13, <1>14, <1>15,
           <1>16, <1>17, <1>18 DEF ComposerNext

LEMMA ComposerInvariance == ComposerSpec => []ComposerInv
BY ComposerInitInv, ComposerStepInv, PTL DEF ComposerSpec

\* A composer at rest, closed or torn down has left on the server what it shows,
\* however many texts and drafts there are: the saves follow the form, and what
\* the form takes to be saved is.
THEOREM ComposerSaves == ComposerSpec => []AtRestIsSaved
<1>1. ComposerInv => AtRestIsSaved
    <2>1. SUFFICES ASSUME ComposerInv, outcome \in {"editing", "closed", "torn"}, Settled,
                          Unless({"failed", "undone", "cut"})
                   PROVE  \/ \E d \in Kept : Kept = {d} /\ drafts[d].text = form.text
                          \/ Kept = {} /\ form.text \in {Blank, form.first}
        BY DEF AtRestIsSaved
    <2>3. calls = {} /\ queued = None /\ timer = None /\ ~Saving
        BY <2>1 DEF Settled, Saving
    <2>4. OneDraft
        BY <2>1 DEF ComposerInv, Unless
    <2>5. CASE outcome = "torn"
        BY <2>1, <2>3, <2>4, <2>5 DEF ComposerInv, Outlived, OneDraft
    <2>6. CASE outcome # "torn"
        <3>1. Following /\ Faithful
            BY <2>1, <2>3, <2>6 DEF ComposerInv, Serial
        <3>2. form.id = None => Kept = {}
            <4>1. None \notin Kept
                BY <2>1, ComposerAssumption DEF Kept, ComposerInv, ComposerTyped
            <4> QED BY <2>3, <2>4, <2>6, <4>1 DEF OneDraft
        <3> QED BY <2>3, <2>4, <3>1, <3>2 DEF Following, Faithful, OneDraft
    <2> QED BY <2>5, <2>6
<1> QED BY <1>1, ComposerInvariance, PTL

\* One composer makes one draft; it leaves none once it was sent or discarded, and
\* what it pops out to or schedules is what it showed.
THEOREM ComposerDrafts == ComposerSpec => []DraftsFollowComposer
<1>1. ComposerInv => DraftsFollowComposer
    <2> SUFFICES ASSUME ComposerInv PROVE DraftsFollowComposer
        OBVIOUS
    <2>1. OneDraftEach
        <3>1. SUFFICES ASSUME OneDraft PROVE Cardinality(Kept) <= 1
            BY DEF OneDraftEach, ComposerInv
        <3>2. CASE Kept = {}
            BY <3>2, FS_EmptySet
        <3>3. CASE Kept # {}
            <4>1. PICK d \in Kept : TRUE
                BY <3>3
            <4>2. Kept = {d}
                BY <3>1, <4>1 DEF OneDraft
            <4>3. Cardinality({d}) = 1
                BY FS_Singleton
            <4> QED BY <4>2, <4>3
        <3> QED BY <3>2, <3>3
    <2>2. NoGhostDraft
        BY DEF NoGhostDraft, ComposerInv, Ghostless
    <2>3. PopOutCarries
        <3>1. SUFFICES ASSUME task.at \in {"opened", "empty"}, task.text # Blank, calls = {},
                              Unless({"failed", "overlap", "edited"})
                       PROVE  task.at = "opened" /\ form.id \in Kept /\ drafts[form.id].text = task.text
            BY DEF PopOutCarries, Settled
        <3>2. outcome # "torn" /\ task.by \in {"popOut", "schedule"} /\ task # Idle
            BY <3>1 DEF ComposerInv, Serial, Idle
        <3>3. Carried
            BY <3>1 DEF ComposerInv
        <3> QED BY <3>1, <3>2, <3>3 DEF Carried, Kept
    <2>4. ScheduledAsShown
        <3>1. SUFFICES ASSUME outcome = "scheduled", calls = {}, Unless({"failed", "edited", "overlap"})
                       PROVE  \E d \in Kept : Kept = {d} /\ drafts[d].due = drafts[d].text
            BY DEF ScheduledAsShown, Settled
        <3>2. OneDraft /\ Carried
            BY <3>1 DEF ComposerInv, Unless
        <3>3. form.id \in Kept /\ drafts[form.id].due = drafts[form.id].text
            BY <3>1, <3>2 DEF Carried, Kept, Idle
        <3> QED BY <3>2, <3>3 DEF OneDraft
    <2> QED BY <2>1, <2>2, <2>3, <2>4 DEF DraftsFollowComposer
<1> QED BY <1>1, ComposerInvariance, PTL

(***************************************************************************)
(* The compose sheet of the iOS app.                                       *)
(***************************************************************************)
Phrases == Wordings \cup {Empty}
CopyIds == Copies \cup {NoCopy}

Ends == {"no", "kept", "empty", "sent", "scheduled", "discarded"}
Sheets == [text : Phrases, first : Phrases, id : CopyIds, closed : BOOLEAN, sending : BOOLEAN, ended : Ends]
Calls == [op : {"post", "patch", "delete", "send", "plan"}, id : CopyIds, text : Phrases,
          by : Savers \cup {"nobody", "send", "plan", "discard"},
          answer : {"none", "ok", "failed"}, number : Nat]
Kinds == [id : Copies, text : Phrases, number : Nat, due : Phrases]

SheetTyped ==
    /\ sheet \in Sheets /\ autosave \in {"idle", "sleeping", "saving"}
    /\ requests \subseteq Calls /\ copies \subseteq Kinds /\ made \subseteq Copies
    /\ strokes \in [taps : Nat, drops : Nat]
    /\ \A x \in requests \cup copies : x.number <= strokes.taps

Writes == {r \in requests : r.op \in {"post", "patch"}}
Ending == {"send", "schedule", "plan"}

\* Who asks for what.
Asking(r) ==
    /\ r.op \in {"post", "patch"} => r.by \in Savers \cup {"nobody"}
    /\ r.op = "delete" => r.by \in Savers \cup {"nobody", "send", "discard"}
    /\ r.op = "send" => r.by = "send"
    /\ r.by = "discard" => r.op = "delete"
    /\ (r.op = "plan") <=> (r.by = "plan")
    /\ r.by = "nobody" => r.answer = "none"

\* What each request stands in the way of.
Asked ==
    /\ \A r \in requests : Asking(r)
    /\ \A r \in requests : r.by = "autosave" => autosave = "saving"
    /\ \A r, s \in requests : r.by = "autosave" /\ s.by = "autosave" => r = s
    /\ \A r \in requests : r.by \in Ending => sheet.sending
    /\ \A r, s \in requests : r.by \in Ending /\ s.by \in Ending => r = s
    /\ autosave = "sleeping" => sheet.ended = "no"

\* A draft has one row, under an id of its own; a draft is only deleted once the
\* sheet is about to close, and a sheet about to close waits for that.
Closing ==
    /\ \A c, d \in copies : c.id = d.id => c = d
    /\ \A c \in copies : c.id \in made
    /\ sheet.id \in made \cup {NoCopy}
    /\ \A r \in requests : r.id \in made \/ (r.op = "post" /\ r.answer # "ok") \/ r.op = "send"
    /\ \A r \in requests : r.op = "delete" => sheet.closed
    /\ sheet.ended \in {"sent", "discarded", "scheduled"} => sheet.closed
    /\ sheet.closed /\ sheet.ended = "no" => \E r \in requests : r.op = "delete" /\ r.by \in {"send", "discard"}

\* A request that knows of the draft and will take it over or take it away.
Minds(r, id) == r.id = id /\ ((r.op = "post" /\ r.answer = "ok") \/ (r.op = "delete" /\ r.answer = "none"))

\* Unless the sheet has lost count of its drafts.
Single ==
    /\ \A r \in requests : r.answer # "failed"
    /\ \A r \in requests : r.op = "post" /\ r.by # "nobody" => sheet.id = NoCopy
    /\ \A r, s \in requests : r.op = "post" /\ r.by # "nobody" /\ s.op = "post" /\ s.by # "nobody" => r = s
    /\ ~sheet.closed => \A r \in requests : r.op = "patch" => r.id = sheet.id
    /\ \A c \in copies : c.id = sheet.id \/ \E r \in requests : Minds(r, c.id)
    /\ \A r \in requests, c \in copies : r.op = "delete" /\ r.answer = "ok" => c.id # r.id
    /\ \A r \in requests : r.op = "delete" /\ r.by \in {"send", "discard"} => sheet.id \in {r.id, NoCopy}
    /\ sheet.ended \in {"sent", "discarded"} => \A c \in copies : \E r \in requests : Minds(r, c.id)

\* What was asked for since the last change, which was number n.
Recent(x, n) == x.number >= n

Written(n) ==
    /\ \A x \in Writes \cup copies : Recent(x, n) => x.text = sheet.text
    /\ \A r \in Writes : r.answer = "ok" /\ ~sheet.closed => \E c \in copies : c.id = r.id /\ c.number >= r.number
    /\ sheet.ended \in {"no", "kept"} /\ ~sheet.closed /\ sheet.text # Empty /\ (~\E r \in requests : r.by = "send") =>
          \/ autosave = "sleeping"
          \/ \E r \in Writes : r.by # "nobody" /\ Recent(r, n)
          \/ \E c \in copies : Recent(c, n)
          \/ n = 0 /\ sheet.text = sheet.first

\* What is kept or due is what was shown as the sheet began to close.
Lasting(n) ==
    /\ sheet.ended = "kept" => ~sheet.closed
    /\ \A r \in requests : r.by = "prompt" => ~sheet.closed /\ Recent(r, n)
    /\ (sheet.ended \in {"kept", "scheduled"} \/ \E r \in requests : r.by = "prompt") =>
          ~\E r \in requests : r.by \in Ending \cup {"discard"}
    /\ \A r \in requests : r.by \in {"schedule", "plan"} => ~sheet.closed /\ Recent(r, n)
    /\ \A r \in requests : r.by = "plan" =>
          /\ r.text = sheet.text /\ r.id = sheet.id
          /\ \E c \in copies : c.id = r.id /\ Recent(c, n) /\ (r.answer = "ok" => c.due = r.text)
    /\ sheet.ended = "scheduled" =>
          /\ ~\E r \in requests : r.op = "delete"
          /\ sheet.id # NoCopy
          /\ \E c \in copies : c.id = sheet.id /\ c.due = sheet.text /\ Recent(c, n)

SheetInv ==
    /\ SheetTyped /\ Asked /\ Closing
    /\ ~Pardoned({"failed", "orphan", "twice"}) => Single
    /\ ~Pardoned({"failed", "orphan", "twice", "late", "more"}) =>
          \E n \in 0..strokes.taps : Written(n) /\ Lasting(n)

\* What is left of the requests once the autosave is cancelled.
LEMMA AbandonedFacts ==
    ASSUME requests \subseteq Calls, NEW rs, rs = Abandoned(requests) PROVE
    /\ rs \subseteq Calls
    /\ \A r \in requests : r.by # "autosave" => r \in rs
    /\ \A r \in requests : r.by = "autosave" /\ r.answer = "none" =>
          \E q \in rs : /\ q.by = "nobody" /\ q.answer = "none"
                       /\ r.op = q.op /\ r.id = q.id /\ r.text = q.text /\ r.number = q.number
    /\ \A q \in rs : \/ q \in requests /\ q.by # "autosave"
                     \/ /\ q.by = "nobody" /\ q.answer = "none"
                        /\ \E r \in requests : /\ r.by = "autosave" /\ r.answer = "none"
                                               /\ r.op = q.op /\ r.id = q.id /\ r.text = q.text /\ r.number = q.number
<1>1. ASSUME NEW q \in rs
      PROVE \/ q \in requests /\ q.by # "autosave"
            \/ \E r \in requests : r.by = "autosave" /\ r.answer = "none" /\ q = [r EXCEPT !.by = "nobody"]
    BY DEF Abandoned
<1>2. ASSUME NEW r \in requests, NEW q, q = [r EXCEPT !.by = "nobody"]
      PROVE /\ q \in Calls /\ q.by = "nobody" /\ q.answer = r.answer
            /\ r.op = q.op /\ r.id = q.id /\ r.text = q.text /\ r.number = q.number
    BY <1>2 DEF Calls
<1>3. \A r \in requests : /\ r.by # "autosave" => r \in rs
                         /\ r.by = "autosave" /\ r.answer = "none" => [r EXCEPT !.by = "nobody"] \in rs
    BY DEF Abandoned
<1>4. ASSUME NEW r \in requests, r.by = "autosave", r.answer = "none"
      PROVE \E q \in rs : /\ q.by = "nobody" /\ q.answer = "none"
                         /\ r.op = q.op /\ r.id = q.id /\ r.text = q.text /\ r.number = q.number
    <2>1. PICK q : q = [r EXCEPT !.by = "nobody"]
        OBVIOUS
    <2>2. q \in rs
        BY <1>3, <1>4, <2>1
    <2>3. /\ q.by = "nobody" /\ q.answer = r.answer
          /\ r.op = q.op /\ r.id = q.id /\ r.text = q.text /\ r.number = q.number
        BY <1>2, <2>1
    <2> QED BY <1>4, <2>2, <2>3
<1>5. ASSUME NEW q \in rs
      PROVE \/ q \in requests /\ q.by # "autosave"
            \/ /\ q.by = "nobody" /\ q.answer = "none"
               /\ \E r \in requests : /\ r.by = "autosave" /\ r.answer = "none"
                                      /\ r.op = q.op /\ r.id = q.id /\ r.text = q.text /\ r.number = q.number
    BY <1>1, <1>2
<1>7. rs \subseteq Calls
    BY <1>1, <1>2
<1>6. \A r \in requests : r.by # "autosave" => r \in rs
    BY DEF Abandoned
<1> QED BY <1>4, <1>5, <1>6, <1>7, Zenon

\* What is left of them once one was answered.
LEMMA SettledFacts ==
    ASSUME SheetTyped, NEW r \in requests, NEW id \in CopyIds, NEW answer \in {"ok", "failed"}, NEW rs,
           rs = Settle(r, id, answer)
    PROVE \E s \in Calls : /\ s.by = r.by /\ s.answer = answer /\ s.id = id
                           /\ s.op = r.op /\ s.text = r.text /\ s.number = r.number
                           /\ rs = (requests \ {r}) \cup (IF r.by = "nobody" THEN {} ELSE {s})
<1> DEFINE s == [r EXCEPT !.id = id, !.answer = answer]
<1>1. /\ s \in Calls /\ s.by = r.by /\ s.answer = answer /\ s.id = id
      /\ s.op = r.op /\ s.text = r.text /\ s.number = r.number
    BY DEF SheetTyped, Calls
<1>2. rs = (requests \ {r}) \cup (IF r.by = "nobody" THEN {} ELSE {s})
    BY DEF Settle
<1> HIDE DEF s
<1> QED BY <1>1, <1>2

LEMMA AskedFacts ==
    ASSUME SheetTyped, NEW op \in {"post", "patch", "delete", "send", "plan"}, NEW id \in CopyIds,
           NEW text \in Phrases, NEW by \in Savers \cup {"nobody", "send", "plan", "discard"}
    PROVE LET q == Ask(op, id, text, by)
          IN /\ q \in Calls /\ q.op = op /\ q.id = id /\ q.text = text /\ q.by = by
             /\ q.answer = "none" /\ q.number = strokes.taps
BY DEF SheetTyped, Calls, Ask

LEMMA SavesFacts ==
    ASSUME SheetTyped, NEW by \in Savers
    PROVE LET q == Save(by)
          IN /\ q \in Calls /\ q.op \in {"post", "patch"} /\ (q.op = "post" <=> sheet.id = NoCopy)
             /\ q.id = sheet.id /\ q.text = sheet.text /\ q.by = by
             /\ q.answer = "none" /\ q.number = strokes.taps
BY DEF SheetTyped, Sheets, Calls, Ask, Save

\* Drafts keep ids of their own.
LEMMA AfterUnique ==
    ASSUME SheetTyped, NEW r \in requests, NEW id, r.op # "send" => id \in Copies, NEW cs, cs = After(r, id),
           \A a, b \in copies : a.id = b.id => a = b, \A b \in copies : r.op = "post" => b.id # id
    PROVE \A a, b \in cs : a.id = b.id => a = b
<1> DEFINE others == {c \in copies : c.id # id}
           mine == copies \ others
           Rewritten(c) == [c EXCEPT !.text = r.text, !.number = r.number]
           Dated(c) == [c EXCEPT !.due = r.text]
           new == Copy(id, r.text, r.number)
<1>1. /\ r.op = "post" => cs = copies \cup {new}
      /\ r.op = "patch" => cs = others \cup {Rewritten(c) : c \in mine}
      /\ r.op = "plan" => cs = others \cup {Dated(c) : c \in mine}
      /\ r.op = "delete" => cs = others
      /\ r.op = "send" => cs = copies
    BY DEF After
<1>2. r.op \in {"post", "patch", "delete", "send", "plan"}
    BY DEF SheetTyped, Calls
<1>3. new.id = id
    BY DEF Copy
<1>4. \A c \in mine : c.id = id /\ c \in copies /\ Rewritten(c).id = id /\ Dated(c).id = id
    BY DEF SheetTyped, Kinds
<1>5. others \subseteq copies /\ \A c \in others : c.id # id
    OBVIOUS
<1> HIDE DEF others, mine, Rewritten, Dated, new
<1>6. CASE r.op = "post" BY <1>1, <1>3, <1>6
<1>7. CASE r.op = "patch" BY <1>1, <1>4, <1>5, <1>7
<1>8. CASE r.op = "plan" BY <1>1, <1>4, <1>5, <1>8
<1>9. CASE r.op \in {"delete", "send"} BY <1>1, <1>5, <1>9
<1> QED BY <1>2, <1>6, <1>7, <1>8, <1>9

\* Doing something moves the number on.
LEMMA StrokeFacts ==
    ASSUME SheetTyped, Stroke
    PROVE strokes' \in [taps : Nat, drops : Nat] /\ strokes'.taps = strokes.taps + 1
BY DEF SheetTyped, Stroke

\* The draft a request leaves behind.
LEMMA AfterFacts ==
    ASSUME SheetTyped, NEW r \in requests, NEW id, r.op # "send" => id \in Copies, NEW cs, cs = After(r, id) PROVE
    /\ cs \subseteq Kinds
    /\ \A c \in copies : c.id # id => c \in cs
    /\ r.op \in {"post", "send"} => copies \subseteq cs
    /\ \A c \in cs : \/ c \in copies /\ (r.op \in {"patch", "plan", "delete"} => c.id # id)
                     \/ r.op = "post" /\ c.id = id /\ c.text = r.text /\ c.number = r.number
                     \/ /\ r.op = "patch" /\ c.id = id /\ c.text = r.text /\ c.number = r.number
                        /\ \E b \in copies : b.id = id /\ b.due = c.due
                     \/ /\ r.op = "plan" /\ c.id = id /\ c.due = r.text
                        /\ \E b \in copies : b.id = id /\ b.text = c.text /\ b.number = c.number
    /\ r.op = "post" => \E c \in cs : c.id = id /\ c.text = r.text /\ c.number = r.number
    /\ r.op = "patch" => \A b \in copies : b.id = id =>
          \E c \in cs : c.id = id /\ c.text = r.text /\ c.number = r.number /\ c.due = b.due
    /\ r.op = "plan" => \A b \in copies : b.id = id =>
          \E c \in cs : c.id = id /\ c.due = r.text /\ c.number = b.number /\ c.text = b.text
<1> DEFINE others == {c \in copies : c.id # id}
           mine == copies \ others
           Rewritten(c) == [c EXCEPT !.text = r.text, !.number = r.number]
           Dated(c) == [c EXCEPT !.due = r.text]
           new == Copy(id, r.text, r.number)
<1>1. /\ r.op = "post" => cs = copies \cup {new}
      /\ r.op = "patch" => cs = others \cup {Rewritten(c) : c \in mine}
      /\ r.op = "plan" => cs = others \cup {Dated(c) : c \in mine}
      /\ r.op = "delete" => cs = others
      /\ r.op = "send" => cs = copies
    BY DEF After
<1>2. r.op \in {"post", "patch", "delete", "send", "plan"}
    BY DEF SheetTyped, Calls
<1>3. (id \in Copies => new \in Kinds) /\ new.id = id /\ new.text = r.text /\ new.number = r.number
    BY DEF SheetTyped, Calls, Copy, Kinds, Phrases
<1>4. \A c \in mine : /\ c \in copies /\ c.id = id
                      /\ Rewritten(c) \in Kinds /\ Rewritten(c).id = id /\ Rewritten(c).text = r.text
                      /\ Rewritten(c).number = r.number /\ Rewritten(c).due = c.due
                      /\ Dated(c) \in Kinds /\ Dated(c).id = id /\ Dated(c).text = c.text
                      /\ Dated(c).number = c.number /\ Dated(c).due = r.text
    BY DEF SheetTyped, Calls, Kinds
<1>5. others \subseteq copies /\ copies \subseteq Kinds /\ \A c \in copies : c \in others <=> c.id # id
    BY DEF SheetTyped
<1>6. mine = {c \in copies : c.id = id}
    OBVIOUS
<1> HIDE DEF others, mine, Rewritten, Dated, new
<1>7. CASE r.op = "post" BY <1>1, <1>3, <1>5, <1>7
<1>8. CASE r.op = "patch"
    <2>1. cs = others \cup {Rewritten(c) : c \in mine}
        BY <1>1, <1>8
    <2> QED BY <1>4, <1>5, <1>6, <1>8, <2>1
<1>9. CASE r.op = "plan"
    <2>1. cs = others \cup {Dated(c) : c \in mine}
        BY <1>1, <1>9
    <2> QED BY <1>4, <1>5, <1>6, <1>9, <2>1
<1>10. CASE r.op = "delete" BY <1>1, <1>5, <1>10
<1>11. CASE r.op = "send" BY <1>1, <1>5, <1>11
<1> QED BY <1>2, <1>7, <1>8, <1>9, <1>10, <1>11

Clean == ~Pardoned({"failed", "orphan", "twice"})
Neat == ~Pardoned({"failed", "orphan", "twice", "late", "more"})

\* Writing starts over: whatever was asked for before is old.
LEMMA WriteKeepsSheet == ASSUME SheetInv, NEW text \in Phrases, Write(text) PROVE SheetInv'
<1> USE DEF SheetInv
<1>1. /\ sheet' \in Sheets /\ sheet'.text = text /\ sheet'.first = sheet.first /\ sheet'.id = sheet.id
      /\ sheet'.closed = sheet.closed /\ sheet'.sending = sheet.sending /\ sheet'.ended = sheet.ended
      /\ sheet.ended = "no"
    BY DEF Write, SheetTyped, Sheets, OnScreen
<1>2. /\ autosave' = "sleeping" /\ requests' = Abandoned(requests) /\ copies' = copies /\ made' = made
      /\ pardons' = pardons \cup More \cup Orphaned(requests)
    BY DEF Write
<1>3. strokes' \in [taps : Nat, drops : Nat] /\ strokes'.taps = strokes.taps + 1 /\ strokes.taps \in Nat
    BY StrokeFacts DEF Write, SheetTyped
<1>4. /\ requests' \subseteq Calls
      /\ \A r \in requests : r.by # "autosave" => r \in requests'
      /\ \A r \in requests : r.by = "autosave" /\ r.answer = "none" =>
            \E q \in requests' : /\ q.by = "nobody" /\ q.answer = "none"
                                /\ r.op = q.op /\ r.id = q.id /\ r.text = q.text /\ r.number = q.number
      /\ \A q \in requests' : \/ q \in requests /\ q.by # "autosave"
                              \/ /\ q.by = "nobody" /\ q.answer = "none"
                                 /\ \E r \in requests : /\ r.by = "autosave" /\ r.answer = "none"
                                                        /\ r.op = q.op /\ r.id = q.id /\ r.text = q.text /\ r.number = q.number
    BY <1>2, AbandonedFacts DEF SheetTyped
<1>5. \A x \in requests' \cup copies' : x.number <= strokes.taps
    BY <1>2, <1>4 DEF SheetTyped
<1>6. SheetTyped'
    <2>1. \A x \in requests' \cup copies' : x.number <= strokes'.taps
        BY <1>2, <1>3, <1>4, <1>5 DEF SheetTyped, Calls, Kinds
    <2> QED BY <1>1, <1>2, <1>3, <1>4, <2>1 DEF SheetTyped
<1>7. Asked'
    BY <1>1, <1>2, <1>4 DEF Asked, Asking, Savers, Ending
<1>8. Closing'
    BY <1>1, <1>2, <1>4 DEF Closing
<1>9. Clean' => Single'
    <2> SUFFICES ASSUME Clean' PROVE Single'
        OBVIOUS
    <2>1. Clean /\ \A r \in requests : ~(r.by = "autosave" /\ r.op = "post" /\ r.answer = "ok")
        BY <1>2 DEF Clean, Pardoned, Orphaned
    <2>2. \A c \in copies, r \in requests : Minds(r, c.id) => \E q \in requests' : Minds(q, c.id)
        BY <1>4, <2>1 DEF Minds
    <2> QED BY <1>1, <1>2, <1>4, <2>1, <2>2 DEF Single, Clean, Closing
<1>10. Neat' => \E n \in 0..strokes'.taps : Written(n)' /\ Lasting(n)'
    <2> SUFFICES ASSUME Neat' PROVE \E n \in 0..strokes'.taps : Written(n)' /\ Lasting(n)'
        OBVIOUS
    <2>1. Neat /\ ~sheet.closed /\ ~sheet.sending /\ ~\E r \in requests : r.by = "prompt"
        BY <1>2 DEF Neat, Pardoned, More
    <2>2. PICK n \in 0..strokes'.taps : n = strokes'.taps
        BY <1>3
    <2>3. \A x \in requests' \cup copies' : ~Recent(x, n)
        BY <1>3, <1>5, <1>6, <2>2 DEF Recent, SheetTyped, Calls, Kinds
    <2>4. PICK m \in 0..strokes.taps : Written(m) /\ Lasting(m)
        BY <2>1 DEF Neat
    <2>5. Written(n)'
        BY <1>1, <1>2, <1>4, <2>1, <2>3, <2>4 DEF Written, Writes, Recent
    <2>6. Lasting(n)'
        BY <1>1, <1>2, <1>4, <2>1, <2>3, <2>4 DEF Lasting, Asked, Ending, Closing
    <2> QED BY <2>5, <2>6
<1> QED BY <1>6, <1>7, <1>8, <1>9, <1>10 DEF Clean, Neat

\* The autosave, the menu, the prompt and the schedule save what there is.
LEMMA WakeKeepsSheet == ASSUME SheetInv, Wake PROVE SheetInv'
<1> USE DEF SheetInv
<1> DEFINE q == Save("autosave")
<1>1. /\ q \in Calls /\ q.op \in {"post", "patch"} /\ (q.op = "post" <=> sheet.id = NoCopy)
      /\ q.id = sheet.id /\ q.text = sheet.text /\ q.by = "autosave" /\ q.answer = "none" /\ q.number = strokes.taps
    BY SavesFacts DEF Savers
<1>2. /\ autosave = "sleeping" /\ sheet' = sheet /\ copies' = copies /\ made' = made /\ strokes' = strokes
      /\ CanSave(sheet) => /\ autosave' = "saving" /\ requests' = requests \cup {q}
                           /\ pardons' = pardons \cup Twice("autosave")
      /\ ~CanSave(sheet) => autosave' = "idle" /\ requests' = requests /\ pardons' = pardons
    BY DEF Wake
<1> HIDE DEF q
<1>3. strokes.taps \in Nat /\ sheet.id \in CopyIds /\ sheet.closed \in BOOLEAN
    BY DEF SheetTyped, Sheets
<1>4. SheetTyped'
    BY <1>1, <1>2, <1>3 DEF SheetTyped
<1>5. Asked'
    BY <1>1, <1>2 DEF Asked, Asking, Savers, Ending
<1>6. Closing'
    BY <1>1, <1>2 DEF Closing
<1>7. Clean' => Single'
    <2> SUFFICES ASSUME Clean' PROVE Single'
        OBVIOUS
    <2>1. Clean /\ (CanSave(sheet) /\ sheet.id = NoCopy => \A r \in requests : r.op = "post" => r.by = "nobody")
        BY <1>2 DEF Clean, Pardoned, Twice, Asked
    <2> QED BY <1>1, <1>2, <2>1 DEF Single, Clean, Minds
<1>8. Neat' => \E n \in 0..strokes'.taps : Written(n)' /\ Lasting(n)'
    <2> SUFFICES ASSUME Neat' PROVE \E n \in 0..strokes'.taps : Written(n)' /\ Lasting(n)'
        OBVIOUS
    <2>1. PICK n \in 0..strokes.taps : Written(n) /\ Lasting(n)
        BY <1>2 DEF Neat, Pardoned
    <2>2. Written(n)'
        BY <1>1, <1>2, <1>3, <2>1 DEF Written, Writes, Recent, CanSave
    <2>3. Lasting(n)'
        BY <1>1, <1>2, <1>3, <2>1 DEF Lasting, Recent, Ending
    <2> QED BY <1>2, <2>2, <2>3
<1> QED BY <1>4, <1>5, <1>6, <1>7, <1>8 DEF Clean, Neat

LEMMA SaveKeepsSheet == ASSUME SheetInv, NEW by \in {"menu", "prompt"}, SaveDraft(by) PROVE SheetInv'
<1> USE DEF SheetInv
<1> DEFINE q == Save(by)
<1>1. /\ q \in Calls /\ q.op \in {"post", "patch"} /\ (q.op = "post" <=> sheet.id = NoCopy)
      /\ q.id = sheet.id /\ q.text = sheet.text /\ q.by = by /\ q.answer = "none" /\ q.number = strokes.taps
    BY SavesFacts DEF Savers
<1>2. /\ sheet.ended = "no" /\ ~sheet.closed /\ sheet' = sheet /\ copies' = copies /\ made' = made
      /\ autosave' = autosave /\ requests' = requests \cup {q} /\ ~\E r \in requests : r.by = by
      /\ pardons' = pardons \cup Twice(by) \cup (IF by = "prompt" THEN More ELSE {})
    BY DEF SaveDraft, CanSave, OnScreen
<1> HIDE DEF q
<1>3. /\ strokes.taps \in Nat /\ strokes' \in [taps : Nat, drops : Nat] /\ strokes'.taps = strokes.taps + 1
      /\ sheet.id \in CopyIds
    BY StrokeFacts DEF SheetTyped, Sheets, SaveDraft
<1>4. SheetTyped'
    BY <1>1, <1>2, <1>3 DEF SheetTyped, Calls, Kinds
<1>5. Asked'
    BY <1>1, <1>2 DEF Asked, Asking, Savers, Ending
<1>6. Closing'
    BY <1>1, <1>2 DEF Closing
<1>7. Clean' => Single'
    <2> SUFFICES ASSUME Clean' PROVE Single'
        OBVIOUS
    <2>1. Clean /\ (sheet.id = NoCopy => \A r \in requests : r.op = "post" => r.by = "nobody")
        BY <1>2 DEF Clean, Pardoned, Twice
    <2> QED BY <1>1, <1>2, <2>1 DEF Single, Clean, Minds
<1>8. Neat' => \E n \in 0..strokes'.taps : Written(n)' /\ Lasting(n)'
    <2> SUFFICES ASSUME Neat' PROVE \E n \in 0..strokes'.taps : Written(n)' /\ Lasting(n)'
        OBVIOUS
    <2>1. PICK n \in 0..strokes.taps : Written(n) /\ Lasting(n)
        BY <1>2 DEF Neat, Pardoned
    <2>2. Written(n)'
        BY <1>1, <1>2, <1>3, <2>1 DEF Written, Writes, Recent
    <2>3. by = "prompt" => ~sheet.sending /\ ~\E r \in requests : r.by = "prompt"
        BY <1>2 DEF Neat, Pardoned, More
    <2>4. \A r \in requests : r.by # "discard"
        BY <1>2 DEF Asked, Asking, Closing
    <2>5. Lasting(n)'
        BY <1>1, <1>2, <1>3, <2>1, <2>3, <2>4 DEF Lasting, Recent, Ending, Asked, Closing
    <2> QED BY <1>3, <2>2, <2>5
<1> QED BY <1>4, <1>5, <1>6, <1>7, <1>8 DEF Clean, Neat

LEMMA PlanKeepsSheet == ASSUME SheetInv, Plan PROVE SheetInv'
<1> USE DEF SheetInv
<1> DEFINE q == Save("schedule")
<1>1. /\ q \in Calls /\ q.op \in {"post", "patch"} /\ (q.op = "post" <=> sheet.id = NoCopy)
      /\ q.id = sheet.id /\ q.text = sheet.text /\ q.by = "schedule" /\ q.answer = "none" /\ q.number = strokes.taps
    BY SavesFacts DEF Savers
<1>2. /\ sheet.ended = "no" /\ ~sheet.closed /\ ~sheet.sending /\ copies' = copies /\ made' = made
      /\ autosave' = autosave /\ requests' = requests \cup {q}
      /\ pardons' = pardons \cup Twice("schedule") \cup More
    BY DEF Plan, CanSave, OnScreen
<1> HIDE DEF q
<1>3. /\ strokes.taps \in Nat /\ strokes' \in [taps : Nat, drops : Nat] /\ strokes'.taps = strokes.taps + 1
      /\ sheet.id \in CopyIds
    BY StrokeFacts DEF SheetTyped, Sheets, Plan
<1>9. /\ sheet' \in Sheets /\ sheet'.text = sheet.text /\ sheet'.first = sheet.first /\ sheet'.id = sheet.id
      /\ sheet'.closed = sheet.closed /\ sheet'.sending = TRUE /\ sheet'.ended = sheet.ended
    BY DEF Plan, SheetTyped, Sheets
<1>4. SheetTyped'
    BY <1>1, <1>2, <1>3, <1>9 DEF SheetTyped, Calls, Kinds
<1>5. Asked'
    BY <1>1, <1>2, <1>9 DEF Asked, Asking, Savers, Ending
<1>6. Closing'
    BY <1>1, <1>2, <1>9 DEF Closing
<1>7. Clean' => Single'
    <2> SUFFICES ASSUME Clean' PROVE Single'
        OBVIOUS
    <2>1. Clean /\ (sheet.id = NoCopy => \A r \in requests : r.op = "post" => r.by = "nobody")
        BY <1>2 DEF Clean, Pardoned, Twice, Asked, Ending
    <2> QED BY <1>1, <1>2, <1>9, <2>1 DEF Single, Clean, Minds
<1>8. Neat' => \E n \in 0..strokes'.taps : Written(n)' /\ Lasting(n)'
    <2> SUFFICES ASSUME Neat' PROVE \E n \in 0..strokes'.taps : Written(n)' /\ Lasting(n)'
        OBVIOUS
    <2>1. PICK n \in 0..strokes.taps : Written(n) /\ Lasting(n)
        BY <1>2 DEF Neat, Pardoned
    <2>2. Written(n)'
        BY <1>1, <1>2, <1>3, <1>9, <2>1 DEF Written, Writes, Recent
    <2>3. ~\E r \in requests : r.by = "prompt"
        BY <1>2 DEF Neat, Pardoned, More
    <2>5. Lasting(n)'
        BY <1>1, <1>2, <1>3, <1>9, <2>1, <2>3 DEF Lasting, Recent, Ending
    <2> QED BY <1>3, <2>2, <2>5
<1> QED BY <1>4, <1>5, <1>6, <1>7, <1>8 DEF Clean, Neat

LEMMA LeaveFacts ==
    ASSUME SheetTyped, NEW s \in Sheets, NEW how \in Ends, Leave(s, how) PROVE
    /\ sheet' \in Sheets /\ sheet'.text = s.text /\ sheet'.first = s.first /\ sheet'.id = s.id
    /\ sheet'.closed = s.closed /\ sheet'.sending = s.sending
    /\ sheet'.ended = IF s.ended = "no" THEN how ELSE s.ended
    /\ autosave' \in {"idle", "sleeping", "saving"}
    /\ autosave' = "saving" <=> autosave = "saving"
    /\ autosave' = "sleeping" => autosave = "sleeping" /\ s.ended # "no"
BY DEF Leave, SheetTyped, Sheets

\* The server handles a request.
LEMMA ServeKeepsSheet == ASSUME SheetInv, NEW r \in requests, Serve(r) PROVE SheetInv'
<1> USE DEF SheetInv
<1> DEFINE id == IF r.op = "post" THEN NewCopy ELSE r.id
           there == r.op \in {"post", "send"} \/ \E c \in copies : c.id = id
<1>1. PICK lost \in BOOLEAN :
          /\ lost => r.by # "nobody"
          /\ copies' = IF there THEN After(r, id) ELSE copies
          /\ made' = IF r.op = "post" THEN made \cup {id} ELSE made
          /\ requests' = Settle(r, id, IF there /\ ~lost THEN "ok" ELSE "failed")
          /\ pardons' = pardons \cup Mishap(r, id) \cup (IF there /\ ~lost THEN {} ELSE {"failed"})
          /\ strokes' = [strokes EXCEPT !.drops = IF lost THEN @ + 1 ELSE @]
    BY DEF Serve
<1>2. r.answer = "none" /\ (r.op = "post" => made # Copies) /\ sheet' = sheet /\ autosave' = autosave
    BY DEF Serve
<1>3. strokes.taps \in Nat /\ strokes' \in [taps : Nat, drops : Nat] /\ strokes'.taps = strokes.taps
    BY <1>1 DEF SheetTyped
<1>4. r.op = "post" => id \in Copies /\ id \notin made
    BY <1>2 DEF NewCopy, SheetTyped
<1>5. r.op # "post" => id = r.id /\ (r.op = "send" \/ id \in made)
    BY DEF Closing
<1>6. id \in CopyIds /\ (r.op # "send" => id \in Copies)
    BY <1>4, <1>5 DEF SheetTyped, Calls, CopyIds
<1> HIDE DEF id, there
<1>7. PICK answer \in {"ok", "failed"} : answer = IF there /\ ~lost THEN "ok" ELSE "failed"
    BY <1>1
<1>8. PICK s \in Calls : /\ s.by = r.by /\ s.answer = answer /\ s.id = id
                         /\ s.op = r.op /\ s.text = r.text /\ s.number = r.number
                         /\ requests' = (requests \ {r}) \cup (IF r.by = "nobody" THEN {} ELSE {s})
    BY <1>1, <1>6, <1>7, SettledFacts
<1>9. there /\ ~lost <=> answer = "ok"
    BY <1>7
<1>10. /\ copies' \subseteq Kinds
       /\ \A c \in copies : c.id # id => c \in copies'
       /\ r.op \in {"post", "send"} \/ ~there => copies \subseteq copies'
       /\ \A c \in copies' : \/ c \in copies /\ (there /\ r.op \in {"patch", "plan", "delete"} => c.id # id)
                             \/ r.op = "post" /\ c.id = id /\ c.text = r.text /\ c.number = r.number
                             \/ /\ r.op = "patch" /\ c.id = id /\ c.text = r.text /\ c.number = r.number
                                /\ \E b \in copies : b.id = id /\ b.due = c.due
                             \/ /\ r.op = "plan" /\ c.id = id /\ c.due = r.text
                                /\ \E b \in copies : b.id = id /\ b.text = c.text /\ b.number = c.number
    <2>1. CASE there
        BY <1>1, <1>6, <2>1, AfterFacts
    <2>2. CASE ~there
        BY <1>1, <2>2 DEF SheetTyped
    <2> QED BY <2>1, <2>2
<1>11. /\ r.op = "post" /\ there => \E c \in copies' : c.id = id /\ c.text = r.text /\ c.number = r.number
       /\ r.op = "patch" /\ there => \A b \in copies : b.id = id =>
             \E c \in copies' : c.id = id /\ c.text = r.text /\ c.number = r.number /\ c.due = b.due
       /\ r.op = "plan" /\ there => \A b \in copies : b.id = id =>
             \E c \in copies' : c.id = id /\ c.due = r.text /\ c.number = b.number /\ c.text = b.text
    BY <1>1, <1>6, AfterFacts
<1>12. made \subseteq made' /\ made' \subseteq Copies /\ (r.op = "post" => id \in made')
    BY <1>1, <1>4 DEF SheetTyped
<1>13. SheetTyped'
    <2>1. \A x \in requests' \cup copies' : x.number <= strokes'.taps
        BY <1>3, <1>8, <1>10 DEF SheetTyped
    <2> QED BY <1>2, <1>3, <1>8, <1>10, <1>12, <2>1 DEF SheetTyped
<1>14. Asked'
    BY <1>2, <1>8 DEF Asked, Asking
<1>15. Closing'
    <2>1. \A c, d \in copies' : c.id = d.id => c = d
        <3>1. /\ \A b \in copies : r.op = "post" => b.id # id
              /\ \A a, b \in copies : a.id = b.id => a = b
            BY <1>4 DEF Closing
        <3> QED BY <1>1, <1>6, <3>1, AfterUnique
    <2>2. \A c \in copies' : c.id \in made'
        BY <1>10, <1>12 DEF Closing
    <2>3. \A q \in requests' : q.id \in made' \/ (q.op = "post" /\ q.answer # "ok") \/ q.op = "send"
        BY <1>5, <1>8, <1>12 DEF Closing
    <2>4. \A q \in requests' : q.op = "delete" => sheet.closed
        BY <1>8 DEF Closing
    <2>5. sheet.closed /\ sheet.ended = "no" => \E q \in requests' : q.op = "delete" /\ q.by \in {"send", "discard"}
        BY <1>8 DEF Closing
    <2> QED BY <1>2, <1>12, <2>1, <2>2, <2>3, <2>4, <2>5 DEF Closing
<1>16. Clean' => Single'
    <2> SUFFICES ASSUME Clean' PROVE Single'
        OBVIOUS
    <2>1. Clean /\ there /\ ~lost /\ answer = "ok" /\ (r.op = "post" => r.by # "nobody")
        BY <1>1, <1>7 DEF Clean, Pardoned, Mishap
    <2>2. \A c \in copies, q \in requests : Minds(q, c.id) =>
              (\A d \in copies' : d.id # c.id) \/ \E p \in requests' : Minds(p, c.id)
        BY <1>2, <1>5, <1>8, <1>10, <2>1 DEF Minds
    <2>3. \A c \in copies' : (\E b \in copies : b.id = c.id) \/ \E p \in requests' : Minds(p, c.id)
        BY <1>8, <1>10, <2>1 DEF Minds
    <2>4. \A q \in requests', c \in copies' : q.op = "delete" /\ q.answer = "ok" => c.id # q.id
        BY <1>4, <1>5, <1>8, <1>10, <2>1 DEF Single, Clean, Closing
    <2> QED BY <1>2, <1>5, <1>8, <2>1, <2>2, <2>3, <2>4 DEF Single, Clean
<1>17. Neat' => \E n \in 0..strokes'.taps : Written(n)' /\ Lasting(n)'
    <2> SUFFICES ASSUME Neat' PROVE \E n \in 0..strokes'.taps : Written(n)' /\ Lasting(n)'
        OBVIOUS
    <2>1. /\ Neat /\ there /\ ~lost /\ answer = "ok" /\ (r.op = "post" => r.by # "nobody")
          /\ r.op = "patch" => \A c \in copies : c.id = id => ~(c.number > r.number)
        BY <1>1, <1>7 DEF Neat, Pardoned, Mishap
    <2>2. PICK n \in 0..strokes.taps : Written(n) /\ Lasting(n)
        BY <2>1 DEF Neat
    <2>3. /\ r.number \in Nat /\ \A c \in copies : c.number \in Nat
          /\ r.op = "delete" => sheet.closed
        BY DEF SheetTyped, Calls, Kinds, Closing
    <2>5. \A b \in copies : r.op # "delete" =>
              \E c \in copies' : c.id = b.id /\ c.number >= b.number /\ (c.due = b.due \/ (r.op = "plan" /\ c.due = r.text))
        BY <1>10, <1>11, <2>1, <2>3 DEF SheetTyped, Calls
    <2>6. Written(n)'
        <3>1. \A x \in Writes' \cup copies' : Recent(x, n) => x.text = sheet.text
            BY <1>8, <1>10, <2>2 DEF Written, Writes, Recent
        <3>2. \A q \in Writes' : q.answer = "ok" /\ ~sheet.closed => \E c \in copies' : c.id = q.id /\ c.number >= q.number
            <4> SUFFICES ASSUME NEW q \in Writes', q.answer = "ok", ~sheet.closed
                         PROVE \E c \in copies' : c.id = q.id /\ c.number >= q.number
                OBVIOUS
            <4>1. CASE q \in Writes
                <5>1. PICK b \in copies : b.id = q.id /\ b.number >= q.number
                    BY <2>2, <4>1 DEF Written
                <5>2. PICK c \in copies' : c.id = b.id /\ c.number >= b.number
                    BY <2>3, <2>5
                <5> QED BY <1>10, <2>3, <4>1, <5>1, <5>2 DEF Writes, SheetTyped, Calls, Kinds
            <4>2. CASE q \notin Writes
                <5>1. q.id = id /\ q.number = r.number /\ q.op = r.op /\ r.op \in {"post", "patch"}
                    BY <1>8, <4>2 DEF Writes
                <5>2. \E c \in copies' : c.id = id /\ c.number = r.number
                    BY <1>11, <2>1, <5>1 DEF there
                <5> QED BY <2>3, <5>1, <5>2
            <4> QED BY <4>1, <4>2
        <3>3. sheet.ended \in {"no", "kept"} /\ ~sheet.closed /\ sheet.text # Empty /\ (~\E q \in requests' : q.by = "send") =>
                  \/ autosave = "sleeping"
                  \/ \E q \in Writes' : q.by # "nobody" /\ Recent(q, n)
                  \/ \E c \in copies' : Recent(c, n)
                  \/ n = 0 /\ sheet.text = sheet.first
            <4> SUFFICES ASSUME sheet.ended \in {"no", "kept"}, ~sheet.closed, sheet.text # Empty, ~\E q \in requests' : q.by = "send"
                         PROVE  \/ autosave = "sleeping"
                                \/ \E q \in Writes' : q.by # "nobody" /\ Recent(q, n)
                                \/ \E c \in copies' : Recent(c, n)
                                \/ n = 0 /\ sheet.text = sheet.first
                OBVIOUS
            <4>1. ~\E q \in requests : q.by = "send"
                BY <1>8
            <4>2. \/ autosave = "sleeping"
                  \/ \E q \in Writes : q.by # "nobody" /\ Recent(q, n)
                  \/ \E c \in copies : Recent(c, n)
                  \/ n = 0 /\ sheet.text = sheet.first
                BY <2>2, <4>1 DEF Written
            <4>3. ASSUME NEW q \in Writes, q.by # "nobody", Recent(q, n) PROVE \E p \in Writes' : p.by # "nobody" /\ Recent(p, n)
                BY <1>8, <4>3 DEF Writes, Recent
            <4>4. ASSUME NEW c \in copies, Recent(c, n) PROVE \E d \in copies' : Recent(d, n)
                BY <1>10, <2>3, <2>5, <4>4 DEF Recent, Kinds
            <4> QED BY <4>2, <4>3, <4>4
        <3> QED BY <1>2, <3>1, <3>2, <3>3 DEF Written
    <2>7. \A b \in copies : r.op # "delete" /\ Recent(b, n) =>
              \E c \in copies' : c.id = b.id /\ Recent(c, n) /\ (c.due = b.due \/ (r.op = "plan" /\ c.due = r.text))
        BY <1>10, <2>3, <2>5 DEF Recent, Kinds
    <2>8. Lasting(n)'
        <3>1. \A q \in requests' : \E p \in requests : q.by = p.by /\ q.number = p.number /\ q.op = p.op
            BY <1>8
        <3>2. \A q \in requests' : q.by = "plan" =>
                  /\ q.text = sheet.text /\ q.id = sheet.id
                  /\ \E c \in copies' : c.id = q.id /\ Recent(c, n) /\ (q.answer = "ok" => c.due = q.text)
            <4> SUFFICES ASSUME NEW q \in requests', q.by = "plan"
                         PROVE  /\ q.text = sheet.text /\ q.id = sheet.id
                                /\ \E c \in copies' : c.id = q.id /\ Recent(c, n) /\ (q.answer = "ok" => c.due = q.text)
                OBVIOUS
            <4>1. CASE q \in requests /\ q # r
                <5>1. /\ q.text = sheet.text /\ q.id = sheet.id /\ ~sheet.closed /\ r.by # "plan"
                      /\ \E b \in copies : b.id = q.id /\ Recent(b, n) /\ (q.answer = "ok" => b.due = q.text)
                    BY <2>2, <4>1 DEF Lasting, Asked, Ending
                <5>2. r.op \notin {"plan", "delete"}
                    BY <2>3, <5>1 DEF Asked, Asking
                <5> QED BY <2>7, <5>1, <5>2
            <4>2. CASE q = s /\ r.by = "plan"
                <5>1. r.op = "plan" /\ r.id = id /\ r.text = sheet.text /\ r.id = sheet.id
                    BY <1>5, <2>2, <4>2 DEF Lasting, Asked, Asking
                <5>2. PICK b \in copies : b.id = id /\ Recent(b, n)
                    BY <2>2, <4>2, <5>1 DEF Lasting
                <5>3. \E c \in copies' : c.id = id /\ c.due = r.text /\ c.number = b.number
                    BY <1>11, <2>1, <5>1, <5>2
                <5> QED BY <1>8, <4>2, <5>1, <5>2, <5>3 DEF Recent
            <4> QED BY <1>8, <4>1, <4>2
        <3>3. sheet.ended = "scheduled" => \E c \in copies' : c.id = sheet.id /\ c.due = sheet.text /\ Recent(c, n)
            <4> SUFFICES ASSUME sheet.ended = "scheduled"
                         PROVE \E c \in copies' : c.id = sheet.id /\ c.due = sheet.text /\ Recent(c, n)
                OBVIOUS
            <4>1. r.op \notin {"plan", "delete"} /\ \E b \in copies : b.id = sheet.id /\ b.due = sheet.text /\ Recent(b, n)
                BY <2>2 DEF Lasting, Asked, Asking, Ending
            <4> QED BY <2>7, <4>1
        <3> QED BY <1>2, <2>2, <3>1, <3>2, <3>3 DEF Lasting, Recent
    <2> QED BY <1>3, <2>6, <2>8
<1> QED BY <1>13, <1>14, <1>15, <1>16, <1>17 DEF Clean, Neat

\* A request fails before it is handled.
LEMMA RefuseKeepsSheet == ASSUME SheetInv, NEW r \in requests, Refuse(r) PROVE SheetInv'
<1> USE DEF SheetInv
<1>1. /\ r.answer = "none" /\ requests' = Settle(r, r.id, "failed") /\ sheet' = sheet /\ autosave' = autosave
      /\ copies' = copies /\ made' = made /\ pardons \subseteq pardons'
      /\ r.by # "nobody" \/ r.op = "delete" => pardons' = pardons \cup {"failed"}
    BY DEF Refuse
<1>2. strokes.taps \in Nat /\ strokes' \in [taps : Nat, drops : Nat] /\ strokes'.taps = strokes.taps
    BY DEF Refuse, SheetTyped
<1>3. PICK s \in Calls : /\ s.by = r.by /\ s.answer = "failed" /\ s.id = r.id
                         /\ s.op = r.op /\ s.text = r.text /\ s.number = r.number
                         /\ requests' = (requests \ {r}) \cup (IF r.by = "nobody" THEN {} ELSE {s})
    BY <1>1, SettledFacts DEF SheetTyped, Calls
<1>4. SheetTyped'
    BY <1>1, <1>2, <1>3 DEF SheetTyped
<1>5. Asked'
    BY <1>1, <1>3 DEF Asked, Asking
<1>6. Closing'
    BY <1>1, <1>3 DEF Closing
<1>7. Clean' => Clean /\ r.by = "nobody" /\ r.op # "delete" /\ requests' = requests \ {r}
    BY <1>1, <1>3 DEF Clean, Pardoned
<1>8. Clean' => Single'
    <2> SUFFICES ASSUME Clean' PROVE Single'
        OBVIOUS
    <2>1. \A c \in copies, q \in requests : Minds(q, c.id) => q \in requests'
        BY <1>1, <1>7 DEF Minds
    <2> QED BY <1>1, <1>7, <2>1 DEF Single, Clean
<1>9. Neat' => \E n \in 0..strokes'.taps : Written(n)' /\ Lasting(n)'
    <2> SUFFICES ASSUME Neat' PROVE \E n \in 0..strokes'.taps : Written(n)' /\ Lasting(n)'
        OBVIOUS
    <2>1. Neat /\ Clean'
        BY <1>1 DEF Neat, Clean, Pardoned
    <2>2. PICK n \in 0..strokes.taps : Written(n) /\ Lasting(n)
        BY <2>1 DEF Neat
    <2>3. Written(n)'
        BY <1>1, <1>7, <2>1, <2>2 DEF Written, Writes, Asking, Asked
    <2>4. Lasting(n)'
        BY <1>1, <1>7, <2>1, <2>2 DEF Lasting
    <2> QED BY <1>2, <2>3, <2>4
<1> QED BY <1>4, <1>5, <1>6, <1>8, <1>9 DEF Clean, Neat

\* Sending lets go of the autosave; what it asked for may still be handled.
LEMMA DispatchKeepsSheet == ASSUME SheetInv, Dispatch PROVE SheetInv'
<1> USE DEF SheetInv
<1> DEFINE q == Ask("send", NoCopy, sheet.text, "send")
           rest == Abandoned(requests)
<1>1. q \in Calls /\ q.op = "send" /\ q.by = "send" /\ q.answer = "none" /\ q.number = strokes.taps
    BY DEF SheetTyped, Sheets, Calls, Ask, CopyIds, Phrases
<1>2. /\ sheet.ended = "no" /\ ~sheet.sending /\ autosave' = "idle" /\ copies' = copies /\ made' = made
      /\ requests' = rest \cup {q} /\ pardons' = pardons \cup More \cup Orphaned(requests)
    BY DEF Dispatch, OnScreen
<1>3. /\ sheet' \in Sheets /\ sheet'.text = sheet.text /\ sheet'.first = sheet.first /\ sheet'.id = sheet.id
      /\ sheet'.closed = sheet.closed /\ sheet'.sending = TRUE /\ sheet'.ended = sheet.ended
    BY DEF Dispatch, SheetTyped, Sheets
<1>4. strokes' \in [taps : Nat, drops : Nat] /\ strokes'.taps = strokes.taps + 1 /\ strokes.taps \in Nat
    BY StrokeFacts DEF Dispatch, SheetTyped
<1>5. /\ rest \subseteq Calls
      /\ \A r \in requests : r.by # "autosave" => r \in rest
      /\ \A r \in requests : r.by = "autosave" /\ r.answer = "none" =>
            \E p \in rest : /\ p.by = "nobody" /\ p.answer = "none"
                            /\ r.op = p.op /\ r.id = p.id /\ r.text = p.text /\ r.number = p.number
      /\ \A p \in rest : \/ p \in requests /\ p.by # "autosave"
                         \/ /\ p.by = "nobody" /\ p.answer = "none"
                            /\ \E r \in requests : /\ r.by = "autosave" /\ r.answer = "none"
                                                   /\ r.op = p.op /\ r.id = p.id /\ r.text = p.text /\ r.number = p.number
    BY AbandonedFacts DEF SheetTyped
<1> HIDE DEF q, rest
<1>6. SheetTyped'
    <2>1. \A x \in requests' \cup copies' : x.number <= strokes.taps /\ x.number \in Nat
        BY <1>1, <1>2, <1>4, <1>5 DEF SheetTyped, Calls, Kinds
    <2> QED BY <1>1, <1>2, <1>3, <1>4, <1>5, <2>1 DEF SheetTyped
<1>7. Asked'
    BY <1>1, <1>2, <1>3, <1>5 DEF Asked, Asking, Savers, Ending
<1>8. Closing'
    BY <1>1, <1>2, <1>3, <1>5 DEF Closing
<1>9. Clean' => Single'
    <2> SUFFICES ASSUME Clean' PROVE Single'
        OBVIOUS
    <2>1. Clean /\ \A r \in requests : ~(r.by = "autosave" /\ r.op = "post" /\ r.answer = "ok")
        BY <1>2 DEF Clean, Pardoned, Orphaned
    <2>2. \A c \in copies, r \in requests : Minds(r, c.id) => \E p \in requests' : Minds(p, c.id)
        BY <1>2, <1>5, <2>1 DEF Minds
    <2> QED BY <1>1, <1>2, <1>3, <1>5, <2>1, <2>2 DEF Single, Clean, Closing
<1>10. Neat' => \E n \in 0..strokes'.taps : Written(n)' /\ Lasting(n)'
    <2> SUFFICES ASSUME Neat' PROVE \E n \in 0..strokes'.taps : Written(n)' /\ Lasting(n)'
        OBVIOUS
    <2>1. Neat /\ ~sheet.closed /\ ~\E r \in requests : r.by = "prompt"
        BY <1>2 DEF Neat, Pardoned, More
    <2>4. PICK n \in 0..strokes.taps : Written(n) /\ Lasting(n)
        BY <2>1 DEF Neat
    <2>5. Written(n)'
        BY <1>1, <1>2, <1>3, <1>5, <2>1, <2>4 DEF Written, Writes, Recent
    <2>6. Lasting(n)'
        BY <1>1, <1>2, <1>3, <1>5, <2>1, <2>4 DEF Lasting, Asked, Ending, Closing, Recent
    <2> QED BY <1>4, <2>5, <2>6
<1> QED BY <1>6, <1>7, <1>8, <1>9, <1>10 DEF Clean, Neat

\* Discarding deletes the draft there is.
LEMMA DiscardKeepsSheet == ASSUME SheetInv, DiscardSheet PROVE SheetInv'
<1> USE DEF SheetInv
<1> DEFINE q == Ask("delete", sheet.id, Empty, "discard")
           rest == Abandoned(requests)
<1>1. /\ q \in Calls /\ q.op = "delete" /\ q.id = sheet.id /\ q.by = "discard" /\ q.answer = "none"
      /\ q.number = strokes.taps
    BY DEF SheetTyped, Sheets, Calls, Ask, Phrases
<1>2. /\ sheet.ended = "no" /\ autosave' = "idle" /\ copies' = copies /\ made' = made
      /\ pardons' = pardons \cup More \cup Orphaned(requests)
      /\ requests' = rest \/ (sheet.id # NoCopy /\ requests' = rest \cup {q})
      /\ sheet.id # NoCopy => requests' = rest \cup {q}
    BY DEF DiscardSheet, OnScreen
<1>3. /\ sheet' \in Sheets /\ sheet'.text = sheet.text /\ sheet'.first = sheet.first /\ sheet'.id = sheet.id
      /\ sheet'.closed = TRUE /\ sheet'.sending = sheet.sending
      /\ sheet'.ended = IF sheet.id = NoCopy THEN "discarded" ELSE "no"
    BY <1>2, ZenonT(60) DEF DiscardSheet, SheetTyped, Sheets, Ends
<1>4. strokes' \in [taps : Nat, drops : Nat] /\ strokes'.taps = strokes.taps + 1 /\ strokes.taps \in Nat
    BY StrokeFacts DEF DiscardSheet, SheetTyped
<1>5. /\ rest \subseteq Calls
      /\ \A r \in requests : r.by # "autosave" => r \in rest
      /\ \A r \in requests : r.by = "autosave" /\ r.answer = "none" =>
            \E p \in rest : /\ p.by = "nobody" /\ p.answer = "none"
                            /\ r.op = p.op /\ r.id = p.id /\ r.text = p.text /\ r.number = p.number
      /\ \A p \in rest : \/ p \in requests /\ p.by # "autosave"
                         \/ /\ p.by = "nobody" /\ p.answer = "none"
                            /\ \E r \in requests : /\ r.by = "autosave" /\ r.answer = "none"
                                                   /\ r.op = p.op /\ r.id = p.id /\ r.text = p.text /\ r.number = p.number
    BY AbandonedFacts DEF SheetTyped
<1> HIDE DEF q, rest
<1>6. SheetTyped'
    <2>1. \A x \in requests' \cup copies' : x.number <= strokes.taps /\ x.number \in Nat
        BY <1>1, <1>2, <1>4, <1>5 DEF SheetTyped, Calls, Kinds
    <2> QED BY <1>1, <1>2, <1>3, <1>4, <1>5, <2>1 DEF SheetTyped
<1>7. Asked'
    BY <1>1, <1>2, <1>3, <1>5 DEF Asked, Asking, Savers, Ending
<1>8. Closing'
    BY <1>1, <1>2, <1>3, <1>5 DEF Closing
<1>9. Clean' => Single'
    <2> SUFFICES ASSUME Clean' PROVE Single'
        OBVIOUS
    <2>1. Clean /\ \A r \in requests : ~(r.by = "autosave" /\ r.op = "post" /\ r.answer = "ok")
        BY <1>2 DEF Clean, Pardoned, Orphaned
    <2>2. \A c \in copies, r \in requests : Minds(r, c.id) => \E p \in requests' : Minds(p, c.id)
        BY <1>2, <1>5, <2>1 DEF Minds
    <2>3. \A c \in copies : c.id # NoCopy
        BY IosComposerAssumption DEF SheetTyped, Kinds
    <2> QED BY <1>1, <1>2, <1>3, <1>5, <2>1, <2>2, <2>3 DEF Single, Clean, Closing
<1>10. Neat' => \E n \in 0..strokes'.taps : Written(n)' /\ Lasting(n)'
    <2> SUFFICES ASSUME Neat' PROVE \E n \in 0..strokes'.taps : Written(n)' /\ Lasting(n)'
        OBVIOUS
    <2>1. Neat /\ ~sheet.closed /\ ~sheet.sending /\ ~\E r \in requests : r.by = "prompt"
        BY <1>2 DEF Neat, Pardoned, More
    <2>4. PICK n \in 0..strokes.taps : Written(n) /\ Lasting(n)
        BY <2>1 DEF Neat
    <2>5. Written(n)'
        BY <1>1, <1>2, <1>3, <1>5, <2>1, <2>4 DEF Written, Writes, Recent
    <2>6. Lasting(n)'
        BY <1>1, <1>2, <1>3, <1>5, <2>1, <2>4 DEF Lasting, Asked, Ending, Closing, Recent
    <2> QED BY <1>4, <2>5, <2>6
<1> QED BY <1>6, <1>7, <1>8, <1>9, <1>10 DEF Clean, Neat

LEMMA DiscardingKeepsSheet == ASSUME SheetInv, NEW r \in requests, Discarding(r) PROVE SheetInv'
<1> USE DEF SheetInv
<1> DEFINE s == IF r.answer = "ok" THEN [sheet EXCEPT !.id = NoCopy] ELSE sheet
<1>1. /\ s \in Sheets /\ s.text = sheet.text /\ s.first = sheet.first /\ s.closed = sheet.closed
      /\ s.sending = sheet.sending /\ s.ended = sheet.ended
      /\ s.id = IF r.answer = "ok" THEN NoCopy ELSE sheet.id
    BY DEF SheetTyped, Sheets, CopyIds
<1>2. /\ r.by = "discard" /\ r.answer # "none" /\ requests' = requests \ {r} /\ copies' = copies /\ made' = made
      /\ pardons' = pardons /\ strokes' = strokes /\ Leave(s, "discarded")
    BY DEF Discarding
<1> HIDE DEF s
<1>3. /\ sheet' \in Sheets /\ sheet'.text = sheet.text /\ sheet'.first = sheet.first /\ sheet'.id = s.id
      /\ sheet'.closed = sheet.closed /\ sheet'.sending = sheet.sending
      /\ sheet'.ended = IF sheet.ended = "no" THEN "discarded" ELSE sheet.ended
      /\ autosave' \in {"idle", "sleeping", "saving"}
      /\ autosave' = "saving" <=> autosave = "saving"
      /\ autosave' = "sleeping" => autosave = "sleeping" /\ sheet.ended # "no"
    BY <1>1, <1>2, LeaveFacts DEF Ends
<1>4. r.op = "delete" /\ sheet.closed /\ strokes.taps \in Nat
    BY <1>2 DEF Asked, Asking, Closing, SheetTyped
<1>5. SheetTyped'
    BY <1>2, <1>3 DEF SheetTyped
<1>6. Asked'
    BY <1>2, <1>3 DEF Asked
<1>7. Closing'
    BY <1>1, <1>2, <1>3, <1>4 DEF Closing
<1>8. Clean' => Single'
    <2> SUFFICES ASSUME Clean' PROVE Single'
        OBVIOUS
    <2>1. Clean /\ r.answer = "ok" /\ s.id = NoCopy
        BY <1>1, <1>2 DEF Clean, Pardoned, Single, SheetTyped, Calls
    <2>2. \A c \in copies, q \in requests : Minds(q, c.id) => q \in requests'
        BY <1>2, <1>4, <2>1 DEF Minds
    <2>3. \A c \in copies : \E q \in requests' : Minds(q, c.id)
        <3>1. \A c \in copies : c.id # NoCopy /\ c.id # r.id
            BY IosComposerAssumption, <1>4, <2>1 DEF SheetTyped, Kinds, Single, Clean
        <3>2. sheet.id \in {r.id, NoCopy}
            BY <1>2, <1>4, <2>1 DEF Single, Clean
        <3> QED BY <2>1, <2>2, <3>1, <3>2 DEF Single, Clean
    <2> QED BY <1>2, <1>3, <1>4, <2>1, <2>3 DEF Single, Clean
<1>9. Neat' => \E n \in 0..strokes'.taps : Written(n)' /\ Lasting(n)'
    <2> SUFFICES ASSUME Neat' PROVE \E n \in 0..strokes'.taps : Written(n)' /\ Lasting(n)'
        OBVIOUS
    <2>1. Neat
        BY <1>2 DEF Neat, Pardoned
    <2>2. PICK n \in 0..strokes.taps : Written(n) /\ Lasting(n)
        BY <2>1 DEF Neat
    <2>3. Written(n)'
        BY <1>2, <1>3, <1>4, <2>2 DEF Written, Writes
    <2>4. Lasting(n)'
        BY <1>2, <1>3, <1>4, <2>2 DEF Lasting
    <2> QED BY <1>2, <2>3, <2>4
<1> QED BY <1>5, <1>6, <1>7, <1>8, <1>9 DEF Clean, Neat

LEMMA CloseKeepsSheet == ASSUME SheetInv, CloseEmpty PROVE SheetInv'
<1> USE DEF SheetInv
<1>1. /\ sheet.ended = "no" /\ sheet.text = Empty /\ sheet.id = NoCopy /\ Leave(sheet, "empty")
      /\ requests' = requests /\ copies' = copies /\ made' = made /\ pardons' = pardons /\ strokes' = strokes
    BY DEF CloseEmpty, OnScreen
<1>2. /\ sheet' \in Sheets /\ sheet'.text = sheet.text /\ sheet'.first = sheet.first /\ sheet'.id = sheet.id
      /\ sheet'.closed = sheet.closed /\ sheet'.sending = sheet.sending /\ sheet'.ended = "empty"
      /\ autosave' \in {"idle", "sleeping", "saving"}
      /\ autosave' = "saving" <=> autosave = "saving"
      /\ autosave' # "sleeping"
    BY <1>1, LeaveFacts DEF Ends, SheetTyped
<1>3. SheetTyped' /\ Asked' /\ Closing'
    BY <1>1, <1>2 DEF SheetTyped, Asked, Asking, Closing
<1>4. Clean' => Single'
    BY <1>1, <1>2 DEF Clean, Pardoned, Single, Minds
<1>5. Neat' => \E n \in 0..strokes'.taps : Written(n)' /\ Lasting(n)'
    <2> SUFFICES ASSUME Neat' PROVE \E n \in 0..strokes'.taps : Written(n)' /\ Lasting(n)'
        OBVIOUS
    <2>1. Neat
        BY <1>1 DEF Neat, Pardoned
    <2>2. PICK n \in 0..strokes.taps : Written(n) /\ Lasting(n)
        BY <2>1 DEF Neat
    <2>3. Written(n)'
        BY <1>1, <1>2, <2>2 DEF Written, Writes, Recent
    <2>4. Lasting(n)'
        BY <1>1, <1>2, <2>2 DEF Lasting, Recent
    <2> QED BY <1>1, <2>3, <2>4
<1> QED BY <1>3, <1>4, <1>5 DEF Clean, Neat

\* A message that went takes its draft along.
LEMMA DispatchedKeepsSheet == ASSUME SheetInv, NEW r \in requests, Dispatched(r) PROVE SheetInv'
<1> USE DEF SheetInv
<1>1. /\ r.by = "send" /\ r.answer # "none" /\ r.op \in {"send", "delete"} /\ copies' = copies /\ made' = made
      /\ pardons' = pardons /\ strokes' = strokes /\ strokes.taps \in Nat
    BY DEF Dispatched, Asked, Asking, Savers, SheetTyped, Calls
<1>2. \A q \in requests : q.by \in Ending => q = r
    BY <1>1 DEF Asked, Ending
<1>3. CASE r.op = "send" /\ r.answer = "ok" /\ sheet.id # NoCopy
    <2> DEFINE q == Ask("delete", sheet.id, Empty, "send")
    <2>1. /\ q \in Calls /\ q.op = "delete" /\ q.id = sheet.id /\ q.by = "send" /\ q.answer = "none"
          /\ q.number = strokes.taps
        BY DEF SheetTyped, Sheets, Calls, Ask, Phrases
    <2>2. requests' = (requests \ {r}) \cup {q} /\ autosave' = autosave
        BY <1>3 DEF Dispatched
    <2> HIDE DEF q
    <2>3. /\ sheet' \in Sheets /\ sheet'.text = sheet.text /\ sheet'.first = sheet.first /\ sheet'.id = sheet.id
          /\ sheet'.closed = TRUE /\ sheet'.sending = sheet.sending /\ sheet'.ended = sheet.ended
        BY <1>3 DEF Dispatched, SheetTyped, Sheets
    <2>4. SheetTyped'
        BY <1>1, <2>1, <2>2, <2>3 DEF SheetTyped
    <2>5. Asked'
        BY <1>1, <1>2, <2>1, <2>2, <2>3 DEF Asked, Asking, Savers, Ending
    <2>6. Closing'
        BY <1>1, <1>3, <2>1, <2>2, <2>3 DEF Closing
    <2>7. Clean' => Single'
        <3> SUFFICES ASSUME Clean' PROVE Single'
            OBVIOUS
        <3>1. \A c \in copies, p \in requests : Minds(p, c.id) => p \in requests'
            BY <1>3, <2>2 DEF Minds
        <3> QED BY <1>1, <1>3, <2>1, <2>2, <2>3, <3>1 DEF Single, Clean, Pardoned
    <2>8. Neat' => \E n \in 0..strokes'.taps : Written(n)' /\ Lasting(n)'
        <3> SUFFICES ASSUME Neat' PROVE \E n \in 0..strokes'.taps : Written(n)' /\ Lasting(n)'
            OBVIOUS
        <3>1. Neat
            BY <1>1 DEF Neat, Pardoned
        <3>2. PICK n \in 0..strokes.taps : Written(n) /\ Lasting(n)
            BY <3>1 DEF Neat
        <3>3. Written(n)'
            BY <1>1, <2>1, <2>2, <2>3, <3>2 DEF Written, Writes
        <3>4. Lasting(n)'
            BY <1>1, <1>2, <2>1, <2>2, <2>3, <3>2 DEF Lasting, Ending
        <3> QED BY <1>1, <3>3, <3>4
    <2> QED BY <2>4, <2>5, <2>6, <2>7, <2>8 DEF Clean, Neat
<1>4. CASE r.op = "send" /\ r.answer = "failed"
    <2>1. /\ requests' = requests \ {r} /\ autosave' = autosave
          /\ sheet' \in Sheets /\ sheet'.text = sheet.text /\ sheet'.first = sheet.first /\ sheet'.id = sheet.id
          /\ sheet'.closed = sheet.closed /\ sheet'.ended = sheet.ended
        BY <1>4 DEF Dispatched, SheetTyped, Sheets
    <2>2. ~Clean' /\ ~Neat'
        BY <1>1, <1>4 DEF Clean, Neat, Pardoned, Single
    <2>3. SheetTyped' /\ Asked' /\ Closing'
        BY <1>1, <1>2, <1>4, <2>1 DEF SheetTyped, Asked, Closing
    <2> QED BY <2>2, <2>3 DEF Clean, Neat
<1>5. CASE ~(r.op = "send" /\ r.answer = "failed") /\ ~(r.op = "send" /\ r.answer = "ok" /\ sheet.id # NoCopy)
    <2> DEFINE s == [sheet EXCEPT !.closed = TRUE, !.sending = FALSE]
    <2>1. /\ s \in Sheets /\ s.text = sheet.text /\ s.first = sheet.first /\ s.closed = TRUE
          /\ s.sending = FALSE /\ s.ended = sheet.ended /\ s.id = sheet.id
        BY DEF SheetTyped, Sheets
    <2>2. requests' = requests \ {r} /\ Leave(s, "sent")
        BY <1>5 DEF Dispatched
    <2> HIDE DEF s
    <2>3. /\ sheet' \in Sheets /\ sheet'.text = sheet.text /\ sheet'.first = sheet.first /\ sheet'.id = sheet.id
          /\ sheet'.closed = TRUE /\ sheet'.sending = FALSE
          /\ sheet'.ended = IF sheet.ended = "no" THEN "sent" ELSE sheet.ended
          /\ autosave' \in {"idle", "sleeping", "saving"}
          /\ autosave' = "saving" <=> autosave = "saving"
          /\ autosave' = "sleeping" => autosave = "sleeping" /\ sheet.ended # "no"
        BY <2>1, <2>2, LeaveFacts DEF Ends
    <2>4. SheetTyped' /\ Asked' /\ Closing'
        BY <1>1, <1>2, <2>2, <2>3 DEF SheetTyped, Asked, Closing
    <2>5. Clean' => Single'
        <3> SUFFICES ASSUME Clean' PROVE Single'
            OBVIOUS
        <3>1. Clean /\ r.answer = "ok"
            BY <1>1 DEF Clean, Pardoned, Single, SheetTyped, Calls
        <3>2. \A c \in copies, q \in requests : Minds(q, c.id) => q \in requests'
            BY <1>1, <2>2, <3>1 DEF Minds
        <3>3. \A c \in copies : \E q \in requests' : Minds(q, c.id)
            <4>1. \A c \in copies : c.id # NoCopy /\ (r.op = "delete" => c.id # r.id)
                BY IosComposerAssumption, <3>1 DEF SheetTyped, Kinds, Single, Clean
            <4>2. r.op = "delete" => sheet.id \in {r.id, NoCopy}
                BY <1>1, <3>1 DEF Single, Clean
            <4> QED BY <1>1, <1>5, <3>1, <3>2, <4>1, <4>2 DEF Single, Clean
        <3> QED BY <1>1, <2>2, <2>3, <3>1, <3>3 DEF Single, Clean
    <2>6. Neat' => \E n \in 0..strokes'.taps : Written(n)' /\ Lasting(n)'
        <3> SUFFICES ASSUME Neat' PROVE \E n \in 0..strokes'.taps : Written(n)' /\ Lasting(n)'
            OBVIOUS
        <3>1. Neat
            BY <1>1 DEF Neat, Pardoned
        <3>2. PICK n \in 0..strokes.taps : Written(n) /\ Lasting(n)
            BY <3>1 DEF Neat
        <3>3. Written(n)'
            BY <1>1, <2>2, <2>3, <3>2 DEF Written, Writes
        <3>4. Lasting(n)'
            BY <1>1, <1>2, <2>2, <2>3, <3>2 DEF Lasting, Ending
        <3> QED BY <1>1, <3>3, <3>4
    <2> QED BY <2>4, <2>5, <2>6 DEF Clean, Neat
<1> QED BY <1>3, <1>4, <1>5

\* A schedule that was made closes the sheet.
LEMMA PlannedKeepsSheet == ASSUME SheetInv, NEW r \in requests, Planned(r) PROVE SheetInv'
<1> USE DEF SheetInv
<1>1. /\ r.by = "plan" /\ r.op = "plan" /\ r.answer # "none" /\ requests' = requests \ {r}
      /\ copies' = copies /\ made' = made /\ pardons' = pardons /\ strokes' = strokes /\ strokes.taps \in Nat
    BY DEF Planned, Asked, Asking, SheetTyped
<1>2. \A q \in requests : q.by \in Ending => q = r
    BY <1>1 DEF Asked, Ending
<1>3. CASE r.answer # "ok"
    <2>1. /\ autosave' = autosave
          /\ sheet' \in Sheets /\ sheet'.text = sheet.text /\ sheet'.first = sheet.first /\ sheet'.id = sheet.id
          /\ sheet'.closed = sheet.closed /\ sheet'.ended = sheet.ended
        BY <1>3 DEF Planned, SheetTyped, Sheets
    <2>2. ~Clean' /\ ~Neat'
        BY <1>1, <1>3 DEF Clean, Neat, Pardoned, Single, SheetTyped, Calls
    <2>3. SheetTyped' /\ Asked' /\ Closing'
        BY <1>1, <1>2, <2>1 DEF SheetTyped, Asked, Closing
    <2> QED BY <2>2, <2>3 DEF Clean, Neat
<1>4. CASE r.answer = "ok"
    <2> DEFINE s == [sheet EXCEPT !.closed = TRUE, !.sending = FALSE]
    <2>1. /\ s \in Sheets /\ s.text = sheet.text /\ s.first = sheet.first /\ s.closed = TRUE
          /\ s.sending = FALSE /\ s.ended = sheet.ended /\ s.id = sheet.id
        BY DEF SheetTyped, Sheets
    <2>2. Leave(s, "scheduled")
        BY <1>4 DEF Planned
    <2> HIDE DEF s
    <2>3. /\ sheet' \in Sheets /\ sheet'.text = sheet.text /\ sheet'.first = sheet.first /\ sheet'.id = sheet.id
          /\ sheet'.closed = TRUE /\ sheet'.sending = FALSE
          /\ sheet'.ended = IF sheet.ended = "no" THEN "scheduled" ELSE sheet.ended
          /\ autosave' \in {"idle", "sleeping", "saving"}
          /\ autosave' = "saving" <=> autosave = "saving"
          /\ autosave' = "sleeping" => autosave = "sleeping" /\ sheet.ended # "no"
        BY <2>1, <2>2, LeaveFacts DEF Ends
    <2>4. SheetTyped' /\ Asked' /\ Closing'
        BY <1>1, <1>2, <2>3 DEF SheetTyped, Asked, Closing
    <2>5. Clean' => Single'
        <3>1. \A c \in copies, q \in requests : Minds(q, c.id) => q \in requests'
            BY <1>1 DEF Minds
        <3> QED BY <1>1, <2>3, <3>1 DEF Single, Clean, Pardoned
    <2>6. Neat' => \E n \in 0..strokes'.taps : Written(n)' /\ Lasting(n)'
        <3> SUFFICES ASSUME Neat' PROVE \E n \in 0..strokes'.taps : Written(n)' /\ Lasting(n)'
            OBVIOUS
        <3>1. Neat
            BY <1>1 DEF Neat, Pardoned
        <3>2. PICK n \in 0..strokes.taps : Written(n) /\ Lasting(n)
            BY <3>1 DEF Neat
        <3>3. Written(n)'
            BY <1>1, <2>3, <3>2 DEF Written, Writes
        <3>4. /\ ~sheet.closed /\ r.text = sheet.text /\ r.id = sheet.id /\ sheet.id # NoCopy
              /\ \E c \in copies : c.id = r.id /\ Recent(c, n) /\ c.due = r.text
            BY <1>1, <1>4, <3>2, IosComposerAssumption DEF Lasting, SheetTyped, Closing
        <3>5. \A q \in requests : q.op # "delete" /\ q.by # "discard"
            BY <3>4 DEF Asked, Asking, Closing
        <3>6. Lasting(n)'
            BY <1>1, <1>2, <2>3, <3>2, <3>4, <3>5 DEF Lasting, Ending, Closing
        <3> QED BY <1>1, <3>3, <3>6
    <2> QED BY <2>4, <2>5, <2>6 DEF Clean, Neat
<1> QED BY <1>3, <1>4

\* A save that comes back: its draft is the sheet's, unless the sheet has closed
\* meanwhile; then it is deleted again.
LEMMA SavedKeepsSheet == ASSUME SheetInv, NEW r \in requests, Saved(r) PROVE SheetInv'
<1> USE DEF SheetInv
<1>1. /\ r.by \in Savers /\ r.answer # "none" /\ r.op \in {"post", "patch", "delete"}
      /\ copies' = copies /\ made' = made /\ pardons' = pardons /\ strokes' = strokes /\ strokes.taps \in Nat
    BY DEF Saved, Asked, Asking, Savers, SheetTyped, Calls
<1>2. CASE Resurrects(r)
    <2> DEFINE q == Ask("delete", r.id, Empty, r.by)
    <2>1. /\ q \in Calls /\ q.op = "delete" /\ q.id = r.id /\ q.by = r.by /\ q.answer = "none"
          /\ q.number = strokes.taps
        BY <1>1 DEF SheetTyped, Calls, Ask, Phrases, Savers
    <2>2. requests' = (requests \ {r}) \cup {q} /\ autosave' = autosave /\ sheet' = sheet
        BY <1>2 DEF Saved
    <2>3. r.op = "post" /\ r.answer = "ok" /\ sheet.closed
        BY <1>2 DEF Resurrects
    <2> HIDE DEF q
    <2>4. SheetTyped'
        BY <1>1, <2>1, <2>2 DEF SheetTyped
    <2>5. Asked'
        BY <1>1, <2>1, <2>2 DEF Asked, Asking, Savers, Ending
    <2>6. Closing'
        BY <1>1, <2>1, <2>2, <2>3 DEF Closing, Savers
    <2>7. Clean' => Single'
        <3> SUFFICES ASSUME Clean' PROVE Single'
            OBVIOUS
        <3>1. \A c \in copies, p \in requests : Minds(p, c.id) => \E o \in requests' : Minds(o, c.id)
            BY <2>1, <2>2, <2>3 DEF Minds
        <3> QED BY <1>1, <2>1, <2>2, <2>3, <3>1 DEF Single, Clean, Pardoned, Savers
    <2>8. Neat' => \E n \in 0..strokes'.taps : Written(n)' /\ Lasting(n)'
        <3> SUFFICES ASSUME Neat' PROVE \E n \in 0..strokes'.taps : Written(n)' /\ Lasting(n)'
            OBVIOUS
        <3>1. Neat /\ Clean
            BY <1>1 DEF Neat, Clean, Pardoned
        <3>2. PICK n \in 0..strokes.taps : Written(n) /\ Lasting(n)
            BY <3>1 DEF Neat
        <3>3. Written(n)'
            BY <1>1, <2>1, <2>2, <2>3, <3>2 DEF Written, Writes
        <3>4. sheet.id = NoCopy /\ r.by \notin {"prompt", "schedule"}
            BY <1>1, <2>3, <3>1, <3>2 DEF Single, Clean, Lasting, Savers
        <3>5. Lasting(n)'
            BY <1>1, <2>1, <2>2, <2>3, <3>2, <3>4 DEF Lasting, Ending, Savers
        <3> QED BY <1>1, <3>3, <3>5
    <2> QED BY <2>4, <2>5, <2>6, <2>7, <2>8 DEF Clean, Neat
<1>3. CASE ~Resurrects(r)
    <2> DEFINE s == IF r.op = "post" /\ r.answer = "ok" THEN [sheet EXCEPT !.id = r.id] ELSE sheet
               ok == r.op # "delete" /\ r.answer = "ok"
               go == ok /\ s.id # NoCopy
               q == Ask("plan", s.id, s.text, "plan")
    <2>1. /\ s \in Sheets /\ s.text = sheet.text /\ s.first = sheet.first /\ s.closed = sheet.closed
          /\ s.sending = sheet.sending /\ s.ended = sheet.ended
          /\ s.id = IF r.op = "post" /\ r.answer = "ok" THEN r.id ELSE sheet.id
        BY DEF SheetTyped, Sheets, Calls
    <2>2. GoOn(r.by, s, requests \ {r}, ok)
        BY <1>3 DEF Saved
    <2>3. /\ q \in Calls /\ q.op = "plan" /\ q.id = s.id /\ q.text = sheet.text /\ q.by = "plan"
          /\ q.answer = "none" /\ q.number = strokes.taps
        BY <2>1, AskedFacts DEF Sheets
    <2>g. go \in BOOLEAN
        OBVIOUS
    <2>h. r.by = "schedule" => /\ sheet' = [s EXCEPT !.sending = go] /\ autosave' = autosave
                              /\ requests' = (requests \ {r}) \cup (IF go THEN {q} ELSE {})
        BY <2>2 DEF GoOn
    <2> HIDE DEF s, q, go
    <2>4. /\ sheet' \in Sheets /\ sheet'.text = sheet.text /\ sheet'.first = sheet.first /\ sheet'.id = s.id
          /\ sheet'.closed = sheet.closed
          /\ sheet'.ended = IF r.by = "prompt" /\ sheet.ended = "no" THEN "kept" ELSE sheet.ended
          /\ sheet'.sending = IF r.by = "schedule" THEN go ELSE sheet.sending
          /\ autosave' \in {"idle", "sleeping", "saving"}
          /\ r.by # "autosave" => (autosave' = "saving" <=> autosave = "saving")
          /\ r.by = "autosave" => autosave' = "idle" /\ autosave = "saving"
          /\ autosave = "sleeping" => autosave' = "sleeping" \/ r.by = "prompt"
          /\ autosave' = "sleeping" => autosave = "sleeping" /\ (r.by = "prompt" => sheet.ended # "no")
          /\ requests' = (requests \ {r}) \cup (IF r.by = "schedule" /\ go THEN {q} ELSE {})
        <3>1. CASE r.by = "autosave"
            BY <2>1, <2>2, <3>1 DEF GoOn, SheetTyped, Asked
        <3>2. CASE r.by = "menu"
            BY <2>1, <2>2, <3>2 DEF GoOn, SheetTyped
        <3>3. CASE r.by = "prompt"
            <4>1. Leave(s, "kept") /\ requests' = requests \ {r}
                BY <2>2, <3>3 DEF GoOn
            <4> QED BY <2>1, <3>3, <4>1, LeaveFacts DEF Ends
        <3>4. CASE r.by = "schedule"
            BY <2>1, <2>g, <2>h, <3>4 DEF SheetTyped, Sheets
        <3> QED BY <1>1, <3>1, <3>2, <3>3, <3>4 DEF Savers
    <2> HIDE DEF ok
    <2>5. SheetTyped'
        BY <1>1, <2>3, <2>4 DEF SheetTyped
    <2>6. Asked'
        <3>1. CASE r.by = "schedule"
            BY <1>1, <2>3, <2>4, <2>g, <3>1 DEF Asked, Asking, Savers, Ending
        <3>2. CASE r.by # "schedule"
            BY <1>1, <2>4, <3>2 DEF Asked
        <3> QED BY <3>1, <3>2
    <2>7. Closing'
        <3>1. s.id \in made \cup {NoCopy} /\ (go => s.id # NoCopy)
            BY <2>1 DEF Closing, go
        <3> QED BY <1>1, <2>3, <2>4, <3>1 DEF Closing, Savers
    <2>8. Clean' => Single'
        <3> SUFFICES ASSUME Clean' PROVE Single'
            OBVIOUS
        <3>1. Clean /\ r.answer = "ok" /\ (r.op = "post" => ~sheet.closed /\ sheet.id = NoCopy /\ r.id \in made)
            BY <1>1, <1>3 DEF Clean, Pardoned, Single, SheetTyped, Calls, Resurrects, Closing, Savers
        <3>2. \A c \in copies, p \in requests : Minds(p, c.id) => p \in requests' \/ (p = r /\ r.op = "post")
            BY <1>1, <2>4, <3>1 DEF Minds
        <3>3. \A c \in copies : c.id = sheet'.id \/ \E p \in requests' : Minds(p, c.id)
            BY IosComposerAssumption, <1>1, <2>1, <2>4, <3>1, <3>2 DEF Single, Clean, Minds, SheetTyped, Kinds
        <3>4. sheet.closed => sheet' = sheet \/ sheet'.id = sheet.id
            BY <2>1, <2>4, <3>1
        <3>5. sheet'.ended \in {"sent", "discarded"} => \A c \in copies : \E p \in requests' : Minds(p, c.id)
            BY <1>1, <2>4, <3>1, <3>2 DEF Single, Clean, Closing
        <3>6. ~sheet.closed => \A p \in requests' : p.op = "patch" => p.id = sheet'.id
            BY IosComposerAssumption, <2>1, <2>3, <2>4, <3>1 DEF Single, Clean, Closing, SheetTyped
        <3> QED BY <1>1, <2>1, <2>3, <2>4, <3>1, <3>3, <3>5, <3>6 DEF Single, Clean, Closing, Savers
    <2>9. Neat' => \E n \in 0..strokes'.taps : Written(n)' /\ Lasting(n)'
        <3> SUFFICES ASSUME Neat' PROVE \E n \in 0..strokes'.taps : Written(n)' /\ Lasting(n)'
            OBVIOUS
        <3>1. Neat /\ Clean /\ Single
            BY <1>1 DEF Neat, Clean, Pardoned
        <3>2. PICK n \in 0..strokes.taps : Written(n) /\ Lasting(n)
            BY <3>1 DEF Neat
        <3>3. r.answer = "ok" /\ (r.op = "post" => ~sheet.closed) /\ (~sheet.closed => r.op # "delete")
            BY <1>1, <1>3, <3>1 DEF Single, SheetTyped, Calls, Resurrects, Closing
        <3>4. ~sheet.closed => \E c \in copies : c.id = r.id /\ c.number >= r.number /\ (Recent(r, n) => Recent(c, n))
            <4>1. ~sheet.closed => \E c \in copies : c.id = r.id /\ c.number >= r.number
                BY <1>1, <3>2, <3>3 DEF Written, Writes
            <4> QED BY <4>1 DEF Recent, SheetTyped, Calls, Kinds
        <3>5. r.by \in {"prompt", "schedule"} => ~sheet.closed /\ Recent(r, n)
            BY <3>2 DEF Lasting
        <3>6. ~sheet.closed => r.id = s.id
            BY <1>1, <2>1, <3>1, <3>3 DEF Single
        <3>7. Written(n)'
            <4>1. \A x \in Writes' \cup copies' : Recent(x, n) => x.text = sheet'.text
                BY <1>1, <2>3, <2>4, <3>2 DEF Written, Writes
            <4>2. \A p \in Writes' : p.answer = "ok" /\ ~sheet'.closed => \E c \in copies' : c.id = p.id /\ c.number >= p.number
                BY <1>1, <2>3, <2>4, <3>2 DEF Written, Writes
            <4>3. sheet'.ended \in {"no", "kept"} /\ ~sheet'.closed /\ sheet'.text # Empty /\ (~\E p \in requests' : p.by = "send") =>
                      \/ autosave' = "sleeping"
                      \/ \E p \in Writes' : p.by # "nobody" /\ Recent(p, n)
                      \/ \E c \in copies' : Recent(c, n)
                      \/ n = 0 /\ sheet'.text = sheet'.first
                BY <1>1, <2>3, <2>4, <3>2, <3>4, <3>5 DEF Written, Writes, Savers
            <4> QED BY <4>1, <4>2, <4>3 DEF Written
        <3>8. Lasting(n)'
            <4>1. r.by = "schedule" => sheet.ended \notin {"kept", "scheduled"} /\ ~\E p \in requests : p.by = "prompt"
                BY <3>2 DEF Lasting, Ending
            <4>2. r.op = "post" => sheet.ended # "scheduled"
                BY <3>3 DEF Closing
            <4>3. \A p \in requests : p.by = "plan" => s.id = sheet.id
                BY IosComposerAssumption, <1>1, <2>1, <3>1, <3>2 DEF Lasting, Single, Closing, SheetTyped, Savers, Asked, Asking
            <4>4. s.id # sheet.id => sheet.ended # "scheduled"
                BY <2>1, <4>2
            <4>5. r.by = "schedule" => ~sheet.closed /\ \E c \in copies : c.id = s.id /\ Recent(c, n)
                BY <3>4, <3>5, <3>6
            <4>6. Recent(q, n)
                BY <2>3 DEF Recent
            <4> QED BY <1>1, <2>3, <2>4, <3>2, <3>3, <3>5, <4>1, <4>3, <4>4, <4>5, <4>6 DEF Lasting, Ending, Savers, Recent
        <3> QED BY <1>1, <3>7, <3>8
    <2> QED BY <2>5, <2>6, <2>7, <2>8, <2>9 DEF Clean, Neat
<1> QED BY <1>2, <1>3

LEMMA SheetInitInv == SheetInit => SheetInv
<1> SUFFICES ASSUME SheetInit PROVE SheetInv
    OBVIOUS
<1> USE IosComposerAssumption
<1>1. PICK t \in {Empty, CHOOSE w \in Wordings : TRUE}, id \in {NoCopy, CHOOSE i \in Copies : TRUE} :
          /\ sheet = [text |-> t, first |-> t, id |-> id, closed |-> FALSE, sending |-> FALSE, ended |-> "no"]
          /\ copies = IF id = NoCopy THEN {} ELSE {Copy(id, t, 0)}
    BY DEF SheetInit
<1>2. t \in Phrases /\ id \in CopyIds
    BY DEF Phrases, CopyIds
<1>3. /\ autosave = "idle" /\ requests = {} /\ made = {c.id : c \in copies} /\ strokes = [taps |-> 0, drops |-> 0]
    BY DEF SheetInit
<1>4. sheet \in Sheets
    BY <1>1, <1>2 DEF Sheets, Ends
<1>5. copies \subseteq Kinds /\ \A c \in copies : c.id = id /\ c.text = t /\ c.number = 0
    BY <1>1, <1>2 DEF Copy, Kinds, CopyIds, Phrases
<1>6. SheetTyped
    BY <1>3, <1>4, <1>5 DEF SheetTyped, Kinds
<1>7. Asked
    BY <1>3 DEF Asked
<1>8. Closing
    BY <1>1, <1>3, <1>5 DEF Closing
<1>9. Single
    BY <1>1, <1>3, <1>5 DEF Single
<1>10. Written(0) /\ Lasting(0)
    BY <1>1, <1>3, <1>5 DEF Written, Writes, Lasting
<1>11. 0 \in 0..strokes.taps
    BY <1>3
<1> QED BY <1>6, <1>7, <1>8, <1>9, <1>10, <1>11 DEF SheetInv

LEMMA SheetStepInv == SheetInv /\ SheetNext => SheetInv'
<1> SUFFICES ASSUME SheetInv, SheetNext PROVE SheetInv'
    OBVIOUS
<1>1. ASSUME NEW t \in Wordings \cup {Empty}, Write(t) PROVE SheetInv'
    BY <1>1, WriteKeepsSheet DEF Phrases
<1>2. ASSUME NEW by \in {"menu", "prompt"}, SaveDraft(by) PROVE SheetInv'
    BY <1>2, SaveKeepsSheet
<1>3. CASE Wake \/ Dispatch \/ Plan \/ DiscardSheet \/ CloseEmpty
    BY <1>3, WakeKeepsSheet, DispatchKeepsSheet, PlanKeepsSheet, DiscardKeepsSheet, CloseKeepsSheet
<1>4. ASSUME NEW r \in requests, Serve(r) \/ Refuse(r) \/ Saved(r) PROVE SheetInv'
    BY <1>4, ServeKeepsSheet, RefuseKeepsSheet, SavedKeepsSheet
<1>5. ASSUME NEW r \in requests, Dispatched(r) \/ Planned(r) \/ Discarding(r) PROVE SheetInv'
    BY <1>5, DispatchedKeepsSheet, PlannedKeepsSheet, DiscardingKeepsSheet
<1> QED BY <1>1, <1>2, <1>3, <1>4, <1>5 DEF SheetNext

LEMMA SheetInvariance == SheetSpec => []SheetInv
<1>1. SheetInv /\ UNCHANGED sheetVars => SheetInv'
    BY DEF sheetVars, SheetInv, SheetTyped, Asked, Asking, Closing, Single, Minds, Written, Writes, Recent,
           Lasting, Pardoned
<1> QED BY <1>1, SheetInitInv, SheetStepInv, PTL DEF SheetSpec

\* However the autosave, the saves of the menu and the prompt, sending, scheduling
\* and discarding overlap, the sheet ends with one draft that holds what it
\* shows, or with none once it was sent or discarded (ComposeModel.swift).
THEOREM SheetKeepsOne == SheetSpec => []IosSheetKeepsOne
<1>1. SheetInv => IosSheetKeepsOne
    <2> SUFFICES ASSUME SheetInv, AllQuiet, Clean PROVE
            /\ Cardinality(copies) <= 1
            /\ sheet.ended \in {"sent", "discarded"} => copies = {}
            /\ Neat => /\ sheet.ended \in {"no", "kept"} /\ sheet.text # Empty =>
                             \/ \E c \in copies : c.text = sheet.text
                             \/ copies = {} /\ sheet.text = sheet.first
                       /\ sheet.ended = "scheduled" => \E c \in copies : c.due = sheet.text /\ c.text = sheet.text
        BY DEF IosSheetKeepsOne, Clean, Neat, Pardoned
    <2> USE DEF SheetInv
    <2>1. requests = {} /\ autosave = "idle"
        BY DEF AllQuiet
    <2>2. Single
        BY DEF Clean
    <2>3. Cardinality(copies) <= 1
        <3>1. \A c, d \in copies : c = d
            BY <2>1, <2>2 DEF Single, Closing
        <3>2. CASE copies = {}
            BY <3>2, FS_EmptySet
        <3>3. ASSUME NEW c \in copies PROVE Cardinality(copies) <= 1
            <4>1. copies = {c}
                BY <3>1
            <4>2. Cardinality({c}) = 1
                BY FS_Singleton
            <4> QED BY <4>1, <4>2
        <3> QED BY <3>2, <3>3
    <2>4. sheet.ended \in {"sent", "discarded"} => copies = {}
        BY <2>1, <2>2 DEF Single
    <2>5. ASSUME Neat PROVE
            /\ sheet.ended \in {"no", "kept"} /\ sheet.text # Empty =>
                  \/ \E c \in copies : c.text = sheet.text
                  \/ copies = {} /\ sheet.text = sheet.first
            /\ sheet.ended = "scheduled" => \E c \in copies : c.due = sheet.text /\ c.text = sheet.text
        <3>1. PICK n \in 0..strokes.taps : Written(n) /\ Lasting(n)
            BY <2>5 DEF Neat
        <3>2. \A c \in copies : Recent(c, n) => c.text = sheet.text
            BY <3>1 DEF Written
        <3>3. ASSUME sheet.ended \in {"no", "kept"}, sheet.text # Empty
              PROVE (\E c \in copies : c.text = sheet.text) \/ (copies = {} /\ sheet.text = sheet.first)
            <4>1. ~sheet.closed
                BY <2>1, <3>1, <3>3 DEF Lasting, Closing
            <4>2. (\E c \in copies : Recent(c, n)) \/ (n = 0 /\ sheet.text = sheet.first)
                BY <2>1, <3>1, <3>3, <4>1 DEF Written, Writes
            <4>3. n = 0 => \A c \in copies : Recent(c, n)
                BY DEF Recent, SheetTyped, Kinds
            <4> QED BY <3>2, <4>2, <4>3
        <3>4. sheet.ended = "scheduled" => \E c \in copies : c.due = sheet.text /\ c.text = sheet.text
            BY <3>1, <3>2 DEF Lasting
        <3> QED BY <3>3, <3>4
    <2> QED BY <2>3, <2>4, <2>5
<1> QED BY <1>1, SheetInvariance, PTL

(***************************************************************************)
(* The thread list of the iOS app: first its pages.  Positions are told by *)
(* the number of those that come before.                                   *)
(***************************************************************************)
Above(S, x) == {s \in S : s > x}

\* Descending lists a set of numbers, the greatest first.
LEMMA DescendingIs ==
    ASSUME NEW S \in SUBSET Nat, IsFiniteSet(S)
    PROVE /\ Cardinality(S) \in Nat
          /\ Descending(S) \in Seq(S) /\ Len(Descending(S)) = Cardinality(S)
          /\ DOMAIN Descending(S) = 1..Cardinality(S)
          /\ Shows(Descending(S), S)
<1> DEFINE N == Cardinality(S)
           r == [x \in S |-> Cardinality(Above(S, x)) + 1]
           list == Descending(S)
<1>1. N \in Nat /\ \A x \in S : IsFiniteSet(Above(S, x)) /\ Cardinality(Above(S, x)) \in Nat
    BY FS_CardinalityType, FS_Subset DEF Above
<1>2. ASSUME NEW a \in S, NEW T \in SUBSET S, a \in T, NEW x \in S, Above(S, x) \subseteq T \ {a}
      PROVE Cardinality(Above(S, x)) < Cardinality(T)
    <2>1. IsFiniteSet(T) /\ IsFiniteSet(T \ {a}) /\ Cardinality(T) \in Nat
        BY FS_Subset, FS_CardinalityType
    <2>2. Cardinality(T \ {a}) = Cardinality(T) - 1
        BY <1>2, <2>1, FS_RemoveElement
    <2>3. Cardinality(Above(S, x)) <= Cardinality(T \ {a})
        BY <1>2, <2>1, FS_Subset
    <2> QED BY <1>1, <2>1, <2>2, <2>3
<1>3. ASSUME NEW x \in S PROVE Cardinality(Above(S, x)) < N
    <2>1. Above(S, x) \subseteq S \ {x}
        BY DEF Above
    <2> QED BY <1>2, <2>1
<1>4. ASSUME NEW a \in S, NEW b \in S, a > b PROVE Cardinality(Above(S, a)) < Cardinality(Above(S, b))
    <2>1. a \in Nat /\ b \in Nat /\ \A s \in S : s \in Nat
        OBVIOUS
    <2>2. a \in Above(S, b) /\ Above(S, b) \in SUBSET S
        BY <1>4 DEF Above
    <2>3. ASSUME NEW s \in Above(S, a) PROVE s \in Above(S, b) \ {a}
        BY <1>4, <2>1, <2>3 DEF Above
    <2> QED BY <1>2, <2>2, <2>3
<1>5. r \in [S -> 1..N]
    BY <1>1, <1>3
<1>6. \A a, b \in S : r[a] = r[b] => a = b
    <2> SUFFICES ASSUME NEW a \in S, NEW b \in S, r[a] = r[b] PROVE a = b
        OBVIOUS
    <2>1. Cardinality(Above(S, a)) = Cardinality(Above(S, b)) /\ a \in Nat /\ b \in Nat
        BY <1>1
    <2>2. ~(a > b) /\ ~(b > a)
        BY <1>1, <1>4, <2>1
    <2> QED BY <2>1, <2>2
<1>7. \A i \in 1..N : \E x \in S : r[x] = i
    <2>1. r \in Injection(S, 1..N)
        BY <1>5, <1>6, Fun_IsInj
    <2>2. IsFiniteSet(1..N) /\ Cardinality(1..N) = N
        BY <1>1, FS_Interval
    <2>3. r \in Surjection(S, 1..N)
        BY <2>1, <2>2, FS_Injection
    <2> HIDE DEF r, N
    <2> QED BY <2>3, Fun_SurjectionProperties
<1>8. ASSUME NEW i \in 1..N PROVE list[i] \in S /\ r[list[i]] = i
    <2>1. PICK x \in S : r[x] = i
        BY <1>7
    <2>2. Cardinality(Above(S, x)) = i - 1
        BY <1>1, <2>1
    <2>3. list[i] = CHOOSE t \in S : Cardinality(Above(S, t)) = i - 1
        BY DEF Descending, Above
    <2>4. list[i] \in S /\ Cardinality(Above(S, list[i])) = i - 1
        BY <2>2, <2>3
    <2> QED BY <1>1, <2>4
<1>9. list \in Seq(S) /\ Len(list) = N /\ DOMAIN list = 1..N
    <2> DEFINE nth(i) == CHOOSE t \in S : Cardinality({s \in S : s > t}) = i - 1
    <2>1. list = [i \in 1..N |-> nth(i)]
        BY DEF Descending
    <2> HIDE DEF list, nth, r
    <2>2. \A i \in 1..N : nth(i) \in S
        BY <1>8, <2>1
    <2> HIDE DEF N
    <2> QED BY <1>1, <2>1, <2>2
<1>10. ASSUME NEW i \in 1..N, NEW j \in 1..N, i < j PROVE list[i] > list[j]
    <2> DEFINE a == list[i]
               b == list[j]
    <2>1. a \in S /\ b \in S /\ r[a] = i /\ r[b] = j /\ a \in Nat /\ b \in Nat
        BY <1>8
    <2> HIDE DEF a, b, list
    <2>2. a # b
        BY <1>1, <1>10, <2>1
    <2>3. ~(b > a)
        BY <1>1, <1>4, <1>10, <2>1
    <2> QED BY <2>1, <2>2, <2>3 DEF a, b
<1>11. Range(list) = S
    <2>1. ASSUME NEW x \in S PROVE \E i \in 1..N : list[i] = x
        <3>1. r[x] \in 1..N
            BY <1>5
        <3>2. list[r[x]] \in S /\ r[list[r[x]]] = r[x]
            BY <1>8, <3>1
        <3> HIDE DEF r, list
        <3>3. list[r[x]] = x
            BY <1>6, <3>2
        <3> QED BY <3>1, <3>3
    <2>2. \A i \in 1..N : list[i] \in S
        BY <1>8
    <2> HIDE DEF list, r, N
    <2> QED BY <1>9, <2>1, <2>2 DEF Range
<1> HIDE DEF list
<1> QED BY <1>1, <1>9, <1>10, <1>11 DEF Shows, list

\* Two lists, the first above the second.
LEMMA Joined ==
    ASSUME NEW A \in SUBSET Nat, NEW B \in SUBSET Nat, NEW f \in Seq(A), NEW g \in Seq(B),
           Shows(f, A), Shows(g, B), \A a \in A, b \in B : a > b
    PROVE Shows(f \o g, A \cup B)
<1> DEFINE h == f \o g
<1>1. /\ Len(f) \in Nat /\ Len(g) \in Nat /\ DOMAIN h = 1..Len(f) + Len(g)
      /\ \A i \in 1..Len(f) : h[i] = f[i]
      /\ \A i \in 1..Len(g) : h[Len(f) + i] = g[i]
      /\ DOMAIN f = 1..Len(f) /\ DOMAIN g = 1..Len(g)
    OBVIOUS
<1> HIDE DEF h
<1>2. \A i \in DOMAIN h : \/ i \in DOMAIN f /\ h[i] = f[i]
                          \/ i - Len(f) \in DOMAIN g /\ h[i] = g[i - Len(f)] /\ i > Len(f)
    <2> SUFFICES ASSUME NEW i \in DOMAIN h, i \notin DOMAIN f
        PROVE i - Len(f) \in DOMAIN g /\ h[i] = g[i - Len(f)] /\ i > Len(f)
        BY <1>1
    <2>1. i - Len(f) \in 1..Len(g) /\ i > Len(f)
        BY <1>1
    <2>2. h[Len(f) + (i - Len(f))] = g[i - Len(f)]
        BY <1>1, <2>1
    <2>3. Len(f) + (i - Len(f)) = i
        BY <1>1
    <2> QED BY <1>1, <2>1, <2>2, <2>3
<1>3. Range(h) = A \cup B
    <2>1. Range(h) \subseteq A \cup B
        BY <1>2 DEF Range, Shows
    <2>2. A \subseteq Range(h)
        BY <1>1 DEF Range, Shows
    <2>3. ASSUME NEW b \in B PROVE b \in Range(h)
        <3>1. PICK i \in DOMAIN g : g[i] = b
            BY DEF Range, Shows
        <3>2. Len(f) + i \in DOMAIN h /\ h[Len(f) + i] = b
            BY <1>1, <3>1
        <3> QED BY <3>2 DEF Range
    <2> QED BY <2>1, <2>2, <2>3
<1>4. ASSUME NEW i \in DOMAIN h, NEW j \in DOMAIN h, i < j PROVE h[i] > h[j]
    <2>1. CASE j \in DOMAIN f /\ h[j] = f[j]
        <3>1. i \in DOMAIN f /\ h[i] = f[i]
            BY <1>1, <1>2, <1>4, <2>1
        <3> QED BY <1>4, <2>1, <3>1 DEF Shows
    <2>2. CASE /\ j - Len(f) \in DOMAIN g /\ h[j] = g[j - Len(f)]
               /\ i \in DOMAIN f /\ h[i] = f[i]
        <3>1. h[i] \in A /\ h[j] \in B
            BY <2>2 DEF Range, Shows
        <3> QED BY <3>1
    <2>3. CASE /\ j - Len(f) \in DOMAIN g /\ h[j] = g[j - Len(f)]
               /\ i - Len(f) \in DOMAIN g /\ h[i] = g[i - Len(f)]
        <3>1. i - Len(f) < j - Len(f)
            BY <1>1, <1>4
        <3> QED BY <2>3, <3>1 DEF Shows
    <2> QED BY <1>2, <2>1, <2>2, <2>3
<1> QED BY <1>3, <1>4 DEF Shows, h

\* What stays of a list stays in its order.
LEMMA SparedIs ==
    ASSUME NEW S \in SUBSET Nat, NEW list \in Seq(S), NEW ids
    PROVE /\ Spared(list, ids) \in Seq(S)
          /\ Range(Spared(list, ids)) = Range(list) \ ids
          /\ Shows(list, Range(list)) => Shows(Spared(list, ids), Range(list) \ ids)
<1> DEFINE I == {i \in DOMAIN list : list[i] \notin ids}
           kept == Descending(I)
           N == Len(kept)
           left == Spared(list, ids)
<1>0. Len(list) \in Nat /\ DOMAIN list = 1..Len(list)
    OBVIOUS
<1>1. I \in SUBSET Nat /\ IsFiniteSet(I)
    <2>1. IsFiniteSet(1..Len(list))
        BY <1>0, FS_Interval
    <2> QED BY <1>0, <2>1, FS_Subset
<1> HIDE DEF I
<1>2. /\ N \in Nat /\ DOMAIN kept = 1..N /\ Range(kept) = I
      /\ \A i, j \in 1..N : i < j => kept[i] > kept[j]
    BY <1>1, DescendingIs DEF Shows
<1>3. left = [k \in 1..N |-> list[kept[N + 1 - k]]]
    BY <1>2 DEF Spared, I
<1> HIDE DEF kept, N, left
<1>4. ASSUME NEW k \in 1..N PROVE N + 1 - k \in 1..N /\ kept[N + 1 - k] \in I
    <2>1. N + 1 - k \in 1..N
        BY <1>2
    <2> QED BY <1>2, <2>1 DEF Range
<1>5. left \in Seq(S) /\ DOMAIN left = 1..N
    <2>1. \A k \in 1..N : left[k] \in S
        BY <1>0, <1>3, <1>4 DEF I
    <2> QED BY <1>2, <1>3, <2>1
<1>6. Range(left) = Range(list) \ ids
    <2>1. Range(left) \subseteq Range(list) \ ids
        BY <1>3, <1>4, <1>5 DEF Range, I
    <2>2. ASSUME NEW x \in Range(list) \ ids PROVE x \in Range(left)
        <3>1. PICK i \in I : list[i] = x
            BY DEF Range, I
        <3>2. PICK j \in 1..N : kept[j] = i
            BY <1>2 DEF Range
        <3>3. N + 1 - j \in 1..N /\ N + 1 - (N + 1 - j) = j
            BY <1>2
        <3>4. left[N + 1 - j] = x
            BY <1>3, <3>1, <3>2, <3>3
        <3> QED BY <1>5, <3>3, <3>4 DEF Range
    <2> QED BY <2>1, <2>2
<1>7. ASSUME Shows(list, Range(list)), NEW i \in 1..N, NEW j \in 1..N, i < j
      PROVE left[i] > left[j]
    <2>1. N + 1 - j < N + 1 - i
        BY <1>2, <1>7
    <2>2. kept[N + 1 - i] < kept[N + 1 - j]
        <3> DEFINE a == N + 1 - j
                   b == N + 1 - i
        <3>1. a \in 1..N /\ b \in 1..N /\ a < b
            BY <1>4, <2>1
        <3> HIDE DEF a, b
        <3>2. kept[a] > kept[b] /\ kept[a] \in I /\ kept[b] \in I
            BY <1>2, <3>1 DEF Range
        <3>3. kept[a] \in Nat /\ kept[b] \in Nat
            BY <1>1, <3>2
        <3>4. kept[b] < kept[a]
            BY <3>2, <3>3
        <3> QED BY <3>4 DEF a, b
    <2>3. kept[N + 1 - i] \in DOMAIN list /\ kept[N + 1 - j] \in DOMAIN list
        BY <1>4 DEF I
    <2> QED BY <1>3, <1>7, <2>2, <2>3 DEF Shows
<1> QED BY <1>5, <1>6, <1>7 DEF Shows, left

\* The threads of a place, from one number to below another.
Located(p, low, high) == {t \in Conversations : home[t] = p /\ t >= low /\ t < high}

LoadShape(l) ==
    /\ l \in [kind : {"list", "row", "fill"}, slot : {l.slot}, place : Views,
              cursor : Conversations \cup {Top}, left : {l.left}, stage : {"asked", "answered", "labels"},
              answer : Seq(Conversations), owner : BOOLEAN, missed : SUBSET {"outrun", "lost"}]
    /\ l.kind = "list" <=> l.cursor = Top

MoveShape(m) ==
    /\ m \in [number : {m.number}, kind : {"trash", "restore", "delete", "undo"}, to : Views \cup {"gone"},
              ids : SUBSET Conversations, todo : SUBSET Conversations]
    /\ m.kind # "undo" => m.to = Homes[m.kind]

FlagShape(fs) == fs \in [list : BOOLEAN, more : BOOLEAN]

ListTyped ==
    /\ home \in [Conversations -> Views \cup {"coming", "gone"}]
    /\ \A t \in Conversations : home[t] = "coming" => t + 1 = Top
    /\ place \in Views /\ rows \in Seq(Conversations) /\ cursor \in Conversations \cup {0}
    /\ FlagShape(flags) /\ due \in BOOLEAN
    /\ \A l \in loads : LoadShape(l)
    /\ \A m \in moves : MoveShape(m)
    /\ offer = NoOffer \/ (offer.ids \subseteq Conversations /\ offer.to \in Views)

\* A spinner that runs has somebody who will stop it.
SpinnersOwned == "collided" \in excuses \/ (flags.list \/ flags.more => \E l \in loads : l.owner)

OnItsWay(l) == l.stage # "labels"

\* An answer that misses nothing is still what the server would say; only the list's may miss
\* what a reload is due for.
AnswerRight(l) ==
    /\ l.kind = "list" /\ OnItsWay(l) => due \/ l.place = place
    /\ l.stage = "answered" /\ l.missed = {} /\ ~(l.kind = "list" /\ due) =>
           Shows(l.answer, Located(l.place, NextCursor(l.answer), l.cursor))

\* Threads a move took from the list, which are about to leave the place on the server too.
Taken == {t \in Conversations : \E m \in moves : m.kind # "undo" /\ t \in m.todo /\ m.to # place}

ListOnItsWay == \E l \in loads : l.kind = "list" /\ OnItsWay(l)

RowsRight ==
    \/ due \/ ListOnItsWay \/ ~(excuses \subseteq {"collided"})
    \/ /\ Range(rows) \subseteq Located(place, cursor, Top)
       /\ Located(place, cursor, Top) \subseteq Range(rows) \cup Taken
       /\ Shows(rows, Range(rows))

ListInv == ListTyped /\ SpinnersOwned /\ (\A l \in loads : AnswerRight(l)) /\ RowsRight

LEMMA Numbers ==
    /\ Top \in Nat /\ Conversations \subseteq Nat /\ IsFiniteSet(Conversations)
    /\ \A t \in Conversations : 0 < t /\ t < Top
    /\ PageSize \in Nat /\ PageSize > 0
<1>1. Cardinality(Conversations) \in Nat /\ IsFiniteSet(Conversations)
    BY IosAssumption, FS_CardinalityType
<1>2. Conversations = 1..Cardinality(Conversations) /\ PageSize \in Nat \ {0}
    BY IosAssumption
<1> QED BY <1>1, <1>2 DEF Top

LEMMA NextIs ==
    ASSUME NEW page \in Seq(Conversations)
    PROVE /\ NextCursor(page) \in Conversations \cup {0} /\ NextCursor(page) \in Nat
          /\ NextCursor(page) # 0 => NextCursor(page) \in Range(page)
<1>1. Len(page) \in Nat /\ DOMAIN page = 1..Len(page) /\ \A i \in 1..Len(page) : page[i] \in Conversations
    OBVIOUS
<1>2. CASE Len(page) < PageSize
    BY <1>2 DEF NextCursor
<1>3. CASE ~(Len(page) < PageSize)
    <2>1. Len(page) \in 1..Len(page) /\ NextCursor(page) = page[Len(page)]
        BY <1>1, <1>3, Numbers DEF NextCursor
    <2> QED BY <1>1, <2>1, Numbers DEF Range
<1> QED BY <1>2, <1>3

\* A page is what there is from its next cursor to below the one it was asked with.
LEMMA PageIs ==
    ASSUME NEW p, NEW c
    PROVE /\ Page(p, c) \in Seq(Conversations)
          /\ Shows(Page(p, c), Located(p, NextCursor(Page(p, c)), c))
<1> DEFINE S == Listed(p, c)
           below == Descending(S)
           n == IF Len(below) < PageSize THEN Len(below) ELSE PageSize
           page == Page(p, c)
           next == NextCursor(page)
<1>1. S \in SUBSET Nat /\ IsFiniteSet(S) /\ S \subseteq Conversations
    BY Numbers, FS_Subset DEF Listed
<1>2. page = SubSeq(below, 1, n)
    BY DEF Page
<1>3. /\ below \in Seq(S) /\ Range(below) = S /\ DOMAIN below = 1..Len(below)
      /\ \A i, j \in 1..Len(below) : i < j => below[i] > below[j]
    <2> HIDE DEF S
    <2> QED BY <1>1, DescendingIs DEF Shows
<1> HIDE DEF S, below, page
<1>4. Len(below) \in Nat /\ n \in Nat /\ n <= Len(below) /\ n <= PageSize
    BY <1>3, Numbers
<1>5. n = PageSize \/ n = Len(below)
    OBVIOUS
<1> HIDE DEF n
<1>6. \A i \in 1..Len(below) : below[i] \in S
    BY <1>3
<1>7. page \in Seq(S) /\ Len(page) = n /\ DOMAIN page = 1..n /\ \A i \in 1..n : page[i] = below[i]
    <2>1. below \in Seq(S)
        BY <1>3
    <2> QED BY <1>2, <1>4, <2>1
<1>8. page \in Seq(Conversations)
    <2>1. /\ page = [i \in 1..n |-> page[i]]
          /\ \A i \in 1..n : page[i] \in Conversations
        BY <1>1, <1>4, <1>6, <1>7
    <2> QED BY <1>4, <2>1
<1>9. next \in Nat
    BY <1>8, NextIs
<1>10. Range(page) \subseteq Located(p, next, c)
    <2> SUFFICES ASSUME NEW i \in 1..n PROVE page[i] \in S /\ page[i] >= next
        BY <1>7 DEF Range, Located, Listed, S
    <2>0. i \in 1..Len(below) /\ page[i] = below[i]
        BY <1>4, <1>7
    <2>1. page[i] \in S /\ page[i] \in Nat
        BY <1>1, <1>6, <2>0
    <2>2. CASE n < PageSize
        BY <1>7, <2>1, <2>2 DEF NextCursor
    <2>3. CASE ~(n < PageSize)
        <3>1. n \in 1..n /\ n \in 1..Len(below)
            BY <1>4, <2>3, Numbers
        <3>2. next = below[n]
            BY <1>7, <2>3, <3>1 DEF NextCursor
        <3>3. CASE i = n
            BY <1>9, <2>0, <2>1, <3>2, <3>3
        <3>4. CASE i < n
            <4>1. below[i] > below[n]
                BY <1>3, <2>0, <3>1, <3>4
            <4> QED BY <1>9, <2>0, <2>1, <3>2, <4>1
        <3> QED BY <1>4, <3>3, <3>4
    <2> QED BY <2>2, <2>3
<1>11. ASSUME NEW t \in Located(p, next, c) PROVE t \in Range(page)
    <2>1. t \in S /\ t >= next /\ t \in Nat
        BY <1>1 DEF Located, Listed, S
    <2>2. PICK i \in 1..Len(below) : below[i] = t
        BY <1>3, <2>1 DEF Range
    <2>3. CASE i \in 1..n
        BY <1>7, <2>2, <2>3 DEF Range
    <2>4. CASE i \notin 1..n
        <3>1. n = PageSize /\ n < i /\ n \in 1..Len(below)
            BY <1>4, <1>5, <2>2, <2>4, Numbers
        <3>2. next = below[n]
            BY <1>7, <3>1 DEF NextCursor
        <3>3. below[n] > t
            BY <1>3, <2>2, <3>1
        <3> QED BY <1>9, <2>1, <3>2, <3>3
    <2> QED BY <2>3, <2>4
<1>12. \A i, j \in DOMAIN page : i < j => page[i] > page[j]
    <2> SUFFICES ASSUME NEW i \in 1..n, NEW j \in 1..n, i < j PROVE page[i] > page[j]
        BY <1>7
    <2>1. i \in 1..Len(below) /\ j \in 1..Len(below)
        BY <1>4
    <2> QED BY <1>3, <1>7, <2>1
<1> QED BY <1>8, <1>10, <1>11, <1>12 DEF Shows, page

\* Loads go on as they were, but for who owns the flags, or are pages just asked for.
Same(k, l) ==
    /\ k.kind = l.kind /\ k.place = l.place /\ k.cursor = l.cursor
    /\ k.stage = l.stage /\ k.answer = l.answer /\ k.missed = l.missed

Fresh(k) == k.kind # "list" /\ k.stage = "asked"

LEMMA KeptInv ==
    ASSUME ListInv, UNCHANGED <<home, place, rows, cursor, moves, due>>,
           FlagShape(flags'), SpinnersOwned',
           offer' = offer \/ (offer'.ids \subseteq Conversations /\ offer'.to \in Views) \/ offer' = NoOffer,
           \A k \in loads' : LoadShape(k) /\ (Fresh(k) \/ \E l \in loads : Same(k, l)),
           \A l \in loads : l.kind = "list" /\ OnItsWay(l) =>
               "failed" \in excuses' \/ \E k \in loads' : Same(k, l),
           excuses' \subseteq {"collided"} => excuses \subseteq {"collided"}
    PROVE ListInv'
<1> USE DEF ListInv
<1>1. ListTyped'
    BY DEF ListTyped
<1>2. Located(place, cursor, Top)' = Located(place, cursor, Top) /\ Taken' = Taken
    BY DEF Located, Taken
<1>3. ASSUME NEW k \in loads' PROVE AnswerRight(k)'
    <2>1. \A p, a, b : Located(p, a, b)' = Located(p, a, b)
        BY DEF Located
    <2>2. CASE Fresh(k)
        BY <2>2 DEF Fresh, AnswerRight
    <2>3. CASE \E l \in loads : Same(k, l)
        BY <2>1, <2>3 DEF Same, AnswerRight, OnItsWay
    <2> QED BY <1>3, <2>2, <2>3
<1>4. RowsRight'
    <2>1. ListOnItsWay /\ excuses' \subseteq {"collided"} => ListOnItsWay'
        BY DEF ListOnItsWay, OnItsWay, Same
    <2> QED BY <1>2, <2>1 DEF RowsRight
<1> QED BY <1>1, <1>3, <1>4

LEMMA DisownedKeeps ==
    ASSUME NEW ls, \A l \in ls : LoadShape(l)
    PROVE /\ \A k \in Disowned(ls) : LoadShape(k) /\ \E l \in ls : Same(k, l)
          /\ \A l \in ls : \E k \in Disowned(ls) : Same(k, l)
<1>1. ASSUME NEW l \in ls
      PROVE LoadShape([l EXCEPT !.owner = FALSE]) /\ Same([l EXCEPT !.owner = FALSE], l)
    <2> DEFINE k == [l EXCEPT !.owner = FALSE]
    <2>1. LoadShape(l)
        OBVIOUS
    <2>2. k.slot = l.slot /\ k.left = l.left /\ Same(k, l)
        BY <2>1 DEF LoadShape, Same
    <2>3. LoadShape(k)
        BY <2>1, <2>2 DEF LoadShape
    <2> QED BY <2>2, <2>3
<1> QED BY <1>1 DEF Disowned

LEMMA PagingKeeps ==
    ASSUME ListTyped, NEW ls \in SUBSET loads, NEW fs, FlagShape(fs), NEW es, NEW kind \in {"row", "fill"},
           NEW slot, NEW left, cursor # 0, Paging(ls, fs, es, kind, slot, left)
    PROVE /\ \A k \in loads' : LoadShape(k) /\ (Fresh(k) \/ \E l \in ls : Same(k, l))
          /\ \A l \in ls : \E k \in loads' : Same(k, l)
          /\ FlagShape(flags') /\ SpinnersOwned'
          /\ excuses' \subseteq {"collided"} => es \subseteq {"collided"}
          /\ \A e \in es : e \in excuses'
<1>1. \A l \in ls : LoadShape(l)
    BY DEF ListTyped
<1>2. /\ \A k \in Disowned(ls) : LoadShape(k) /\ \E l \in ls : Same(k, l)
      /\ \A l \in ls : \E k \in Disowned(ls) : Same(k, l)
    BY <1>1, DisownedKeeps
<1>3. CASE fs.more
    BY <1>2, <1>3 DEF Paging, SpinnersOwned
<1>4. CASE ~fs.more
    <2> DEFINE new == Load(kind, slot, cursor, left)
    <2>1. LoadShape(new) /\ Fresh(new) /\ new.owner
        <3>1. cursor \in Conversations /\ cursor # Top /\ place \in Views
            BY Numbers DEF ListTyped
        <3> QED BY <3>1 DEF Load, LoadShape, Fresh
    <2>2. /\ loads' = Disowned(ls) \cup {new} /\ excuses' = es
          /\ flags' = [fs EXCEPT !.more = TRUE]
        BY <1>4 DEF Paging
    <2>3. FlagShape(flags')
        BY <2>2 DEF FlagShape
    <2> HIDE DEF new
    <2>4. SpinnersOwned'
        BY <2>1, <2>2 DEF SpinnersOwned
    <2> QED BY <1>2, <2>1, <2>2, <2>3, <2>4
<1> QED BY <1>3, <1>4

LEMMA SameIsSame == \A l : Same(l, l)
    BY DEF Same

\* A load ends, and may go on with the next page.
LEMMA EndInv ==
    ASSUME ListInv, NEW l \in loads, NEW again \in BOOLEAN, NEW es, End(l, again, es),
           excuses \subseteq es, l.kind = "list" /\ OnItsWay(l) => "failed" \in es,
           UNCHANGED <<home, place, rows, cursor, moves, offer, due>>
    PROVE ListInv'
<1> DEFINE rest == loads \ {l}
           fs == IF l.owner THEN [list |-> FALSE, more |-> FALSE] ELSE flags
           still == IF l.owner THEN es \ {"collided"} ELSE es
<1>1. FlagShape(fs)
    BY DEF ListInv, ListTyped, FlagShape
<1>2. \A k \in rest : LoadShape(k) /\ Same(k, k)
    BY SameIsSame DEF ListInv, ListTyped
<1>3. still \subseteq {"collided"} => excuses \subseteq {"collided"}
    OBVIOUS
<1>4. "failed" \in es => "failed" \in still
    OBVIOUS
<1>5. CASE ~again
    <2>1. loads' = rest /\ flags' = fs /\ excuses' = still
        BY <1>5 DEF End
    <2>2. SpinnersOwned'
        BY <2>1 DEF ListInv, SpinnersOwned
    <2> HIDE DEF fs, still
    <2> QED BY <1>1, <1>2, <1>3, <1>4, <2>1, <2>2, KeptInv
<1>6. CASE again
    <2>1. /\ l.kind = "fill" /\ cursor # 0
          /\ Paging(rest, fs, still, "fill", l.slot, l.left - 1)
        BY <1>6 DEF End
    <2> DEFINE left == l.left - 1
               slot == l.slot
    <2>2. Paging(rest, fs, still, "fill", slot, left) /\ rest \in SUBSET loads
        BY <2>1
    <2> HIDE DEF fs, still, rest, left, slot
    <2>3. /\ \A k \in loads' : LoadShape(k) /\ (Fresh(k) \/ \E o \in rest : Same(k, o))
          /\ \A o \in rest : \E k \in loads' : Same(k, o)
          /\ FlagShape(flags') /\ SpinnersOwned'
          /\ excuses' \subseteq {"collided"} => still \subseteq {"collided"}
        BY <1>1, <2>1, <2>2, PagingKeeps DEF ListInv
    <2>4. \A k \in loads' : LoadShape(k) /\ (Fresh(k) \/ \E o \in loads : Same(k, o))
        BY <2>2, <2>3
    <2>5. \A o \in loads : o.kind = "list" /\ OnItsWay(o) => \E k \in loads' : Same(k, o)
        BY <2>1, <2>3 DEF rest
    <2> QED BY <1>3, <2>3, <2>4, <2>5, KeptInv
<1> QED BY <1>5, <1>6

\* What holds of an answer keeps holding while the server has what it had.
LEMMA AnswersKept ==
    ASSUME ListInv, home' = home, due => due', NEW k, NEW l \in loads, Same(k, l),
           k.kind = "list" /\ OnItsWay(k) => due' \/ k.place = place'
    PROVE AnswerRight(k)'
<1>1. \A p, a, b : Located(p, a, b)' = Located(p, a, b)
    BY DEF Located
<1>2. AnswerRight(l)
    BY DEF ListInv
<1> QED BY <1>1, <1>2 DEF AnswerRight, Same, OnItsWay

LEMMA ListInitially == IosInit => ListInv
<1> SUFFICES ASSUME IosInit PROVE ListInv
    OBVIOUS
<1> DEFINE page == Page("inbox", Top)
<1>1. place = "inbox" /\ rows = page /\ cursor = NextCursor(page)
    BY DEF IosInit
<1>2. page \in Seq(Conversations) /\ Shows(page, Located("inbox", NextCursor(page), Top))
    BY PageIs
<1> HIDE DEF page
<1>3. NextCursor(page) \in Conversations \cup {0}
    BY <1>2, NextIs
<1>4. ListTyped
    BY <1>1, <1>2, <1>3 DEF IosInit, ListTyped, FlagShape, Views
<1>5. SpinnersOwned
    BY DEF IosInit, SpinnersOwned
<1>6. RowsRight
    BY <1>1, <1>2 DEF RowsRight, Shows
<1>7. loads = {}
    BY DEF IosInit
<1> QED BY <1>4, <1>5, <1>6, <1>7 DEF ListInv

LEMMA ReloadInv == ASSUME ListInv, Reload PROVE ListInv'
<1> DEFINE new == Load("list", 0, Top, 0)
           rest == Outlasting(loads)
<1>1. /\ loads' = Disowned(rest) \cup {new} /\ flags' = [flags EXCEPT !.list = TRUE]
      /\ UNCHANGED <<home, place, rows, cursor, moves, offer, excuses>> /\ due' = FALSE
    BY DEF Reload
<1>2. rest \subseteq loads /\ \A l \in rest : l.kind # "list"
    BY DEF Outlasting
<1>3. \A l \in loads : LoadShape(l)
    BY DEF ListInv, ListTyped
<1>4. LoadShape(new) /\ new.kind = "list" /\ new.stage = "asked" /\ new.place = place /\ new.owner
    <2>1. place \in Views
        BY DEF ListInv, ListTyped
    <2> QED BY <2>1 DEF Load, LoadShape
<1> HIDE DEF new, rest
<1>5. \A k \in Disowned(rest) : LoadShape(k) /\ \E l \in rest : Same(k, l)
    BY <1>2, <1>3, DisownedKeeps
<1>6. FlagShape(flags')
    BY <1>1 DEF ListInv, ListTyped, FlagShape
<1>7. ListTyped'
    BY <1>1, <1>4, <1>5, <1>6 DEF ListInv, ListTyped
<1>8. SpinnersOwned'
    BY <1>1, <1>4 DEF SpinnersOwned
<1>9. ASSUME NEW k \in loads' PROVE AnswerRight(k)'
    <2>1. CASE k = new
        BY <1>1, <1>4, <2>1 DEF AnswerRight
    <2>2. CASE k \in Disowned(rest)
        <3>1. PICK l \in rest : Same(k, l)
            BY <1>5, <2>2
        <3>2. k.kind # "list" /\ AnswerRight(l)
            BY <1>2, <3>1 DEF Same, ListInv
        <3>3. \A p, a, b : Located(p, a, b)' = Located(p, a, b)
            BY <1>1 DEF Located
        <3> QED BY <3>1, <3>2, <3>3 DEF AnswerRight, Same
    <2> QED BY <1>1, <2>1, <2>2
<1>10. RowsRight'
    BY <1>1, <1>4 DEF RowsRight, ListOnItsWay, OnItsWay
<1> QED BY <1>7, <1>8, <1>9, <1>10 DEF ListInv

LEMMA ScrollInv == ASSUME ListInv, Scroll \/ PickCategory PROVE ListInv'
<1>1. PICK kind, slot, left : kind \in {"row", "fill"} /\ Paging(loads, flags, excuses, kind, slot, left)
    BY DEF Scroll, PickCategory
<1>2. cursor # 0 /\ UNCHANGED <<home, place, rows, cursor, moves, offer, due>>
    BY DEF Scroll, PickCategory
<1>3. FlagShape(flags) /\ ListTyped /\ loads \in SUBSET loads
    BY DEF ListInv, ListTyped
<1>4. /\ \A k \in loads' : LoadShape(k) /\ (Fresh(k) \/ \E l \in loads : Same(k, l))
      /\ \A l \in loads : \E k \in loads' : Same(k, l)
      /\ FlagShape(flags') /\ SpinnersOwned'
      /\ excuses' \subseteq {"collided"} => excuses \subseteq {"collided"}
    BY <1>1, <1>2, <1>3, PagingKeeps
<1> QED BY <1>2, <1>4, KeptInv

LEMMA AnswerInv == ASSUME ListInv, NEW l \in loads, Answer(l) PROVE ListInv'
<1>a. PICK page : page = Page(l.place, l.cursor)
    OBVIOUS
<1>b. PICK k : k = [l EXCEPT !.stage = "answered", !.answer = page]
    OBVIOUS
<1>1. /\ loads' = (loads \ {l}) \cup {k} /\ l.stage = "asked"
      /\ UNCHANGED <<home, place, rows, cursor, flags, moves, offer, due, excuses>>
    BY <1>a, <1>b DEF Answer
<1>2. page \in Seq(Conversations) /\ Shows(page, Located(l.place, NextCursor(page), l.cursor))
    BY <1>a, PageIs
<1>3. /\ LoadShape(k) /\ k.kind = l.kind /\ k.place = l.place /\ k.cursor = l.cursor
      /\ k.answer = page /\ k.owner = l.owner /\ k.stage = "answered"
    <2>1. LoadShape(l)
        BY DEF ListInv, ListTyped
    <2>2. /\ k.slot = l.slot /\ k.left = l.left /\ k.kind = l.kind /\ k.place = l.place /\ k.cursor = l.cursor
          /\ k.answer = page /\ k.owner = l.owner /\ k.stage = "answered"
        BY <1>b, <2>1 DEF LoadShape
    <2>3. LoadShape(k)
        BY <1>2, <1>b, <2>1, <2>2 DEF LoadShape
    <2> QED BY <2>2, <2>3
<1>4. ListTyped'
    BY <1>1, <1>3 DEF ListInv, ListTyped
<1>5. SpinnersOwned'
    BY <1>1, <1>3 DEF ListInv, SpinnersOwned
<1>6. \A p, a, b : Located(p, a, b)' = Located(p, a, b)
    BY <1>1 DEF Located
<1>7. ASSUME NEW o \in loads' PROVE AnswerRight(o)'
    <2>1. CASE o = k
        <3>1. AnswerRight(l)
            BY DEF ListInv
        <3>2. k.kind = "list" /\ OnItsWay(k) => due' \/ k.place = place'
            BY <1>1, <1>3, <3>1 DEF AnswerRight, OnItsWay
        <3>3. Shows(k.answer, Located(k.place, NextCursor(k.answer), k.cursor)')
            BY <1>2, <1>3, <1>6
        <3> QED BY <2>1, <3>2, <3>3 DEF AnswerRight
    <2>2. CASE o \in loads
        <3>1. AnswerRight(o)
            BY <2>2 DEF ListInv
        <3> QED BY <1>1, <1>6, <3>1 DEF AnswerRight
    <2> QED BY <1>1, <2>1, <2>2
<1>8. RowsRight'
    <2>1. ListOnItsWay => ListOnItsWay'
        BY <1>1, <1>3 DEF ListOnItsWay, OnItsWay
    <2>2. Taken' = Taken
        BY <1>1 DEF Taken
    <2> QED BY <1>1, <1>6, <2>1, <2>2 DEF ListInv, RowsRight
<1> QED BY <1>4, <1>5, <1>7, <1>8 DEF ListInv

\* A page that comes to where the list ends carries it on.
LEMMA CarriedOn ==
    ASSUME ListInv, NEW l \in loads, l.kind # "list", l.cursor = cursor, l.place = place,
           NEW next, next = NextCursor(l.answer), Shows(l.answer, Located(place, next, cursor)),
           Shows(rows, Range(rows)),
           Range(rows) \subseteq Located(place, cursor, Top),
           Located(place, cursor, Top) \subseteq Range(rows) \cup Taken
    PROVE /\ Range(rows \o l.answer) \subseteq Located(place, next, Top)
          /\ Located(place, next, Top) \subseteq Range(rows \o l.answer) \cup Taken
          /\ Shows(rows \o l.answer, Range(rows \o l.answer))
<1> DEFINE A == Range(rows)
           B == Located(place, next, cursor)
<1>1. /\ rows \in Seq(Conversations) /\ l.answer \in Seq(Conversations)
      /\ cursor \in Conversations /\ cursor < Top
    <2>1. LoadShape(l) /\ rows \in Seq(Conversations)
        BY DEF ListInv, ListTyped
    <2> QED BY <2>1, Numbers DEF LoadShape
<1>2. next \in Nat /\ next < cursor
    <2>1. /\ next \in Conversations \cup {0} /\ next \in Nat
          /\ next # 0 => next \in Range(l.answer)
        BY <1>1, NextIs
    <2>2. Range(l.answer) = Located(place, next, cursor)
        BY DEF Shows
    <2>3. next = 0 \/ next < cursor
        BY <2>1, <2>2 DEF Located
    <2> QED BY <1>1, <2>1, <2>3, Numbers
<1>3. A \in SUBSET Nat /\ B \in SUBSET Nat /\ rows \in Seq(A) /\ l.answer \in Seq(B)
    <2>1. \A t \in Located(place, next, cursor) \cup Located(place, cursor, Top) : t \in Nat
        BY Numbers DEF Located
    <2>2. Range(l.answer) = B
        BY DEF Shows
    <2>3. \A s \in Seq(Conversations) : s \in Seq(Range(s))
        BY DEF Range
    <2> QED BY <1>1, <2>1, <2>2, <2>3
<1>4. \A a \in A, b \in B : a > b
    <2> SUFFICES ASSUME NEW a \in A, NEW b \in B PROVE a > b
        OBVIOUS
    <2>1. a \in Nat /\ b \in Nat /\ a >= cursor /\ b < cursor
        BY <1>3 DEF Located
    <2> QED BY <1>1, <2>1, Numbers
<1>5. Located(place, next, Top) = Located(place, cursor, Top) \cup B
    <2> SUFFICES ASSUME NEW t \in Conversations
        PROVE t >= next /\ t < Top <=> (t >= cursor /\ t < Top) \/ (t >= next /\ t < cursor)
        BY DEF Located
    <2>1. t \in Nat /\ cursor \in Nat /\ Top \in Nat
        BY <1>1, Numbers
    <2> QED BY <1>1, <1>2, <2>1
<1> HIDE DEF A, B
<1>6. Shows(rows, A) /\ Shows(l.answer, B)
    BY DEF A, B
<1>7. Shows(rows \o l.answer, A \cup B)
    BY <1>3, <1>4, <1>6, Joined
<1>8. Range(rows \o l.answer) = A \cup B
    BY <1>7 DEF Shows
<1> QED BY <1>5, <1>7, <1>8 DEF A

LEMMA LandInv == ASSUME ListInv, NEW l \in loads, Land(l) PROVE ListInv'
<1>a. PICK k : k = [l EXCEPT !.stage = "labels"]
    OBVIOUS
<1>1. /\ loads' = (loads \ {l}) \cup {k} /\ l.stage = "answered" /\ cursor' = NextCursor(l.answer)
      /\ UNCHANGED <<home, place, flags, moves, offer, due>>
    BY <1>a DEF Land
<1>2. LoadShape(l) /\ AnswerRight(l)
    BY DEF ListInv, ListTyped
<1>3. LoadShape(k) /\ k.kind = l.kind /\ k.owner = l.owner /\ k.stage = "labels"
    <2>1. /\ k.slot = l.slot /\ k.left = l.left /\ k.kind = l.kind /\ k.owner = l.owner /\ k.stage = "labels"
          /\ k.cursor = l.cursor
        BY <1>a, <1>2 DEF LoadShape
    <2> QED BY <1>a, <1>2, <2>1 DEF LoadShape
<1>4. l.answer \in Seq(Conversations) /\ cursor' \in Conversations \cup {0}
    <2>1. l.answer \in Seq(Conversations)
        BY <1>2 DEF LoadShape
    <2> QED BY <1>1, <2>1, NextIs
<1>5. rows' \in Seq(Conversations)
    <2>1. rows \in Seq(Conversations)
        BY DEF ListInv, ListTyped
    <2>2. rows \o l.answer \in Seq(Conversations)
        BY <1>4, <2>1
    <2>3. rows' = l.answer \/ rows' = rows \o l.answer
        BY DEF Land
    <2> QED BY <1>4, <2>2, <2>3
<1>6. ListTyped'
    BY <1>1, <1>3, <1>4, <1>5 DEF ListInv, ListTyped
<1>7. SpinnersOwned'
    <2>1. "collided" \in excuses => "collided" \in excuses'
        BY DEF Land
    <2> QED BY <1>1, <1>3, <2>1 DEF ListInv, SpinnersOwned
<1>8. \A p, a, b : Located(p, a, b)' = Located(p, a, b)
    BY <1>1 DEF Located
<1>9. ASSUME NEW o \in loads' PROVE AnswerRight(o)'
    <2>1. CASE o = k
        BY <1>3, <2>1 DEF AnswerRight, OnItsWay
    <2>2. CASE o \in loads
        <3>1. AnswerRight(o)
            BY <2>2 DEF ListInv
        <3> QED BY <1>1, <1>8, <3>1 DEF AnswerRight
    <2> QED BY <1>1, <2>1, <2>2
<1>10. Taken' = Taken
    BY <1>1 DEF Taken
<1>11. RowsRight'
    <2> SUFFICES ASSUME ~due, ~ListOnItsWay', excuses' \subseteq {"collided"}
        PROVE /\ Range(rows') \subseteq Located(place, cursor', Top)
              /\ Located(place, cursor', Top) \subseteq Range(rows') \cup Taken
              /\ Shows(rows', Range(rows'))
        BY <1>1, <1>8, <1>10 DEF RowsRight
    <2>1. l.missed = {} /\ Shows(l.answer, Located(l.place, cursor', l.cursor))
        <3>1. l.missed \subseteq excuses' /\ l.missed \subseteq {"outrun", "lost"}
            BY <1>2 DEF Land, LoadShape
        <3>2. l.missed = {}
            BY <3>1
        <3> QED BY <1>1, <1>2, <3>2 DEF AnswerRight
    <2>2. CASE l.kind = "list"
        <3>1. l.place = place /\ l.cursor = Top /\ rows' = l.answer
            BY <1>1, <1>2, <2>2 DEF AnswerRight, OnItsWay, LoadShape, Land
        <3> QED BY <2>1, <3>1 DEF Shows
    <2>3. CASE l.kind # "list"
        <3>1. /\ rows' = rows \o l.answer
              /\ excuses' = excuses \cup l.missed \cup (IF Stale(l) THEN {"stale"} ELSE {})
            BY <2>3 DEF Land
        <3>2. ~Stale(l) /\ excuses \subseteq {"collided"}
            BY <3>1
        <3>3. l.place = place /\ l.cursor = cursor
            BY <3>2 DEF Stale
        <3>4. ~ListOnItsWay
            BY <1>1, <2>3 DEF ListOnItsWay, OnItsWay
        <3>5. /\ Range(rows) \subseteq Located(place, cursor, Top)
              /\ Located(place, cursor, Top) \subseteq Range(rows) \cup Taken
              /\ Shows(rows, Range(rows))
            BY <3>2, <3>4 DEF ListInv, RowsRight
        <3>6. Shows(l.answer, Located(place, cursor', cursor))
            BY <2>1, <3>3
        <3>7. PICK next : next = cursor'
            OBVIOUS
        <3>8. next = NextCursor(l.answer) /\ Shows(l.answer, Located(place, next, cursor))
            BY <1>1, <3>6, <3>7
        <3>9. /\ Range(rows \o l.answer) \subseteq Located(place, next, Top)
              /\ Located(place, next, Top) \subseteq Range(rows \o l.answer) \cup Taken
              /\ Shows(rows \o l.answer, Range(rows \o l.answer))
            BY <2>3, <3>3, <3>5, <3>8, CarriedOn
        <3> QED BY <3>1, <3>7, <3>9
    <2> QED BY <2>2, <2>3
<1> QED BY <1>6, <1>7, <1>9, <1>11 DEF ListInv

LEMMA LoadEndsInv ==
    ASSUME ListInv, NEW l \in loads, NEW again \in BOOLEAN, Labelled(l, again) \/ LoadFails(l, again) \/ RowLeaves(l)
    PROVE ListInv'
<1> UNCHANGED <<home, place, rows, cursor, moves, offer, due>>
    BY DEF Labelled, LoadFails, RowLeaves
<1>1. CASE Labelled(l, again)
    <2>1. End(l, again, excuses) /\ ~OnItsWay(l)
        BY <1>1 DEF Labelled, OnItsWay
    <2> QED BY <2>1, EndInv
<1>2. CASE LoadFails(l, again)
    <2> DEFINE es == IF l.kind = "list" THEN excuses \cup {"failed"} ELSE excuses
    <2>1. End(l, again, es) /\ excuses \subseteq es /\ (l.kind = "list" => "failed" \in es)
        BY <1>2 DEF LoadFails
    <2> HIDE DEF es
    <2> QED BY <2>1, EndInv
<1>3. CASE RowLeaves(l)
    <2>1. End(l, FALSE, excuses) /\ l.kind = "row"
        BY <1>3 DEF RowLeaves
    <2> QED BY <2>1, EndInv
<1> QED BY <1>1, <1>2, <1>3

LEMMA SelectInv == ASSUME ListInv, NEW p \in Views, Select(p) PROVE ListInv'
<1>1. /\ place' = p /\ rows' = <<>> /\ cursor' = 0 /\ due' = TRUE /\ loads' \subseteq loads
      /\ flags' = IF \E l \in loads \ loads' : l.owner THEN [list |-> FALSE, more |-> FALSE] ELSE flags
      /\ UNCHANGED <<home, moves, offer, excuses>>
    BY DEF Select
<1>2. ListTyped'
    <2>1. FlagShape(flags') /\ rows' \in Seq(Conversations)
        BY <1>1 DEF ListInv, ListTyped, FlagShape
    <2> QED BY <1>1, <2>1 DEF ListInv, ListTyped
<1>3. SpinnersOwned'
    BY <1>1 DEF ListInv, SpinnersOwned
<1>4. ASSUME NEW k \in loads' PROVE AnswerRight(k)'
    BY <1>1, AnswersKept, SameIsSame
<1>5. RowsRight'
    BY <1>1 DEF RowsRight
<1> QED BY <1>2, <1>3, <1>4, <1>5 DEF ListInv

LEMMA RefreshInv == ASSUME ListInv, Refresh PROVE ListInv'
<1>1. due' = TRUE /\ UNCHANGED <<home, place, rows, cursor, flags, loads, moves, offer, excuses>>
    BY DEF Refresh
<1>2. ListTyped' /\ SpinnersOwned' /\ RowsRight'
    BY <1>1 DEF ListInv, ListTyped, SpinnersOwned, RowsRight
<1>3. ASSUME NEW k \in loads' PROVE AnswerRight(k)'
    BY <1>1, AnswersKept, SameIsSame
<1> QED BY <1>2, <1>3 DEF ListInv

\* The moves and the rows change, and neither the server nor a load does.
LEMMA MovesInv ==
    ASSUME ListInv, UNCHANGED <<home, place, cursor, flags, loads, excuses>>, due' \in BOOLEAN, due => due',
           \A m \in moves' : MoveShape(m), rows' \in Seq(Conversations),
           offer' = NoOffer \/ (offer'.ids \subseteq Conversations /\ offer'.to \in Views),
           RowsRight'
    PROVE ListInv'
<1>1. ListTyped' /\ SpinnersOwned'
    BY DEF ListInv, ListTyped, SpinnersOwned
<1>2. ASSUME NEW k \in loads' PROVE AnswerRight(k)'
    <2>1. k \in loads /\ AnswerRight(k)
        BY DEF ListInv
    <2>2. k.kind = "list" /\ OnItsWay(k) => due' \/ k.place = place'
        BY <2>1 DEF AnswerRight
    <2> QED BY <2>1, <2>2, AnswersKept, SameIsSame
<1> QED BY <1>1, <1>2 DEF ListInv

LEMMA ActInv ==
    ASSUME ListInv, NEW kind \in {"trash", "restore", "delete"}, NEW ids, Act(kind, ids)
    PROVE ListInv'
<1>a. PICK m : m = [number |-> used.taps, kind |-> kind, to |-> Homes[kind], ids |-> ids, todo |-> ids]
    OBVIOUS
<1>1. /\ place = Targets[kind] /\ ids \subseteq Range(rows) /\ rows' = Spared(rows, ids)
      /\ moves' = moves \cup {m}
      /\ UNCHANGED <<home, place, cursor, flags, loads, offer, due, excuses>>
    BY <1>a DEF Act
<1>2. rows \in Seq(Conversations) /\ Range(rows) \subseteq Conversations
    BY DEF ListInv, ListTyped, Range
<1>3. /\ MoveShape(m) /\ m.kind # "undo" /\ m.to # place /\ m.todo = ids
    <2>1. Homes[kind] \in Views \cup {"gone"} /\ Homes[kind] # Targets[kind]
        BY DEF Homes, Targets, Views
    <2> QED BY <1>a, <1>1, <1>2, <2>1 DEF MoveShape
<1>4. /\ rows' \in Seq(Conversations) /\ Range(rows') = Range(rows) \ ids
      /\ Shows(rows, Range(rows)) => Shows(rows', Range(rows'))
    <2>1. Conversations \in SUBSET Nat
        BY Numbers
    <2>2. /\ Spared(rows, ids) \in Seq(Conversations)
          /\ Range(Spared(rows, ids)) = Range(rows) \ ids
          /\ Shows(rows, Range(rows)) => Shows(Spared(rows, ids), Range(rows) \ ids)
        BY <1>2, <2>1, SparedIs
    <2> QED BY <1>1, <2>2
<1>5. RowsRight'
    <2>1. Located(place, cursor, Top)' = Located(place, cursor, Top) /\ ListOnItsWay' = ListOnItsWay
        BY <1>1 DEF Located, ListOnItsWay
    <2>2. Taken \cup ids \subseteq Taken'
        BY <1>1, <1>2, <1>3 DEF Taken
    <2> QED BY <1>1, <1>4, <2>1, <2>2 DEF ListInv, RowsRight
<1>6. /\ due' \in BOOLEAN /\ (due => due') /\ \A o \in moves' : MoveShape(o)
      /\ offer' = NoOffer \/ (offer'.ids \subseteq Conversations /\ offer'.to \in Views)
    BY <1>1, <1>3 DEF ListInv, ListTyped
<1>7. UNCHANGED <<home, place, cursor, flags, loads, excuses>>
    BY <1>1
<1> QED BY <1>4, <1>5, <1>6, <1>7, MovesInv

LEMMA UndoInv == ASSUME ListInv, Undo PROVE ListInv'
<1>a. PICK m : m = [number |-> used.taps, kind |-> "undo", to |-> offer.to, ids |-> offer.ids, todo |-> offer.ids]
    OBVIOUS
<1>1. /\ offer # NoOffer /\ offer' = NoOffer /\ moves' = moves \cup {m}
      /\ UNCHANGED <<home, place, rows, cursor, flags, loads, due, excuses>>
    BY <1>a DEF Undo
<1>2. MoveShape(m) /\ m.kind = "undo"
    <2>1. offer.ids \subseteq Conversations /\ offer.to \in Views
        BY <1>1 DEF ListInv, ListTyped
    <2> QED BY <1>a, <2>1 DEF MoveShape
<1>3. RowsRight'
    <2>1. Located(place, cursor, Top)' = Located(place, cursor, Top) /\ ListOnItsWay' = ListOnItsWay
        BY <1>1 DEF Located, ListOnItsWay
    <2>2. Taken' = Taken
        BY <1>1, <1>2 DEF Taken
    <2> QED BY <1>1, <2>1, <2>2 DEF ListInv, RowsRight
<1>4. /\ due' \in BOOLEAN /\ (due => due') /\ (\A o \in moves' : MoveShape(o)) /\ rows' \in Seq(Conversations)
      /\ offer' = NoOffer
    BY <1>1, <1>2 DEF ListInv, ListTyped
<1>5. UNCHANGED <<home, place, cursor, flags, loads, excuses>>
    BY <1>1
<1> QED BY <1>3, <1>4, <1>5, MovesInv

\* A thread moves on the server: what no longer holds of a list or an answer is outrun.
LEMMA MoveOneInv == ASSUME ListInv, NEW m \in moves, MoveOne(m) PROVE ListInv'
<1>a. PICK t \in m.todo :
        /\ home[t] # "gone" /\ home' = [home EXCEPT ![t] = m.to]
        /\ moves' = (moves \ {m}) \cup {[m EXCEPT !.todo = @ \ {t}]}
        /\ excuses' = IF home[t] # m.to /\ Outruns(t, home[t], m.to, place, rows)
                      THEN excuses \cup {"outrun"} ELSE excuses
        /\ loads' = {IF /\ l.stage = "answered" /\ home[t] # m.to
                        /\ Outruns(t, home[t], m.to, l.place, l.answer)
                     THEN [l EXCEPT !.missed = @ \cup {"outrun"}] ELSE l : l \in loads}
        /\ UNCHANGED <<place, rows, cursor, flags, offer, due, used>>
    BY DEF MoveOne
<1>b. PICK to, from : to = m.to /\ from = home[t]
    OBVIOUS
<1> DEFINE Passed(l) == IF /\ l.stage = "answered" /\ from # to
                           /\ Outruns(t, from, to, l.place, l.answer)
                        THEN [l EXCEPT !.missed = @ \cup {"outrun"}] ELSE l
<1>c. PICK n : n = [m EXCEPT !.todo = @ \ {t}]
    OBVIOUS
<1>1. MoveShape(m) /\ t \in Conversations /\ to \in Views \cup {"gone"} /\ from # "gone"
    <2>1. MoveShape(m)
        BY DEF ListInv, ListTyped
    <2> QED BY <1>a, <1>b, <2>1 DEF MoveShape
<1>2. /\ MoveShape(n) /\ n.todo = m.todo \ {t} /\ n.kind = m.kind /\ n.to = m.to
    <2>1. n.number = m.number /\ n.kind = m.kind /\ n.to = m.to /\ n.todo = m.todo \ {t} /\ n.ids = m.ids
        BY <1>c, <1>1 DEF MoveShape
    <2>2. n \in [number : {m.number}, kind : {"trash", "restore", "delete", "undo"}, to : Views \cup {"gone"},
                 ids : SUBSET Conversations, todo : SUBSET Conversations]
        BY <1>c, <1>1 DEF MoveShape
    <2> QED BY <1>1, <2>1, <2>2 DEF MoveShape
<1>3. ASSUME NEW l \in loads, NEW k, k = Passed(l)
      PROVE /\ LoadShape(k) /\ k.owner = l.owner /\ k.kind = l.kind /\ k.place = l.place
            /\ k.cursor = l.cursor /\ k.stage = l.stage /\ k.answer = l.answer
            /\ k.missed = {} => k = l /\ (l.stage = "answered" => from = to \/ ~Outruns(t, from, to, l.place, l.answer))
    <2>1. LoadShape(l)
        BY DEF ListInv, ListTyped
    <2>2. CASE k = l /\ (l.stage = "answered" => from = to \/ ~Outruns(t, from, to, l.place, l.answer))
        BY <2>1, <2>2
    <2>3. CASE k = [l EXCEPT !.missed = @ \cup {"outrun"}]
        <3>1. /\ k.owner = l.owner /\ k.kind = l.kind /\ k.place = l.place /\ k.slot = l.slot /\ k.left = l.left
              /\ k.cursor = l.cursor /\ k.stage = l.stage /\ k.answer = l.answer /\ "outrun" \in k.missed
            BY <2>1, <2>3 DEF LoadShape
        <3>2. LoadShape(k)
            BY <2>1, <2>3, <3>1 DEF LoadShape
        <3> QED BY <3>1, <3>2
    <2> QED BY <1>3, <2>2, <2>3
<1>4. /\ \A l \in loads : \E k \in loads' : k = Passed(l)
      /\ \A k \in loads' : \E l \in loads : k = Passed(l)
    BY <1>a, <1>b
<1> HIDE DEF Passed
<1>5. ListTyped'
    <2>1. home' \in [Conversations -> Views \cup {"coming", "gone"}]
        BY <1>a, <1>b, <1>1 DEF ListInv, ListTyped
    <2>2. \A x \in Conversations : home'[x] = "coming" => home[x] = "coming"
        BY <1>a, <1>b, <1>1 DEF ListInv, ListTyped, Views
    <2>3. \A o \in moves' : MoveShape(o)
        BY <1>a, <1>c, <1>2 DEF ListInv, ListTyped
    <2>4. \A k \in loads' : LoadShape(k)
        BY <1>3, <1>4
    <2> QED BY <1>a, <2>1, <2>2, <2>3, <2>4 DEF ListInv, ListTyped
<1>6. SpinnersOwned'
    <2>1. \A l \in loads : \E k \in loads' : k.owner = l.owner
        BY <1>3, <1>4
    <2>2. flags' = flags /\ excuses \subseteq excuses'
        BY <1>a
    <2> QED BY <2>1, <2>2 DEF ListInv, SpinnersOwned
<1>7. home'[t] = to /\ \A x \in Conversations \ {t} : home'[x] = home[x]
    BY <1>a, <1>b, <1>1 DEF ListInv, ListTyped
<1>8. ASSUME NEW k \in loads' PROVE AnswerRight(k)'
    <2>1. PICK l \in loads : k = Passed(l)
        BY <1>4
    <2>2. /\ k.kind = l.kind /\ k.place = l.place /\ k.cursor = l.cursor /\ k.stage = l.stage /\ k.answer = l.answer
          /\ k.missed = {} => k = l /\ (l.stage = "answered" => from = to \/ ~Outruns(t, from, to, l.place, l.answer))
        BY <1>3, <2>1
    <2>3. AnswerRight(l) /\ due' = due /\ place' = place
        BY <1>a DEF ListInv
    <2>4. ASSUME k.stage = "answered", k.missed = {}, ~(k.kind = "list" /\ due)
          PROVE Shows(k.answer, Located(k.place, NextCursor(k.answer), k.cursor)')
        <3>1. PICK next, p, c, some : /\ next = NextCursor(k.answer) /\ p = l.place /\ c = l.cursor
                                      /\ some = Range(l.answer)
            OBVIOUS
        <3> DEFINE L == Located(p, next, c)
        <3>2. Shows(l.answer, L) /\ some = L
            BY <2>2, <2>3, <2>4, <3>1 DEF AnswerRight, Shows
        <3>3. home[t] = to \/ ~(p = to \/ (p = home[t] /\ t \in some))
            BY <1>b, <2>2, <2>4, <3>1 DEF Outruns
        <3>4. /\ \A x \in Conversations \ {t} : x \in L' <=> x \in L
              /\ t \in L' => t \in L /\ to = p
              /\ t \in L /\ t \in some => t \in L'
            BY <1>1, <1>7, <3>3 DEF Located
        <3>5. L \subseteq Conversations /\ L' \subseteq Conversations
            BY DEF Located
        <3>6. L' = L
            <4> HIDE DEF L
            <4> QED BY <3>2, <3>4, <3>5
        <3> QED BY <2>2, <3>1, <3>2, <3>6
    <2> QED BY <2>2, <2>3, <2>4 DEF AnswerRight, OnItsWay
<1>9. /\ \A x \in Taken : x # t => x \in Taken'
      /\ to = place /\ t \in Taken => t \in Taken'
    <2> SUFFICES ASSUME NEW x \in Taken, x # t \/ to = place PROVE x \in Taken'
        OBVIOUS
    <2>1. PICK o \in moves : o.kind # "undo" /\ x \in o.todo /\ o.to # place
        BY DEF Taken
    <2>2. CASE o = m
        <3>1. x # t /\ x \in n.todo /\ n.kind # "undo" /\ n.to # place /\ n \in moves'
            BY <1>a, <1>b, <1>c, <1>2, <2>1, <2>2
        <3> QED BY <1>a, <3>1 DEF Taken
    <2>3. CASE o # m
        BY <1>a, <2>1, <2>3 DEF Taken
    <2> QED BY <2>2, <2>3
<1>10. RowsRight'
    <2> DEFINE L == Located(place, cursor, Top)
    <2> SUFFICES ASSUME ~due, ~ListOnItsWay', excuses' \subseteq {"collided"}
        PROVE Range(rows) \subseteq L' /\ L' \subseteq Range(rows) \cup Taken' /\ Shows(rows, Range(rows))
        BY <1>a DEF RowsRight
    <2>1. ~ListOnItsWay
        <3>1. \A l \in loads : \E k \in loads' : k.kind = l.kind /\ k.stage = l.stage
            BY <1>3, <1>4
        <3> QED BY <3>1 DEF ListOnItsWay, OnItsWay
    <2>2. excuses \subseteq {"collided"} /\ (from = to \/ ~Outruns(t, from, to, place, rows))
        BY <1>a, <1>b
    <2>3. Range(rows) \subseteq L /\ L \subseteq Range(rows) \cup Taken /\ Shows(rows, Range(rows))
        BY <2>1, <2>2 DEF ListInv, RowsRight
    <2>4. PICK p, c, some : p = place /\ c = cursor /\ some = Range(rows)
        OBVIOUS
    <2>5. home[t] = to \/ ~(p = to \/ (p = home[t] /\ t \in some))
        BY <1>b, <2>2, <2>4 DEF Outruns
    <2>6. /\ \A x \in Conversations \ {t} : x \in Located(p, c, Top)' <=> x \in Located(p, c, Top)
          /\ t \in Located(p, c, Top)' => t \in Located(p, c, Top) /\ to = p
          /\ t \in Located(p, c, Top) /\ t \in some => t \in Located(p, c, Top)'
        BY <1>1, <1>7, <2>5 DEF Located
    <2>7. L' = Located(p, c, Top)' /\ L = Located(p, c, Top)
        BY <1>a, <2>4 DEF Located
    <2>8. L \subseteq Conversations /\ L' \subseteq Conversations
        BY DEF Located
    <2> HIDE DEF L
    <2> QED BY <1>9, <2>3, <2>4, <2>6, <2>7, <2>8
<1> QED BY <1>5, <1>6, <1>8, <1>10 DEF ListInv

\* A move that ends, or is left off, took nothing that is still to go.
LEMMA MoveEndsInv == ASSUME ListInv, NEW m \in moves, Moved(m) \/ MoveFails(m) PROVE ListInv'
<1>1. UNCHANGED <<home, place, cursor, flags, loads, excuses>> /\ UNCHANGED rows
    BY DEF Moved, MoveFails
<1>2. MoveShape(m)
    BY DEF ListInv, ListTyped
<1>3. /\ Located(place, cursor, Top)' = Located(place, cursor, Top) /\ ListOnItsWay' = ListOnItsWay
      /\ rows' \in Seq(Conversations)
    BY <1>1 DEF Located, ListOnItsWay, ListInv, ListTyped
<1>4. CASE Moved(m)
    <2>1. m.todo = {} /\ moves' = moves \ {m}
        BY <1>4 DEF Moved
    <2>2. /\ due' \in BOOLEAN /\ (due => due')
          /\ offer' = NoOffer \/ (offer'.ids \subseteq Conversations /\ offer'.to \in Views)
        <3>1. CASE m.kind = "undo"
            BY <1>4, <3>1 DEF Moved, ListInv, ListTyped
        <3>2. CASE m.kind # "undo"
            <4>1. due' = due /\ offer' = Undoing(m)
                BY <1>4, <3>2 DEF Moved
            <4>2. m.kind \in {"trash", "restore", "delete"} /\ m.ids \subseteq Conversations
                BY <1>2, <3>2 DEF MoveShape
            <4>3. Targets[m.kind] \in Views
                BY <4>2 DEF Targets, Views
            <4>4. Undoing(m) = NoOffer \/ Undoing(m) = [ids |-> m.ids, to |-> Targets[m.kind]]
                BY DEF Undoing
            <4>5. offer' = NoOffer \/ (offer'.ids = m.ids /\ offer'.to = Targets[m.kind])
                BY <4>1, <4>4
            <4>6. due' \in BOOLEAN
                BY <4>1 DEF ListInv, ListTyped
            <4> QED BY <4>1, <4>2, <4>3, <4>5, <4>6
        <3> QED BY <3>1, <3>2
    <2>3. Taken' = Taken
        BY <1>1, <2>1 DEF Taken
    <2>4. RowsRight'
        BY <1>1, <1>3, <2>2, <2>3 DEF ListInv, RowsRight
    <2>5. \A o \in moves' : MoveShape(o)
        BY <2>1 DEF ListInv, ListTyped
    <2> QED BY <1>1, <1>3, <2>2, <2>4, <2>5, MovesInv
<1>5. CASE MoveFails(m)
    <2>1. /\ due' = AfterFailure(m) /\ offer' = offer
          /\ \E t \in m.todo : moves' = (moves \ {m}) \cup
                 (IF m.kind = "undo" /\ Cardinality(m.ids) > 1 THEN {[m EXCEPT !.todo = @ \ {t}]} ELSE {})
        BY <1>5 DEF MoveFails
    <2>2. PICK n : /\ MoveShape(n) /\ n.kind = m.kind
                   /\ moves' = moves \ {m} \/ (m.kind = "undo" /\ moves' = (moves \ {m}) \cup {n})
        <3>1. PICK t, n : /\ n = [m EXCEPT !.todo = @ \ {t}]
                          /\ moves' = moves \ {m} \/ (m.kind = "undo" /\ moves' = (moves \ {m}) \cup {n})
            BY <2>1
        <3>2. n.number = m.number /\ n.kind = m.kind /\ n.to = m.to
            BY <1>2, <3>1 DEF MoveShape
        <3>3. n \in [number : {m.number}, kind : {"trash", "restore", "delete", "undo"}, to : Views \cup {"gone"},
                     ids : SUBSET Conversations, todo : SUBSET Conversations]
            BY <1>2, <3>1 DEF MoveShape
        <3>4. MoveShape(n)
            BY <1>2, <3>2, <3>3 DEF MoveShape
        <3> QED BY <3>1, <3>2, <3>4
    <2>3. due' \in BOOLEAN /\ (due => due') /\ (m.kind # "undo" => due')
        BY <2>1 DEF AfterFailure
    <2>4. RowsRight'
        <3>1. m.kind = "undo" => Taken' = Taken
            BY <1>1, <2>2 DEF Taken
        <3> QED BY <1>1, <1>3, <2>3, <3>1 DEF ListInv, RowsRight
    <2>5. /\ \A o \in moves' : MoveShape(o)
          /\ offer' = NoOffer \/ (offer'.ids \subseteq Conversations /\ offer'.to \in Views)
        BY <2>1, <2>2 DEF ListInv, ListTyped
    <2> QED BY <1>1, <1>3, <2>3, <2>4, <2>5, MovesInv
<1> QED BY <1>4, <1>5

\* New mail is above every page that is asked for.
LEMMA ReceiveInv ==
    ASSUME ListInv, NEW t \in Conversations, NEW lost \in BOOLEAN, Receive(t, lost) PROVE ListInv'
<1>1. /\ home[t] = "coming" /\ home' = [home EXCEPT ![t] = "inbox"]
      /\ UNCHANGED <<place, rows, cursor, flags, moves, offer>>
    BY DEF Receive
<1>2. t + 1 = Top /\ \A x \in Conversations : home'[x] = IF x = t THEN "inbox" ELSE home[x]
    BY <1>1 DEF ListInv, ListTyped
<1>3. \A p \in Views : \A a, b : p = "trash" \/ b \in Conversations => Located(p, a, b)' = Located(p, a, b)
    <2> SUFFICES ASSUME NEW p \in Views, NEW a, NEW b, p = "trash" \/ b \in Conversations, NEW x \in Conversations
        PROVE home'[x] = p /\ x < b <=> home[x] = p /\ x < b
        BY DEF Located
    <2>1. x = t /\ b \in Conversations => ~(x < b)
        BY <1>2, Numbers
    <2> QED BY <1>1, <1>2, <2>1 DEF Views
<1>4. home' \in [Conversations -> Views \cup {"coming", "gone"}]
    BY <1>1 DEF ListInv, ListTyped, Views
<1>5. CASE lost
    <2>1. /\ due' = due /\ excuses' = IF place = "inbox" THEN excuses \cup {"lost"} ELSE excuses
          /\ loads' = {IF l.stage = "answered" /\ l.place = "inbox"
                       THEN [l EXCEPT !.missed = @ \cup {"lost"}] ELSE l : l \in loads}
        BY <1>5 DEF Receive
    <2> DEFINE Passed(l) == IF l.stage = "answered" /\ l.place = "inbox"
                            THEN [l EXCEPT !.missed = @ \cup {"lost"}] ELSE l
    <2>2. ASSUME NEW l \in loads, NEW k, k = Passed(l)
          PROVE /\ LoadShape(k) /\ k.owner = l.owner /\ k.kind = l.kind /\ k.place = l.place
                /\ k.cursor = l.cursor /\ k.stage = l.stage /\ k.answer = l.answer
                /\ k.missed = {} => k = l /\ (l.stage = "answered" => l.place = "trash")
        <3>1. LoadShape(l) /\ l.place \in Views
            BY DEF ListInv, ListTyped, LoadShape
        <3>2. CASE k = l /\ (l.stage = "answered" => l.place # "inbox")
            BY <3>1, <3>2 DEF Views
        <3>3. CASE k = [l EXCEPT !.missed = @ \cup {"lost"}]
            <4>1. /\ k.owner = l.owner /\ k.kind = l.kind /\ k.place = l.place /\ k.slot = l.slot /\ k.left = l.left
                  /\ k.cursor = l.cursor /\ k.stage = l.stage /\ k.answer = l.answer /\ "lost" \in k.missed
                BY <3>1, <3>3 DEF LoadShape
            <4>2. LoadShape(k)
                BY <3>1, <3>3, <4>1 DEF LoadShape
            <4> QED BY <4>1, <4>2
        <3> QED BY <2>2, <3>2, <3>3
    <2>3. /\ \A l \in loads : \E k \in loads' : k = Passed(l)
          /\ \A k \in loads' : \E l \in loads : k = Passed(l)
        BY <2>1
    <2> HIDE DEF Passed
    <2>4. ListTyped'
        <3>1. \A k \in loads' : LoadShape(k)
            BY <2>2, <2>3
        <3> QED BY <1>1, <1>2, <1>4, <2>1, <3>1 DEF ListInv, ListTyped
    <2>5. SpinnersOwned'
        <3>1. \A l \in loads : \E k \in loads' : k.owner = l.owner
            BY <2>2, <2>3
        <3> QED BY <1>1, <2>1, <3>1 DEF ListInv, SpinnersOwned
    <2>6. ASSUME NEW k \in loads' PROVE AnswerRight(k)'
        <3>1. PICK l \in loads : k = Passed(l)
            BY <2>3
        <3>2. /\ k.kind = l.kind /\ k.place = l.place /\ k.cursor = l.cursor /\ k.stage = l.stage
              /\ k.answer = l.answer /\ l.place \in Views
              /\ k.missed = {} => k = l /\ (l.stage = "answered" => l.place = "trash")
            BY <2>2, <3>1 DEF ListInv, ListTyped, LoadShape
        <3>3. AnswerRight(l) /\ due' = due /\ place' = place
            BY <1>1, <2>1 DEF ListInv
        <3>4. l.place = "trash" => \A a, b : Located(l.place, a, b)' = Located(l.place, a, b)
            BY <1>3, <3>2
        <3> QED BY <3>2, <3>3, <3>4 DEF AnswerRight, OnItsWay
    <2>7. RowsRight'
        <3> SUFFICES ASSUME place = "trash" PROVE RowsRight'
            BY <1>1, <2>1 DEF RowsRight, ListInv, ListTyped, Views
        <3>1. ListOnItsWay => ListOnItsWay'
            <4>1. \A l \in loads : \E k \in loads' : k.kind = l.kind /\ k.stage = l.stage
                BY <2>2, <2>3
            <4> QED BY <4>1 DEF ListOnItsWay, OnItsWay
        <3>2. Located(place, cursor, Top)' = Located(place, cursor, Top)
            <4>1. \A a, b : Located("trash", a, b)' = Located("trash", a, b)
                BY <1>3 DEF Views
            <4>2. PICK c : c = cursor
                OBVIOUS
            <4>3. Located("trash", c, Top)' = Located("trash", c, Top)
                BY <4>1
            <4> QED BY <1>1, <4>2, <4>3 DEF Located
        <3>3. Taken' = Taken
            BY <1>1 DEF Taken
        <3> QED BY <1>1, <2>1, <3>1, <3>2, <3>3 DEF ListInv, RowsRight
    <2> QED BY <2>4, <2>5, <2>6, <2>7 DEF ListInv
<1>6. CASE ~lost
    <2>1. due' = TRUE /\ UNCHANGED <<excuses, loads>>
        BY <1>6 DEF Receive
    <2>2. ListTyped' /\ SpinnersOwned' /\ RowsRight'
        BY <1>1, <1>2, <1>4, <2>1 DEF ListInv, ListTyped, SpinnersOwned, RowsRight
    <2>3. ASSUME NEW k \in loads' PROVE AnswerRight(k)'
        <3>1. LoadShape(k) /\ AnswerRight(k)
            BY <2>1 DEF ListInv, ListTyped
        <3>2. k.kind # "list" => k.cursor \in Conversations /\ k.place \in Views
            BY <3>1 DEF LoadShape
        <3>3. k.kind # "list" => \A a : Located(k.place, a, k.cursor)' = Located(k.place, a, k.cursor)
            BY <1>3, <3>2
        <3> QED BY <2>1, <3>1, <3>3 DEF AnswerRight
    <2> QED BY <2>2, <2>3 DEF ListInv
<1> QED BY <1>5, <1>6

LEMMA ListStep == ListInv /\ [IosNext]_iosVars => ListInv'
<1> SUFFICES ASSUME ListInv, [IosNext]_iosVars PROVE ListInv'
    OBVIOUS
<1>1. CASE Reload
    BY <1>1, ReloadInv
<1>2. CASE Scroll \/ PickCategory
    BY <1>2, ScrollInv
<1>3. CASE Refresh
    BY <1>3, RefreshInv
<1>4. CASE Undo
    BY <1>4, UndoInv
<1>5. ASSUME NEW l \in loads, Answer(l) \/ Land(l) \/ RowLeaves(l) PROVE ListInv'
    BY <1>5, AnswerInv, LandInv, LoadEndsInv
<1>6. ASSUME NEW l \in loads, NEW again \in BOOLEAN, Labelled(l, again) \/ LoadFails(l, again) PROVE ListInv'
    BY <1>6, LoadEndsInv
<1>7. ASSUME NEW p \in Views, Select(p) PROVE ListInv'
    BY <1>7, SelectInv
<1>8. ASSUME NEW kind \in DOMAIN Targets, NEW ids, Act(kind, ids) PROVE ListInv'
    BY <1>8, ActInv DEF Targets
<1>9. ASSUME NEW m \in moves, MoveOne(m) \/ Moved(m) \/ MoveFails(m) PROVE ListInv'
    BY <1>9, MoveOneInv, MoveEndsInv
<1>10. ASSUME NEW t \in Conversations, NEW lost \in BOOLEAN, Receive(t, lost) PROVE ListInv'
    BY <1>10, ReceiveInv
<1>11. CASE UNCHANGED iosVars
    <2>1. UNCHANGED <<home, place, rows, cursor, moves, due>> /\ UNCHANGED <<flags, offer, loads, excuses>>
        BY <1>11 DEF iosVars
    <2>2. FlagShape(flags') /\ SpinnersOwned' /\ \A k \in loads' : LoadShape(k) /\ Same(k, k)
        BY <2>1, SameIsSame DEF ListInv, ListTyped, SpinnersOwned
    <2> QED BY <2>1, <2>2, KeptInv
<1> QED BY <1>1, <1>2, <1>3, <1>4, <1>5, <1>6, <1>7, <1>8, <1>9, <1>10, <1>11 DEF IosNext

\* The list of the iOS app, in every behaviour, is right in the sense of ListInv.
THEOREM ListInvariance == IosSpec => []ListInv
<1> QED BY ListInitially, ListStep, PTL DEF IosSpec

\* Once nothing is on its way the list of the iOS app is the server's, from its
\* top down to the cursor, and its spinners are off, but for what is excused.
THEOREM ListSettles == IosSpec => []IosListSettles
<1>1. ListInv => IosListSettles
    <2> SUFFICES ASSUME ListInv, AtEase
        PROVE /\ "collided" \in excuses \/ flags = [list |-> FALSE, more |-> FALSE]
              /\ excuses \subseteq {"collided"} =>
                     Shows(rows, {t \in Conversations : home[t] = place /\ t >= cursor})
        BY DEF IosListSettles
    <2>1. ~due /\ loads = {} /\ moves = {}
        BY DEF AtEase
    <2>2. "collided" \in excuses \/ (~flags.list /\ ~flags.more)
        BY <2>1 DEF ListInv, SpinnersOwned
    <2>3. ~flags.list /\ ~flags.more => flags = [list |-> FALSE, more |-> FALSE]
        BY DEF ListInv, ListTyped, FlagShape
    <2>4. Taken = {} /\ ~ListOnItsWay
        BY <2>1 DEF Taken, ListOnItsWay
    <2>5. Located(place, cursor, Top) = {t \in Conversations : home[t] = place /\ t >= cursor}
        BY Numbers DEF Located
    <2>6. excuses \subseteq {"collided"} =>
              Range(rows) = Located(place, cursor, Top) /\ Shows(rows, Range(rows))
        BY <2>1, <2>4 DEF ListInv, RowsRight
    <2> QED BY <2>2, <2>3, <2>5, <2>6
<1> QED BY <1>1, ListInvariance, PTL
=============================================================================
