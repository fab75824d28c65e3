---------------------------- MODULE RealtimeView -----------------------------
(***************************************************************************)
(* One tab of the web client: the cached thread lists and badge of one     *)
(* mailbox, the event stream that nudges them, the mutations that change   *)
(* them ahead of the server, and the refetches that settle them            *)
(* (apps/web/src/lib/sse.ts, lib/invalidate.ts, lib/thread-mutations.ts;   *)
(* apps/worker/src/hub.ts, api/threads.ts).                                *)
(*                                                                         *)
(* A list is the set of threads it shows with their unread counts, the     *)
(* badge is their sum.  The query cache (TanStack Query) is external: an   *)
(* invalidated query is refetched at once while it is mounted, else when   *)
(* it next is; whatever is written into a query makes it count as fresh;   *)
(* a fetch that was begun is not stopped by unmounting.                    *)
(***************************************************************************)
EXTENDS Naturals, Sequences, FiniteSetsExt, TLC

CONSTANTS
    Threads,
    Lists,       \* the list of the mailbox itself and the combined one
    Own, All,    \* which is which
    MaxMoves,    \* bound: arrivals, mutations and changes of the list on screen
    MaxLost      \* bound: requests that fail, and streams that break

ASSUME ViewAssumption ==
    /\ Lists = {Own, All} /\ Own # All
    /\ "badge" \notin Lists
    /\ MaxMoves \in Nat /\ MaxLost \in Nat

VARIABLES
    server,  \* thread -> [unread, trashed]
    cache,   \* query -> its data
    invalid, \* queries marked invalidated
    fetches, \* query -> the fetch in flight: [at, data: the answer on its way]
    mounted, \* the list on screen
    events,  \* the stream, oldest first
    pending, \* the coalescer's timer runs
    acts,    \* mutations in flight
    missed,  \* history: what a missing refresh is excused by
    spent    \* [moves, lost] so far

viewVars == <<server, cache, invalid, fetches, mounted, events, pending, acts, missed, spent>>

Queries == Lists \cup {"badge"}

Shown(s) == [t \in {u \in Threads : ~s[u].trashed} |-> s[t].unread]
Sum(list) == MapThenSumSet(LAMBDA t : list[t], DOMAIN list)
Truth(q) == IF q = "badge" THEN Sum(Shown(server)) ELSE Shown(server)

Move == spent.moves < MaxMoves /\ spent' = [spent EXCEPT !.moves = @ + 1]
Lose == spent.lost < MaxLost /\ spent' = [spent EXCEPT !.lost = @ + 1]

ViewInit ==
    /\ server \in [Threads -> [unread : {0}, trashed : BOOLEAN]]
    /\ cache = [q \in Queries |-> Truth(q)]
    /\ fetches = [q \in Queries |-> [at |-> "none", data |-> Truth(q)]]
    /\ invalid = {} /\ mounted \in Lists
    /\ events = <<>> /\ pending = FALSE /\ acts = {} /\ missed = {}
    /\ spent \in [moves : 0..MaxMoves, lost : {0}]

(***************************************************************************)
(* The query cache (external).                                             *)
(***************************************************************************)
Active(q) == q \in {mounted, "badge"}

Busy(q) == fetches[q].at # "none"

At(q, station) == [at |-> station, data |-> fetches[q].data]
Begun(q) == At(q, "asked")

\* invalidateQueries: what is mounted is fetched anew, the rest is marked.
Invalidated(qs) ==
    /\ invalid' = invalid \cup qs
    /\ fetches' = [q \in Queries |-> IF q \in qs /\ Active(q) THEN Begun(q) ELSE fetches[q]]

\* A fetch of a query that is not mounted goes on over its invalidation.
Outrun(qs) == IF \E q \in qs : ~Active(q) /\ Busy(q) THEN {"outrun"} ELSE {}

FetchRead(q) ==
    /\ fetches[q].at = "asked"
    /\ fetches' = [fetches EXCEPT ![q] = [at |-> "answered", data |-> Truth(q)]]
    /\ UNCHANGED <<server, cache, invalid, mounted, events, pending, acts, missed, spent>>

FetchArrives(q) ==
    /\ fetches[q].at = "answered"
    /\ cache' = [cache EXCEPT ![q] = fetches[q].data]
    /\ invalid' = invalid \ {q}
    /\ fetches' = [fetches EXCEPT ![q] = At(q, "none")]
    /\ UNCHANGED <<server, mounted, events, pending, acts, missed, spent>>

FetchFails(q) ==
    /\ fetches[q].at = "asked" /\ Lose
    /\ fetches' = [fetches EXCEPT ![q] = At(q, "none")]
    /\ UNCHANGED <<server, cache, invalid, mounted, events, pending, acts, missed>>

\* Going to the other list fetches it when it is marked, or older than the
\* thirty seconds it counts as fresh.
Visit(q, aged) ==
    /\ q # mounted /\ Move
    /\ mounted' = q
    /\ fetches' = IF (aged \/ q \in invalid) /\ ~Busy(q) THEN [fetches EXCEPT ![q] = Begun(q)] ELSE fetches
    /\ UNCHANGED <<server, cache, invalid, events, pending, acts, missed>>

(***************************************************************************)
(* Other devices and the hub.                                              *)
(***************************************************************************)
Event(kind, t) == [kind |-> kind, thread |-> t]

\* The hub hands an event to the streams that are open, this tab's included.
Broadcast(kind, t) == events' = Append(events, Event(kind, t))

Arrive(t) ==
    /\ Move /\ ~server[t].trashed
    /\ server' = [server EXCEPT ![t].unread = @ + 1]
    /\ Broadcast("new_message", t)
    /\ UNCHANGED <<cache, invalid, fetches, mounted, pending, acts, missed>>

\* The stream breaks: what was published until it is open again is lost, and
\* nothing is refetched then.
Break ==
    /\ events # <<>> /\ Lose
    /\ events' = <<>>
    /\ missed' = missed \cup {"stream"}
    /\ UNCHANGED <<server, cache, invalid, fetches, mounted, pending, acts>>

(***************************************************************************)
(* Events (sse.ts onEvent).                                                *)
(***************************************************************************)
Patched(list, t, n) == IF t \in DOMAIN list THEN [list EXCEPT ![t] = n] ELSE list

OnEvent ==
    /\ events # <<>> /\ events' = Tail(events)
    /\ LET e == Head(events)
           own == cache[Own]
       IN IF e.kind = "new_message"
          THEN /\ cache' = [cache EXCEPT !["badge"] = @ + 1,
                              ![Own] = IF e.thread \in DOMAIN own
                                       THEN Patched(own, e.thread, own[e.thread] + 1) ELSE own]
               /\ invalid' = invalid \ {Own, "badge"}
          ELSE /\ cache' = [cache EXCEPT ![Own] = Patched(own, e.thread, 0)]
               /\ invalid' = invalid \ {Own}
    /\ pending' = TRUE
    /\ UNCHANGED <<server, fetches, mounted, acts, missed, spent>>

\* A change of a mailbox also shows in the combined list.
Roots(root) == {root, All}

\* The window of the coalescer ends.
Coalesced ==
    /\ pending /\ pending' = FALSE
    /\ Invalidated(Roots(Own) \cup {"badge"})
    /\ missed' = missed \cup Outrun(Roots(Own) \cup {"badge"})
    /\ UNCHANGED <<server, cache, mounted, events, acts, spent>>

(***************************************************************************)
(* Mutations of the list on screen (useThreadListMutation): one request    *)
(* per selected thread.                                                    *)
(***************************************************************************)
Ahead(kind, list, ids) ==
    IF kind = "trash" THEN [t \in DOMAIN list \ ids |-> list[t]]
    ELSE [t \in DOMAIN list |-> IF t \in ids THEN 0 ELSE list[t]]

\* Fetches of the list are cancelled, it is remembered, and changed at once.
Mutate(kind, ids) ==
    /\ Move /\ ids # {} /\ ids \subseteq DOMAIN cache[mounted]
    /\ fetches' = [fetches EXCEPT ![mounted] = At(mounted, "none")]
    /\ cache' = [cache EXCEPT ![mounted] = Ahead(kind, @, ids)]
    /\ invalid' = invalid \ {mounted}
    /\ acts' = acts \cup {[number |-> spent.moves, kind |-> kind, root |-> mounted, todo |-> ids,
                           before |-> cache[mounted], settled |-> FALSE]}
    /\ UNCHANGED <<server, mounted, events, pending, missed>>

\* One request less to wait for.
Without(a, t, settled) ==
    [number |-> a.number, kind |-> a.kind, root |-> a.root, todo |-> a.todo \ {t},
     before |-> a.before, settled |-> settled]

\* PATCH /threads/:id.  Reading is broadcast, moving to the trash is not.
Apply(a, t) ==
    /\ t \in a.todo
    /\ acts' = (acts \ {a}) \cup {Without(a, t, a.settled)}
    /\ IF a.kind = "trash"
       THEN server' = [server EXCEPT ![t].trashed = TRUE] /\ UNCHANGED events
       ELSE server' = [server EXCEPT ![t].unread = 0] /\ Broadcast("thread_read", t)
    /\ UNCHANGED <<cache, invalid, fetches, mounted, pending, missed, spent>>

\* Mutant of Settling: success is taken as settled.
SettlingFailures(a) == IF a.todo = {} THEN {} ELSE Roots(a.root) \cup {"badge"}

\* What a mutation invalidates when it settles, either way.
Settling(a) == Roots(a.root) \cup {"badge"}

\* The combined list is not the mailbox's: its changes leave that one as it is.
Aside(a) == IF a.root = All /\ a.kind = "trash" THEN {"aside"} ELSE {}

Succeed(a) ==
    /\ a.todo = {} /\ ~a.settled
    /\ acts' = acts \ {a}
    /\ Invalidated(Settling(a))
    /\ missed' = missed \cup Outrun(Settling(a)) \cup Aside(a)
    /\ UNCHANGED <<server, cache, mounted, events, pending, spent>>

\* The first request to fail settles all of them: the list is put back as it
\* was, while those still out may be handled.
Reject(a) ==
    /\ a.todo # {} /\ ~a.settled /\ Lose
    /\ \E t \in a.todo :
          /\ acts' = (acts \ {a}) \cup {Without(a, t, TRUE)}
          /\ missed' = missed \cup Outrun(Settling(a)) \cup Aside(a)
                              \cup (IF a.todo = {t} THEN {} ELSE {"early"})
    /\ cache' = [cache EXCEPT ![a.root] = a.before]
    /\ Invalidated(Settling(a))
    /\ UNCHANGED <<server, mounted, events, pending>>

Over(a) ==
    /\ a.settled /\ a.todo = {}
    /\ acts' = acts \ {a}
    /\ UNCHANGED <<server, cache, invalid, fetches, mounted, events, pending, missed, spent>>

ViewNext ==
    \/ \E q \in Queries : FetchRead(q) \/ FetchArrives(q) \/ FetchFails(q)
    \/ \E q \in Lists, aged \in BOOLEAN : Visit(q, aged)
    \/ \E t \in Threads : Arrive(t)
    \/ Break \/ OnEvent \/ Coalesced
    \/ \E kind \in {"trash", "read"}, ids \in SUBSET Threads : Mutate(kind, ids)
    \/ \E a \in acts : Succeed(a) \/ Reject(a) \/ Over(a) \/ \E t \in Threads : Apply(a, t)

ViewSpec == ViewInit /\ [][ViewNext]_viewVars

(***************************************************************************)
(* What the cache promises once nothing is on its way.                     *)
(***************************************************************************)
Quiet ==
    /\ events = <<>> /\ ~pending /\ acts = {}
    /\ \A q \in Queries : ~Busy(q)

Lost(set) == missed \cap set # {}

\* Whatever order events, optimistic changes, their failures and refetches came
\* in, a query that counts as up to date ends with what the server has: the
\* lists as much as the badge.  Excused are events lost with the stream,
\* requests still out when another of the same action failed, a
\* refetch outrun by an invalidation after the user left its list, and the
\* mailbox's list after a change made in the combined one.
CacheSettles ==
    Quiet /\ ~Lost({"stream", "early", "outrun"})
        => \A q \in Queries \ (invalid \cup (IF Lost({"aside"}) THEN {Own} ELSE {})) :
              cache[q] = Truth(q)
=============================================================================
