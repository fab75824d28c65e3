--------------------------- MODULE ServicePolling ---------------------------
(***************************************************************************)
(* Polling a service mailbox: GET /api/svc/messages with its cursor        *)
(* (apps/worker/src/api/svc.ts), against arriving and deleted messages.    *)
(*                                                                         *)
(* created_at has the resolution of a second, and ids are random: within a *)
(* second messages are ordered by an id that says nothing of their arrival.*)
(***************************************************************************)
EXTENDS Naturals, FiniteSets, FiniteSetsExt

CONSTANTS
    Ids,        \* message ids, a set of numbers (compared as the text ids are)
    PageSize,   \* PAGE_SIZE
    LastSecond  \* bound: the clock stops here

ASSUME PollingAssumption ==
    Ids \subseteq Nat \ {0} /\ PageSize \in Nat \ {0} /\ LastSecond \in Nat

VARIABLES
    second,   \* the clock
    rows,     \* id -> created_at
    used,     \* ids drawn
    cursor,   \* the id the client polls after, 0 for none
    seen,     \* what the client was given
    excused   \* history: messages a client may miss, see NoGaps

pollVars == <<second, rows, used, cursor, seen, excused>>

PollingInit ==
    /\ second = 0 /\ rows = <<>> /\ used = {} /\ cursor = 0 /\ seen = {} /\ excused = {}

Clock == second < LastSecond /\ second' = second + 1
         /\ UNCHANGED <<rows, used, cursor, seen, excused>>

\* Before on (created_at, id).
Precedes(f, i, j) == f[i] < f[j] \/ (f[i] = f[j] /\ i < j)

\* Ingestion draws an id and inserts the row.  One that lands before the
\* cursor in the cursor's own second is a gap the order cannot avoid.
Arrive(i) ==
    /\ i \notin used
    /\ rows' = [j \in DOMAIN rows \cup {i} |-> IF j = i THEN second ELSE rows[j]]
    /\ used' = used \cup {i}
    /\ excused' = IF cursor \in DOMAIN rows /\ Precedes(rows', i, cursor)
                  THEN excused \cup {i} ELSE excused
    /\ UNCHANGED <<second, cursor, seen>>

Delete(i) ==
    /\ i \in DOMAIN rows
    /\ rows' = [j \in DOMAIN rows \ {i} |-> rows[j]]
    /\ UNCHANGED <<second, used, cursor, seen, excused>>

\* Mutant of After: strictly later seconds only.
AfterSecond(c) == {i \in DOMAIN rows : rows[i] > rows[c]}
After(c) == {i \in DOMAIN rows : Precedes(rows, c, i)}

\* The PageSize first of a set in an order, as many as there are.
FirstOf(S, Before(_, _)) ==
    {i \in S : Cardinality({j \in S : Before(j, i)}) < PageSize}

Oldest(S) == FirstOf(S, LAMBDA i, j : Precedes(rows, i, j))
Newest(S) == FirstOf(S, LAMBDA i, j : Precedes(rows, j, i))

\* The reduction keeps the first row of the latest second: in the order of
\* the page, the smallest id when draining and the largest otherwise.
Latest(page) == {i \in page : \A j \in page : rows[j] <= rows[i]}

\* Without a cursor the newest page, and what is older is not the client's.
PollFresh ==
    /\ cursor = 0
    /\ LET page == Newest(DOMAIN rows) IN
         /\ seen' = seen \cup page
         /\ excused' = excused \cup (DOMAIN rows \ page)
         /\ cursor' = IF page = {} THEN 0 ELSE Max(Latest(page))
    /\ UNCHANGED <<second, rows, used>>

NextCursor(page) == Min(Latest(page))

PollAfter ==
    /\ cursor \in DOMAIN rows
    /\ LET page == Oldest(After(cursor)) IN
         /\ seen' = seen \cup page
         /\ cursor' = IF page = {} THEN cursor ELSE NextCursor(page)
    /\ UNCHANGED <<second, rows, used, excused>>

\* The cursor's message was deleted: 400, and the client starts over.
PollUnknown ==
    /\ cursor # 0 /\ cursor \notin DOMAIN rows
    /\ cursor' = 0
    /\ UNCHANGED <<second, rows, used, seen, excused>>

PollingNext ==
    \/ Clock \/ PollFresh \/ PollAfter \/ PollUnknown
    \/ \E i \in Ids : Arrive(i) \/ Delete(i)

PollingSpec == PollingInit /\ [][PollingNext]_pollVars

-----------------------------------------------------------------------------
\* "A client can drain without gaps" (svc.ts:79-81): whatever the cursor has
\* passed was delivered.  Not so for what was older than the page a client
\* started from, or started over from when the cursor's message was deleted,
\* and for a message that arrives in the second of the cursor with a smaller
\* id: it is stored behind the cursor and no poll returns it.
NoGaps ==
    cursor \in DOMAIN rows =>
        \A i \in DOMAIN rows : Precedes(rows, i, cursor) => i \in seen \cup excused
=============================================================================
