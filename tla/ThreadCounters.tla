--------------------------- MODULE ThreadCounters ---------------------------
(***************************************************************************)
(* The counters of one thread row, msgCount and unreadCount, beside the    *)
(* messages they summarise (mail/threads.ts) and everybody who writes      *)
(* either: ingestion and send, the message and thread PATCH, read-all,     *)
(* IMAP, and the delete of a message.  Every action is one D1 statement.   *)
(* A request that spans several statements is a writer with a pc.          *)
(***************************************************************************)
EXTENDS Integers, FiniteSets

CONSTANTS
  Messages, \* messages that may come into the thread
  Writers   \* requests, deliveries and connections at work at the same time

ASSUME MessagesAssumption == IsFiniteSet(Messages)

VARIABLES
  stored,  \* messages of the thread that have a row
  used,    \* history: messages that ever had one
  inbound, \* rows with direction "in"
  seen,    \* rows with Flag.SEEN
  trashed, \* rows with Flag.TRASH
  count,   \* thread.msgCount
  unread,  \* thread.unreadCount
  pc,      \* the next statement of each writer
  kind,    \* what each writer does, see Kinds
  target,  \* the message a writer works on, as a set
  held,    \* what a writer read and will write
  exact,   \* history: nothing that could make the badge wrong since it was right
  safe,    \* history: nothing that could hide unread mail
  counted  \* history: nothing that could make msgCount wrong

rows == <<stored, used, inbound, seen, trashed>>
thread == <<count, unread>>
writer == <<pc, kind, target, held>>
history == <<exact, safe, counted>>
vars == <<rows, thread, writer, history>>

Nothing == [count |-> 0, unread |-> 0, seen |-> FALSE, trash |-> FALSE]

(***************************************************************************)
(* What writers do:                                                        *)
(*   arrival   unseen inbound mail                                         *)
(*   buried    unseen inbound mail that IMAP appends to Trash              *)
(*   addition  mail stored as seen, or as sent                             *)
(*   sent      mail being sent                                             *)
(*   delete    of one message                                              *)
(*   rewrite   PATCH of a message's seen or trash, or of a thread's read   *)
(*   star      PATCH of a message's starred alone                          *)
(*   atomic    flag changes whose recount is a single statement            *)
(***************************************************************************)
Kinds == {"arrival", "buried", "addition", "sent", "delete", "rewrite", "star", "atomic"}
Recounting == {"delete", "rewrite", "atomic"}
Membership == {"arrival", "buried", "addition", "sent", "delete"}

\* What recomputeThreadUnread and the recount expressions count.
Unseen == (stored \intersect inbound) \ (seen \union trashed)

TypeOK ==
  /\ stored \subseteq used /\ used \subseteq Messages
  /\ inbound \subseteq stored /\ seen \subseteq stored /\ trashed \subseteq stored
  /\ count \in Nat /\ unread \in Nat
  /\ pc \in [Writers -> {"idle", "bumpRead", "bumpWrite", "patch", "countAll", "writeAll",
                         "countUnseen", "writeUnseen", "recount", "recountUnread"}]
  /\ kind \in [Writers -> Kinds \union {"none"}]
  /\ target \in [Writers -> SUBSET Messages]
  /\ held \in [Writers -> [count : Nat, unread : Nat, seen : BOOLEAN, trash : BOOLEAN]]
  /\ exact \in BOOLEAN /\ safe \in BOOLEAN /\ counted \in BOOLEAN

\* resolveThreadId creates the row with both counters at 0.
Init ==
  /\ stored = {} /\ used = {} /\ inbound = {} /\ seen = {} /\ trashed = {}
  /\ count = 0 /\ unread = 0
  /\ pc = [w \in Writers |-> "idle"]
  /\ kind = [w \in Writers |-> "none"]
  /\ target = [w \in Writers |-> {}]
  /\ held = [w \in Writers |-> Nothing]
  /\ exact = TRUE /\ safe = TRUE /\ counted = TRUE

----------------------------------------------------------------------------
(***************************************************************************)
(* Bookkeeping of a writer.                                                *)
(***************************************************************************)
Active == {w \in Writers : pc[w] # "idle"}
KindsAtWork == {kind[w] : w \in Active}

\* History only: a recount that starts alone makes the counters right again, and
\* some kinds of writers do not disturb each other.
Remember(k) ==
  /\ exact' = (k # "buried" /\ IF Active = {} THEN exact \/ k \in Recounting
                               ELSE exact /\ KindsAtWork \union {k} \subseteq {"atomic"})
  /\ safe' = (IF Active = {} THEN safe \/ k \in Recounting
              ELSE safe /\ KindsAtWork \union {k} \subseteq {"atomic", "arrival", "buried"})
  /\ counted' = (IF k \in Membership
                 THEN KindsAtWork \intersect Membership = {} /\ (counted \/ k = "delete")
                 ELSE counted)

Begin(w, k, S, h, next) ==
  /\ pc[w] = "idle"
  /\ pc' = [pc EXCEPT ![w] = next]
  /\ kind' = [kind EXCEPT ![w] = k]
  /\ target' = [target EXCEPT ![w] = S]
  /\ held' = [held EXCEPT ![w] = h]
  /\ Remember(k)

Step(w, from, to) ==
  /\ pc[w] = from
  /\ pc' = [pc EXCEPT ![w] = to]
  /\ UNCHANGED <<kind, target, history>>

Idle(w) ==
  /\ pc' = [pc EXCEPT ![w] = "idle"]
  /\ kind' = [kind EXCEPT ![w] = "none"]
  /\ target' = [target EXCEPT ![w] = {}]
  /\ held' = [held EXCEPT ![w] = Nothing]

End(w, from) == pc[w] = from /\ Idle(w) /\ UNCHANGED history

\* The invocation dies between two statements: whatever it had to write is lost.
Killed(w) ==
  /\ pc[w] # "idle"
  /\ Idle(w)
  /\ exact' = FALSE /\ safe' = FALSE /\ counted' = FALSE
  /\ UNCHANGED <<rows, thread>>

----------------------------------------------------------------------------
(***************************************************************************)
(* ingestRaw and sendFromMailbox: the row, then bumpThread.                *)
(***************************************************************************)
Insert(m, in, isSeen, isTrashed) ==
  /\ stored' = stored \union {m}
  /\ used' = used \union {m}
  /\ inbound' = IF in THEN inbound \union {m} ELSE inbound
  /\ seen' = IF isSeen THEN seen \union {m} ELSE seen
  /\ trashed' = IF isTrashed THEN trashed \union {m} ELSE trashed
  /\ UNCHANGED thread

\* Only APPEND into Trash stores a message that is trashed already.
Store(w) ==
  \E m \in Messages \ used, in, isSeen, isTrashed \in BOOLEAN :
    /\ Insert(m, in, isSeen, isTrashed)
    /\ Begin(w, IF ~in \/ isSeen THEN "addition" ELSE IF isTrashed THEN "buried" ELSE "arrival",
             {m}, Nothing, "bumpRead")

\* sendFromMailbox stores the Sent row before it delivers and bumps after it.
Send(w) ==
  \E m \in Messages \ used :
    Insert(m, FALSE, TRUE, FALSE) /\ Begin(w, "sent", {m}, Nothing, "bumpRead")

\* cleanupFailedSend; with the thread's only message the thread goes as well.
UndoSend(w) ==
  /\ kind[w] = "sent" /\ ~ stored \subseteq target[w]
  /\ End(w, "bumpRead")
  /\ stored' = stored \ target[w] /\ inbound' = inbound \ target[w]
  /\ seen' = seen \ target[w] /\ trashed' = trashed \ target[w]
  /\ UNCHANGED <<used, thread>>

BumpRead(w) ==
  /\ Step(w, "bumpRead", "bumpWrite")
  /\ held' = [held EXCEPT ![w].count = count, ![w].unread = unread]
  /\ UNCHANGED <<rows, thread>>

\* unreadDelta: ingestRaw looks at the direction and SEEN, not at TRASH.
Delta(w) == IF kind[w] \in {"arrival", "buried"} THEN 1 ELSE 0

BumpWrite(w) ==
  /\ count' = held[w].count + 1
  /\ unread' = held[w].unread + Delta(w)
  /\ End(w, "bumpWrite")
  /\ UNCHANGED rows

----------------------------------------------------------------------------
(***************************************************************************)
(* PATCH of a message, from the row it read; PATCH of a thread; delete.    *)
(***************************************************************************)
ReadRow(w) ==
  /\ \E m \in stored, s, t \in BOOLEAN :
       LET h == [Nothing EXCEPT !.seen = s, !.trash = t] IN
       \/ Begin(w, "rewrite", {m}, h, "patch")
       \/ s = (m \in seen) /\ t = (m \in trashed) /\ Begin(w, "star", {m}, h, "patch")
  /\ UNCHANGED <<rows, thread>>

PatchRow(w) ==
  LET hit == target[w] \intersect stored IN
  /\ IF kind[w] = "star" THEN End(w, "patch") ELSE Step(w, "patch", "countUnseen") /\ UNCHANGED held
  /\ seen' = IF held[w].seen THEN seen \union hit ELSE seen \ hit
  /\ trashed' = IF held[w].trash THEN trashed \union hit ELSE trashed \ hit
  /\ UNCHANGED <<stored, used, inbound, thread>>

PatchThread(w) ==
  /\ Begin(w, "rewrite", {}, Nothing, "countUnseen")
  /\ \/ seen' = seen \union inbound
     \/ seen' = seen \ inbound
  /\ UNCHANGED <<stored, used, inbound, trashed, thread>>

\* The last message takes the thread with it.
Delete(w) ==
  \E m \in stored :
    /\ stored # {m}
    /\ stored' = stored \ {m} /\ inbound' = inbound \ {m}
    /\ seen' = seen \ {m} /\ trashed' = trashed \ {m}
    /\ Begin(w, "delete", {m}, Nothing, "countAll")
    /\ UNCHANGED <<used, thread>>

CountAll(w) ==
  /\ Step(w, "countAll", "writeAll")
  /\ held' = [held EXCEPT ![w].count = Cardinality(stored)]
  /\ UNCHANGED <<rows, thread>>

WriteAll(w) ==
  /\ Step(w, "writeAll", "countUnseen")
  /\ count' = held[w].count
  /\ UNCHANGED <<rows, unread, held>>

\* Mutant of CountUnseen: trashed messages keep the badge lit.
CountUnread(w) ==
  /\ Step(w, "countUnseen", "writeUnseen")
  /\ held' = [held EXCEPT ![w].unread = Cardinality((stored \intersect inbound) \ seen)]
  /\ UNCHANGED <<rows, thread>>

CountUnseen(w) ==
  /\ Step(w, "countUnseen", "writeUnseen")
  /\ held' = [held EXCEPT ![w].unread = Cardinality(Unseen)]
  /\ UNCHANGED <<rows, thread>>

WriteUnseen(w) ==
  /\ End(w, "writeUnseen")
  /\ unread' = held[w].unread
  /\ UNCHANGED <<rows, count>>

----------------------------------------------------------------------------
(***************************************************************************)
(* IMAP's flag changes and read-all: a flag statement, an atomic recount.  *)
(***************************************************************************)
\* storeFlags, and the per-message marks of trash and restore.
StoreFlags(w) ==
  /\ Begin(w, "atomic", {}, Nothing, "recount")
  /\ \E S \in SUBSET stored \ {{}} :
       \/ seen' \in {seen \union S, seen \ S} /\ UNCHANGED trashed
       \/ trashed' \in {trashed \union S, trashed \ S} /\ UNCHANGED seen
  /\ UNCHANGED <<stored, used, inbound, thread>>

Recount(w) ==
  /\ End(w, "recount")
  /\ unread' = Cardinality(Unseen)
  /\ UNCHANGED <<rows, count>>

\* Both statements of read-all are for threads whose badge is lit.
ReadAll(w) ==
  /\ unread > 0
  /\ Begin(w, "atomic", {}, Nothing, "recountUnread")
  /\ seen' = seen \union inbound
  /\ UNCHANGED <<stored, used, inbound, trashed, thread>>

\* Mutant of RecountUnread: what was marked read is written as read.
ClearUnread(w) ==
  /\ End(w, "recountUnread")
  /\ unread' = 0
  /\ UNCHANGED <<rows, count>>

RecountUnread(w) ==
  /\ End(w, "recountUnread")
  /\ unread' = IF unread > 0 THEN Cardinality(Unseen) ELSE unread
  /\ UNCHANGED <<rows, count>>

\* A move to Spam clears the marks of trashed messages and recounts nothing.
MoveToSpam ==
  /\ \E S \in SUBSET stored \ {{}} : trashed' = trashed \ S
  /\ UNCHANGED <<stored, used, inbound, seen, thread, writer, counted>>
  /\ exact' = (exact /\ Unseen' = Unseen)
  /\ safe' = (safe /\ Unseen' = Unseen)

----------------------------------------------------------------------------
WriterStep(w) ==
  \/ Store(w) \/ Send(w) \/ UndoSend(w) \/ BumpRead(w) \/ BumpWrite(w)
  \/ ReadRow(w) \/ PatchRow(w) \/ PatchThread(w)
  \/ Delete(w) \/ CountAll(w) \/ WriteAll(w) \/ CountUnseen(w) \/ WriteUnseen(w)
  \/ StoreFlags(w) \/ Recount(w) \/ ReadAll(w) \/ RecountUnread(w)
  \/ Killed(w)

Next == MoveToSpam \/ \E w \in Writers : WriterStep(w)

Spec == Init /\ [][Next]_vars

----------------------------------------------------------------------------
(***************************************************************************)
(* Properties.                                                             *)
(***************************************************************************)
Quiet == Active = {}

\* With nobody at work the badge is the number of unseen, untrashed inbound
\* messages: as long as no writer that reads before it writes was overlapped, and
\* again after any recount that ran alone, whatever went wrong before.
BadgeExact == Quiet /\ exact => unread = Cardinality(Unseen)

\* Arrivals, IMAP flag changes and read-all may overlap in any order and number:
\* the badge may be off, but unread mail never looks read ("so a message landing
\* between the two writes isn't clobbered to zero", api/threads.ts).
ArrivalsStayUnread == Quiet /\ safe => (Unseen # {} => unread > 0)

\* msgCount is the number of messages, whatever flags change meanwhile, as long
\* as additions and deletes do not overlap, and again after a delete that ran
\* without another of them beside it.
CountExact == Quiet /\ counted => count = Cardinality(stored)

\* Both cached counters, each as long as its own kind of overlap was absent.
CountersExact == BadgeExact /\ CountExact
============================================================================
