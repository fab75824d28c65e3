--------------------------- MODULE ImapUidSpace ---------------------------
(***************************************************************************)
(* The UID space of one IMAP folder, as ImapStore.loadView keeps it in the *)
(* D1 tables imap_folder (uid_next) and imap_uid (folder, uid, message).   *)
(* Every IMAP session of the user runs loadView on its own, one D1         *)
(* statement at a time, while deliveries, moves and deletions change the   *)
(* folder's contents.  D1 has no multi-statement transaction here: each    *)
(* action below is one statement.                                          *)
(***************************************************************************)
EXTENDS Naturals, FiniteSets

CONSTANTS
  Messages,   \* message rows, numbered in loadView's sort order (date, createdAt, id)
  Sessions,   \* IMAP connections of one user with this folder open
  Chunk,      \* rows per INSERT statement (30 in the code)
  MaxChanges  \* bound on the changes other actors make to the folder

ASSUME MessagesAssumption == Messages \subseteq Nat /\ IsFiniteSet(Messages)
ASSUME ChunkAssumption == Chunk \in Nat \ {0}
ASSUME MaxChangesAssumption == MaxChanges \in Nat

VARIABLES
  live,     \* messages whose row exists
  members,  \* messages the folder's membership filter selects now
  uidNext,  \* imap_folder.uid_next; 0 while the folder has no row
  uidOf,    \* imap_uid: the UID of a message, 0 when it has no row
  pc,       \* where each session is in loadView
  rows,     \* loadView's `rows`: the members it read
  mapped,   \* loadView's `mapped`: the UID map it read
  unread,   \* which of the two parallel reads are outstanding
  plan,     \* loadView's `values` still to be inserted: message -> UID
  view,     \* the FolderView each session holds: message -> UID
  given,    \* history: every <<uid, message>> row that was ever inserted
  changes   \* history: how many changes the other actors made

env   == <<live, members, changes>>
table == <<uidNext, uidOf, given>>
local == <<rows, mapped, unread, plan>>
vars  == <<env, table, pc, local, view>>

NoUids == [m \in Messages |-> 0]

\* Types, and the foreign keys: a member is a message, and so is a row's message.
TypeOK ==
  /\ live \in SUBSET Messages
  /\ members \in SUBSET Messages
  /\ uidNext \in Nat
  /\ uidOf \in [Messages -> Nat]
  /\ pc \in [Sessions -> {"idle", "create", "find", "read", "assign",
                          "insert", "failing"}]
  /\ rows \in [Sessions -> SUBSET Messages]
  /\ mapped \in [Sessions -> [Messages -> Nat]]
  /\ unread \in [Sessions -> SUBSET {"members", "mapped"}]
  /\ plan \in [Sessions -> [Messages -> Nat]]
  /\ view \in [Sessions -> [Messages -> Nat]]
  /\ given \in SUBSET (Nat \X Messages)
  /\ changes \in Nat
  /\ members \subseteq live
  /\ \A m \in Messages : uidOf[m] # 0 => m \in live

Init ==
  /\ live = Messages
  /\ members \in SUBSET Messages
  /\ uidNext = 0
  /\ uidOf = NoUids
  /\ pc = [s \in Sessions |-> "idle"]
  /\ rows = [s \in Sessions |-> {}]
  /\ mapped = [s \in Sessions |-> NoUids]
  /\ unread = [s \in Sessions |-> {}]
  /\ plan = [s \in Sessions |-> NoUids]
  /\ view = [s \in Sessions |-> NoUids]
  /\ given = {}
  /\ changes = 0

----------------------------------------------------------------------------
(***************************************************************************)
(* The other actors: deliveries, moves, restores, trashing, destruction.   *)
(***************************************************************************)
MayChange == changes < MaxChanges /\ changes' = changes + 1

Enter(m) ==
  /\ MayChange
  /\ m \in live \ members
  /\ members' = members \union {m}
  /\ UNCHANGED <<live, table, pc, local, view>>

Leave(m) ==
  /\ MayChange
  /\ m \in members
  /\ members' = members \ {m}
  /\ UNCHANGED <<live, table, pc, local, view>>

\* Deleting a message row cascades to its imap_uid row.
Destroy(m) ==
  /\ MayChange
  /\ m \in live
  /\ live' = live \ {m}
  /\ members' = members \ {m}
  /\ uidOf' = [uidOf EXCEPT ![m] = 0]
  /\ UNCHANGED <<uidNext, given, pc, local, view>>

----------------------------------------------------------------------------
(***************************************************************************)
(* folderState: find the folder's row, or insert it and find it again.     *)
(***************************************************************************)
StartReading(s) ==
  /\ pc' = [pc EXCEPT ![s] = "read"]
  /\ unread' = [unread EXCEPT ![s] = {"members", "mapped"}]

FindFolder(s) ==
  /\ pc[s] \in {"idle", "find"}
  /\ uidNext # 0
  /\ StartReading(s)
  /\ UNCHANGED <<env, table, rows, mapped, plan, view>>

MissFolder(s) ==
  /\ pc[s] = "idle"
  /\ uidNext = 0
  /\ pc' = [pc EXCEPT ![s] = "create"]
  /\ UNCHANGED <<env, table, local, view>>

\* Mutant of CreateFolder: a conflicting insert resets the existing row.
RecreateFolder(s) ==
  /\ pc[s] = "create"
  /\ uidNext' = 1
  /\ pc' = [pc EXCEPT ![s] = "find"]
  /\ UNCHANGED <<env, uidOf, given, local, view>>

\* INSERT ... ON CONFLICT DO NOTHING on the unique (user, mailbox, key).
CreateFolder(s) ==
  /\ pc[s] = "create"
  /\ uidNext' = IF uidNext = 0 THEN 1 ELSE uidNext
  /\ pc' = [pc EXCEPT ![s] = "find"]
  /\ UNCHANGED <<env, uidOf, given, local, view>>

----------------------------------------------------------------------------
(***************************************************************************)
(* loadView: the two reads that run in parallel, in either order.          *)
(***************************************************************************)
ReadMembers(s) ==
  /\ pc[s] = "read"
  /\ "members" \in unread[s]
  /\ rows' = [rows EXCEPT ![s] = members]
  /\ unread' = [unread EXCEPT ![s] = @ \ {"members"}]
  /\ UNCHANGED <<env, table, pc, mapped, plan, view>>

ReadMapped(s) ==
  /\ pc[s] = "read"
  /\ "mapped" \in unread[s]
  /\ mapped' = [mapped EXCEPT ![s] = uidOf]
  /\ unread' = [unread EXCEPT ![s] = @ \ {"mapped"}]
  /\ UNCHANGED <<env, table, pc, rows, plan, view>>

GoneUids(s) == {mapped[s][m] : m \in {n \in Messages \ rows[s] : mapped[s][n] # 0}}
Fresh(s) == {m \in rows[s] : mapped[s][m] = 0}

\* A message's position in the sorted list of fresh messages, from 0.
Rank(m, S) == Cardinality({k \in S : k < m})

\* Mutant of DeleteGone: rows of departed messages are kept.
KeepGone(s) ==
  /\ pc[s] = "read"
  /\ unread[s] = {}
  /\ pc' = [pc EXCEPT ![s] = "assign"]
  /\ UNCHANGED <<env, table, local, view>>

DeleteGone(s) ==
  /\ pc[s] = "read"
  /\ unread[s] = {}
  /\ uidOf' = [m \in Messages |-> IF uidOf[m] \in GoneUids(s) THEN 0 ELSE uidOf[m]]
  /\ pc' = [pc EXCEPT ![s] = "assign"]
  /\ UNCHANGED <<env, uidNext, given, local, view>>

\* Mutant of Reserve: uid_next advances by one row only.
ReserveOne(s) ==
  /\ pc[s] = "assign"
  /\ Fresh(s) # {}
  /\ uidNext' = uidNext + 1
  /\ plan' = [plan EXCEPT ![s] =
       [m \in Messages |-> IF m \in Fresh(s) THEN uidNext + Rank(m, Fresh(s)) ELSE 0]]
  /\ pc' = [pc EXCEPT ![s] = "insert"]
  /\ UNCHANGED <<env, uidOf, given, rows, mapped, unread, view>>

\* UPDATE imap_folder SET uid_next = uid_next + n ... RETURNING uid_next.
Reserve(s) ==
  /\ pc[s] = "assign"
  /\ Fresh(s) # {}
  /\ uidNext' = uidNext + Cardinality(Fresh(s))
  /\ plan' = [plan EXCEPT ![s] =
       [m \in Messages |-> IF m \in Fresh(s) THEN uidNext + Rank(m, Fresh(s)) ELSE 0]]
  /\ pc' = [pc EXCEPT ![s] = "insert"]
  /\ UNCHANGED <<env, uidOf, given, rows, mapped, unread, view>>

----------------------------------------------------------------------------
(***************************************************************************)
(* The chunked INSERTs run in parallel.  A row whose UID or whose message  *)
(* is already in the table is skipped; a message that no longer exists     *)
(* breaks the foreign key and fails the whole statement.                   *)
(***************************************************************************)
Part(s, c) ==
  {m \in Messages : plan[s][m] # 0 /\ Rank(m, Fresh(s)) \div Chunk = c}

Settle(s, part) ==
  plan' = [plan EXCEPT ![s] = [m \in Messages |-> IF m \in part THEN 0 ELSE @[m]]]

Inserted(s, part) ==
  {m \in part : uidOf[m] = 0 /\ \A n \in Messages : uidOf[n] # plan[s][m]}

InsertChunk(s, c) ==
  LET part == Part(s, c)  new == Inserted(s, part) IN
  /\ pc[s] \in {"insert", "failing"}
  /\ part # {}
  /\ part \subseteq live
  /\ uidOf' = [m \in Messages |-> IF m \in new THEN plan[s][m] ELSE uidOf[m]]
  /\ given' = given \union {<<plan[s][m], m>> : m \in new}
  /\ Settle(s, part)
  /\ UNCHANGED <<env, uidNext, pc, rows, mapped, unread, view>>

ChunkFails(s, c) ==
  /\ pc[s] \in {"insert", "failing"}
  /\ Part(s, c) # {}
  /\ ~ Part(s, c) \subseteq live
  /\ Settle(s, Part(s, c))
  /\ pc' = [pc EXCEPT ![s] = "failing"]
  /\ UNCHANGED <<env, table, rows, mapped, unread, view>>

\* The view: the members read, under the UIDs of the map read last.
Publish(s, map) ==
  /\ view' = [view EXCEPT ![s] =
       [m \in Messages |-> IF m \in rows[s] THEN map[m] ELSE 0]]
  /\ pc' = [pc EXCEPT ![s] = "idle"]
  /\ rows' = [rows EXCEPT ![s] = {}]
  /\ mapped' = [mapped EXCEPT ![s] = NoUids]
  /\ UNCHANGED <<env, table, unread, plan>>

PublishKnown(s) ==
  /\ pc[s] = "assign"
  /\ Fresh(s) = {}
  /\ Publish(s, mapped[s])

\* "Another session may have mapped some of these first; read the truth."
PublishReread(s) ==
  /\ pc[s] = "insert"
  /\ plan[s] = NoUids
  /\ Publish(s, uidOf)

\* A failed INSERT rejects loadView: the session keeps the view it had.
Abort(s) ==
  /\ pc[s] = "failing"
  /\ plan[s] = NoUids
  /\ pc' = [pc EXCEPT ![s] = "idle"]
  /\ rows' = [rows EXCEPT ![s] = {}]
  /\ mapped' = [mapped EXCEPT ![s] = NoUids]
  /\ UNCHANGED <<env, table, unread, plan, view>>

----------------------------------------------------------------------------
SessionStep(s) ==
  \/ FindFolder(s) \/ MissFolder(s) \/ CreateFolder(s)
  \/ ReadMembers(s) \/ ReadMapped(s)
  \/ DeleteGone(s) \/ Reserve(s)
  \/ \E c \in 0..Cardinality(Messages) : InsertChunk(s, c) \/ ChunkFails(s, c)
  \/ PublishKnown(s) \/ PublishReread(s) \/ Abort(s)

Next ==
  \/ \E s \in Sessions : SessionStep(s)
  \/ \E m \in Messages : Enter(m) \/ Leave(m) \/ Destroy(m)

Spec == Init /\ [][Next]_vars

\* A connected session is polled (NOOP, IDLE's three-minute tick), so it
\* always loads again, and a statement sent to D1 is answered.
FairSpec == Spec /\ \A s \in Sessions : WF_vars(SessionStep(s))

----------------------------------------------------------------------------
(***************************************************************************)
(* Safety.                                                                 *)
(***************************************************************************)

\* A UID names one message for ever: whatever the sessions interleave, no two
\* messages were ever given the same UID (imap_folder.uid_next, reserved
\* atomically "so two sessions of the same user can't hand out the same numbers").
UidNeverReused == \A p, q \in given : p[1] = q[1] => p[2] = q[2]

\* The views sessions hold, however stale, never disagree on which message a UID
\* means: a UID taken from one connection's FETCH can be used on another.
ViewsAgree ==
  \A s, t \in Sessions : \A m, n \in Messages :
    view[s][m] # 0 /\ view[s][m] = view[t][n] => m = n

\* A UID in use or about to be inserted lies below uid_next, so the next
\* reservation cannot reach it.
UidsBelowNext ==
  /\ \A p \in given : 0 < p[1] /\ p[1] < uidNext
  /\ \A s \in Sessions, m \in Messages : plan[s][m] # 0 => plan[s][m] < uidNext

(***************************************************************************)
(* The detailed UID space implements the ledger.                           *)
(***************************************************************************)
Ledger == INSTANCE UidLedger WITH uid <- uidOf, used <- {p[1] : p \in given}

\* Every step of the sessions hands out only UIDs nobody ever had, to messages
\* that have none.
ImplementsLedger == Ledger!Spec

(***************************************************************************)
(* Liveness: once the folder stops changing, every session's view becomes  *)
(* exactly the folder's contents, under the UIDs of the table, and the     *)
(* table keeps no row of a message that departed.                          *)
(***************************************************************************)
InStep ==
  \A s \in Sessions, m \in Messages :
    IF m \in members THEN view[s][m] = uidOf[m] /\ uidOf[m] # 0
                     ELSE view[s][m] = 0 /\ uidOf[m] = 0

ViewsConverge == <>[]InStep

============================================================================
