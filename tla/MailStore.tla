------------------------------ MODULE MailStore ------------------------------
(***************************************************************************)
(* Message rows in D1 and their bytes in R2.  A row's foreign keys cascade *)
(* (thread, message, attachment), a blob's lifetime is kept by hand:       *)
(* ingestRaw writes blobs before rows, every delete collects the keys of   *)
(* the rows it sees, deletes those blobs and then the rows.  No statement  *)
(* is part of a transaction with another.                                  *)
(***************************************************************************)
EXTENDS Integers, FiniteSets

CONSTANTS
  Threads,   \* thread ids
  Messages,  \* message ids; each has one attachment
  Stored,    \* messages stored at the start, in thread First
  First,     \* the thread they are in
  Purges,    \* cron invocations at purgeStaleTrash
  Deletes,   \* requests to delete a message or a thread
  MaxUser,   \* bound on the reader's trashing and restoring
  MaxFaults  \* bound on failed or killed requests

None == "none"

ASSUME StoredAssumption == Stored \subseteq Messages /\ First \in Threads
ASSUME BoundsAssumption == MaxUser \in Nat /\ MaxFaults \in Nat
ASSUME DistinctAssumption ==
  /\ Purges \intersect Deletes = {}
  /\ Threads \intersect Messages = {}
  /\ None \notin Threads

Raw(m) == <<"raw", m>>
Att(m) == <<"att", m>>

VARIABLES
  box,     \* where each thread is: "none" (no row), "inbox", "trash", "stale" trash
  thread,  \* thread of each message row, None without a row
  atts,    \* messages whose attachment row exists
  blobs,   \* R2 objects
  ipc,     \* where the ingestion of each message is
  target,  \* thread it resolved
  dpc,     \* where each purge and each delete is
  ids,     \* threads a purge selected, messages a delete is about
  keys,    \* blob keys it collected
  last,    \* whether a delete counted no other message in the thread
  user,    \* history: changes of the reader
  faults,  \* history: failed requests
  swept    \* history: messages a delete of another took along with their thread

ingest == <<ipc, target>>
deletes == <<dpc, ids, keys, last>>
vars == <<box, thread, atts, blobs, ingest, deletes, user, faults, swept>>

Actors == Purges \union Deletes
Keys == {Raw(m) : m \in Messages} \union {Att(m) : m \in Messages}

\* Types, and the foreign keys: no message without its thread, no attachment without its message.
TypeOK ==
  /\ box \in [Threads -> {"none", "inbox", "trash", "stale"}]
  /\ thread \in [Messages -> Threads \union {None}]
  /\ atts \subseteq Messages
  /\ blobs \subseteq Keys
  /\ ipc \in [Messages -> {"new", "resolve", "insert", "putatt", "insertatt", "bump", "done"}]
  /\ target \in [Messages -> Threads \union {None}]
  /\ dpc \in [Actors -> {"idle", "rawkeys", "attkeys", "blobs", "count", "rows", "thread"}]
  /\ ids \in [Actors -> SUBSET (Threads \union Messages)]
  /\ keys \in [Actors -> SUBSET Keys]
  /\ last \in [Actors -> BOOLEAN]
  /\ user \in 0..MaxUser
  /\ faults \in 0..MaxFaults
  /\ swept \subseteq Messages
  /\ \A m \in Messages : thread[m] # None => box[thread[m]] # "none"
  /\ \A m \in atts : thread[m] # None

Init ==
  /\ box = [t \in Threads |-> IF t = First /\ Stored # {} THEN "inbox" ELSE "none"]
  /\ thread = [m \in Messages |-> IF m \in Stored THEN First ELSE None]
  /\ atts = Stored
  /\ blobs = {Raw(m) : m \in Stored} \union {Att(m) : m \in Stored}
  /\ ipc = [m \in Messages |-> IF m \in Stored THEN "done" ELSE "new"]
  /\ target = [m \in Messages |-> IF m \in Stored THEN First ELSE None]
  /\ dpc = [a \in Actors |-> "idle"]
  /\ ids = [a \in Actors |-> {}]
  /\ keys = [a \in Actors |-> {}]
  /\ last = [a \in Actors |-> FALSE]
  /\ user = 0
  /\ faults = 0
  /\ swept = {}

----------------------------------------------------------------------------
(***************************************************************************)
(* Rows and their cascades.                                                *)
(***************************************************************************)
Exists(t) == box[t] # "none"
In(ts) == {m \in Messages : thread[m] \in ts}

\* Deleting the messages of ms takes their attachment rows along.
RemoveMessages(ms) ==
  /\ thread' = [m \in Messages |-> IF m \in ms THEN None ELSE thread[m]]
  /\ atts' = atts \ ms

\* Deleting the threads of ts takes their messages along.
RemoveThreads(ts) ==
  /\ box' = [t \in Threads |-> IF t \in ts THEN "none" ELSE box[t]]
  /\ RemoveMessages(In(ts))

RawKeys(ms) == {Raw(m) : m \in ms}
AttKeys(ms) == {Att(m) : m \in ms \intersect atts}

Fault == faults < MaxFaults /\ faults' = faults + 1

----------------------------------------------------------------------------
(***************************************************************************)
(* ingestRaw                                                               *)
(***************************************************************************)
IGoto(m, from, to) == ipc[m] = from /\ ipc' = [ipc EXCEPT ![m] = to]

PutRaw(m) ==
  /\ IGoto(m, "new", "resolve")
  /\ blobs' = blobs \union {Raw(m)}
  /\ UNCHANGED <<box, thread, atts, target, deletes, user, faults, swept>>

\* resolveThreadId joins a thread or opens one.
Resolve(m) ==
  /\ IGoto(m, "resolve", "insert")
  /\ \E t \in Threads :
       /\ target' = [target EXCEPT ![m] = t]
       /\ box' = IF Exists(t) THEN box ELSE [box EXCEPT ![t] = "inbox"]
  /\ UNCHANGED <<thread, atts, blobs, deletes, user, faults, swept>>

\* The insert fails where the thread is gone, and with it the ingestion.
InsertMessage(m) ==
  /\ ipc[m] = "insert"
  /\ IF Exists(target[m])
       THEN IGoto(m, "insert", "putatt") /\ thread' = [thread EXCEPT ![m] = target[m]]
       ELSE IGoto(m, "insert", "done") /\ UNCHANGED thread
  /\ UNCHANGED <<box, atts, blobs, target, deletes, user, faults, swept>>

PutAtt(m) ==
  /\ IGoto(m, "putatt", "insertatt")
  /\ blobs' = blobs \union {Att(m)}
  /\ UNCHANGED <<box, thread, atts, target, deletes, user, faults, swept>>

InsertAtt(m) ==
  /\ IF thread[m] # None
       THEN IGoto(m, "insertatt", "bump") /\ atts' = atts \union {m}
       ELSE IGoto(m, "insertatt", "done") /\ UNCHANGED atts
  /\ UNCHANGED <<box, thread, blobs, target, deletes, user, faults, swept>>

\* bumpThread brings a thread back that it read as trashed, unless the message is imported.
Bump(m) ==
  /\ IGoto(m, "bump", "done")
  /\ \/ UNCHANGED box
     \/ Exists(target[m]) /\ box' = [box EXCEPT ![target[m]] = "inbox"]
  /\ UNCHANGED <<thread, atts, blobs, target, deletes, user, faults, swept>>

IngestDies(m) ==
  /\ Fault
  /\ ipc[m] \notin {"new", "done"}
  /\ ipc' = [ipc EXCEPT ![m] = "done"]
  /\ UNCHANGED <<box, thread, atts, blobs, target, deletes, user, swept>>

Ingest(m) ==
  \/ PutRaw(m) \/ Resolve(m) \/ InsertMessage(m) \/ PutAtt(m) \/ InsertAtt(m) \/ Bump(m)

----------------------------------------------------------------------------
(***************************************************************************)
(* The reader and the clock.                                               *)
(***************************************************************************)
Trash(t) ==
  /\ user < MaxUser /\ user' = user + 1
  /\ box[t] = "inbox"
  /\ box' = [box EXCEPT ![t] = "trash"]
  /\ UNCHANGED <<thread, atts, blobs, ingest, deletes, faults, swept>>

Restore(t) ==
  /\ user < MaxUser /\ user' = user + 1
  /\ box[t] \in {"trash", "stale"}
  /\ box' = [box EXCEPT ![t] = "inbox"]
  /\ UNCHANGED <<thread, atts, blobs, ingest, deletes, faults, swept>>

\* TRASH_RETENTION_MS go by.
Age(t) ==
  /\ box[t] = "trash"
  /\ box' = [box EXCEPT ![t] = "stale"]
  /\ UNCHANGED <<thread, atts, blobs, ingest, deletes, user, faults, swept>>

----------------------------------------------------------------------------
(***************************************************************************)
(* purgeStaleTrash, DELETE /threads/:id and DELETE /messages/:id.          *)
(***************************************************************************)
DGoto(a, from, to) == dpc[a] = from /\ dpc' = [dpc EXCEPT ![a] = to]

StaleThreads == {t \in Threads : box[t] = "stale"}

SelectStale(p) ==
  /\ StaleThreads # {}
  /\ DGoto(p, "idle", "rawkeys")
  /\ ids' = [ids EXCEPT ![p] = StaleThreads]
  /\ UNCHANGED <<box, thread, atts, blobs, ingest, keys, last, user, faults, swept>>

\* DELETE /threads/:id; a batch of purgePendingMailboxes differs only in its choice.
SelectThread(d) ==
  /\ DGoto(d, "idle", "rawkeys")
  /\ \E t \in Threads : Exists(t) /\ ids' = [ids EXCEPT ![d] = {t}]
  /\ UNCHANGED <<box, thread, atts, blobs, ingest, keys, last, user, faults, swept>>

\* requireEntityAccess loads the message.
StartDelete(d) ==
  /\ DGoto(d, "idle", "rawkeys")
  /\ \E m \in Messages : thread[m] # None /\ ids' = [ids EXCEPT ![d] = {m}]
  /\ UNCHANGED <<box, thread, atts, blobs, ingest, keys, last, user, faults, swept>>

OfThreads(a) == ids[a] \subseteq Threads

Doomed(a) == IF OfThreads(a) THEN In(ids[a]) ELSE ids[a] \intersect In(Threads)

\* Two queries: what is stored between them is found by the second alone.
CollectRaw(a) ==
  /\ DGoto(a, "rawkeys", "attkeys")
  /\ keys' = [keys EXCEPT ![a] = RawKeys(Doomed(a))]
  /\ UNCHANGED <<box, thread, atts, blobs, ingest, ids, last, user, faults, swept>>

CollectAtts(a) ==
  /\ DGoto(a, "attkeys", "blobs")
  /\ keys' = [keys EXCEPT ![a] = @ \union AttKeys(Doomed(a))]
  /\ UNCHANGED <<box, thread, atts, blobs, ingest, ids, last, user, faults, swept>>

\* Mutant: the blobs are left to a cascade that R2 does not have.
DropNoBlobs(a) ==
  /\ DGoto(a, "blobs", IF OfThreads(a) THEN "rows" ELSE "count")
  /\ UNCHANGED <<box, thread, atts, blobs, ingest, ids, keys, last, user, faults, swept>>

DropBlobs(a) ==
  /\ DGoto(a, "blobs", IF OfThreads(a) THEN "rows" ELSE "count")
  /\ blobs' = blobs \ keys[a]
  /\ UNCHANGED <<box, thread, atts, ingest, ids, keys, last, user, faults, swept>>

Idle(a) ==
  /\ dpc' = [dpc EXCEPT ![a] = "idle"]
  /\ ids' = [ids EXCEPT ![a] = {}]
  /\ keys' = [keys EXCEPT ![a] = {}]
  /\ last' = [last EXCEPT ![a] = FALSE]

\* Mutant: only threads whose messages were all deleted before are removed.
DropEmptyThreads(a) ==
  /\ dpc[a] = "rows" /\ OfThreads(a)
  /\ RemoveThreads({t \in ids[a] : In({t}) = {}})
  /\ Idle(a)
  /\ UNCHANGED <<blobs, ingest, user, faults, swept>>

DropThreads(a) ==
  /\ dpc[a] = "rows" /\ OfThreads(a)
  /\ RemoveThreads(ids[a])
  /\ Idle(a)
  /\ UNCHANGED <<blobs, ingest, user, faults, swept>>

\* The thread of the message of d, as loaded with it.
Home(d) == target[CHOOSE m \in Messages : m \in ids[d]]

CountRest(d) ==
  /\ DGoto(d, "count", "rows")
  /\ last' = [last EXCEPT ![d] = Cardinality(In({Home(d)})) <= 1]
  /\ UNCHANGED <<box, thread, atts, blobs, ingest, ids, keys, user, faults, swept>>

DropMessage(d) ==
  /\ ~OfThreads(d)
  /\ DGoto(d, "rows", "thread")
  /\ RemoveMessages(ids[d])
  /\ UNCHANGED <<box, blobs, ingest, ids, keys, last, user, faults, swept>>

\* The last message takes the thread along ...
DropHome(d) ==
  /\ dpc[d] = "thread" /\ last[d]
  /\ RemoveThreads({Home(d)})
  /\ swept' = swept \union In({Home(d)})
  /\ Idle(d)
  /\ UNCHANGED <<blobs, ingest, user, faults>>

\* ... any other leaves it to recomputeThreadAfterMessageDelete.
KeepHome(d) ==
  /\ dpc[d] = "thread" /\ ~last[d]
  /\ Idle(d)
  /\ UNCHANGED <<box, thread, atts, blobs, ingest, user, faults, swept>>

DeleteDies(a) ==
  /\ Fault
  /\ dpc[a] # "idle"
  /\ Idle(a)
  /\ UNCHANGED <<box, thread, atts, blobs, ingest, user, swept>>

Purge(p) == SelectStale(p) \/ CollectRaw(p) \/ CollectAtts(p) \/ DropBlobs(p) \/ DropThreads(p)

Delete(d) ==
  \/ CollectRaw(d) \/ CollectAtts(d) \/ DropBlobs(d) \/ DropThreads(d)
  \/ CountRest(d) \/ DropMessage(d) \/ DropHome(d) \/ KeepHome(d)

----------------------------------------------------------------------------
Next ==
  \/ \E m \in Messages : Ingest(m) \/ IngestDies(m)
  \/ \E t \in Threads : Trash(t) \/ Restore(t) \/ Age(t)
  \/ \E p \in Purges : Purge(p)
  \/ \E d \in Deletes : StartDelete(d) \/ SelectThread(d) \/ Delete(d)
  \/ \E a \in Actors : DeleteDies(a)

Spec == Init /\ [][Next]_vars

\* The cron fires every minute and an invocation's calls return.
FairSpec == Spec /\ \A p \in Purges : WF_vars(Purge(p))

----------------------------------------------------------------------------
(***************************************************************************)
(* Properties.                                                             *)
(***************************************************************************)

\* A message or attachment row whose bytes are gone is on its way out: some delete holds
\* the key and has yet to drop the row.  Only a delete that died leaves one behind.
BytesBehindRows ==
  faults = 0 =>
    LET rows == In(Threads) IN
      \A k \in (RawKeys(rows) \union AttKeys(rows)) \ blobs :
        \E a \in Actors : dpc[a] \in {"count", "rows"} /\ k \in keys[a]

\* No bytes of a message that was completely stored outlive its row, even where a
\* delete dies half way: that is what "blobs first" is for.  Except those of a message that
\* the delete of another one took for gone and cascaded along with the thread.
StoredBytesFreed ==
  \A m \in Stored \ swept : Raw(m) \in blobs \/ Att(m) \in blobs => thread[m] # None

\* Trash past its retention does not stay: it is purged or brought back.
StaleTrashLeaves == \A t \in Threads : (box[t] = "stale") ~> (box[t] # "stale")

\* Deleting one message deletes no other.
DeletesOnlyItself ==
  [][\A d \in Deletes : DropHome(d) => In({Home(d)}) = {}]_vars
=============================================================================
