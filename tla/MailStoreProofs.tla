--------------------------- MODULE MailStoreProofs ---------------------------
(***************************************************************************)
(* For any threads, messages, purges and deletes: types and foreign keys,  *)
(* and that a row is never without its bytes but while a delete that holds *)
(* the key has yet to drop it.                                             *)
(***************************************************************************)
EXTENDS MailStore, MailboxPurge, FiniteSetTheorems, TLAPS

LEMMA RawKey == ASSUME NEW ms, NEW m PROVE Raw(m) \in RawKeys(ms) <=> m \in ms
  BY DEF Raw, RawKeys

LEMMA AttKey ==
  ASSUME NEW ms, NEW m PROVE Att(m) \in AttKeys(ms) <=> m \in ms /\ m \in atts
  BY DEF Att, AttKeys

LEMMA KeyKinds ==
  ASSUME NEW ms, NEW m, NEW n
  PROVE Raw(m) # Att(n) /\ Raw(m) \notin AttKeys(ms) /\ Att(m) \notin RawKeys(ms)
  BY DEF Raw, Att, RawKeys, AttKeys

LEMMA KeyNames == ASSUME NEW m, NEW n PROVE (Raw(m) = Raw(n) => m = n) /\ (Att(m) = Att(n) => m = n)
  BY DEF Raw, Att

LEMMA KeysAreKeys ==
  ASSUME NEW ms, ms \subseteq Messages PROVE RawKeys(ms) \subseteq Keys /\ AttKeys(ms) \subseteq Keys
  BY DEF RawKeys, AttKeys, Keys

----------------------------------------------------------------------------
(***************************************************************************)
(* Types and foreign keys.                                                 *)
(***************************************************************************)
\* A message about to be inserted has a thread to go to.
Resolved == \A m \in Messages : ipc[m] = "insert" => target[m] \in Threads

Typed == TypeOK /\ Resolved

LEMMA InitType == Init => Typed
  BY StoredAssumption, BoundsAssumption, DistinctAssumption
     DEF Init, Typed, Resolved, TypeOK, Keys, None, Raw, Att

\* A step of an ingestion keeps the types.
LEMMA IngestType ==
  ASSUME Typed, NEW m \in Messages, Ingest(m) \/ IngestDies(m) PROVE Typed'
<1> USE DistinctAssumption DEF Typed, Resolved, TypeOK, IGoto, ingest, deletes, Exists
<1>k. Raw(m) \in Keys /\ Att(m) \in Keys BY DEF Keys
<1>1. CASE PutRaw(m) BY <1>1, <1>k DEF PutRaw
<1>2. CASE Resolve(m)
  <2>1. box' \in [Threads -> {"none", "inbox", "trash", "stale"}] BY <1>2 DEF Resolve
  <2>2. target' \in [Messages -> Threads \union {None}] BY <1>2 DEF Resolve
  <2>3. \A t \in Threads : box[t] # "none" => box'[t] # "none" BY <1>2 DEF Resolve
  <2> QED BY <1>2, <2>1, <2>2, <2>3 DEF Resolve
<1>3. CASE InsertMessage(m)
  <2>1. thread' \in [Messages -> Threads \union {None}] BY <1>3 DEF InsertMessage
  <2>2. \A n \in Messages : thread'[n] # None => box[thread'[n]] # "none"
    <3>1. CASE box[target[m]] # "none" BY <1>3, <3>1 DEF InsertMessage
    <3>2. CASE box[target[m]] = "none" BY <1>3, <3>2 DEF InsertMessage
    <3> QED BY <3>1, <3>2
  <2>3. \A n \in atts : thread'[n] # None
    <3>1. CASE box[target[m]] # "none" BY <1>3, <3>1 DEF InsertMessage
    <3>2. CASE box[target[m]] = "none" BY <1>3, <3>2 DEF InsertMessage
    <3> QED BY <3>1, <3>2
  <2>4. ipc' \in [Messages -> {"new", "resolve", "insert", "putatt", "insertatt", "bump", "done"}]
    BY <1>3 DEF InsertMessage
  <2> QED BY <1>3, <2>1, <2>2, <2>3, <2>4 DEF InsertMessage
<1>4. CASE PutAtt(m) BY <1>4, <1>k DEF PutAtt
<1>5. CASE InsertAtt(m) BY <1>5 DEF InsertAtt
<1>6. CASE Bump(m)
  <2>1. box' \in [Threads -> {"none", "inbox", "trash", "stale"}] BY <1>6 DEF Bump
  <2>2. \A t \in Threads : box[t] # "none" => box'[t] # "none" BY <1>6 DEF Bump
  <2> QED BY <1>6, <2>1, <2>2 DEF Bump
<1>7. CASE IngestDies(m) BY <1>7, BoundsAssumption DEF IngestDies, Fault
<1> QED BY <1>1, <1>2, <1>3, <1>4, <1>5, <1>6, <1>7 DEF Ingest

\* What the reader and the clock do keeps the types.
LEMMA ReaderType ==
  ASSUME Typed, NEW t \in Threads, Trash(t) \/ Restore(t) \/ Age(t) PROVE Typed'
<1> USE DEF Typed, Resolved, TypeOK, ingest, deletes
<1>1. user' \in 0..MaxUser BY BoundsAssumption DEF Trash, Restore, Age
<1>2. box' \in [Threads -> {"none", "inbox", "trash", "stale"}] BY DEF Trash, Restore, Age
<1>3. \A s \in Threads : box[s] # "none" => box'[s] # "none" BY DEF Trash, Restore, Age
<1> QED BY <1>1, <1>2, <1>3 DEF Trash, Restore, Age

\* Removing threads or messages leaves no dangling foreign key.
LEMMA ThreadsRemoved ==
  ASSUME TypeOK, NEW ts, RemoveThreads(ts)
  PROVE /\ box' \in [Threads -> {"none", "inbox", "trash", "stale"}]
        /\ thread' \in [Messages -> Threads \union {None}]
        /\ atts' \subseteq Messages
        /\ \A m \in Messages : thread'[m] # None => box'[thread'[m]] # "none"
        /\ \A m \in atts' : thread'[m] # None
  BY DistinctAssumption DEF TypeOK, RemoveThreads, RemoveMessages, In

LEMMA MessagesRemoved ==
  ASSUME TypeOK, NEW ms, RemoveMessages(ms)
  PROVE /\ thread' \in [Messages -> Threads \union {None}]
        /\ atts' \subseteq Messages
        /\ \A m \in Messages : thread'[m] # None => box[thread'[m]] # "none"
        /\ \A m \in atts' : thread'[m] # None
  BY DistinctAssumption DEF TypeOK, RemoveMessages

LEMMA IdleType ==
  ASSUME TypeOK, NEW a \in Actors, Idle(a)
  PROVE /\ dpc' \in [Actors -> {"idle", "rawkeys", "attkeys", "blobs", "count", "rows", "thread"}]
        /\ ids' \in [Actors -> SUBSET (Threads \union Messages)]
        /\ keys' \in [Actors -> SUBSET Keys]
        /\ last' \in [Actors -> BOOLEAN]
  BY DEF TypeOK, Idle

\* A step of a purge or a delete keeps the types.
LEMMA DeleteType ==
  ASSUME Typed, NEW a \in Actors,
         \/ SelectStale(a) \/ SelectThread(a) \/ StartDelete(a)
         \/ Purge(a) \/ Delete(a) \/ DeleteDies(a)
  PROVE  Typed'
<1> USE DEF Typed, Resolved, DGoto, ingest
<1>1. CASE SelectStale(a) BY <1>1 DEF SelectStale, TypeOK, StaleThreads
<1>2. CASE SelectThread(a) BY <1>2 DEF SelectThread, TypeOK
<1>3. CASE StartDelete(a) BY <1>3 DEF StartDelete, TypeOK
<1>d. Doomed(a) \subseteq Messages BY DEF Doomed, In
<1>4. CASE CollectRaw(a) BY <1>4, <1>d, KeysAreKeys DEF CollectRaw, TypeOK
<1>5. CASE CollectAtts(a) BY <1>5, <1>d, KeysAreKeys DEF CollectAtts, TypeOK
<1>6. CASE DropBlobs(a) BY <1>6 DEF DropBlobs, TypeOK
<1>7. CASE CountRest(a) BY <1>7 DEF CountRest, TypeOK
<1>8. CASE DropMessage(a)
  <2>1. dpc' \in [Actors -> {"idle", "rawkeys", "attkeys", "blobs", "count", "rows", "thread"}]
    BY <1>8 DEF DropMessage, TypeOK
  <2> QED BY <1>8, <2>1, MessagesRemoved DEF DropMessage, TypeOK
<1>9. CASE DropThreads(a) \/ DropHome(a)
  <2>1. \E ts : RemoveThreads(ts) BY <1>9 DEF DropThreads, DropHome
  <2>2. UNCHANGED <<blobs, ipc, target, user, faults>> BY <1>9 DEF DropThreads, DropHome
  <2>3. Idle(a) BY <1>9 DEF DropThreads, DropHome
  <2>4. swept' \subseteq Messages BY <1>9 DEF DropThreads, DropHome, In, TypeOK
  <2> QED BY <2>1, <2>2, <2>3, <2>4, IdleType, ThreadsRemoved DEF TypeOK
<1>10. CASE KeepHome(a) BY <1>10, IdleType DEF KeepHome, TypeOK
<1>11. CASE DeleteDies(a)
  <2>1. faults' \in 0..MaxFaults BY <1>11, BoundsAssumption DEF DeleteDies, Fault, TypeOK
  <2> QED BY <1>11, <2>1, IdleType DEF DeleteDies, TypeOK
<1> QED
  BY <1>1, <1>2, <1>3, <1>4, <1>5, <1>6, <1>7, <1>8, <1>9, <1>10, <1>11 DEF Purge, Delete

LEMMA StutterType == ASSUME Typed, UNCHANGED vars PROVE Typed'
  BY DEF Typed, Resolved, TypeOK, vars, ingest, deletes

LEMMA NextType == ASSUME Typed, [Next]_vars PROVE Typed'
<1>1. ASSUME NEW m \in Messages, Ingest(m) \/ IngestDies(m) PROVE Typed' BY <1>1, IngestType
<1>2. ASSUME NEW t \in Threads, Trash(t) \/ Restore(t) \/ Age(t) PROVE Typed' BY <1>2, ReaderType
<1>3. ASSUME NEW p \in Purges, Purge(p) PROVE Typed' BY <1>3, DeleteType DEF Actors
<1>4. ASSUME NEW d \in Deletes, StartDelete(d) \/ SelectThread(d) \/ Delete(d) PROVE Typed'
  BY <1>4, DeleteType DEF Actors
<1>5. ASSUME NEW a \in Actors, DeleteDies(a) PROVE Typed' BY <1>5, DeleteType
<1>6. CASE UNCHANGED vars BY <1>6, StutterType
<1> QED BY <1>1, <1>2, <1>3, <1>4, <1>5, <1>6 DEF Next

\* Types and foreign keys hold for any number of threads, messages, purges and deletes.
THEOREM TypeCorrect == Spec => []TypeOK
<1>1. Spec => []Typed BY InitType, NextType, PTL DEF Spec
<1>2. Typed => TypeOK BY DEF Typed
<1> QED BY <1>1, <1>2, PTL
----------------------------------------------------------------------------
(***************************************************************************)
(* Bytes behind rows.  Blobs are written before their row, and a key that  *)
(* a delete holds is the key of a message that is completely written and   *)
(* whose row that delete is going to drop.                                 *)
(***************************************************************************)
Unwritten == {"new", "resolve", "insert"}
Complete == {"bump", "done"}

Written ==
  \A m \in Messages :
    /\ ipc[m] \in {"resolve", "insert"} => Raw(m) \in blobs
    /\ ipc[m] = "insertatt" => Att(m) \in blobs
    /\ thread[m] # None => ipc[m] \notin Unwritten
    /\ m \in atts => ipc[m] \in Complete

HeldIsWritten ==
  \A a \in Actors, m \in Messages :
    /\ Raw(m) \in keys[a] => ipc[m] \notin Unwritten
    /\ Att(m) \in keys[a] => ipc[m] \in Complete

\* a is going to drop the row of m, if there is one.
Reaches(a, m) == IF OfThreads(a) THEN thread[m] \in ids[a] \union {None} ELSE m \in ids[a]

HeldIsReached ==
  \A a \in Actors, m \in Messages :
    Raw(m) \in keys[a] \/ Att(m) \in keys[a] => Reaches(a, m)

Held(k) == \E a \in Actors : dpc[a] \in {"count", "rows"} /\ k \in keys[a]

Behind ==
  faults = 0 =>
    \A m \in Messages : thread[m] # None =>
      /\ Raw(m) \in blobs \/ Held(Raw(m))
      /\ m \in atts => Att(m) \in blobs \/ Held(Att(m))

\* A delete that has not begun holds nothing.
IdleHoldsNothing == \A a \in Actors : dpc[a] = "idle" => keys[a] = {}

IInv == Typed /\ IdleHoldsNothing /\ Written /\ HeldIsWritten /\ HeldIsReached /\ Behind

LEMMA BehindImplies == Behind => BytesBehindRows
<1> SUFFICES ASSUME Behind, faults = 0,
                    NEW k \in (RawKeys(In(Threads)) \union AttKeys(In(Threads))) \ blobs
             PROVE  Held(k)
  BY DEF BytesBehindRows, Held
<1>1. \A m \in In(Threads) : m \in Messages /\ thread[m] # None BY DistinctAssumption DEF In
<1>2. CASE k \in RawKeys(In(Threads)) BY <1>1, <1>2 DEF RawKeys, Behind
<1>3. CASE k \in AttKeys(In(Threads)) BY <1>1, <1>3 DEF AttKeys, Behind
<1> QED BY <1>2, <1>3

LEMMA InitInv == Init => IInv
<1> SUFFICES ASSUME Init PROVE IInv OBVIOUS
<1>1. Typed BY InitType
<1>2. Written BY StoredAssumption DEF Init, Written, Unwritten, Complete, None
<1>3. HeldIsWritten /\ HeldIsReached BY DEF Init, HeldIsWritten, HeldIsReached
<1>4. Behind BY StoredAssumption DEF Init, Behind
<1>5. IdleHoldsNothing BY DEF Init, IdleHoldsNothing
<1> QED BY <1>1, <1>2, <1>3, <1>4, <1>5 DEF IInv

\* A step of an ingestion: blobs only grow, and a row appears after its blob.
LEMMA IngestInv ==
  ASSUME IInv, NEW m \in Messages, Ingest(m) \/ IngestDies(m) PROVE IInv'
<1> USE DEF IInv, IGoto, ingest, deletes
<1>0. Typed' BY IngestType
<1>t. /\ ipc \in [Messages -> {"new", "resolve", "insert", "putatt", "insertatt", "bump", "done"}]
      /\ thread \in [Messages -> Threads \union {None}]
      /\ atts \subseteq Messages
      /\ \A n \in atts : thread[n] # None
  BY DEF Typed, TypeOK
<1>s. UNCHANGED <<dpc, ids, keys>> /\ \A a \in Actors : OfThreads(a)' = OfThreads(a)
  BY DEF PutRaw, Resolve, InsertMessage, PutAtt, InsertAtt, Bump, Ingest, IngestDies, OfThreads
<1>g. blobs \subseteq blobs'
  BY DEF PutRaw, Resolve, InsertMessage, PutAtt, InsertAtt, Bump, Ingest, IngestDies
<1>f. \A n \in Messages \ {m} : ipc'[n] = ipc[n] /\ thread'[n] = thread[n]
  BY <1>t DEF PutRaw, Resolve, InsertMessage, PutAtt, InsertAtt, Bump, Ingest, IngestDies
<1>w. Written'
  <2>1. CASE PutRaw(m) BY <1>t, <2>1 DEF PutRaw, Written, Unwritten, Complete
  <2>2. CASE Resolve(m) BY <1>t, <2>2 DEF Resolve, Written, Unwritten, Complete
  <2>3. CASE InsertMessage(m)
    <3>1. CASE Exists(target[m]) BY <1>t, <2>3, <3>1 DEF InsertMessage, Written, Unwritten, Complete
    <3>2. CASE ~Exists(target[m]) BY <1>t, <2>3, <3>2 DEF InsertMessage, Written, Unwritten, Complete
    <3> QED BY <3>1, <3>2
  <2>4. CASE PutAtt(m) BY <1>t, <2>4 DEF PutAtt, Written, Unwritten, Complete
  <2>5. CASE InsertAtt(m)
    <3>1. CASE thread[m] # None BY <1>t, <2>5, <3>1 DEF InsertAtt, Written, Unwritten, Complete
    <3>2. CASE thread[m] = None BY <1>t, <2>5, <3>2 DEF InsertAtt, Written, Unwritten, Complete
    <3> QED BY <3>1, <3>2
  <2>6. CASE Bump(m) BY <1>t, <2>6 DEF Bump, Written, Unwritten, Complete
  <2>7. CASE IngestDies(m) BY <1>t, <2>7 DEF IngestDies, Written, Unwritten, Complete
  <2> QED BY <2>1, <2>2, <2>3, <2>4, <2>5, <2>6, <2>7 DEF Ingest
<1>h. HeldIsWritten'
  <2>1. ipc[m] \in Complete => ipc'[m] \in Complete
    BY <1>t DEF PutRaw, Resolve, InsertMessage, PutAtt, InsertAtt, Bump, Ingest, IngestDies, Complete
  <2>2. ipc[m] \notin Unwritten => ipc'[m] \notin Unwritten
    BY <1>t DEF PutRaw, Resolve, InsertMessage, PutAtt, InsertAtt, Bump, Ingest, IngestDies, Unwritten
  <2> QED BY <1>s, <1>f, <2>1, <2>2 DEF HeldIsWritten, Raw, Att
<1>r. HeldIsReached'
  <2>1. CASE InsertMessage(m)
    <3>1. \A a \in Actors : Raw(m) \notin keys[a] /\ Att(m) \notin keys[a]
      BY <2>1 DEF InsertMessage, HeldIsWritten, Unwritten, Complete
    <3>2. \A a \in Actors, n \in Messages \ {m} : Reaches(a, n) => Reaches(a, n)'
      BY <1>s, <1>f DEF Reaches
    <3> QED BY <1>s, <3>1, <3>2 DEF HeldIsReached, Raw, Att
  <2>2. CASE ~InsertMessage(m)
    <3>1. thread' = thread
      BY <2>2 DEF PutRaw, Resolve, PutAtt, InsertAtt, Bump, Ingest, IngestDies
    <3>2. \A a \in Actors, n \in Messages : Reaches(a, n) => Reaches(a, n)'
      BY <1>s, <3>1 DEF Reaches
    <3> QED BY <1>s, <3>2 DEF HeldIsReached, Raw, Att
  <2> QED BY <2>1, <2>2
<1>b. Behind'
  <2> SUFFICES ASSUME faults' = 0, NEW n \in Messages, thread'[n] # None
               PROVE  /\ Raw(n) \in blobs' \/ Held(Raw(n))
                      /\ n \in atts' => Att(n) \in blobs' \/ Held(Att(n))
    BY <1>s DEF Behind, Held, Raw, Att
  <2>0. faults = 0
    BY BoundsAssumption DEF PutRaw, Resolve, InsertMessage, PutAtt, InsertAtt, Bump, Ingest,
       IngestDies, Fault, Typed, TypeOK
  <2>1. CASE InsertMessage(m) /\ n = m
    <3>1. Raw(m) \in blobs' BY <2>1, <1>g DEF InsertMessage, Written
    <3>2. m \notin atts' BY <2>1 DEF InsertMessage, Written, Complete
    <3> QED BY <2>1, <3>1, <3>2
  <2>2. CASE InsertAtt(m) /\ n = m
    <3>1. Att(m) \in blobs' BY <2>2, <1>g DEF InsertAtt, Written
    <3>2. thread[m] # None BY <2>2 DEF InsertAtt
    <3>3. Raw(m) \in blobs \/ Held(Raw(m)) BY <2>0, <3>2 DEF Behind
    <3> QED BY <2>2, <1>g, <3>1, <3>3
  <2>3. CASE ~(InsertMessage(m) /\ n = m) /\ ~(InsertAtt(m) /\ n = m)
    <3>1. thread'[n] = thread[n] /\ (n \in atts' => n \in atts)
      BY <2>3, <1>t, <1>f DEF PutRaw, Resolve, InsertMessage, PutAtt, InsertAtt, Bump, Ingest, IngestDies
    <3> QED BY <1>g, <2>0, <3>1 DEF Behind
  <2> QED BY <2>1, <2>2, <2>3
<1>i. IdleHoldsNothing' BY <1>s DEF IdleHoldsNothing
<1> QED BY <1>0, <1>w, <1>h, <1>r, <1>b, <1>i

\* Where rows only go, blobs stay and no delete changes what it holds, all is kept.
LEMMA ReaderInv ==
  ASSUME IInv, NEW t \in Threads, Trash(t) \/ Restore(t) \/ Age(t) PROVE IInv'
<1> USE DEF IInv
<1>1. Typed' BY ReaderType
<1>2. UNCHANGED <<thread, atts, blobs, ipc, target, dpc, ids, keys, faults>>
  BY DEF Trash, Restore, Age, ingest, deletes
<1> QED BY <1>1, <1>2 DEF IdleHoldsNothing, Written, HeldIsWritten, HeldIsReached, Reaches, OfThreads, Behind, Held,
          Raw, Att

\* A delete that collects keys: they are those of rows it reaches.
LEMMA CollectInv ==
  ASSUME IInv, Typed', NEW a \in Actors, CollectRaw(a) \/ CollectAtts(a) PROVE IInv'
<1> USE DEF IInv, ingest
<1>u. UNCHANGED <<thread, atts, blobs, ipc, ids, faults>> BY DEF CollectRaw, CollectAtts
<1>o. /\ dpc[a] \in {"rawkeys", "attkeys"}
      /\ \A c \in Actors \ {a} : dpc'[c] = dpc[c] /\ keys'[c] = keys[c]
  BY DEF CollectRaw, CollectAtts, DGoto, Typed, TypeOK
<1>k. \A m \in Messages : (Raw(m) \in keys'[a] \/ Att(m) \in keys'[a]) =>
        \/ m \in Doomed(a) /\ (Att(m) \in keys'[a] => m \in atts \/ Att(m) \in keys[a])
        \/ (Raw(m) \in keys'[a] => Raw(m) \in keys[a]) /\ (Att(m) \in keys'[a] => Att(m) \in keys[a])
  <2>1. CASE CollectRaw(a)
    <3>1. keys'[a] = RawKeys(Doomed(a)) BY <2>1 DEF CollectRaw, Typed, TypeOK
    <3> QED BY <3>1, RawKey, KeyKinds
  <2>2. CASE CollectAtts(a)
    <3>1. keys'[a] = keys[a] \union AttKeys(Doomed(a)) BY <2>2 DEF CollectAtts, Typed, TypeOK
    <3> QED BY <3>1, AttKey, KeyKinds
  <2> QED BY <2>1, <2>2
<1>d. \A m \in Messages : m \in Doomed(a) => thread[m] # None /\ Reaches(a, m)
  BY DistinctAssumption DEF Doomed, Reaches, In, Typed, TypeOK, OfThreads
<1>1. Written' BY <1>u DEF Written, Raw, Att
<1>2. HeldIsWritten'
  <2> SUFFICES ASSUME NEW c \in Actors, NEW m \in Messages
               PROVE  /\ Raw(m) \in keys'[c] => ipc[m] \notin Unwritten
                      /\ Att(m) \in keys'[c] => ipc[m] \in Complete
    BY <1>u DEF HeldIsWritten, Raw, Att
  <2>1. CASE c = a
    BY <2>1, <1>k, <1>d DEF HeldIsWritten, Written, Unwritten, Complete
  <2>2. CASE c # a BY <2>2, <1>o DEF HeldIsWritten
  <2> QED BY <2>1, <2>2
<1>3. HeldIsReached'
  <2> SUFFICES ASSUME NEW c \in Actors, NEW m \in Messages,
                      Raw(m) \in keys'[c] \/ Att(m) \in keys'[c]
               PROVE  Reaches(c, m)
    BY <1>u DEF HeldIsReached, Reaches, OfThreads, Raw, Att
  <2>1. CASE c = a BY <2>1, <1>k, <1>d DEF HeldIsReached
  <2>2. CASE c # a BY <2>2, <1>o DEF HeldIsReached
  <2> QED BY <2>1, <2>2
<1>4. Behind'
  <2>1. \A k : Held(k) => Held(k)' BY <1>o DEF Held
  <2> QED BY <1>u, <2>1 DEF Behind, Raw, Att
<1>5. IdleHoldsNothing'
  <2>1. dpc'[a] # "idle" BY DEF CollectRaw, CollectAtts, DGoto, Typed, TypeOK
  <2> QED BY <1>o, <2>1 DEF IdleHoldsNothing
<1> QED BY <1>1, <1>2, <1>3, <1>4, <1>5

\* A delete that drops its blobs becomes the one that answers for them.
LEMMA DropBlobsInv ==
  ASSUME IInv, Typed', NEW a \in Actors, DropBlobs(a) PROVE IInv'
<1> USE DEF IInv, ingest
<1>u. UNCHANGED <<thread, atts, ipc, ids, keys, faults>> BY DEF DropBlobs
<1>o. /\ dpc[a] = "blobs" /\ dpc'[a] \in {"count", "rows"}
      /\ \A c \in Actors \ {a} : dpc'[c] = dpc[c]
  BY DEF DropBlobs, DGoto, Typed, TypeOK
<1>b. blobs' = blobs \ keys[a] BY DEF DropBlobs
<1>1. Written'
  BY <1>u, <1>b DEF Written, HeldIsWritten, Unwritten, Complete, Raw, Att
<1>2. HeldIsWritten' BY <1>u DEF HeldIsWritten, Raw, Att
<1>3. HeldIsReached' BY <1>u DEF HeldIsReached, Reaches, OfThreads, Raw, Att
<1>4. Behind'
  <2>1. \A k : Held(k) => Held(k)' BY <1>u, <1>o DEF Held
  <2>2. \A k : k \in keys[a] => Held(k)' BY <1>u, <1>o DEF Held
  <2> QED BY <1>u, <1>b, <2>1, <2>2 DEF Behind, Raw, Att
<1>5. IdleHoldsNothing' BY <1>u, <1>o DEF IdleHoldsNothing
<1> QED BY <1>1, <1>2, <1>3, <1>4, <1>5

\* A delete that starts holds nothing yet; one that counts keeps what it holds.
LEMMA QuietInv ==
  ASSUME IInv, Typed', NEW a \in Actors,
         SelectStale(a) \/ SelectThread(a) \/ StartDelete(a) \/ CountRest(a)
  PROVE  IInv'
<1> USE DEF IInv, ingest
<1>u. UNCHANGED <<thread, atts, blobs, ipc, keys, faults>>
  BY DEF SelectStale, SelectThread, StartDelete, CountRest
<1>o. /\ dpc'[a] # "idle"
      /\ \A c \in Actors \ {a} : dpc'[c] = dpc[c] /\ ids'[c] = ids[c]
      /\ \/ keys[a] = {}
         \/ ids' = ids /\ dpc[a] = "count" /\ dpc'[a] = "rows"
  BY DEF SelectStale, SelectThread, StartDelete, CountRest, DGoto, Typed, TypeOK, IdleHoldsNothing
<1>1. Written' BY <1>u DEF Written, Raw, Att
<1>2. HeldIsWritten' BY <1>u DEF HeldIsWritten, Raw, Att
<1>3. HeldIsReached'
  <2> SUFFICES ASSUME NEW c \in Actors, NEW m \in Messages,
                      Raw(m) \in keys[c] \/ Att(m) \in keys[c]
               PROVE  Reaches(c, m)'
    BY <1>u DEF HeldIsReached, Raw, Att
  <2>1. Reaches(c, m) BY DEF HeldIsReached
  <2>2. ids'[c] = ids[c] BY <1>o
  <2> QED BY <1>u, <2>1, <2>2 DEF Reaches, OfThreads
<1>4. Behind'
  <2>1. \A k : Held(k) => Held(k)' BY <1>u, <1>o DEF Held
  <2> QED BY <1>u, <2>1 DEF Behind, Raw, Att
<1>5. IdleHoldsNothing' BY <1>u, <1>o DEF IdleHoldsNothing
<1> QED BY <1>1, <1>2, <1>3, <1>4, <1>5

\* A delete that drops rows: it answers for no key any more, and needs not to.
LEMMA RowsInv ==
  ASSUME IInv, Typed', NEW a \in Actors,
         DropMessage(a) \/ DropThreads(a) \/ DropHome(a) \/ KeepHome(a) \/ DeleteDies(a)
  PROVE  IInv'
<1> USE DEF IInv, ingest
<1>u. UNCHANGED <<blobs, ipc>> BY DEF DropMessage, DropThreads, DropHome, KeepHome, DeleteDies
<1>o. /\ \A c \in Actors \ {a} : dpc'[c] = dpc[c] /\ ids'[c] = ids[c] /\ keys'[c] = keys[c]
      /\ \/ keys'[a] = {}
         \/ ids'[a] = ids[a] /\ keys'[a] = keys[a] /\ dpc'[a] = "thread"
  BY DEF DropMessage, DropThreads, DropHome, KeepHome, DeleteDies, Idle, DGoto, Typed, TypeOK
<1>m. \A m \in Messages : thread'[m] \in {thread[m], None}
  BY DEF DropMessage, DropThreads, DropHome, KeepHome, DeleteDies, RemoveThreads, RemoveMessages
<1>a. atts' \subseteq atts
  BY DEF DropMessage, DropThreads, DropHome, KeepHome, DeleteDies, RemoveThreads, RemoveMessages
<1>g. faults' = 0 => faults = 0 /\ ~DeleteDies(a)
  BY BoundsAssumption DEF DropMessage, DropThreads, DropHome, KeepHome, DeleteDies, Fault,
     Typed, TypeOK
\* A row whose key a held before the rows went is gone.
<1>k. ASSUME dpc[a] \in {"count", "rows"}, ~DeleteDies(a), NEW m \in Messages,
             Raw(m) \in keys[a] \/ Att(m) \in keys[a]
      PROVE  thread'[m] = None
  <2>1. Reaches(a, m) BY <1>k DEF HeldIsReached
  <2>2. CASE DropMessage(a)
    BY <2>1, <2>2 DEF Reaches, DropMessage, RemoveMessages
  <2>3. CASE DropThreads(a)
    BY <2>1, <2>3 DEF Reaches, DropThreads, RemoveThreads, RemoveMessages, In
  <2>4. CASE DropHome(a) \/ KeepHome(a) BY <1>k, <2>4 DEF DropHome, KeepHome
  <2> QED BY <1>k, <2>2, <2>3, <2>4
<1>1. Written' BY <1>u, <1>m, <1>a DEF Written, Raw, Att
<1>2. HeldIsWritten' BY <1>u, <1>o DEF HeldIsWritten, Raw, Att
<1>3. HeldIsReached'
  <2> SUFFICES ASSUME NEW c \in Actors, NEW m \in Messages,
                      Raw(m) \in keys'[c] \/ Att(m) \in keys'[c]
               PROVE  Reaches(c, m)'
    BY DEF HeldIsReached, Raw, Att
  <2>1. ids'[c] = ids[c] /\ keys'[c] = keys[c] BY <1>o
  <2>2. Reaches(c, m) BY <2>1 DEF HeldIsReached
  <2> QED BY <1>m, <2>1, <2>2 DEF Reaches, OfThreads
<1>4. Behind'
  <2> SUFFICES ASSUME faults' = 0, NEW m \in Messages, thread'[m] # None
               PROVE  /\ Raw(m) \in blobs' \/ Held(Raw(m))'
                      /\ m \in atts' => Att(m) \in blobs' \/ Held(Att(m))'
    BY DEF Behind, Held, Raw, Att
  <2>1. thread[m] # None BY <1>m
  <2>2. ASSUME NEW k \in {Raw(m), Att(m)}, Held(k) PROVE Held(k)'
    <3>1. PICK c \in Actors : dpc[c] \in {"count", "rows"} /\ k \in keys[c] BY <2>2 DEF Held
    <3>2. c # a BY <1>g, <1>k, <3>1
    <3> QED BY <1>o, <3>1, <3>2 DEF Held
  <2> QED BY <1>u, <1>a, <1>g, <2>1, <2>2 DEF Behind
<1>5. IdleHoldsNothing' BY <1>o DEF IdleHoldsNothing
<1> QED BY <1>1, <1>2, <1>3, <1>4, <1>5

LEMMA NextInv == ASSUME IInv, [Next]_vars PROVE IInv'
<1>0. Typed' BY NextType DEF IInv
<1>1. ASSUME NEW m \in Messages, Ingest(m) \/ IngestDies(m) PROVE IInv' BY <1>1, IngestInv
<1>2. ASSUME NEW t \in Threads, Trash(t) \/ Restore(t) \/ Age(t) PROVE IInv' BY <1>2, ReaderInv
<1>3. ASSUME NEW p \in Purges, Purge(p) PROVE IInv'
  BY <1>0, <1>3, CollectInv, DropBlobsInv, QuietInv, RowsInv DEF Actors, Purge
<1>4. ASSUME NEW d \in Deletes, StartDelete(d) \/ SelectThread(d) \/ Delete(d) PROVE IInv'
  BY <1>0, <1>4, CollectInv, DropBlobsInv, QuietInv, RowsInv DEF Actors, Delete
<1>5. ASSUME NEW a \in Actors, DeleteDies(a) PROVE IInv' BY <1>0, <1>5, RowsInv
<1>6. CASE UNCHANGED vars
  BY <1>0, <1>6 DEF IInv, vars, ingest, deletes, IdleHoldsNothing, Written, HeldIsWritten,
     HeldIsReached, Reaches, OfThreads, Behind, Held, Raw, Att
<1> QED BY <1>1, <1>2, <1>3, <1>4, <1>5, <1>6 DEF Next

\* However many messages arrive and however many purges and deletes overlap: as long as
\* none of them dies, a row without its bytes is one that a delete is about to drop.
THEOREM RowsKeepTheirBytes == Spec => []BytesBehindRows
<1>1. Spec => []IInv BY InitInv, NextInv, PTL DEF Spec
<1>2. IInv => BytesBehindRows BY BehindImplies DEF IInv
<1> QED BY <1>1, <1>2, PTL

----------------------------------------------------------------------------
(***************************************************************************)
(* Bytes of stored messages.  A delete drops the rows of those it takes    *)
(* only after their bytes, and nothing writes these again.                 *)
(***************************************************************************)
\* What was stored at the start is whole, until it goes as a whole.
StoredRows == \A m \in Stored : ipc[m] = "done" /\ (thread[m] # None => m \in atts)

\* a is going to drop the row of m, which is there.
Takes(a, m) == thread[m] # None /\ IF OfThreads(a) THEN thread[m] \in ids[a] ELSE m \in ids[a]

Collected ==
  \A a \in Actors, m \in Stored : Takes(a, m) =>
    /\ dpc[a] = "attkeys" => Raw(m) \in keys[a]
    /\ dpc[a] = "blobs" => Raw(m) \in keys[a] /\ Att(m) \in keys[a]
    /\ dpc[a] \in {"count", "rows"} => Raw(m) \notin blobs /\ Att(m) \notin blobs

FreedInv == Typed /\ StoredRows /\ Collected /\ StoredBytesFreed

LEMMA FreedInit == Init => FreedInv
<1> SUFFICES ASSUME Init PROVE FreedInv OBVIOUS
<1>1. Typed BY InitType
<1>2. StoredRows BY StoredAssumption DEF Init, StoredRows
<1>3. Collected BY DEF Init, Collected
<1>4. StoredBytesFreed BY StoredAssumption, DistinctAssumption DEF Init, StoredBytesFreed
<1> QED BY <1>1, <1>2, <1>3, <1>4 DEF FreedInv

\* The bytes and rows of other messages than those that were stored are no matter.
LEMMA FreedKept ==
  ASSUME FreedInv, Typed', UNCHANGED <<dpc, ids, keys, swept>>,
         \A n \in Stored : /\ ipc'[n] = ipc[n] /\ thread'[n] = thread[n] /\ (n \in atts => n \in atts')
                           /\ Raw(n) \in blobs' => Raw(n) \in blobs
                           /\ Att(n) \in blobs' => Att(n) \in blobs
  PROVE  FreedInv'
<1> USE DEF FreedInv
<1>1. StoredRows' BY DEF StoredRows
<1>2. \A a \in Actors, m \in Stored : Takes(a, m)' <=> Takes(a, m) BY DEF Takes, OfThreads
<1>3. Collected' BY <1>2 DEF Collected, Raw, Att
<1>4. StoredBytesFreed' BY DEF StoredBytesFreed, Raw, Att
<1> QED BY <1>1, <1>3, <1>4

LEMMA IngestFreed ==
  ASSUME FreedInv, NEW m \in Messages, Ingest(m) \/ IngestDies(m) PROVE FreedInv'
<1> USE DEF FreedInv, ingest, deletes, IGoto
<1>0. Typed' BY IngestType
<1>1. ipc[m] # "done" /\ ipc' = [ipc EXCEPT ![m] = ipc'[m]]
  BY DEF Ingest, PutRaw, Resolve, InsertMessage, PutAtt, InsertAtt, Bump, IngestDies, Typed, TypeOK
<1>2. UNCHANGED <<dpc, ids, keys, swept>>
  BY DEF Ingest, PutRaw, Resolve, InsertMessage, PutAtt, InsertAtt, Bump, IngestDies
<1>3. \A n \in Stored : n \in Messages /\ n # m BY <1>1, StoredAssumption DEF StoredRows
<1>4. /\ thread' = thread \/ thread' = [thread EXCEPT ![m] = target[m]]
      /\ atts \subseteq atts' /\ blobs' \subseteq blobs \union {Raw(m), Att(m)}
  BY DEF Ingest, PutRaw, Resolve, InsertMessage, PutAtt, InsertAtt, Bump, IngestDies
<1>5. \A n \in Stored : /\ ipc'[n] = ipc[n] /\ thread'[n] = thread[n]
                        /\ Raw(n) \in blobs' => Raw(n) \in blobs
                        /\ Att(n) \in blobs' => Att(n) \in blobs
  <2> SUFFICES ASSUME NEW n \in Stored
               PROVE  /\ ipc'[n] = ipc[n] /\ thread'[n] = thread[n]
                      /\ Raw(n) \in blobs' => Raw(n) \in blobs
                      /\ Att(n) \in blobs' => Att(n) \in blobs
    OBVIOUS
  <2>1. ipc'[n] = ipc[n] BY <1>1, <1>3 DEF Typed, TypeOK
  <2>2. thread'[n] = thread[n] BY <1>3, <1>4 DEF Typed, TypeOK
  <2>3. Raw(n) \notin {Raw(m), Att(m)} /\ Att(n) \notin {Raw(m), Att(m)} BY <1>3 DEF Raw, Att
  <2> QED BY <1>4, <2>1, <2>2, <2>3
<1> QED BY <1>0, <1>2, <1>4, <1>5, FreedKept

\* Keys that are collected are those of what is taken.
LEMMA CollectFreed ==
  ASSUME FreedInv, Typed', NEW a \in Actors, CollectRaw(a) \/ CollectAtts(a) PROVE FreedInv'
<1> USE DEF FreedInv, ingest
<1>1. UNCHANGED <<thread, atts, blobs, ipc, ids, swept>> BY DEF CollectRaw, CollectAtts
<1>2. \A c \in Actors \ {a} : dpc'[c] = dpc[c] /\ keys'[c] = keys[c]
  BY DEF CollectRaw, CollectAtts, DGoto, Typed, TypeOK
<1>3. \A c \in Actors, m \in Stored : Takes(c, m)' <=> Takes(c, m) BY <1>1 DEF Takes, OfThreads
<1>4. \A m \in Stored : Takes(a, m) => m \in Doomed(a) /\ m \in atts
  BY StoredAssumption DEF Takes, Doomed, In, StoredRows, Typed, TypeOK
<1>5. ASSUME NEW m \in Stored, Takes(a, m)
      PROVE  /\ dpc'[a] = "attkeys" => Raw(m) \in keys'[a]
             /\ dpc'[a] = "blobs" => Raw(m) \in keys'[a] /\ Att(m) \in keys'[a]
             /\ dpc'[a] \notin {"count", "rows"}
  <2>1. CASE CollectRaw(a)
    <3>1. keys'[a] = RawKeys(Doomed(a)) /\ dpc'[a] = "attkeys" BY <2>1 DEF CollectRaw, DGoto, Typed, TypeOK
    <3> QED BY <1>4, <1>5, <3>1, RawKey
  <2>2. CASE CollectAtts(a)
    <3>1. keys'[a] = keys[a] \union AttKeys(Doomed(a)) /\ dpc[a] = "attkeys" /\ dpc'[a] = "blobs"
      BY <2>2 DEF CollectAtts, DGoto, Typed, TypeOK
    <3> QED BY <1>4, <1>5, <3>1, AttKey DEF Collected
  <2> QED BY <2>1, <2>2
<1>6. Collected'
  <2> SUFFICES ASSUME NEW c \in Actors, NEW m \in Stored, Takes(c, m)
               PROVE  /\ dpc'[c] = "attkeys" => Raw(m) \in keys'[c]
                      /\ dpc'[c] = "blobs" => Raw(m) \in keys'[c] /\ Att(m) \in keys'[c]
                      /\ dpc'[c] \in {"count", "rows"} => Raw(m) \notin blobs /\ Att(m) \notin blobs
    BY <1>1, <1>3 DEF Collected, Raw, Att
  <2>1. CASE c = a BY <1>5, <2>1
  <2>2. CASE c # a BY <1>2, <2>2 DEF Collected
  <2> QED BY <2>1, <2>2
<1>7. StoredRows' /\ StoredBytesFreed' BY <1>1 DEF StoredRows, StoredBytesFreed, Raw, Att
<1> QED BY <1>6, <1>7

LEMMA DropBlobsFreed ==
  ASSUME FreedInv, Typed', NEW a \in Actors, DropBlobs(a) PROVE FreedInv'
<1> USE DEF FreedInv, ingest
<1>1. /\ UNCHANGED <<thread, atts, ipc, ids, keys, swept>> /\ blobs' = blobs \ keys[a]
      /\ dpc[a] = "blobs" /\ dpc'[a] \in {"count", "rows"} /\ \A c \in Actors \ {a} : dpc'[c] = dpc[c]
  BY DEF DropBlobs, DGoto, Typed, TypeOK
<1>2. \A c \in Actors, m \in Stored : Takes(c, m)' <=> Takes(c, m) BY <1>1 DEF Takes, OfThreads
<1>3. Collected'
  <2> SUFFICES ASSUME NEW c \in Actors, NEW m \in Stored, Takes(c, m)
               PROVE  /\ dpc'[c] = "attkeys" => Raw(m) \in keys[c]
                      /\ dpc'[c] = "blobs" => Raw(m) \in keys[c] /\ Att(m) \in keys[c]
                      /\ dpc'[c] \in {"count", "rows"} => Raw(m) \notin blobs' /\ Att(m) \notin blobs'
    BY <1>1, <1>2 DEF Collected, Raw, Att
  <2>1. CASE c = a BY <1>1, <2>1 DEF Collected
  <2>2. CASE c # a BY <1>1, <2>2 DEF Collected
  <2> QED BY <2>1, <2>2
<1>4. StoredRows' /\ StoredBytesFreed' BY <1>1 DEF StoredRows, StoredBytesFreed, Raw, Att
<1> QED BY <1>3, <1>4

\* Choosing and counting take nothing yet.
LEMMA QuietFreed ==
  ASSUME FreedInv, Typed', NEW a \in Actors,
         SelectStale(a) \/ SelectThread(a) \/ StartDelete(a) \/ CountRest(a)
  PROVE  FreedInv'
<1> USE DEF FreedInv, ingest
<1>1. UNCHANGED <<thread, atts, blobs, ipc, keys, swept>>
  BY DEF SelectStale, SelectThread, StartDelete, CountRest
<1>2. /\ \A c \in Actors \ {a} : dpc'[c] = dpc[c] /\ ids'[c] = ids[c]
      /\ \/ dpc'[a] = "rawkeys"
         \/ ids'[a] = ids[a] /\ dpc[a] = "count" /\ dpc'[a] = "rows"
  <2>1. CASE SelectStale(a) BY <2>1 DEF SelectStale, DGoto, Typed, TypeOK
  <2>2. CASE SelectThread(a) BY <2>2 DEF SelectThread, DGoto, Typed, TypeOK
  <2>3. CASE StartDelete(a) BY <2>3 DEF StartDelete, DGoto, Typed, TypeOK
  <2>4. CASE CountRest(a) BY <2>4 DEF CountRest, DGoto, Typed, TypeOK
  <2> QED BY <2>1, <2>2, <2>3, <2>4
<1>3. Collected'
  <2> SUFFICES ASSUME NEW c \in Actors, NEW m \in Stored, Takes(c, m)'
               PROVE  /\ dpc'[c] = "attkeys" => Raw(m) \in keys[c]
                      /\ dpc'[c] = "blobs" => Raw(m) \in keys[c] /\ Att(m) \in keys[c]
                      /\ dpc'[c] \in {"count", "rows"} => Raw(m) \notin blobs /\ Att(m) \notin blobs
    BY <1>1 DEF Collected, Raw, Att
  <2>1. CASE ids'[c] = ids[c]
    <3>1. Takes(c, m) BY <1>1, <2>1 DEF Takes, OfThreads
    <3> QED BY <1>2, <3>1 DEF Collected
  <2>2. CASE ids'[c] # ids[c] BY <1>2, <2>2
  <2> QED BY <2>1, <2>2
<1>4. StoredRows' /\ StoredBytesFreed' BY <1>1 DEF StoredRows, StoredBytesFreed, Raw, Att
<1> QED BY <1>3, <1>4

\* Rows go with their attachments' and after their bytes.
LEMMA RowsFreed ==
  ASSUME FreedInv, Typed', NEW a \in Actors,
         DropMessage(a) \/ DropThreads(a) \/ DropHome(a) \/ KeepHome(a) \/ DeleteDies(a)
  PROVE  FreedInv'
<1> USE DEF FreedInv, ingest
<1>1. UNCHANGED <<blobs, ipc>> BY DEF DropMessage, DropThreads, DropHome, KeepHome, DeleteDies
<1>2. /\ \A c \in Actors \ {a} : dpc'[c] = dpc[c] /\ ids'[c] = ids[c] /\ keys'[c] = keys[c]
      /\ dpc'[a] \in {"idle", "thread"}
  BY DEF DropMessage, DropThreads, DropHome, KeepHome, DeleteDies, Idle, DGoto, Typed, TypeOK
\* The messages whose rows go.
<1>3. PICK gone \in SUBSET Messages :
        /\ thread' = [m \in Messages |-> IF m \in gone THEN None ELSE thread[m]] /\ atts' = atts \ gone
        /\ \/ swept' = swept /\ dpc[a] = "rows" /\ \A m \in gone : thread[m] # None => Takes(a, m)
           \/ swept' = swept \union gone
  <2>1. CASE DropMessage(a)
    <3>1. ids[a] \intersect Messages \in SUBSET Messages OBVIOUS
    <3>2. /\ thread' = [m \in Messages |-> IF m \in ids[a] \intersect Messages THEN None ELSE thread[m]]
          /\ atts' = atts \ (ids[a] \intersect Messages)
      BY <2>1 DEF DropMessage, RemoveMessages, Typed, TypeOK
    <3>3. /\ swept' = swept /\ dpc[a] = "rows"
          /\ \A m \in ids[a] \intersect Messages : thread[m] # None => Takes(a, m)
      BY <2>1 DEF DropMessage, DGoto, Takes
    <3> QED BY <3>1, <3>2, <3>3
  <2>2. CASE DropThreads(a)
    <3>1. In(ids[a]) \in SUBSET Messages BY DEF In
    <3>2. /\ thread' = [m \in Messages |-> IF m \in In(ids[a]) THEN None ELSE thread[m]]
          /\ atts' = atts \ In(ids[a])
      BY <2>2 DEF DropThreads, RemoveThreads, RemoveMessages
    <3>3. /\ swept' = swept /\ dpc[a] = "rows" /\ \A m \in In(ids[a]) : thread[m] # None => Takes(a, m)
      BY <2>2 DEF DropThreads, Takes, In
    <3> QED BY <3>1, <3>2, <3>3
  <2>3. CASE DropHome(a)
    <3> DEFINE S == In({Home(a)})
    <3>1. S \in SUBSET Messages BY DEF In
    <3>2. /\ thread' = [m \in Messages |-> IF m \in S THEN None ELSE thread[m]] /\ atts' = atts \ S
          /\ swept' = swept \union S
      BY <2>3 DEF DropHome, RemoveThreads, RemoveMessages
    <3> QED BY <3>1, <3>2
  <2>4. CASE KeepHome(a) \/ DeleteDies(a)
    <3>1. /\ thread' = [m \in Messages |-> IF m \in {} THEN None ELSE thread[m]] /\ atts' = atts \ {}
          /\ swept' = swept \union {}
      BY <2>4 DEF KeepHome, DeleteDies, Typed, TypeOK
    <3> QED BY <3>1
  <2> QED BY <2>1, <2>2, <2>3, <2>4
<1>4. \A c \in Actors, m \in Stored : c # a /\ Takes(c, m)' => Takes(c, m)
  BY <1>2, <1>3, StoredAssumption DEF Takes, OfThreads
<1>5. Collected'
  BY <1>1, <1>2, <1>4 DEF Collected, Raw, Att
<1>6. StoredRows'
  BY <1>1, <1>3, StoredAssumption DEF StoredRows
<1>7. StoredBytesFreed'
  <2> SUFFICES ASSUME NEW m \in Stored \ swept', Raw(m) \in blobs \/ Att(m) \in blobs, thread'[m] = None
               PROVE  FALSE
    BY <1>1 DEF StoredBytesFreed, Raw, Att
  <2>1. m \in Messages /\ m \notin swept BY <1>3, StoredAssumption
  <2>2. thread[m] # None BY <2>1 DEF StoredBytesFreed
  <2>3. m \in gone BY <1>3, <2>1, <2>2
  <2>4. dpc[a] = "rows" /\ Takes(a, m) BY <1>3, <2>2, <2>3
  <2> QED BY <2>4 DEF Collected
<1> QED BY <1>5, <1>6, <1>7

LEMMA NextFreed == ASSUME FreedInv, [Next]_vars PROVE FreedInv'
<1>0. Typed' BY NextType DEF FreedInv
<1>1. ASSUME NEW m \in Messages, Ingest(m) \/ IngestDies(m) PROVE FreedInv' BY <1>1, IngestFreed
<1>2. ASSUME NEW t \in Threads, Trash(t) \/ Restore(t) \/ Age(t) PROVE FreedInv'
  <2>1. UNCHANGED <<thread, atts, blobs, ipc, dpc, ids, keys, swept>>
    BY <1>2 DEF Trash, Restore, Age, ingest, deletes
  <2> QED BY <1>0, <2>1, FreedKept
<1>3. ASSUME NEW p \in Purges, Purge(p) PROVE FreedInv'
  BY <1>0, <1>3, CollectFreed, DropBlobsFreed, QuietFreed, RowsFreed DEF Actors, Purge
<1>4. ASSUME NEW d \in Deletes, StartDelete(d) \/ SelectThread(d) \/ Delete(d) PROVE FreedInv'
  BY <1>0, <1>4, CollectFreed, DropBlobsFreed, QuietFreed, RowsFreed DEF Actors, Delete
<1>5. ASSUME NEW a \in Actors, DeleteDies(a) PROVE FreedInv' BY <1>0, <1>5, RowsFreed
<1>6. CASE UNCHANGED vars
  BY <1>0, <1>6, FreedKept DEF vars, ingest, deletes
<1> QED BY <1>1, <1>2, <1>3, <1>4, <1>5, <1>6 DEF Next

\* However many purges and deletes overlap and wherever they die, no bytes of a stored message
\* outlive its row, but those of a message whose thread went with the deletion of another
\* (mail/blobs.ts:17-100, cron.ts:98-112, api/messages.ts:137-164, api/threads.ts:354-364).
THEOREM StoredBytesAreFreed == Spec => []StoredBytesFreed
<1>1. Spec => []FreedInv BY FreedInit, NextFreed, PTL DEF Spec
<1>2. FreedInv => StoredBytesFreed BY DEF FreedInv
<1> QED BY <1>1, <1>2, PTL

----------------------------------------------------------------------------
(***************************************************************************)
(* The purge of a mailbox, for any number of overlapping invocations,      *)
(* threads, requests and kills.                                            *)
(***************************************************************************)
USE ModesAssumption, RedirectedAssumption, PurgeBoundsAssumption, ThreadsAssumption

\* What an invocation about to delete a batch knows of it.
BatchBounded ==
  \A t \in Ticks : pc[t] = "remove" =>
    Cardinality(batch[t]) \in 0..BatchSize /\ budget[t] > 0

PurgeInv == PurgeTypeOK /\ BatchBounded /\ AddressExclusive

(***************************************************************************)
(* Type correctness and the exclusive address.                             *)
(***************************************************************************)
LEMMA PurgeInitInv == PurgeInit => PurgeInv
<1> SUFFICES ASSUME PurgeInit PROVE PurgeInv
  OBVIOUS
<1>1. budget \in [Ticks -> (1 - BatchSize)..Budget]
  <2>1. 0 \in (1 - BatchSize)..Budget
    OBVIOUS
  <2> QED
    BY <2>1 DEF PurgeInit
<1>2. PurgeTypeOK
  <2>1. 0 \in 0..MaxRequests /\ 0 \in 0..MaxKills
    OBVIOUS
  <2>2. mail \in [Mail -> {"new", "routed", "stored", "bounced"}]
        /\ pc \in [Ticks -> {"idle", "select", "remove", "final"}]
        /\ mode \in [Ticks -> {"empty", "delete"}]
        /\ batch \in [Ticks -> SUBSET (Old \union Mail)]
    BY DEF PurgeInit
  <2> QED
    BY <1>1, <2>1, <2>2 DEF PurgeInit, PurgeTypeOK
<1>3. BatchBounded /\ AddressExclusive
  BY DEF PurgeInit, BatchBounded, AddressExclusive
<1> QED
  BY <1>2, <1>3 DEF PurgeInv

LEMMA BatchSizes ==
  ASSUME PurgeTypeOK, NEW b \in Batches
  PROVE  b \subseteq threads /\ Cardinality(b) \in 0..BatchSize
<1>1. b \subseteq threads
  BY DEF Batches
<1>2. IsFiniteSet(Old \union Mail)
  BY FS_Union
<1>3. IsFiniteSet(b)
  BY <1>1, <1>2, FS_Subset DEF PurgeTypeOK
<1>4. Cardinality(b) \in Nat
  BY <1>3, FS_CardinalityType
<1>5. CASE b = threads /\ Cardinality(b) <= BatchSize
  BY <1>1, <1>4, <1>5
<1>6. CASE Cardinality(b) = BatchSize
  BY <1>1, <1>4, <1>6
<1> QED
  BY <1>5, <1>6 DEF Batches

LEMMA RequestInv ==
  ASSUME PurgeInv, (\E m \in Modes : Mark(m)) \/ Recreate \/ (\E d \in Mail : Route(d) \/ Store(d))
  PROVE  PurgeInv'
<1>1. CASE \E m \in Modes : Mark(m)
  BY <1>1 DEF PurgeInv, PurgeTypeOK, BatchBounded, AddressExclusive, Mark, NotDeletePending, tick
<1>2. CASE Recreate
  BY <1>2 DEF PurgeInv, PurgeTypeOK, BatchBounded, AddressExclusive, Recreate, NotDeletePending, tick
<1>3. ASSUME NEW d \in Mail, Route(d)
      PROVE  PurgeInv'
  BY <1>3 DEF PurgeInv, PurgeTypeOK, BatchBounded, AddressExclusive, Route, NotDeletePending, tick
<1>4. ASSUME NEW d \in Mail, Store(d)
      PROVE  PurgeInv'
  BY <1>4 DEF PurgeInv, PurgeTypeOK, BatchBounded, AddressExclusive, Store, NotDeletePending, tick
<1> QED
  BY <1>1, <1>2, <1>3, <1>4

LEMMA DrainInv ==
  ASSUME PurgeInv, NEW t \in Ticks, Drain(t) \/ Killed(t)
  PROVE  PurgeInv'
<1> USE DEF PurgeInv, PurgeTypeOK, BatchBounded, AddressExclusive, NotDeletePending
<1>1. CASE Start(t)
  BY <1>1 DEF Start
<1>2. CASE SelectBatch(t)
  <2>1. PICK b \in Batches :
          /\ batch' = [batch EXCEPT ![t] = b]
          /\ pc' = [pc EXCEPT ![t] = IF b = {} THEN "final" ELSE "remove"]
    BY <1>2 DEF SelectBatch
  <2>2. b \subseteq Old \union Mail /\ Cardinality(b) \in 0..BatchSize /\ budget[t] > 0
    BY <1>2, BatchSizes DEF SelectBatch
  <2>3. UNCHANGED <<purge, taken, threads, mail, mode, budget, requests, kills, condemned>>
    BY <1>2 DEF SelectBatch
  <2>4. PurgeTypeOK' /\ AddressExclusive'
    BY <2>1, <2>2, <2>3
  <2>5. BatchBounded'
    BY <2>1, <2>2, <2>3
  <2> QED
    BY <2>4, <2>5
<1>3. CASE OutOfBudget(t)
  BY <1>3 DEF OutOfBudget
<1>4. CASE RemoveBatch(t)
  <2>1. budget[t] - Cardinality(batch[t]) \in (1 - BatchSize)..Budget
    BY <1>4 DEF RemoveBatch
  <2>2. budget' \in [Ticks -> (1 - BatchSize)..Budget]
    BY <1>4, <2>1 DEF RemoveBatch
  <2>3. PurgeTypeOK' /\ AddressExclusive'
    BY <1>4, <2>2 DEF RemoveBatch
  <2>4. BatchBounded'
    BY <1>4 DEF RemoveBatch
  <2> QED
    BY <2>3, <2>4
<1>5. CASE Drop(t)
  BY <1>5 DEF Drop, Finish
<1>6. CASE Clear(t)
  BY <1>6 DEF Clear, Finish, Collides
<1>7. CASE Killed(t)
  BY <1>7 DEF Killed
<1> QED
  BY <1>1, <1>2, <1>3, <1>4, <1>5, <1>6, <1>7 DEF Drain

LEMMA PurgeStepInv == PurgeInv /\ [PurgeNext]_purgeVars => PurgeInv'
<1> SUFFICES ASSUME PurgeInv, [PurgeNext]_purgeVars PROVE PurgeInv'
  OBVIOUS
<1>1. CASE UNCHANGED purgeVars
  BY <1>1 DEF PurgeInv, PurgeTypeOK, BatchBounded, AddressExclusive, NotDeletePending, purgeVars, tick
<1> QED
  BY <1>1, RequestInv, DrainInv DEF PurgeNext

LEMMA PurgeInvariance == PurgeSpec => []PurgeInv
  BY PurgeInitInv, PurgeStepInv, PTL DEF PurgeSpec

\* Every reachable state has the declared types; in particular no invocation deletes
\* more than a batch beyond its budget.
THEOREM PurgeTypeCorrect == PurgeSpec => []PurgeTypeOK
<1>1. PurgeInv => PurgeTypeOK
  BY DEF PurgeInv
<1> QED
  BY <1>1, PurgeInvariance, PTL

\* The address of a mailbox that is being deleted may be taken again; no request and
\* no stale invocation ever gives it to two mailboxes.
THEOREM AddressNeverShared == PurgeSpec => []AddressExclusive
<1>1. PurgeInv => AddressExclusive
  BY DEF PurgeInv
<1> QED
  BY <1>1, PurgeInvariance, PTL

----------------------------------------------------------------------------
(***************************************************************************)
(* Under the first request an invocation that found the mailbox empty      *)
(* found it so after the request, and later mail is not condemned.         *)
(***************************************************************************)
Asked == (\E t \in Ticks : pc[t] # "idle") => requests > 0

OnlyStoredCondemned ==
  \A d \in Mail : d \in condemned => mail[d] = "stored"

ThreadsStored ==
  \A d \in Mail : d \in threads => mail[d] = "stored"

Drained ==
  (\E t \in Ticks : pc[t] = "final") => condemned \intersect threads = {}

Pristine == requests = 0 => condemned = {} /\ purge = "null"

FirstInv ==
  /\ PurgeTypeOK /\ Asked /\ OnlyStoredCondemned /\ ThreadsStored /\ Pristine
  /\ requests <= 1 => Drained

LEMMA FirstInit == PurgeInit => FirstInv
<1> SUFFICES ASSUME PurgeInit PROVE FirstInv
  OBVIOUS
<1>1. PurgeTypeOK
  BY PurgeInitInv DEF PurgeInv
<1>2. Asked /\ OnlyStoredCondemned /\ ThreadsStored /\ Drained /\ Pristine
  BY DEF PurgeInit, Asked, OnlyStoredCondemned, ThreadsStored, Drained, Pristine
<1> QED
  BY <1>1, <1>2 DEF FirstInv

LEMMA FirstRequest ==
  ASSUME FirstInv, PurgeTypeOK',
         (\E m \in Modes : Mark(m)) \/ Recreate \/ (\E d \in Mail : Route(d) \/ Store(d))
  PROVE  FirstInv'
<1> USE DEF FirstInv, Asked, OnlyStoredCondemned, ThreadsStored, Drained, Pristine, tick
<1>1. CASE \E m \in Modes : Mark(m)
  <2>1. requests \in Nat /\ requests' = requests + 1 /\ purge' \in {"empty", "delete"}
    BY <1>1 DEF Mark, PurgeTypeOK
  <2> QED
    BY <1>1, <2>1 DEF Mark
<1>2. CASE Recreate
  BY <1>2 DEF Recreate
<1>3. ASSUME NEW d \in Mail, Route(d)
      PROVE  FirstInv'
  BY <1>3 DEF Route, PurgeTypeOK
<1>4. ASSUME NEW d \in Mail, Store(d)
      PROVE  FirstInv'
  <2>1. d \notin condemned
    BY <1>4 DEF Store
  <2> QED
    BY <1>4, <2>1 DEF Store, PurgeTypeOK
<1> QED
  BY <1>1, <1>2, <1>3, <1>4

LEMMA FirstDrain ==
  ASSUME FirstInv, PurgeTypeOK', NEW t \in Ticks, Drain(t) \/ Killed(t)
  PROVE  FirstInv'
<1> USE DEF FirstInv, Asked, OnlyStoredCondemned, ThreadsStored, Drained, Pristine
<1>1. CASE Start(t)
  <2>1. requests > 0
    BY <1>1 DEF Start, PurgeTypeOK
  <2> QED
    BY <1>1, <2>1 DEF Start, PurgeTypeOK
<1>2. CASE SelectBatch(t)
  <2>1. PICK b \in Batches :
          pc' = [pc EXCEPT ![t] = IF b = {} THEN "final" ELSE "remove"]
    BY <1>2 DEF SelectBatch
  <2>2. requests' = requests /\ requests > 0
    BY <1>2 DEF SelectBatch
  <2>3. CASE b = {}
    <3>1. threads = {}
      <4>1. b = threads \/ Cardinality(b) = BatchSize
        BY DEF Batches
      <4>2. Cardinality({}) = 0
        BY FS_EmptySet
      <4> QED
        BY <2>3, <4>1, <4>2
    <3> QED
      BY <1>2, <2>1, <2>2, <3>1 DEF SelectBatch, PurgeTypeOK
  <2>4. CASE b # {}
    <3>1. \A s \in Ticks : pc'[s] = "final" => pc[s] = "final"
      BY <2>1, <2>4 DEF PurgeTypeOK
    <3> QED
      BY <1>2, <2>2, <3>1 DEF SelectBatch
  <2> QED
    BY <2>3, <2>4
<1>3. CASE OutOfBudget(t)
  BY <1>3 DEF OutOfBudget, PurgeTypeOK
<1>4. CASE RemoveBatch(t)
  BY <1>4 DEF RemoveBatch, PurgeTypeOK
<1>5. CASE Drop(t)
  BY <1>5 DEF Drop, Finish, PurgeTypeOK
<1>6. CASE Clear(t)
  <2>1. requests > 0
    BY <1>6 DEF Clear, Finish
  <2> QED
    BY <1>6, <2>1 DEF Clear, Finish, PurgeTypeOK
<1>7. CASE Killed(t)
  BY <1>7 DEF Killed, PurgeTypeOK
<1> QED
  BY <1>1, <1>2, <1>3, <1>4, <1>5, <1>6, <1>7 DEF Drain

LEMMA FirstStep == FirstInv /\ PurgeTypeOK' /\ [PurgeNext]_purgeVars => FirstInv'
<1> SUFFICES ASSUME FirstInv, PurgeTypeOK', [PurgeNext]_purgeVars PROVE FirstInv'
  OBVIOUS
<1>1. CASE UNCHANGED purgeVars
  BY <1>1 DEF FirstInv, Asked, OnlyStoredCondemned, ThreadsStored, Drained, Pristine, purgeVars, tick
<1> QED
  BY <1>1, FirstRequest, FirstDrain DEF PurgeNext

\* After the first request to empty or delete a mailbox the mark is cleared, or the row
\* dropped, only when every thread the mailbox had at the request is gone, whatever
\* invocations overlap or die and whatever mail arrives meanwhile.
THEOREM FirstRequestIsDrained == PurgeSpec => FirstRequestDrains
<1>1. ASSUME FirstInv, [PurgeNext]_purgeVars, requests = 1, purge # purge', purge' \in {"null", "dropped"}
      PROVE  condemned \intersect threads = {}
  <2>1. PICK t \in Ticks : Drop(t) \/ Clear(t)
    BY <1>1 DEF PurgeNext, Drain, Mark, Recreate, Route, Store, Start, SelectBatch, OutOfBudget,
                RemoveBatch, Killed, purgeVars
  <2>2. pc[t] = "final"
    BY <2>1 DEF Drop, Clear, Finish
  <2> QED
    BY <1>1, <2>2 DEF FirstInv, Drained
<1>2. FirstInv /\ [PurgeNext]_purgeVars =>
        [requests = 1 /\ purge # purge' /\ purge' \in {"null", "dropped"} =>
           condemned \intersect threads = {}]_purgeVars
  BY <1>1
<1> QED
  BY <1>2, FirstInit, FirstStep, PurgeTypeCorrect, PTL DEF PurgeSpec, FirstRequestDrains
=============================================================================
