------------------------- MODULE ImapUidSpaceProofs -------------------------
(***************************************************************************)
(* Proofs about ImapUidSpace for every set of messages and sessions, every *)
(* chunk size and any number of changes.  The invariant that carries the   *)
(* argument is Inv: the UIDs planned by the sessions are pairwise distinct *)
(* (PlanDistinct) and none of them was ever inserted (PlanUnused), so an   *)
(* INSERT never repeats a UID; whatever a session read from the table was  *)
(* once inserted (RowsGiven, MappedGiven, ViewsGiven).                     *)
(***************************************************************************)
EXTENDS ImapUidSpace, FiniteSetTheorems, TLAPS

PlanDistinct ==
  \A s, t \in Sessions : \A m, n \in Messages :
    plan[s][m] # 0 /\ plan[s][m] = plan[t][n] => s = t /\ m = n

PlanUnused ==
  \A s \in Sessions, m \in Messages, p \in given : plan[s][m] # 0 => p[1] # plan[s][m]

RowsGiven == \A m \in Messages : uidOf[m] # 0 => <<uidOf[m], m>> \in given

MappedGiven ==
  \A s \in Sessions, m \in Messages : mapped[s][m] # 0 => <<mapped[s][m], m>> \in given

ViewsGiven ==
  \A s \in Sessions, m \in Messages : view[s][m] # 0 => <<view[s][m], m>> \in given

FolderKnown ==
  \A s \in Sessions :
    pc[s] \in {"find", "read", "assign", "insert", "failing"} => uidNext # 0

Inv ==
  /\ TypeOK
  /\ PlanDistinct
  /\ PlanUnused
  /\ RowsGiven
  /\ MappedGiven
  /\ ViewsGiven
  /\ FolderKnown
  /\ UidsBelowNext
  /\ UidNeverReused

----------------------------------------------------------------------------
(***************************************************************************)
(* Ranks number the elements of a finite set of naturals from 0, each      *)
(* element once.                                                           *)
(***************************************************************************)
LEMMA RankBound ==
  ASSUME NEW S \in SUBSET Messages, NEW m \in S
  PROVE  /\ IsFiniteSet(S)
         /\ Cardinality(S) \in Nat
         /\ Rank(m, S) \in Nat
         /\ Rank(m, S) < Cardinality(S)
<1>1. IsFiniteSet(S) /\ S \subseteq Nat
  BY FS_Subset, MessagesAssumption
<1> DEFINE below == {k \in S : k < m}
<1>2. below \in SUBSET S /\ m \notin below
  BY <1>1
<1>3. IsFiniteSet(below) /\ Cardinality(below) <= Cardinality(S)
      /\ (Cardinality(S) = Cardinality(below) => S = below)
  BY <1>1, <1>2, FS_Subset
<1>4. Cardinality(S) # Cardinality(below)
  BY <1>2, <1>3
<1>5. Cardinality(S) \in Nat /\ Cardinality(below) \in Nat
  BY <1>1, <1>3, FS_CardinalityType
<1>6. Rank(m, S) = Cardinality(below)
  BY DEF Rank
<1> QED
  BY <1>1, <1>3, <1>4, <1>5, <1>6

LEMMA RankIncreases ==
  ASSUME NEW S \in SUBSET Messages, NEW m \in S, NEW n \in S, m < n
  PROVE  Rank(m, S) < Rank(n, S)
<1>1. IsFiniteSet(S) /\ S \subseteq Nat
  BY FS_Subset, MessagesAssumption
<1> DEFINE low == {k \in S : k < m}
           high == {k \in S : k < n}
<1>2. low \in SUBSET high /\ high \in SUBSET S /\ m \in high /\ m \notin low
  <2>1. m \in Nat /\ n \in Nat
    BY <1>1
  <2>2. \A k \in S : k < m => k < n
    BY <1>1, <2>1
  <2>3. m \in high /\ m \notin low
    BY <2>1
  <2> QED
    BY <2>2, <2>3
<1>3. IsFiniteSet(high)
  BY <1>1, <1>2, FS_Subset
<1>4. IsFiniteSet(low) /\ Cardinality(low) <= Cardinality(high)
      /\ (Cardinality(high) = Cardinality(low) => high = low)
  BY <1>2, <1>3, FS_Subset
<1>5. Cardinality(low) \in Nat /\ Cardinality(high) \in Nat
  BY <1>3, <1>4, FS_CardinalityType
<1>6. Rank(m, S) = Cardinality(low) /\ Rank(n, S) = Cardinality(high)
  BY DEF Rank
<1> QED
  BY <1>2, <1>4, <1>5, <1>6

LEMMA RankInjective ==
  ASSUME NEW S \in SUBSET Messages, NEW m \in S, NEW n \in S, Rank(m, S) = Rank(n, S)
  PROVE  m = n
<1>1. m \in Nat /\ n \in Nat
  BY MessagesAssumption
<1>2. Rank(m, S) \in Nat /\ ~(Rank(m, S) < Rank(n, S)) /\ ~(Rank(n, S) < Rank(m, S))
  <2>1. Rank(m, S) \in Nat
    BY RankBound
  <2> QED
    BY <2>1
<1>3. ~(m < n)
  BY <1>2, RankIncreases
<1>4. ~(n < m)
  BY <1>2, RankIncreases
<1> QED
  BY <1>1, <1>3, <1>4

----------------------------------------------------------------------------
LEMMA InitInv == Init => Inv
  BY DEF Init, Inv, TypeOK, NoUids, PlanDistinct, PlanUnused, RowsGiven, MappedGiven,
         ViewsGiven, FolderKnown, UidsBelowNext, UidNeverReused

(***************************************************************************)
(* The steps that touch neither the table nor a plan.                      *)
(***************************************************************************)
LEMMA EnvironmentInv ==
  ASSUME Inv, NEW m \in Messages, Enter(m) \/ Leave(m) \/ Destroy(m)
  PROVE  Inv'
<1>1. CASE Enter(m)
  BY <1>1 DEF Enter, MayChange, table, local, Inv, TypeOK, PlanDistinct, PlanUnused,
     RowsGiven, MappedGiven, ViewsGiven, FolderKnown, UidsBelowNext, UidNeverReused
<1>2. CASE Leave(m)
  BY <1>2 DEF Leave, MayChange, table, local, Inv, TypeOK, PlanDistinct, PlanUnused,
     RowsGiven, MappedGiven, ViewsGiven, FolderKnown, UidsBelowNext, UidNeverReused
<1>3. CASE Destroy(m)
  BY <1>3 DEF Destroy, MayChange, table, local, Inv, TypeOK, PlanDistinct, PlanUnused,
     RowsGiven, MappedGiven, ViewsGiven, FolderKnown, UidsBelowNext, UidNeverReused
<1> QED
  BY <1>1, <1>2, <1>3

LEMMA FolderInv ==
  ASSUME Inv, NEW s \in Sessions, FindFolder(s) \/ MissFolder(s) \/ CreateFolder(s)
  PROVE  Inv'
<1>1. CASE FindFolder(s)
  BY <1>1 DEF FindFolder, StartReading, env, table, Inv, TypeOK, PlanDistinct,
     PlanUnused, RowsGiven, MappedGiven, ViewsGiven, FolderKnown, UidsBelowNext, UidNeverReused
<1>2. CASE MissFolder(s)
  BY <1>2 DEF MissFolder, env, table, local, Inv, TypeOK, PlanDistinct,
     PlanUnused, RowsGiven, MappedGiven, ViewsGiven, FolderKnown, UidsBelowNext, UidNeverReused
<1>3. CASE CreateFolder(s)
  BY <1>3 DEF CreateFolder, env, local, Inv, TypeOK, PlanDistinct,
     PlanUnused, RowsGiven, MappedGiven, ViewsGiven, FolderKnown, UidsBelowNext, UidNeverReused
<1> QED
  BY <1>1, <1>2, <1>3

LEMMA ReadInv ==
  ASSUME Inv, NEW s \in Sessions, ReadMembers(s) \/ ReadMapped(s) \/ DeleteGone(s)
  PROVE  Inv'
<1>1. CASE ReadMembers(s)
  BY <1>1 DEF ReadMembers, env, table, Inv, TypeOK, PlanDistinct,
     PlanUnused, RowsGiven, MappedGiven, ViewsGiven, FolderKnown, UidsBelowNext, UidNeverReused
<1>2. CASE ReadMapped(s)
  BY <1>2 DEF ReadMapped, env, table, Inv, TypeOK, PlanDistinct,
     PlanUnused, RowsGiven, MappedGiven, ViewsGiven, FolderKnown, UidsBelowNext, UidNeverReused
<1>3. CASE DeleteGone(s)
  BY <1>3 DEF DeleteGone, env, local, Inv, TypeOK, PlanDistinct,
     PlanUnused, RowsGiven, MappedGiven, ViewsGiven, FolderKnown, UidsBelowNext, UidNeverReused
<1> QED
  BY <1>1, <1>2, <1>3

LEMMA PublishInv ==
  ASSUME Inv, NEW s \in Sessions, PublishKnown(s) \/ PublishReread(s) \/ Abort(s)
  PROVE  Inv'
<1> USE DEF env, table, Inv, TypeOK, NoUids, PlanDistinct, PlanUnused, RowsGiven, MappedGiven,
     ViewsGiven, FolderKnown, UidsBelowNext, UidNeverReused
<1>1. CASE PublishKnown(s)
  BY <1>1 DEF PublishKnown, Publish
<1>2. CASE PublishReread(s)
  BY <1>2 DEF PublishReread, Publish
<1>3. CASE Abort(s)
  BY <1>3 DEF Abort
<1> QED
  BY <1>1, <1>2, <1>3

(***************************************************************************)
(* Reserve plans the fresh UIDs uidNext .. uidNext + n - 1: above every    *)
(* UID planned or inserted so far, and distinct because ranks are.         *)
(***************************************************************************)
LEMMA ReserveInv ==
  ASSUME Inv, NEW s \in Sessions, Reserve(s)
  PROVE  Inv'
<1> DEFINE F == Fresh(s)
           N == Cardinality(F)
<1>1. F \in SUBSET Messages /\ F # {}
  BY DEF Reserve, Fresh, Inv, TypeOK
<1>2. \A m \in F : Rank(m, F) \in Nat /\ Rank(m, F) < N /\ N \in Nat
  BY <1>1, RankBound
<1>3. N \in Nat /\ N > 0
  BY <1>1, <1>2
<1>4. \A m, n \in F : Rank(m, F) = Rank(n, F) => m = n
  BY <1>1, RankInjective
<1>5. uidNext \in Nat /\ uidNext > 0
  BY DEF Reserve, Inv, TypeOK, FolderKnown
<1> HIDE DEF N
<1>6. uidNext' = uidNext + N
  BY DEF Reserve, N
<1>7. plan' = [plan EXCEPT ![s] =
        [m \in Messages |-> IF m \in F THEN uidNext + Rank(m, F) ELSE 0]]
  BY DEF Reserve
<1> HIDE DEF F
<1>8. /\ \A m \in Messages : plan'[s][m] =
           IF m \in F THEN uidNext + Rank(m, F) ELSE 0
      /\ \A t \in Sessions \ {s} : plan'[t] = plan[t]
  BY <1>7 DEF Inv, TypeOK
<1>9. /\ UNCHANGED <<live, members, changes, uidOf, given, rows, mapped, unread, view>>
      /\ pc' = [pc EXCEPT ![s] = "insert"]
  BY DEF Reserve, env
<1>10. TypeOK'
  <2>1. [m \in Messages |-> IF m \in F THEN uidNext + Rank(m, F) ELSE 0]
          \in [Messages -> Nat]
    BY <1>2, <1>5
  <2>2. plan' \in [Sessions -> [Messages -> Nat]]
    BY <2>1, <1>7 DEF Inv, TypeOK
  <2>3. uidNext' \in Nat
    BY <1>3, <1>5, <1>6
  <2>4. pc' \in [Sessions -> {"idle", "create", "find", "read", "assign",
                              "insert", "failing"}]
    BY <1>9 DEF Inv, TypeOK
  <2> QED
    BY <1>9, <2>2, <2>3, <2>4 DEF Inv, TypeOK
<1>11. \A m \in Messages : plan'[s][m] # 0 =>
         m \in F /\ plan'[s][m] >= uidNext /\ plan'[s][m] < uidNext'
  BY <1>1, <1>2, <1>3, <1>5, <1>6, <1>8
<1>12. \A t \in Sessions \ {s}, m \in Messages :
         plan[t][m] \in Nat /\ (plan'[t][m] # 0 => plan'[t][m] < uidNext)
  BY <1>8 DEF Inv, TypeOK, UidsBelowNext
<1>13. PlanDistinct'
  <2> SUFFICES ASSUME NEW t \in Sessions, NEW u \in Sessions,
                      NEW m \in Messages, NEW n \in Messages,
                      plan'[t][m] # 0, plan'[t][m] = plan'[u][n]
               PROVE  t = u /\ m = n
    BY DEF PlanDistinct
  <2>1. CASE t = s /\ u = s
    <3>1. m \in F /\ n \in F
      BY <2>1, <1>11
    <3>2. uidNext + Rank(m, F) = uidNext + Rank(n, F)
      BY <2>1, <3>1, <1>8
    <3>3. Rank(m, F) = Rank(n, F)
      BY <3>1, <3>2, <1>2, <1>5
    <3> QED
      BY <2>1, <3>1, <3>3, <1>4
  <2>2. CASE t = s /\ u # s
    BY <2>2, <1>5, <1>11, <1>12, <1>8
  <2>3. CASE t # s /\ u = s
    BY <2>3, <1>5, <1>11, <1>12, <1>8
  <2>4. CASE t # s /\ u # s
    BY <2>4, <1>8 DEF Inv, PlanDistinct
  <2> QED
    BY <2>1, <2>2, <2>3, <2>4
<1>14. PlanUnused'
  <2> SUFFICES ASSUME NEW t \in Sessions, NEW m \in Messages, NEW p \in given,
                      plan'[t][m] # 0
               PROVE  p[1] # plan'[t][m]
    BY <1>9 DEF PlanUnused
  <2>1. p[1] \in Nat /\ p[1] < uidNext
    BY DEF Inv, TypeOK, UidsBelowNext
  <2>2. CASE t = s
    <3>1. plan'[t][m] >= uidNext /\ plan'[t][m] \in Nat
      BY <2>2, <1>11, <1>10 DEF TypeOK
    <3> QED
      BY <2>1, <3>1, <1>5
  <2>3. CASE t # s
    BY <2>3, <1>8 DEF Inv, PlanUnused
  <2> QED
    BY <2>2, <2>3
<1>15. UidsBelowNext'
  <2>1. \A p \in given : p[1] \in Nat /\ 0 < p[1] /\ p[1] < uidNext'
    BY <1>3, <1>5, <1>6 DEF Inv, TypeOK, UidsBelowNext
  <2>2. \A t \in Sessions, m \in Messages : plan'[t][m] # 0 => plan'[t][m] < uidNext'
    <3> SUFFICES ASSUME NEW t \in Sessions, NEW m \in Messages, plan'[t][m] # 0
                 PROVE  plan'[t][m] < uidNext'
      OBVIOUS
    <3>1. CASE t = s
      BY <3>1, <1>11
    <3>2. CASE t # s
      <4>1. plan'[t][m] < uidNext /\ plan'[t][m] \in Nat
        BY <3>2, <1>12, <1>10 DEF TypeOK
      <4> QED
        BY <4>1, <1>3, <1>5, <1>6
    <3> QED
      BY <3>1, <3>2
  <2> QED
    BY <2>1, <2>2, <1>9 DEF UidsBelowNext
<1>16. FolderKnown'
  BY <1>3, <1>5, <1>6 DEF FolderKnown
<1> QED
  BY <1>9, <1>10, <1>13, <1>14, <1>15, <1>16
     DEF Inv, RowsGiven, MappedGiven, ViewsGiven, UidNeverReused

(***************************************************************************)
(* An INSERT moves planned UIDs into the table; a failed one drops them.   *)
(***************************************************************************)
LEMMA InsertInv ==
  ASSUME Inv, NEW s \in Sessions, NEW c \in Nat, InsertChunk(s, c)
  PROVE  Inv'
<1> DEFINE part == Part(s, c)
           new == Inserted(s, part)
<1>1. /\ part \subseteq Messages /\ new \subseteq part
      /\ \A m \in part : plan[s][m] # 0
      /\ \A m \in new : uidOf[m] = 0
  BY DEF Part, Inserted
<1>2. /\ part \subseteq live
      /\ uidOf' = [m \in Messages |-> IF m \in new THEN plan[s][m] ELSE uidOf[m]]
      /\ given' = given \union {<<plan[s][m], m>> : m \in new}
      /\ plan' = [plan EXCEPT ![s] = [m \in Messages |-> IF m \in part THEN 0 ELSE @[m]]]
      /\ UNCHANGED <<live, members, changes, uidNext, pc, rows, mapped, unread, view>>
  BY DEF InsertChunk, Settle, env
<1> HIDE DEF part, new
<1>3. /\ \A m \in Messages : plan'[s][m] = IF m \in part THEN 0 ELSE plan[s][m]
      /\ \A t \in Sessions \ {s} : plan'[t] = plan[t]
  BY <1>2 DEF Inv, TypeOK
<1>4. \A t \in Sessions, m \in Messages : plan'[t][m] # 0 =>
        plan'[t][m] = plan[t][m] /\ ~(t = s /\ m \in part)
  BY <1>3
<1>5. TypeOK'
  <2>1. uidOf' \in [Messages -> Nat] /\ given' \in SUBSET (Nat \X Messages)
    BY <1>1, <1>2 DEF Inv, TypeOK
  <2>2. plan' \in [Sessions -> [Messages -> Nat]]
    BY <1>2 DEF Inv, TypeOK
  <2>3. \A m \in Messages : uidOf'[m] # 0 => m \in live'
    BY <1>1, <1>2 DEF Inv, TypeOK
  <2> QED
    BY <1>2, <2>1, <2>2, <2>3 DEF Inv, TypeOK
<1>6. PlanDistinct'
  BY <1>4 DEF Inv, PlanDistinct
<1>7. PlanUnused'
  <2> SUFFICES ASSUME NEW t \in Sessions, NEW m \in Messages, NEW p \in given',
                      plan'[t][m] # 0
               PROVE  p[1] # plan'[t][m]
    BY DEF PlanUnused
  <2>1. CASE p \in given
    BY <2>1, <1>4 DEF Inv, PlanUnused
  <2>2. CASE p \notin given
    <3>1. PICK n \in new : p = <<plan[s][n], n>>
      BY <2>2, <1>2
    <3>2. ~(t = s /\ m = n)
      BY <3>1, <1>1, <1>4
    <3> QED
      BY <3>1, <3>2, <1>1, <1>4 DEF Inv, PlanDistinct
  <2> QED
    BY <2>1, <2>2
<1>8. RowsGiven' /\ MappedGiven' /\ ViewsGiven'
  BY <1>1, <1>2 DEF Inv, RowsGiven, MappedGiven, ViewsGiven
<1>9. UidsBelowNext'
  <2>1. \A m \in new : plan[s][m] \in Nat /\ 0 < plan[s][m] /\ plan[s][m] < uidNext
    BY <1>1 DEF Inv, TypeOK, UidsBelowNext
  <2>2. \A p \in given' : 0 < p[1] /\ p[1] < uidNext
    BY <2>1, <1>2 DEF Inv, UidsBelowNext
  <2> QED
    BY <2>2, <1>2, <1>4 DEF Inv, UidsBelowNext
<1>10. UidNeverReused'
  <2> SUFFICES ASSUME NEW p \in given', NEW q \in given', p[1] = q[1]
               PROVE  p[2] = q[2]
    BY DEF UidNeverReused
  <2>1. \A r \in given' : r \in given \/ \E m \in new : r = <<plan[s][m], m>>
    BY <1>2
  <2>2. \A m \in new : plan[s][m] # 0 /\ m \in Messages
    BY <1>1
  <2>3. CASE p \in given /\ q \in given
    BY <2>3 DEF Inv, UidNeverReused
  <2>4. CASE p \in given /\ q \notin given
    BY <2>1, <2>2, <2>4 DEF Inv, PlanUnused
  <2>5. CASE p \notin given /\ q \in given
    BY <2>1, <2>2, <2>5 DEF Inv, PlanUnused
  <2>6. CASE p \notin given /\ q \notin given
    BY <2>1, <2>2, <2>6 DEF Inv, PlanDistinct
  <2> QED
    BY <2>3, <2>4, <2>5, <2>6
<1>11. FolderKnown'
  BY <1>2 DEF Inv, FolderKnown
<1> QED
  BY <1>5, <1>6, <1>7, <1>8, <1>9, <1>10, <1>11 DEF Inv

LEMMA ChunkFailsInv ==
  ASSUME Inv, NEW s \in Sessions, NEW c \in Nat, ChunkFails(s, c)
  PROVE  Inv'
<1>1. /\ plan' = [plan EXCEPT ![s] =
           [m \in Messages |-> IF m \in Part(s, c) THEN 0 ELSE @[m]]]
      /\ pc[s] \in {"insert", "failing"}
      /\ pc' = [pc EXCEPT ![s] = "failing"]
      /\ UNCHANGED <<live, members, changes, uidNext, uidOf, given, rows, mapped, unread, view>>
  BY DEF ChunkFails, Settle, env, table
<1>2. \A t \in Sessions, m \in Messages : plan'[t][m] # 0 => plan'[t][m] = plan[t][m]
  BY <1>1 DEF Inv, TypeOK
<1>3. TypeOK'
  BY <1>1 DEF Inv, TypeOK
<1>4. PlanDistinct' /\ PlanUnused' /\ UidsBelowNext'
  BY <1>1, <1>2 DEF Inv, PlanDistinct, PlanUnused, UidsBelowNext
<1>5. FolderKnown'
  BY <1>1 DEF Inv, TypeOK, FolderKnown
<1> QED
  BY <1>1, <1>3, <1>4, <1>5 DEF Inv, RowsGiven, MappedGiven, ViewsGiven, UidNeverReused

----------------------------------------------------------------------------
LEMMA StepInv == Inv /\ [Next]_vars => Inv'
<1> SUFFICES ASSUME Inv, [Next]_vars PROVE Inv'
  OBVIOUS
<1>1. CASE UNCHANGED vars
  BY <1>1 DEF vars, env, table, local, Inv, TypeOK, PlanDistinct, PlanUnused, RowsGiven,
     MappedGiven, ViewsGiven, FolderKnown, UidsBelowNext, UidNeverReused
<1>2. ASSUME NEW m \in Messages, Enter(m) \/ Leave(m) \/ Destroy(m) PROVE Inv'
  BY <1>2, EnvironmentInv
<1>3. ASSUME NEW s \in Sessions, SessionStep(s) PROVE Inv'
  <2>1. 0 .. Cardinality(Messages) \subseteq Nat
    BY MessagesAssumption, FS_CardinalityType
  <2> QED
    BY <1>3, <2>1, FolderInv, ReadInv, ReserveInv, InsertInv, ChunkFailsInv, PublishInv
       DEF SessionStep
<1> QED
  BY <1>1, <1>2, <1>3 DEF Next

THEOREM Invariance == Spec => []Inv
  BY InitInv, StepInv, PTL DEF Spec

\* The tables and the sessions' locals keep their types, every member is a live
\* message and every imap_uid row refers to one (the code's foreign keys).
THEOREM TypeCorrect == Spec => []TypeOK
<1>1. Inv => TypeOK
  BY DEF Inv
<1> QED
  BY <1>1, Invariance, PTL

\* No UID of the folder is ever given to two messages, whatever the sessions
\* interleave (imap_folder.uid_next reserved atomically by loadView).
THEOREM NeverReused == Spec => []UidNeverReused
<1>1. Inv => UidNeverReused
  BY DEF Inv
<1> QED
  BY <1>1, Invariance, PTL

\* UIDs in use or planned stay below uid_next.
THEOREM BelowNext == Spec => []UidsBelowNext
<1>1. Inv => UidsBelowNext
  BY DEF Inv
<1> QED
  BY <1>1, Invariance, PTL

\* The views of any two sessions, however stale, mean the same message by a UID.
THEOREM ViewsAgreement == Spec => []ViewsAgree
<1>1. Inv => ViewsAgree
  <2> SUFFICES ASSUME Inv, NEW s \in Sessions, NEW t \in Sessions,
                      NEW m \in Messages, NEW n \in Messages,
                      view[s][m] # 0, view[s][m] = view[t][n]
               PROVE  m = n
    BY DEF ViewsAgree
  <2>1. <<view[s][m], m>> \in given /\ <<view[t][n], n>> \in given
    BY DEF Inv, ViewsGiven
  <2> QED
    BY <2>1 DEF Inv, UidNeverReused
<1> QED
  BY <1>1, Invariance, PTL

----------------------------------------------------------------------------
(***************************************************************************)
(* Refinement: each step assigns unused UIDs, drops some, or stutters.     *)
(***************************************************************************)
GivenUids == {p[1] : p \in given}

LEMMA InitLedger == Init => Ledger!Init
  BY DEF Init, NoUids, Ledger!Init

LEMMA StutterLedger ==
  ASSUME UNCHANGED <<uidOf, given>>
  PROVE  [Ledger!Next]_<<uidOf, GivenUids>>
  BY DEF GivenUids

LEMMA DestroyLedger ==
  ASSUME Inv, NEW m \in Messages, Destroy(m)
  PROVE  Ledger!Drop({m})
<1>1. uidOf' = [n \in Messages |-> IF n \in {m} THEN 0 ELSE uidOf[n]]
  BY DEF Destroy, Inv, TypeOK
<1> QED
  BY <1>1 DEF Destroy, Ledger!Drop

LEMMA DeleteGoneLedger ==
  ASSUME Inv, NEW s \in Sessions, DeleteGone(s)
  PROVE  \E S \in SUBSET Messages : Ledger!Drop(S)
<1> DEFINE S == {m \in Messages : uidOf[m] \in GoneUids(s)}
<1>1. uidOf' = [m \in Messages |-> IF m \in S THEN 0 ELSE uidOf[m]]
  BY DEF DeleteGone
<1>2. UNCHANGED given
  BY DEF DeleteGone
<1>3. Ledger!Drop(S)
  BY <1>1, <1>2 DEF Ledger!Drop
<1> QED
  BY <1>3

LEMMA InsertLedger ==
  ASSUME Inv, NEW s \in Sessions, NEW c \in Nat, InsertChunk(s, c)
  PROVE  \E S \in SUBSET Messages : Ledger!Assign(S)
<1> DEFINE new == Inserted(s, Part(s, c))
<1>1. /\ new \subseteq Messages
      /\ \A m \in new : plan[s][m] # 0 /\ uidOf[m] = 0
  BY DEF Part, Inserted
<1>2. /\ uidOf' = [m \in Messages |-> IF m \in new THEN plan[s][m] ELSE uidOf[m]]
      /\ given' = given \union {<<plan[s][m], m>> : m \in new}
  BY DEF InsertChunk
<1> HIDE DEF new
<1>3. \A m \in new : uidOf'[m] = plan[s][m]
  BY <1>1, <1>2
<1>4. \A m \in new : plan[s][m] \in Nat \ (GivenUids \union {0})
  BY <1>1 DEF GivenUids, Inv, TypeOK, PlanUnused
<1>5. \A m, n \in new : plan[s][m] = plan[s][n] => m = n
  BY <1>1 DEF Inv, PlanDistinct
<1>6. GivenUids' = GivenUids \union {uidOf'[m] : m \in new}
  <2>1. \A m \in new : <<plan[s][m], m>>[1] = uidOf'[m]
    BY <1>3
  <2>2. \A p \in given' : p \in given \/ \E m \in new : p = <<plan[s][m], m>>
    BY <1>2
  <2>3. given \subseteq given' /\ \A m \in new : <<plan[s][m], m>> \in given'
    BY <1>2
  <2>4. GivenUids' \subseteq GivenUids \union {uidOf'[m] : m \in new}
    BY <2>1, <2>2 DEF GivenUids
  <2>5. GivenUids \subseteq GivenUids'
    BY <2>3 DEF GivenUids
  <2>6. {uidOf'[m] : m \in new} \subseteq GivenUids'
    BY <2>1, <2>3, Zenon DEF GivenUids
  <2> QED
    BY <2>4, <2>5, <2>6
<1>7. uidOf' = [m \in Messages |-> IF m \in new THEN uidOf'[m] ELSE uidOf[m]]
  BY <1>1, <1>2, <1>3
<1>8. Ledger!Assign(new)
  BY <1>1, <1>3, <1>4, <1>5, <1>6, <1>7 DEF GivenUids, Ledger!Assign
<1>9. new \in SUBSET Messages
  BY <1>1
<1> QED
  BY <1>8, <1>9 DEF Ledger!Assign

LEMMA StepLedger == Inv /\ [Next]_vars => [Ledger!Next]_<<uidOf, GivenUids>>
<1> SUFFICES ASSUME Inv, [Next]_vars PROVE [Ledger!Next]_<<uidOf, GivenUids>>
  OBVIOUS
<1>1. CASE UNCHANGED vars
  BY <1>1, StutterLedger DEF vars, table
<1>2. ASSUME NEW m \in Messages, Enter(m) \/ Leave(m)
      PROVE  [Ledger!Next]_<<uidOf, GivenUids>>
  BY <1>2, StutterLedger DEF Enter, Leave, table
<1>3. ASSUME NEW m \in Messages, Destroy(m)
      PROVE  [Ledger!Next]_<<uidOf, GivenUids>>
  BY <1>3, DestroyLedger DEF Ledger!Next
<1>4. ASSUME NEW s \in Sessions, SessionStep(s)
      PROVE  [Ledger!Next]_<<uidOf, GivenUids>>
  <2>1. CASE FindFolder(s) \/ MissFolder(s) \/ ReadMembers(s) \/ ReadMapped(s)
    BY <2>1, StutterLedger DEF FindFolder, MissFolder, ReadMembers, ReadMapped, table
  <2>2. CASE CreateFolder(s) \/ Reserve(s)
    BY <2>2, StutterLedger DEF CreateFolder, Reserve
  <2>3. CASE PublishKnown(s) \/ PublishReread(s) \/ Abort(s)
    BY <2>3, StutterLedger DEF PublishKnown, PublishReread, Publish, Abort, table
  <2>4. CASE DeleteGone(s)
    BY <2>4, DeleteGoneLedger DEF Ledger!Next
  <2>5. ASSUME NEW c \in 0 .. Cardinality(Messages), ChunkFails(s, c)
        PROVE  [Ledger!Next]_<<uidOf, GivenUids>>
    BY <2>5, StutterLedger DEF ChunkFails, table
  <2>6. ASSUME NEW c \in 0 .. Cardinality(Messages), InsertChunk(s, c)
        PROVE  [Ledger!Next]_<<uidOf, GivenUids>>
    <3>1. c \in Nat
      BY MessagesAssumption, FS_CardinalityType
    <3> QED
      BY <2>6, <3>1, InsertLedger DEF Ledger!Next
  <2> QED
    BY <1>4, <2>1, <2>2, <2>3, <2>4, <2>5, <2>6 DEF SessionStep
<1> QED
  BY <1>1, <1>2, <1>3, <1>4 DEF Next

\* The detailed UID space implements the ledger: every step of every session hands
\* out only UIDs nobody ever had, to messages without one.
THEOREM Refinement == Spec => ImplementsLedger
  BY InitLedger, InitInv, StepInv, StepLedger, PTL
     DEF Spec, ImplementsLedger, Ledger!Spec, GivenUids
============================================================================
