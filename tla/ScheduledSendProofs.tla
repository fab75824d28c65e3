------------------------ MODULE ScheduledSendProofs ------------------------
(***************************************************************************)
(* Proofs about ScheduledSend for any number of overlapping invocations,   *)
(* recipients, author changes and faults, with and without PGP.  Inv says  *)
(* what an invocation knows of the row it selected (RowsSelected) and of   *)
(* the copies that went out so far (CopiesOut).                            *)
(***************************************************************************)
EXTENDS MCScheduledSend, TLAPS

RowsSelected ==
  \A t \in Ticks : pc[t] # "idle" =>
    row[t] \in Drafts /\ row[t].payload \in Versions /\ row[t].attempts < MaxAttempts

RevBounded == draft.rev <= user + 1

CopiesOut ==
  \A t \in Ticks, r \in Recipients :
    \/ pc[t] \in {"finish", "uploads", "delete"}
    \/ pc[t] = "deliver" /\ ~failed[t] /\ r \notin pending[t]
    => delivered[v(t)][r] >= 1

Inv == TypeOK /\ ScheduledIsComplete /\ RowsSelected /\ RevBounded /\ CopiesOut

USE BoundsAssumption, BooleansAssumption

LEMMA InitInv == Init => Inv
<1> SUFFICES ASSUME Init PROVE Inv
  OBVIOUS
<1>1. draft \in Drafts
  BY DEF Init, Drafts, Versions
<1>2. TypeOK
  <2>1. /\ draft \in Drafts \union {NoDraft} /\ upload \in BOOLEAN /\ discarding \in BOOLEAN
        /\ user \in 0..MaxUser /\ faults \in 0..MaxFaults
    <3>1. upload \in BOOLEAN /\ discarding \in BOOLEAN
      BY BooleansAssumption DEF Init
    <3>2. user \in 0..MaxUser /\ faults \in 0..MaxFaults
      BY BoundsAssumption DEF Init
    <3> QED
      BY <1>1, <3>1, <3>2
  <2>2. pc = [t \in Ticks |-> "idle"] /\ row = [t \in Ticks |-> NoDraft]
        /\ pending = [t \in Ticks |-> {}] /\ failed = [t \in Ticks |-> FALSE]
    BY DEF Init
  <2>3. sentRows \in [Versions -> Int] /\ delivered \in [Versions -> [Recipients -> Nat]]
    BY DEF Init
  <2> QED
    BY <2>1, <2>2, <2>3 DEF TypeOK
<1>3. ScheduledIsComplete /\ RowsSelected /\ RevBounded /\ CopiesOut
  BY DEF Init, ScheduledIsComplete, RowsSelected, RevBounded, CopiesOut
<1> QED
  BY <1>2, <1>3 DEF Inv

LEMMA NoDraftOut == NoDraft \notin Drafts
  BY DEF NoDraft, Drafts

(***************************************************************************)
(* The author and the clock leave the invocations alone.                   *)
(***************************************************************************)
LEMMA DraftFrame ==
  ASSUME Inv, UNCHANGED <<cron, mail, faults>>,
         upload' \in BOOLEAN, discarding' \in BOOLEAN, user' \in 0..MaxUser,
         draft' \in Drafts \union {NoDraft}, ScheduledIsComplete', RevBounded'
  PROVE  Inv'
<1>1. TypeOK'
  BY DEF Inv, TypeOK, cron, mail
<1>2. RowsSelected' /\ CopiesOut'
  BY DEF Inv, RowsSelected, CopiesOut, v, cron, mail
<1> QED
  BY <1>1, <1>2 DEF Inv

LEMMA DraftFields ==
  ASSUME Inv, draft \in Drafts
  PROVE  /\ draft.sched \in {"no", "future", "due"} /\ draft.payload \in {0} \union Versions
         /\ draft.attempts \in 0..MaxAttempts /\ draft.error \in {0} \union Versions
         /\ draft.rev \in Versions /\ draft.rev <= user + 1 /\ user \in 0..MaxUser
         /\ draft.sched \in {"future", "due"} =>
              draft.payload # 0 /\ draft.error = 0 /\ draft.attempts < MaxAttempts
  BY DEF Inv, TypeOK, Drafts, ScheduledIsComplete, RevBounded

LEMMA AuthorInv ==
  ASSUME Inv, BecomesDue \/ Schedule \/ Cancel \/ Edit \/ DiscardUploads \/ DiscardRow
  PROVE  Inv'
<1>1. draft \in Drafts \union {NoDraft} /\ user \in Nat /\ user \in 0..MaxUser
      /\ upload \in BOOLEAN /\ discarding \in BOOLEAN
  BY DEF Inv, TypeOK
<1>2. CASE BecomesDue
  <2>1. draft \in Drafts
    BY <1>1, <1>2 DEF BecomesDue, NoDraft
  <2>2. draft' \in Drafts /\ draft'.rev = draft.rev /\ draft'.payload = draft.payload
        /\ draft'.error = draft.error /\ draft'.attempts = draft.attempts
    BY <2>1, <1>2, DraftFields DEF BecomesDue, Drafts
  <2>3. ScheduledIsComplete' /\ RevBounded'
    BY <2>1, <2>2, <1>2, DraftFields DEF BecomesDue, ScheduledIsComplete, RevBounded
  <2> QED
    BY <2>2, <2>3, <1>1, <1>2, DraftFrame DEF BecomesDue
<1>3. CASE Schedule \/ Cancel
  <2>1. draft \in Drafts /\ user < MaxUser /\ user' = user + 1
    BY <1>1, <1>3 DEF Schedule, Cancel, UserActs, Exists
  <2>2. draft.rev + 1 \in Versions /\ draft.rev + 1 <= user' + 1 /\ user' \in 0..MaxUser
    BY <2>1, <1>1, DraftFields DEF Versions
  <2>3. draft' \in Drafts /\ draft'.rev = draft.rev + 1
    BY <2>2, <1>3 DEF Schedule, Cancel, Drafts
  <2>4. ScheduledIsComplete' /\ RevBounded'
    BY <2>2, <2>3, <1>3 DEF Schedule, Cancel, ScheduledIsComplete, RevBounded, Versions
  <2> QED
    BY <2>2, <2>3, <2>4, <1>1, <1>3, DraftFrame DEF Schedule, Cancel
<1>4. CASE Edit
  <2>1. draft \in Drafts /\ user < MaxUser /\ user' = user + 1
    BY <1>1, <1>4 DEF Edit, UserActs, Exists
  <2>2. draft.rev + 1 \in Versions /\ draft.rev + 1 <= user' + 1 /\ user' \in 0..MaxUser
    BY <2>1, <1>1, DraftFields DEF Versions
  <2>3. draft' \in Drafts /\ draft'.rev = draft.rev + 1 /\ draft'.payload = draft.payload
        /\ draft'.error = draft.error /\ draft'.attempts = draft.attempts
        /\ draft'.sched = draft.sched
    BY <2>1, <2>2, <1>4 DEF Edit, Drafts
  <2>4. ScheduledIsComplete' /\ RevBounded'
    BY <2>1, <2>2, <2>3, DraftFields DEF ScheduledIsComplete, RevBounded
  <2> QED
    BY <2>2, <2>3, <2>4, <1>1, <1>4, DraftFrame DEF Edit
<1>5. CASE DiscardUploads
  <2>1. user' \in 0..MaxUser /\ user' = user + 1
    BY <1>1, <1>5 DEF DiscardUploads, UserActs
  <2>2. ScheduledIsComplete' /\ RevBounded'
    <3>1. RevBounded'
      <4>1. draft.rev \in Nat
        BY <1>1 DEF Drafts, NoDraft, Versions
      <4> QED
        BY <4>1, <2>1, <1>1, <1>5 DEF DiscardUploads, Inv, RevBounded
    <3> QED
      BY <3>1, <1>5 DEF DiscardUploads, Inv, ScheduledIsComplete
  <2> QED
    BY <2>1, <2>2, <1>1, <1>5, DraftFrame DEF DiscardUploads
<1>6. CASE DiscardRow
  <2>1. ScheduledIsComplete' /\ RevBounded'
    BY <1>1, <1>6 DEF DiscardRow, NoDraft, ScheduledIsComplete, RevBounded
  <2> QED
    BY <2>1, <1>1, <1>6, DraftFrame DEF DiscardRow
<1> QED
  BY <1>2, <1>3, <1>4, <1>5, <1>6

(***************************************************************************)
(* The steps of an invocation.  Most of them move its pc and leave the     *)
(* draft, the selected rows and the mailboxes of the recipients alone.     *)
(***************************************************************************)
Places == {"compose", "persist", "attach", "deliver", "finish", "rollback", "uploads",
           "delete", "catch"}

LEMMA MoveInv ==
  ASSUME Inv, NEW t \in Ticks, NEW to \in Places, pc[t] # "idle",
         pc' = [pc EXCEPT ![t] = to],
         UNCHANGED <<draft, row, delivered, user, discarding>>,
         upload' \in BOOLEAN, pending' \in [Ticks -> SUBSET Recipients],
         failed' \in [Ticks -> BOOLEAN], sentRows' \in [Versions -> Int],
         faults' \in 0..MaxFaults, CopiesOut'
  PROVE  Inv'
<1>1. TypeOK'
  BY DEF Inv, TypeOK, Places
<1>2. ScheduledIsComplete' /\ RevBounded'
  BY DEF Inv, ScheduledIsComplete, RevBounded
<1>3. RowsSelected'
  BY DEF Inv, TypeOK, RowsSelected
<1> QED
  BY <1>1, <1>2, <1>3 DEF Inv

\* A move to a place where nothing is claimed of the copies, or that carries the claim.
LEMMA SilentMoveInv ==
  ASSUME Inv, NEW t \in Ticks, NEW to \in Places, pc[t] # "idle",
         pc' = [pc EXCEPT ![t] = to],
         UNCHANGED <<draft, row, delivered, user, discarding, pending, failed>>,
         upload' \in BOOLEAN, sentRows' \in [Versions -> Int], faults' \in 0..MaxFaults,
         \/ to \notin {"finish", "uploads", "delete", "deliver"}
         \/ pc[t] \in {"finish", "uploads"} /\ to \in {"uploads", "delete"}
         \/ pc[t] = "deliver" /\ to = "finish" /\ ~failed[t] /\ pending[t] = {}
  PROVE  Inv'
<1>1. CopiesOut'
  BY DEF Inv, TypeOK, CopiesOut, v
<1> QED
  BY <1>1, MoveInv DEF Inv, TypeOK

LEMMA VersionOfRow ==
  ASSUME Inv, NEW t \in Ticks, pc[t] # "idle"
  PROVE  v(t) \in Versions
  BY DEF Inv, RowsSelected, v

LEMMA ComposeInv ==
  ASSUME Inv, NEW t \in Ticks,
         \/ Compose(t) \/ ComposeFails(t) \/ AttachFails(t) \/ RollbackFails(t)
         \/ LateFailure(t) \/ Finish(t) \/ DropUploads(t) \/ Delivered(t)
  PROVE  Inv'
<1> USE DEF Places, Goto, Fault
<1>1. pc \in [Ticks -> Places \union {"idle"}] /\ faults \in 0..MaxFaults
      /\ upload \in BOOLEAN /\ sentRows \in [Versions -> Int]
  BY DEF Inv, TypeOK
<1>0. ASSUME NEW to \in Places, pc[t] # "idle", pc' = [pc EXCEPT ![t] = to],
             UNCHANGED <<draft, discarding, row, pending, failed, mail, user>>,
             upload' \in BOOLEAN, faults' \in 0..MaxFaults,
             \/ to \notin {"finish", "uploads", "delete", "deliver"}
             \/ pc[t] \in {"finish", "uploads"} /\ to \in {"uploads", "delete"}
             \/ pc[t] = "deliver" /\ to = "finish" /\ ~failed[t] /\ pending[t] = {}
      PROVE  Inv'
  <2>1. sentRows' \in [Versions -> Int] /\ delivered' = delivered
    BY <1>0, <1>1 DEF mail
  <2> QED
    BY <1>0, <2>1, SilentMoveInv
<1>2. CASE Compose(t)
  BY <1>0, <1>1, <1>2 DEF Compose
<1>3. CASE ComposeFails(t)
  BY <1>0, <1>1, <1>3 DEF ComposeFails
<1>4. CASE AttachFails(t)
  BY <1>0, <1>1, <1>4 DEF AttachFails
<1>5. CASE RollbackFails(t)
  BY <1>0, <1>1, <1>5 DEF RollbackFails
<1>6. CASE LateFailure(t)
  BY <1>0, <1>1, <1>6 DEF LateFailure
<1>7. CASE Finish(t)
  BY <1>0, <1>1, <1>7 DEF Finish
<1>8. CASE DropUploads(t)
  BY <1>0, <1>1, <1>8 DEF DropUploads
<1>9. CASE Delivered(t)
  <2>1. CASE failed[t]
    BY <1>0, <1>1, <1>9, <2>1 DEF Delivered
  <2>2. CASE ~failed[t]
    BY <1>0, <1>1, <1>9, <2>2 DEF Delivered
  <2> QED
    BY <2>1, <2>2
<1> QED
  BY <1>2, <1>3, <1>4, <1>5, <1>6, <1>7, <1>8, <1>9

LEMMA StoreInv ==
  ASSUME Inv, NEW t \in Ticks, Persist(t) \/ PersistFails(t) \/ Rollback(t)
  PROVE  Inv'
<1>1. pc[t] # "idle" /\ faults' \in 0..MaxFaults
  BY DEF Persist, PersistFails, Rollback, Goto, Fault, Inv, TypeOK
<1>2. v(t) \in Versions
  BY <1>1, VersionOfRow
<1>3. sentRows' \in [Versions -> Int]
  BY <1>2 DEF Persist, PersistFails, Rollback, Inv, TypeOK
<1> QED
  BY <1>1, <1>3, SilentMoveInv
     DEF Persist, PersistFails, Rollback, Goto, Places, Inv, TypeOK

LEMMA AttachInv ==
  ASSUME Inv, NEW t \in Ticks, Attach(t)
  PROVE  Inv'
<1>1. pc[t] = "attach" /\ pc' = [pc EXCEPT ![t] = "deliver"]
      /\ UNCHANGED <<draft, upload, discarding, row, sentRows, delivered, user, faults>>
  BY DEF Attach, Goto, mail
<1>2. pending' \in [Ticks -> SUBSET Recipients] /\ failed' \in [Ticks -> BOOLEAN]
  BY DEF Attach, Inv, TypeOK
<1>3. CopiesOut'
  BY <1>1 DEF Attach, Inv, TypeOK, CopiesOut, v
<1> QED
  BY <1>1, <1>2, <1>3, MoveInv DEF Inv, TypeOK, Places

LEMMA DeliverInv ==
  ASSUME Inv, NEW t \in Ticks, Deliver(t) \/ DeliverFails(t)
  PROVE  Inv'
<1>1. pc[t] \in {"deliver", "rollback", "catch"} /\ v(t) \in Versions
  BY VersionOfRow DEF Deliver, DeliverFails, Sending
<1>2. PICK b \in Batch(t) :
        /\ pending' = [pending EXCEPT ![t] = @ \ b]
        /\ \/ /\ failed' = failed
              /\ delivered' = [delivered EXCEPT ![v(t)] =
                   [r \in Recipients |-> IF r \in b THEN @[r] + 1 ELSE @[r]]]
           \/ failed' = [failed EXCEPT ![t] = TRUE] /\ delivered' = delivered
  BY DEF Deliver, DeliverFails, mail
<1>3. UNCHANGED <<draft, upload, discarding, pc, row, sentRows, user, faults>>
  BY DEF Deliver, DeliverFails, mail
<1>4. delivered \in [Versions -> [Recipients -> Nat]]
      /\ pending \in [Ticks -> SUBSET Recipients] /\ failed \in [Ticks -> BOOLEAN]
  BY DEF Inv, TypeOK
<1>5. delivered' \in [Versions -> [Recipients -> Nat]]
  BY <1>1, <1>2, <1>4
<1>6. pending' \in [Ticks -> SUBSET Recipients] /\ failed' \in [Ticks -> BOOLEAN]
  BY <1>2, <1>4
<1>7. \A x \in Versions, r \in Recipients : delivered'[x][r] >= delivered[x][r]
  BY <1>1, <1>2, <1>4
<1>8. CopiesOut'
  <2> SUFFICES ASSUME NEW s \in Ticks, NEW r \in Recipients,
                      \/ pc[s] \in {"finish", "uploads", "delete"}
                      \/ pc[s] = "deliver" /\ ~failed'[s] /\ r \notin pending'[s]
               PROVE  delivered'[v(s)][r] >= 1
    BY <1>3 DEF CopiesOut, v
  <2>1. v(s) \in Versions
    BY VersionOfRow
  <2>2. CASE s = t
    <3>1. pc[t] = "deliver" /\ ~failed'[t] /\ r \notin pending'[t]
      BY <1>1, <2>2
    <3>2. /\ failed' = failed
          /\ delivered' = [delivered EXCEPT ![v(t)] =
               [x \in Recipients |-> IF x \in b THEN @[x] + 1 ELSE @[x]]]
      BY <1>2, <1>4, <3>1
    <3>3. CASE r \in b
      BY <1>1, <1>4, <2>2, <3>2, <3>3
    <3>4. CASE r \notin pending[t]
      <4>1. delivered[v(t)][r] >= 1
        BY <1>1, <3>1, <3>2, <3>4 DEF Inv, CopiesOut
      <4> QED
        BY <4>1, <1>1, <1>4, <1>5, <1>7, <2>2
    <3> QED
      BY <1>2, <1>4, <3>1, <3>3, <3>4
  <2>3. CASE s # t
    <3>1. failed'[s] = failed[s] /\ pending'[s] = pending[s]
      BY <1>2, <1>4, <2>3
    <3>2. delivered[v(s)][r] >= 1
      BY <3>1 DEF Inv, CopiesOut
    <3> QED
      BY <3>2, <2>1, <1>4, <1>5, <1>7
  <2> QED
    BY <2>2, <2>3
<1>9. TypeOK'
  BY <1>3, <1>5, <1>6 DEF Inv, TypeOK
<1>10. ScheduledIsComplete' /\ RowsSelected' /\ RevBounded'
  BY <1>3 DEF Inv, ScheduledIsComplete, RowsSelected, RevBounded
<1> QED
  BY <1>8, <1>9, <1>10 DEF Inv

(***************************************************************************)
(* An invocation ends: it deletes the draft, counts a failure or is killed.*)
(***************************************************************************)
LEMMA EndInv ==
  ASSUME Inv, NEW t \in Ticks, pc' = [pc EXCEPT ![t] = "idle"],
         row' = [row EXCEPT ![t] = NoDraft],
         pending' \in [Ticks -> SUBSET Recipients],
         \A s \in Ticks : s # t => pending'[s] = pending[s],
         UNCHANGED <<upload, discarding, failed, mail, user>>,
         faults' \in 0..MaxFaults, draft' \in Drafts \union {NoDraft},
         ScheduledIsComplete', RevBounded'
  PROVE  Inv'
<1>1. TypeOK'
  BY DEF Inv, TypeOK, mail
<1>2. RowsSelected' /\ CopiesOut'
  BY DEF Inv, TypeOK, RowsSelected, CopiesOut, v, mail
<1> QED
  BY <1>1, <1>2 DEF Inv

LEMMA KilledInv ==
  ASSUME Inv, NEW t \in Ticks, Killed(t)
  PROVE  Inv'
<1>1. pending' \in [Ticks -> SUBSET Recipients] /\ faults' \in 0..MaxFaults
      /\ \A s \in Ticks : s # t => pending'[s] = pending[s]
  BY DEF Inv, TypeOK, Killed, Fault, Done
<1>2. draft' \in Drafts \union {NoDraft} /\ ScheduledIsComplete' /\ RevBounded'
  BY DEF Inv, TypeOK, Killed, ScheduledIsComplete, RevBounded
<1> QED
  BY <1>1, <1>2, EndInv DEF Killed, Done

LEMMA SettleInv ==
  ASSUME Inv, NEW t \in Ticks, DropDraft(t) \/ Retry(t) \/ Revert(t)
  PROVE  Inv'
<1>1. /\ pc[t] # "idle" /\ pc' = [pc EXCEPT ![t] = "idle"]
      /\ row' = [row EXCEPT ![t] = NoDraft]
      /\ UNCHANGED <<upload, discarding, failed, mail, user, faults>>
  BY DEF DropDraft, Retry, Revert, Goto, Done
<1>9. pending' \in [Ticks -> SUBSET Recipients] /\ faults \in 0..MaxFaults
      /\ \A s \in Ticks : s # t => pending'[s] = pending[s]
  BY DEF DropDraft, Retry, Revert, Done, Inv, TypeOK
<1>2. row[t] \in Drafts /\ v(t) \in Versions /\ row[t].attempts < MaxAttempts
  BY <1>1 DEF Inv, RowsSelected, v
<1>3. row[t].attempts \in 0..MaxAttempts
  BY <1>2 DEF Drafts
<1>4. Attempts(t) \in 1..MaxAttempts
  BY <1>2, <1>3 DEF Attempts
<1>5. draft \in Drafts \union {NoDraft} /\ user \in Nat
  BY DEF Inv, TypeOK
<1>6. CASE draft' = NoDraft
  <2>1. ScheduledIsComplete' /\ RevBounded'
    BY <1>1, <1>5, <1>6 DEF NoDraft, ScheduledIsComplete, RevBounded
  <2> QED
    BY <1>1, <1>6, <2>1, <1>9, EndInv
<1>7. CASE Retry(t) /\ draft # NoDraft
  <2>1. draft \in Drafts /\ draft' = [draft EXCEPT !.attempts = Attempts(t)]
        /\ Attempts(t) < MaxAttempts
    BY <1>5, <1>7 DEF Retry, Exists
  <2>2. draft' \in Drafts /\ draft'.sched = draft.sched /\ draft'.payload = draft.payload
        /\ draft'.error = draft.error /\ draft'.rev = draft.rev
        /\ draft'.attempts = Attempts(t)
    BY <1>4, <2>1 DEF Drafts
  <2>3. ScheduledIsComplete' /\ RevBounded'
    BY <1>1, <2>1, <2>2, DraftFields DEF ScheduledIsComplete, RevBounded
  <2> QED
    BY <1>1, <2>2, <2>3, <1>9, EndInv
<1>8. CASE Revert(t) /\ draft # NoDraft
  <2>1. draft \in Drafts
        /\ draft' = [draft EXCEPT !.sched = "no", !.payload = 0,
                        !.attempts = Attempts(t), !.error = v(t)]
    BY <1>5, <1>8 DEF Revert, Exists
  <2>2. draft' \in Drafts /\ draft'.sched = "no" /\ draft'.rev = draft.rev
    <3>1. Attempts(t) \in 0..MaxAttempts /\ v(t) \in {0} \union Versions
      BY <1>2, <1>4
    <3> QED
      BY <2>1, <3>1 DEF Drafts
  <2>3. ScheduledIsComplete' /\ RevBounded'
    BY <1>1, <2>1, <2>2, DraftFields DEF ScheduledIsComplete, RevBounded
  <2> QED
    BY <1>1, <2>2, <2>3, <1>9, EndInv
<1> QED
  BY <1>6, <1>7, <1>8 DEF DropDraft, Retry, Revert, Exists

LEMMA SelectInv ==
  ASSUME Inv, NEW t \in Ticks, Select(t)
  PROVE  Inv'
<1>1. pc' = [pc EXCEPT ![t] = "compose"] /\ row' = [row EXCEPT ![t] = draft]
      /\ UNCHANGED <<draft, upload, discarding, pending, failed, mail, user, faults>>
      /\ draft.sched = "due" /\ pc[t] = "idle"
  BY DEF Select, Goto
<1>2. draft \in Drafts
  BY <1>1 DEF Inv, TypeOK, NoDraft
<1>3. draft.payload \in Versions /\ draft.attempts < MaxAttempts
  BY <1>1, <1>2, DraftFields
<1>4. TypeOK'
  BY <1>1, <1>2 DEF Inv, TypeOK, mail
<1>5. ScheduledIsComplete' /\ RevBounded'
  BY <1>1 DEF Inv, ScheduledIsComplete, RevBounded
<1>6. RowsSelected' /\ CopiesOut'
  BY <1>1, <1>2, <1>3 DEF Inv, TypeOK, RowsSelected, CopiesOut, v, mail
<1> QED
  BY <1>4, <1>5, <1>6 DEF Inv

LEMMA StepInv == Inv /\ [Next]_vars => Inv'
<1> SUFFICES ASSUME Inv, [Next]_vars PROVE Inv'
  OBVIOUS
<1>1. CASE BecomesDue \/ Schedule \/ Cancel \/ Edit \/ DiscardUploads \/ DiscardRow
  BY <1>1, AuthorInv
<1>2. CASE \E t \in Ticks : Proceed(t) \/ Killed(t)
  BY <1>2, ComposeInv, StoreInv, AttachInv, DeliverInv, SettleInv, SelectInv, KilledInv
     DEF Proceed
<1>3. CASE UNCHANGED vars
  BY <1>3 DEF vars, cron, mail, Inv, TypeOK, ScheduledIsComplete, RowsSelected, RevBounded,
              CopiesOut, v
<1> QED
  BY <1>1, <1>2, <1>3 DEF Next

LEMMA Invariance == Spec => []Inv
<1>1. Init => Inv
  BY InitInv
<1>2. Inv /\ [Next]_vars => Inv'
  BY StepInv
<1> QED
  BY <1>1, <1>2, PTL DEF Spec

\* Every reachable state has the declared types.
THEOREM TypeCorrect == Spec => []TypeOK
<1>1. Inv => TypeOK
  BY DEF Inv
<1> QED
  BY <1>1, Invariance, PTL

\* A scheduled row has its payload, no error and an attempt to spare, however the
\* author's and the invocations' blind writes interleave.
THEOREM ScheduledRowComplete == Spec => []ScheduledIsComplete
<1>1. Inv => ScheduledIsComplete
  BY DEF Inv
<1> QED
  BY <1>1, Invariance, PTL

\* An invocation deletes the draft only after every recipient got the payload it
\* selected, whatever failed or was killed before.
THEOREM DroppedWasDelivered == Spec => DroppedAfterDelivery
<1>1. Inv => (\A t \in Ticks : DropDraft(t) =>
                \A r \in Recipients : delivered[v(t)][r] >= 1)
  BY DEF Inv, CopiesOut, DropDraft, Goto
<1>2. Inv /\ [Next]_vars =>
        [\A t \in Ticks : DropDraft(t) =>
           \A r \in Recipients : delivered[v(t)][r] >= 1]_vars
  BY <1>1
<1> QED
  BY <1>2, Invariance, PTL DEF Spec, DroppedAfterDelivery

(***************************************************************************)
(* What holds until an overlap or a failure with somebody served: one      *)
(* invocation at most is running; a copy is the first of its payload and,  *)
(* unless the draft is gone, its invocation is about to delete it; and the *)
(* author is told of no failure meanwhile.  While no statement failed      *)
(* either, the Sent folder holds the row of the running attempt and        *)
(* nothing else, until the draft is gone.                                  *)
(***************************************************************************)
Alone == \A t, u \in Ticks : pc[t] # "idle" /\ pc[u] # "idle" => t = u

\* Sends are under way while the attempt waits for them, or after it gave up on them.
Outstanding ==
  \A t \in Ticks : pending[t] # {} =>
    pc[t] = "deliver" \/ (pc[t] \in {"rollback", "catch"} /\ failed[t])

Delivering(t, x, r) ==
  /\ pc[t] \in {"deliver", "finish", "uploads", "delete"}
  /\ ~failed[t]
  /\ x = v(t)
  /\ r \notin pending[t]

OneCopy ==
  \A x \in Versions, r \in Recipients : delivered[x][r] > 0 =>
    /\ delivered[x][r] = 1
    /\ (Quiet /\ draft = NoDraft) \/ \E t \in Ticks : Delivering(t, x, r)

NothingReported == \A t \in Ticks : pc[t] # "idle" => draft.error = 0

InSent(t, x) ==
  x = v(t) /\ pc[t] \in {"attach", "deliver", "finish", "uploads", "delete", "rollback"}

RowOfAttempt ==
  \A t \in Ticks : pc[t] # "idle" =>
    \A x \in Versions : sentRows[x] = IF InSent(t, x) THEN 1 ELSE 0

NoRowLeft == Quiet /\ draft # NoDraft => \A x \in Versions : sentRows[x] = 0

Rows == faults = 0 => RowOfAttempt /\ NoRowLeft /\ SentFolderTruthful

OnceInv == Alone /\ OneCopy /\ NothingReported /\ Rows

MCInv == Inv /\ Outstanding /\ excused \in BOOLEAN /\ (~excused => OnceInv)

Author == BecomesDue \/ Schedule \/ Cancel \/ Edit \/ DiscardUploads \/ DiscardRow

LEMMA AuthorFrame ==
  ASSUME Inv, Author
  PROVE  /\ UNCHANGED <<cron, mail, faults>>
         /\ draft = NoDraft => draft' = NoDraft
         /\ draft'.error \in {0, draft.error}
  BY DEF Author, BecomesDue, Schedule, Cancel, Edit, DiscardUploads, DiscardRow, UserActs,
         Exists, NoDraft, Inv, TypeOK, Drafts

\* What every step of an invocation leaves alone.
LEMMA TickFrame ==
  ASSUME Inv, NEW t \in Ticks, Proceed(t) \/ Killed(t)
  PROVE  /\ \A s \in Ticks : s # t =>
              pc'[s] = pc[s] /\ row'[s] = row[s] /\ pending'[s] = pending[s]
              /\ failed'[s] = failed[s]
         /\ pc[t] = "idle" => Select(t)
         /\ draft' # draft => pc'[t] = "idle"
<1> USE DEF Goto, Done
<1>1. CASE Select(t) \/ Compose(t) \/ ComposeFails(t) \/ Persist(t) \/ PersistFails(t)
  BY <1>1 DEF Select, Compose, ComposeFails, Persist, PersistFails, Inv, TypeOK
<1>2. CASE Attach(t) \/ AttachFails(t) \/ Delivered(t) \/ Rollback(t) \/ RollbackFails(t)
  BY <1>2 DEF Attach, AttachFails, Delivered, Rollback, RollbackFails, Inv, TypeOK
<1>3. CASE Deliver(t) \/ DeliverFails(t)
  BY <1>3 DEF Deliver, DeliverFails, Sending, Inv, TypeOK
<1>4. CASE Finish(t) \/ DropUploads(t) \/ LateFailure(t)
  BY <1>4 DEF Finish, DropUploads, LateFailure, Inv, TypeOK
<1>5. CASE DropDraft(t) \/ Retry(t) \/ Revert(t) \/ Killed(t)
  BY <1>5 DEF DropDraft, Retry, Revert, Killed, Inv, TypeOK
<1> QED
  BY <1>1, <1>2, <1>3, <1>4, <1>5 DEF Proceed

LEMMA OutstandingStep ==
  ASSUME Inv, Outstanding, [Next]_vars
  PROVE  Outstanding'
<1> USE DEF Goto, Done
<1>1. CASE Author \/ UNCHANGED vars
  BY <1>1, AuthorFrame DEF vars, cron, Outstanding
<1>2. ASSUME NEW t \in Ticks, Proceed(t) \/ Killed(t)
      PROVE  Outstanding'
  <2>1. \A s \in Ticks : s # t =>
          pc'[s] = pc[s] /\ pending'[s] = pending[s] /\ failed'[s] = failed[s]
    BY <1>2, TickFrame
  <2>2. pending'[t] # {} =>
          pc'[t] = "deliver" \/ (pc'[t] \in {"rollback", "catch"} /\ failed'[t])
    <3>1. CASE Select(t) \/ Compose(t) \/ ComposeFails(t) \/ Persist(t) \/ PersistFails(t)
      BY <3>1 DEF Select, Compose, ComposeFails, Persist, PersistFails, Inv, TypeOK,
                  Outstanding
    <3>2. CASE Attach(t) \/ AttachFails(t) \/ Rollback(t) \/ RollbackFails(t)
      BY <3>2 DEF Attach, AttachFails, Rollback, RollbackFails, Inv, TypeOK, Outstanding
    <3>3. CASE Delivered(t)
      BY <3>3 DEF Delivered, Inv, TypeOK, Outstanding
    <3>4. CASE Deliver(t) \/ DeliverFails(t)
      <4>1. pc'[t] = pc[t] /\ pc[t] \in {"deliver", "rollback", "catch"}
            /\ (failed[t] => failed'[t])
        BY <3>4 DEF Deliver, DeliverFails, Sending, Inv, TypeOK
      <4>2. pending[t] # {}
        BY <3>4 DEF Deliver, DeliverFails, Batch
      <4> QED
        BY <4>1, <4>2 DEF Outstanding
    <3>5. CASE Finish(t) \/ DropUploads(t) \/ LateFailure(t)
      BY <3>5 DEF Finish, DropUploads, LateFailure, Inv, TypeOK, Outstanding
    <3>6. CASE DropDraft(t) \/ Retry(t) \/ Revert(t) \/ Killed(t)
      BY <3>6 DEF DropDraft, Retry, Revert, Killed, Inv, TypeOK, Outstanding
    <3> QED
      BY <1>2, <3>1, <3>2, <3>3, <3>4, <3>5, <3>6 DEF Proceed
  <2> QED
    BY <2>1, <2>2 DEF Outstanding
<1> QED
  BY <1>1, <1>2 DEF Next, Author

(***************************************************************************)
(* One step of the only invocation that runs.                              *)
(***************************************************************************)
LEMMA AuthorOnce ==
  ASSUME Inv, OnceInv, Author
  PROVE  OnceInv'
<1> USE AuthorFrame DEF cron, mail
<1>1. Alone' /\ Quiet' = Quiet
  BY DEF OnceInv, Alone, Quiet
<1>2. NothingReported'
  BY DEF OnceInv, NothingReported
<1>3. \A t \in Ticks, x \in Versions, r \in Recipients :
        Delivering(t, x, r)' = Delivering(t, x, r)
  BY DEF Delivering, v
<1>4. OneCopy'
  BY <1>1, <1>3 DEF OnceInv, OneCopy
<1>5. Rows'
  BY <1>1 DEF OnceInv, Rows, RowOfAttempt, NoRowLeft, SentFolderTruthful, InSent, v
<1> QED
  BY <1>1, <1>2, <1>4, <1>5 DEF OnceInv

\* A step within an attempt: the copies that are out stay on their way to DropDraft.
LEMMA WithinOnce ==
  ASSUME Inv, OnceInv, NEW t \in Ticks, pc[t] # "idle", pc'[t] # "idle",
         \A s \in Ticks : s # t => pc[s] = "idle" /\ pc'[s] = "idle",
         UNCHANGED <<draft, row, delivered>>,
         \A x \in Versions, r \in Recipients :
           delivered[x][r] > 0 /\ Delivering(t, x, r) => Delivering(t, x, r)',
         faults' = 0 => \A x \in Versions : sentRows'[x] = IF InSent(t, x)' THEN 1 ELSE 0
  PROVE  OnceInv'
<1>1. Alone' /\ ~Quiet /\ ~Quiet'
  BY DEF Alone, Quiet
<1>2. NothingReported'
  BY DEF OnceInv, NothingReported
<1>3. OneCopy'
  <2> SUFFICES ASSUME NEW x \in Versions, NEW r \in Recipients, delivered[x][r] > 0
               PROVE  delivered[x][r] = 1 /\ \E s \in Ticks : Delivering(s, x, r)'
    BY DEF OneCopy
  <2>1. delivered[x][r] = 1 /\ \E s \in Ticks : Delivering(s, x, r)
    BY <1>1 DEF OnceInv, OneCopy
  <2>2. Delivering(t, x, r)
    BY <2>1 DEF Delivering
  <2> QED
    BY <2>1, <2>2
<1>4. Rows'
  BY <1>1 DEF Rows, RowOfAttempt, NoRowLeft, SentFolderTruthful
<1> QED
  BY <1>1, <1>2, <1>3, <1>4 DEF OnceInv

\* A step that ends the attempt, when nobody has the mail.
LEMMA NobodyOnce ==
  ASSUME Inv, OnceInv, NEW t \in Ticks, pc'[t] = "idle",
         \A s \in Ticks : s # t => pc[s] = "idle" /\ pc'[s] = "idle",
         \A x \in Versions, r \in Recipients : delivered'[x][r] = 0,
         faults' = 0 => \A x \in Versions : sentRows'[x] = 0
  PROVE  OnceInv'
<1>1. Alone' /\ Quiet' /\ NothingReported' /\ OneCopy'
  BY DEF Alone, Quiet, NothingReported, OneCopy
<1>2. Rows'
  BY DEF Rows, RowOfAttempt, NoRowLeft, SentFolderTruthful, Quiet
<1> QED
  BY <1>1, <1>2 DEF OnceInv

LEMMA TickOnce ==
  ASSUME Inv, Inv', Outstanding, OnceInv, NEW t \in Ticks, Proceed(t) \/ Killed(t),
         Alone', ~PartlyServed', faults' = faults \/ ~Served
  PROVE  OnceInv'
<1> USE DEF Goto, Fault
<1>1. \A s \in Ticks : s # t => pc[s] = "idle" /\ pc'[s] = "idle"
  <2>1. pc[t] # "idle" \/ pc'[t] # "idle"
    BY TickFrame DEF Select, Inv, TypeOK
  <2> QED
    BY <2>1, TickFrame DEF Alone, OnceInv
<1>2. \A x \in Versions, r \in Recipients :
        delivered[x][r] \in Nat /\ delivered'[x][r] \in Nat
        /\ (delivered[x][r] > 0 => Served)
  BY DEF Inv, TypeOK, Served
<1>3. pc[t] # "idle" => v(t) \in Versions
  BY VersionOfRow
<1>4. pc[t] # "idle" => \A x \in Versions, r \in Recipients :
        delivered[x][r] > 0 => delivered[x][r] = 1 /\ Delivering(t, x, r)
  BY <1>1 DEF OnceInv, OneCopy, Delivering, Quiet
<1>5. pc[t] # "idle" /\ faults = 0 =>
        \A x \in Versions : sentRows[x] = IF InSent(t, x) THEN 1 ELSE 0
  BY DEF OnceInv, Rows, RowOfAttempt
<1>6. faults \in Nat /\ sentRows \in [Versions -> Int]
  BY DEF Inv, TypeOK
<1>7. CASE Select(t)
  <2>1. /\ pc[t] = "idle" /\ pc' = [pc EXCEPT ![t] = "compose"] /\ draft' = draft
        /\ draft.sched = "due" /\ draft # NoDraft
        /\ sentRows' = sentRows /\ delivered' = delivered /\ faults' = faults
    BY <1>7 DEF Select, mail, NoDraft
  <2>2. pc'[t] = "compose"
    BY <2>1 DEF Inv, TypeOK
  <2>3. \A x \in Versions, r \in Recipients : ~(delivered[x][r] > 0)
    BY <1>1, <2>1 DEF OnceInv, OneCopy, Delivering
  <2>4. OneCopy'
    BY <2>1, <2>3 DEF OneCopy
  <2>5. NothingReported'
    BY <2>1 DEF NothingReported, Inv, ScheduledIsComplete
  <2>6. Rows'
    <3>1. ~Quiet' /\ Quiet
      BY <1>1, <2>1, <2>2 DEF Quiet
    <3>2. faults = 0 => \A x \in Versions : sentRows[x] = 0
      BY <2>1, <3>1 DEF OnceInv, Rows, NoRowLeft
    <3>3. faults' = 0 => RowOfAttempt'
      BY <3>2, <2>1, <2>2, <1>1 DEF RowOfAttempt, InSent
    <3> QED
      BY <3>1, <3>3 DEF Rows, NoRowLeft, SentFolderTruthful
  <2> QED
    BY <2>4, <2>5, <2>6 DEF OnceInv
<1>8. CASE Compose(t) \/ ComposeFails(t) \/ Attach(t) \/ AttachFails(t) \/ RollbackFails(t)
  <2>1. /\ pc[t] \in {"compose", "attach", "rollback"}
        /\ UNCHANGED <<draft, row, delivered, sentRows>>
        /\ \/ pc[t] = "compose" /\ pc'[t] \in {"persist", "catch"}
           \/ pc[t] = "attach" /\ pc'[t] = "deliver"
           \/ faults' = faults + 1 /\ pc'[t] \in {"rollback", "catch"}
        /\ faults' \in {faults, faults + 1}
    BY <1>8 DEF Compose, ComposeFails, Attach, AttachFails, RollbackFails, mail, Inv, TypeOK
  <2>2. \A x \in Versions, r \in Recipients : ~Delivering(t, x, r)
    BY <2>1 DEF Delivering
  <2>3. faults' = 0 => \A x \in Versions : sentRows'[x] = IF InSent(t, x)' THEN 1 ELSE 0
    <3>1. \A x \in Versions : v(t)' = v(t)
      BY <2>1 DEF v
    <3> QED
      BY <2>1, <3>1, <1>5, <1>6 DEF InSent
  <2> QED
    BY <1>1, <2>1, <2>2, <2>3, WithinOnce
<1>9. CASE Persist(t) \/ PersistFails(t) \/ Rollback(t)
  <2>1. /\ pc[t] \in {"persist", "rollback"}
        /\ UNCHANGED <<draft, row, delivered>>
        /\ \/ /\ pc[t] = "persist" /\ pc'[t] = "attach"
              /\ sentRows' = [sentRows EXCEPT ![v(t)] = @ + 1]
           \/ /\ pc[t] = "rollback" /\ pc'[t] = "catch"
              /\ sentRows' = [sentRows EXCEPT ![v(t)] = @ - 1]
           \/ faults' = faults + 1 /\ pc'[t] = "catch"
        /\ faults' \in {faults, faults + 1}
    BY <1>9 DEF Persist, PersistFails, Rollback, Inv, TypeOK
  <2>2. \A x \in Versions, r \in Recipients : ~Delivering(t, x, r)
    BY <2>1 DEF Delivering
  <2>3. faults' = 0 => \A x \in Versions : sentRows'[x] = IF InSent(t, x)' THEN 1 ELSE 0
    <3>1. v(t)' = v(t)
      BY <2>1 DEF v
    <3> QED
      BY <2>1, <3>1, <1>3, <1>5, <1>6 DEF InSent
  <2> QED
    BY <1>1, <2>1, <2>2, <2>3, WithinOnce
<1>10. CASE Delivered(t) \/ Finish(t) \/ DropUploads(t) \/ LateFailure(t)
  <2>1. /\ pc[t] \in {"deliver", "finish", "uploads", "delete"}
        /\ UNCHANGED <<draft, row, delivered, sentRows, pending, failed>>
        /\ \/ /\ faults' = faults
              /\ pc'[t] \in {"finish", "uploads", "delete"}
           \/ faults' = faults /\ failed[t] /\ pc'[t] = "rollback"
           \/ faults' = faults + 1 /\ pc'[t] = "catch"
    BY <1>10 DEF Delivered, Finish, DropUploads, LateFailure, mail, Inv, TypeOK
  <2>2. v(t)' = v(t)
    BY <2>1 DEF v
  <2>3. \A x \in Versions, r \in Recipients :
          delivered[x][r] > 0 /\ Delivering(t, x, r) => Delivering(t, x, r)'
    BY <1>2, <1>6, <2>1, <2>2 DEF Delivering
  <2>4. faults' = 0 => \A x \in Versions : sentRows'[x] = IF InSent(t, x)' THEN 1 ELSE 0
    BY <2>1, <2>2, <1>5, <1>6 DEF InSent
  <2> QED
    BY <1>1, <2>1, <2>3, <2>4, WithinOnce
<1>11. CASE DeliverFails(t)
  <2>1. /\ pc[t] \in {"deliver", "rollback", "catch"} /\ pc'[t] = pc[t] /\ failed'[t]
        /\ UNCHANGED <<draft, row, delivered, sentRows, faults>>
    BY <1>11 DEF DeliverFails, Sending, mail, Inv, TypeOK
  <2>2. \A x \in Versions, r \in Recipients : ~(delivered[x][r] > 0)
    BY <2>1 DEF PartlyServed, Served
  <2>3. v(t)' = v(t)
    BY <2>1 DEF v
  <2>4. faults' = 0 => \A x \in Versions : sentRows'[x] = IF InSent(t, x)' THEN 1 ELSE 0
    BY <2>1, <2>3, <1>5 DEF InSent
  <2> QED
    BY <1>1, <2>1, <2>2, <2>4, WithinOnce
<1>12. CASE Deliver(t)
  <2>1. PICK b \in Batch(t) :
          /\ delivered' = [delivered EXCEPT ![v(t)] =
               [r \in Recipients |-> IF r \in b THEN @[r] + 1 ELSE @[r]]]
          /\ pending' = [pending EXCEPT ![t] = @ \ b]
    BY <1>12 DEF Deliver
  <2>2. /\ pc[t] \in {"deliver", "rollback", "catch"} /\ pc' = pc /\ failed' = failed
        /\ UNCHANGED <<draft, row, sentRows, faults>>
    BY <1>12 DEF Deliver, Sending
  <2>3. b \subseteq pending[t] /\ b # {} /\ pending[t] \subseteq Recipients
    BY <2>1 DEF Batch, Inv, TypeOK
  <2>4. v(t) \in Versions /\ v(t)' = v(t)
    BY <1>3, <2>2 DEF v
  <2>5. /\ \A x \in Versions, r \in Recipients :
             x # v(t) \/ r \notin b => delivered'[x][r] = delivered[x][r]
        /\ \A r \in b : delivered'[v(t)][r] = delivered[v(t)][r] + 1
        /\ pending'[t] = pending[t] \ b
    BY <2>1, <2>3, <2>4 DEF Inv, TypeOK
  <2>6. Served'
    BY <2>3, <2>4, <2>5, <1>2 DEF Served
  <2>7. ~failed[t] /\ pc[t] = "deliver"
    BY <2>2, <2>3, <2>6 DEF PartlyServed, Outstanding
  <2>8. OneCopy'
    <3> SUFFICES ASSUME NEW x \in Versions, NEW r \in Recipients, delivered'[x][r] > 0
                 PROVE  delivered'[x][r] = 1 /\ Delivering(t, x, r)'
      BY DEF OneCopy
    <3>1. CASE x = v(t) /\ r \in b
      <4>1. delivered[x][r] = 0
        BY <3>1, <2>2, <2>3, <1>2, <1>4 DEF Delivering
      <4> QED
        BY <3>1, <4>1, <2>2, <2>4, <2>5, <2>7 DEF Delivering
    <3>2. CASE ~(x = v(t) /\ r \in b)
      <4>1. delivered'[x][r] = delivered[x][r] /\ delivered[x][r] > 0
        BY <3>2, <2>5
      <4>2. delivered[x][r] = 1 /\ Delivering(t, x, r)
        BY <4>1, <1>4, <2>2
      <4> QED
        BY <4>1, <4>2, <2>2, <2>4, <2>5 DEF Delivering
    <3> QED
      BY <3>1, <3>2
  <2>9. NothingReported'
    BY <2>2 DEF OnceInv, NothingReported
  <2>10. Rows'
    <3>1. ~Quiet' /\ \A s \in Ticks : v(s)' = v(s)
      BY <2>2 DEF Quiet, v
    <3> QED
      BY <3>1, <2>2 DEF OnceInv, Rows, RowOfAttempt, NoRowLeft, SentFolderTruthful, InSent
  <2> QED
    BY <2>8, <2>9, <2>10 DEF OnceInv
<1>13. CASE Retry(t) \/ Revert(t) \/ Killed(t)
  <2>1. /\ pc[t] # "idle" /\ pc'[t] = "idle" /\ UNCHANGED <<delivered, sentRows>>
        /\ (pc[t] = "catch" /\ faults' = faults) \/ faults' = faults + 1
    BY <1>13 DEF Retry, Revert, Killed, mail, Inv, TypeOK
  <2>2. \A x \in Versions, r \in Recipients : delivered'[x][r] = 0
    BY <2>1, <1>2, <1>4, <1>6 DEF Delivering
  <2>3. faults' = 0 => \A x \in Versions : sentRows'[x] = 0
    BY <2>1, <1>5, <1>6 DEF InSent
  <2> QED
    BY <1>1, <2>1, <2>2, <2>3, NobodyOnce
<1>14. CASE DropDraft(t)
  <2>1. /\ pc[t] = "delete" /\ pc'[t] = "idle" /\ draft' = NoDraft
        /\ UNCHANGED <<delivered, sentRows, faults>>
    BY <1>14 DEF DropDraft, mail, Inv, TypeOK
  <2>2. Quiet' /\ NothingReported'
    BY <1>1, <2>1 DEF Quiet, NothingReported
  <2>3. OneCopy'
    BY <2>1, <2>2, <1>4 DEF OneCopy
  <2>4. Rows'
    <3> SUFFICES ASSUME faults = 0
                 PROVE  RowOfAttempt' /\ NoRowLeft' /\ SentFolderTruthful'
      BY <2>1 DEF Rows
    <3>1. RowOfAttempt' /\ NoRowLeft'
      BY <2>1, <2>2 DEF RowOfAttempt, NoRowLeft, Quiet
    <3>2. ASSUME NEW x \in Versions, NEW r \in Recipients
          PROVE  sentRows[x] = delivered[x][r]
      <4>1. CASE x = v(t)
        <5>1. delivered[x][r] >= 1
          BY <2>1, <4>1 DEF Inv, CopiesOut
        <5>2. delivered[x][r] = 1
          BY <5>1, <1>2, <1>4, <2>1
        <5> QED
          BY <5>2, <4>1, <2>1, <1>5 DEF InSent
      <4>2. CASE x # v(t)
        BY <4>2, <1>2, <1>4, <1>5, <2>1 DEF InSent, Delivering
      <4> QED
        BY <4>1, <4>2
    <3> QED
      BY <3>1, <3>2, <2>1 DEF SentFolderTruthful
  <2> QED
    BY <2>2, <2>3, <2>4 DEF OnceInv
<1> QED
  BY <1>7, <1>8, <1>9, <1>10, <1>11, <1>12, <1>13, <1>14 DEF Proceed

LEMMA MCInitInv == MCInit => MCInv
<1> SUFFICES ASSUME MCInit PROVE MCInv
  OBVIOUS
<1>1. Inv
  BY InitInv DEF MCInit
<1>2. Outstanding /\ excused \in BOOLEAN
  BY DEF MCInit, Init, Outstanding
<1>3. OnceInv
  BY DEF MCInit, Init, OnceInv, Alone, OneCopy, NothingReported, Rows, RowOfAttempt,
         NoRowLeft, SentFolderTruthful
<1> QED
  BY <1>1, <1>2, <1>3 DEF MCInv

LEMMA MCStepInv == MCInv /\ [MCNext]_mcvars => MCInv'
<1> SUFFICES ASSUME MCInv, [MCNext]_mcvars PROVE MCInv'
  OBVIOUS
<1>1. [Next]_vars
  BY DEF MCNext, mcvars
<1>2. Inv'
  BY <1>1, StepInv DEF MCInv
<1>3. Outstanding'
  BY <1>1, OutstandingStep DEF MCInv
<1>4. CASE UNCHANGED mcvars
  <2>1. UNCHANGED vars /\ excused' = excused
    BY <1>4 DEF mcvars
  <2>2. OnceInv' = OnceInv
    BY <2>1 DEF vars, cron, mail, OnceInv, Alone, OneCopy, NothingReported, Rows,
                RowOfAttempt, NoRowLeft, SentFolderTruthful, Quiet, Delivering, InSent, v
  <2> QED
    BY <1>2, <1>3, <2>1, <2>2 DEF MCInv
<1>5. CASE MCNext
  <2>1. excused' \in BOOLEAN
    BY <1>5 DEF MCNext, MCInv
  <2>2. ASSUME ~excused' PROVE OnceInv'
    <3>1. /\ ~excused /\ ~Overlap' /\ ~PartlyServed' /\ (faults' = faults \/ ~Served)
          /\ Next
      BY <1>5, <2>2 DEF MCNext
    <3>2. Alone' /\ OnceInv
      BY <3>1 DEF Overlap, Alone, MCInv
    <3>3. CASE Author
      BY <3>2, <3>3, AuthorOnce DEF MCInv
    <3>4. CASE \E t \in Ticks : Proceed(t) \/ Killed(t)
      BY <3>1, <3>2, <3>4, <1>2, TickOnce DEF MCInv
    <3> QED
      BY <3>1, <3>3, <3>4 DEF Next, Author
  <2> QED
    BY <1>2, <1>3, <2>1, <2>2 DEF MCInv
<1> QED
  BY <1>4, <1>5

LEMMA MCInvariance == MCSpec => []MCInv
<1>1. MCInit => MCInv
  BY MCInitInv
<1>2. MCInv /\ [MCNext]_mcvars => MCInv'
  BY MCStepInv
<1> QED
  BY <1>1, <1>2, PTL DEF MCSpec

\* cron.ts, mail/send.ts: as long as invocations do not overlap and nothing fails once
\* somebody has the mail, nobody gets a payload twice, with any number of invocations,
\* recipients, retries and changes of the author, with and without PGP.
THEOREM NobodyIsServedTwice == MCSpec => []OnceUnlessExcused
<1>1. MCInv => OnceUnlessExcused
  <2> SUFFICES ASSUME MCInv, ~excused, NEW x \in Versions, NEW r \in Recipients
               PROVE  delivered[x][r] <= 1
    BY DEF OnceUnlessExcused, NoDuplicateDelivery
  <2>1. delivered[x][r] \in Nat
    BY DEF MCInv, Inv, TypeOK
  <2>2. delivered[x][r] > 0 => delivered[x][r] = 1
    BY DEF MCInv, OnceInv, OneCopy
  <2> QED
    BY <2>1, <2>2
<1> QED
  BY <1>1, MCInvariance, PTL

\* cron.ts, revert, and mail/send.ts, roll back: under the same conditions a failure the
\* author is told of is one, and if no statement failed the Sent folder holds what was
\* delivered and nothing else.
THEOREM ReportsStayTrue == MCSpec => []ReportsAreTrue
<1>1. MCInv => ReportsAreTrue
  <2> SUFFICES ASSUME MCInv
               PROVE  ReportsAreTrue
    OBVIOUS
  <2>1. ASSUME ~excused, draft.error # 0, NEW r \in Recipients
        PROVE  delivered[draft.error][r] = 0
    <3>1. draft \in Drafts
      BY <2>1 DEF MCInv, Inv, TypeOK, NoDraft
    <3>2. draft.error \in Versions
      BY <2>1, <3>1 DEF Drafts
    <3>3. delivered[draft.error][r] \in Nat
      BY <3>2 DEF MCInv, Inv, TypeOK
    <3>4. ~(delivered[draft.error][r] > 0)
      BY <2>1, <3>1, <3>2, NoDraftOut
         DEF MCInv, OnceInv, OneCopy, NothingReported, Delivering
    <3> QED
      BY <3>3, <3>4
  <2>2. SentTruthfulUnlessExcused
    BY DEF MCInv, OnceInv, Rows, SentTruthfulUnlessExcused
  <2> QED
    BY <2>1, <2>2 DEF ReportsAreTrue, FailureRealUnlessExcused, FailureIsReal
<1> QED
  BY <1>1, MCInvariance, PTL
============================================================================
