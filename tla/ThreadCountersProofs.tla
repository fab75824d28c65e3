------------------------ MODULE ThreadCountersProofs ------------------------
(***************************************************************************)
(* What is stored as mail arrives.  First the counters of a thread, for    *)
(* any finite set of messages and any writers, then the deliveries that    *)
(* InboundDelivery describes, for any mails, failures and blocked senders, *)
(* and last the rows users organize, whatever the tables held at first.    *)
(***************************************************************************)
EXTENDS ThreadCounters, InboundDelivery, Organizing, FiniteSetTheorems, TLAPS

----------------------------------------------------------------------------
\* Where in the code a writer of each kind is.
At(p, k) ==
  /\ p = "idle" <=> k = "none"
  /\ p \in {"bumpRead", "bumpWrite"} <=> k \in {"arrival", "buried", "addition", "sent"}
  /\ p = "patch" => k \in {"rewrite", "star"}
  /\ k = "star" => p = "patch"
  /\ p \in {"countAll", "writeAll"} => k = "delete"
  /\ p \in {"countUnseen", "writeUnseen"} => k \in {"delete", "rewrite"}
  /\ p \in {"recount", "recountUnread"} <=> k = "atomic"

PcKind == \A w \in Writers : At(pc[w], kind[w])

Typed == TypeOK /\ PcKind

\* Everybody but w is idle.
Only(w) == \A x \in Writers : x # w => kind[x] = "none"

\* What a PATCH of starred writes back leaves the unseen messages as they are.
StarKeeps(w) ==
  \A m \in target[w] \intersect stored \intersect inbound :
    m \in Unseen <=> ~(held[w].seen \/ held[w].trash)

\* A writer alone: what the badge and what it holds add up to.
LoneBadge(w) ==
  /\ pc[w] = "bumpRead" => /\ kind[w] # "buried"
                           /\ Cardinality(Unseen) = unread + Delta(w)
                           /\ kind[w] = "sent" => target[w] \intersect inbound = {}
  /\ pc[w] = "bumpWrite" => /\ kind[w] # "buried"
                            /\ Cardinality(Unseen) = held[w].unread + Delta(w)
  /\ kind[w] = "star" => Cardinality(Unseen) = unread /\ StarKeeps(w)
  /\ pc[w] = "writeUnseen" => held[w].unread = Cardinality(Unseen)

\* The badge is right, or a recount that will make it right is under way ...
AllAtomic == \A w \in Writers : kind[w] \in {"none", "atomic"}
BadgeDue ==
  \/ unread = Cardinality(Unseen)
  \/ \E w \in Writers : pc[w] = "recount"
  \/ unread > 0 /\ \E w \in Writers : pc[w] = "recountUnread"

\* ... or the one writer at work makes it right.
OneAtWork(w) == kind[w] \notin {"none", "atomic"} /\ Only(w) /\ LoneBadge(w)

BadgeInv ==
  exact => (AllAtomic /\ BadgeDue) \/ \E w \in Writers : OneAtWork(w)

Lit(n) == Unseen # {} => n > 0

LoneLit(w) ==
  /\ pc[w] = "bumpRead" => Lit(unread) /\ (kind[w] = "sent" => target[w] \intersect inbound = {})
  /\ pc[w] = "bumpWrite" => Lit(held[w].unread)
  /\ kind[w] = "star" => Lit(unread) /\ StarKeeps(w)
  /\ pc[w] = "writeUnseen" => held[w].unread = Cardinality(Unseen)

Gentle == {"none", "atomic", "arrival", "buried"}

\* Unread mail lights the badge, or somebody at work will light it ...
AllGentle == \A w \in Writers : kind[w] \in Gentle
LitDue ==
  \/ Lit(unread)
  \/ \E w \in Writers : pc[w] \in {"recount", "bumpRead", "bumpWrite"}

\* ... or the one writer at work leaves it lit.
OneLights(w) == kind[w] \notin Gentle /\ Only(w) /\ LoneLit(w)

LitInv ==
  safe => (AllGentle /\ LitDue) \/ \E w \in Writers : OneLights(w)

LoneCount(w) ==
  /\ pc[w] = "bumpRead" => /\ \E m \in stored : target[w] = {m}
                           /\ Cardinality(stored) = count + 1
  /\ pc[w] = "bumpWrite" => Cardinality(stored) = held[w].count + 1
  /\ pc[w] = "writeAll" => Cardinality(stored) = held[w].count
  /\ pc[w] \in {"countUnseen", "writeUnseen"} => Cardinality(stored) = count

\* Nobody adds or deletes and msgCount is right, or one writer does and makes it so.
OneMember(w) ==
  /\ kind[w] \in Membership
  /\ \A x \in Writers : x # w => kind[x] \notin Membership
  /\ LoneCount(w)

CountInv ==
  counted =>
    \/ (\A w \in Writers : kind[w] \notin Membership) /\ count = Cardinality(stored)
    \/ \E w \in Writers : OneMember(w)

----------------------------------------------------------------------------
(* Finite sets. *)
LEMMA UnseenFinite ==
  ASSUME TypeOK
  PROVE  /\ IsFiniteSet(Unseen) /\ Cardinality(Unseen) \in Nat
         /\ Unseen # {} => Cardinality(Unseen) > 0
         /\ IsFiniteSet(stored) /\ Cardinality(stored) \in Nat
<1>1. Unseen \subseteq Messages /\ stored \subseteq Messages
  BY DEF Unseen, TypeOK
<1>2. IsFiniteSet(Unseen) /\ IsFiniteSet(stored)
  BY <1>1, MessagesAssumption, FS_Subset
<1>3. Cardinality(Unseen) \in Nat /\ Cardinality(stored) \in Nat
  BY <1>2, FS_CardinalityType
<1>4. Cardinality(Unseen) = 0 => Unseen = {}
  BY <1>2, FS_EmptySet
<1> QED BY <1>2, <1>3, <1>4

----------------------------------------------------------------------------
(* Types and where the writers are. *)
LEMMA TypedInit == Init => Typed
BY DEF Init, Typed, TypeOK, PcKind, At, Nothing

Pcs == {"idle", "bumpRead", "bumpWrite", "patch", "countAll", "writeAll",
        "countUnseen", "writeUnseen", "recount", "recountUnread"}
Held == [count : Nat, unread : Nat, seen : BOOLEAN, trash : BOOLEAN]

\* The part of Typed that is about writers and history, and what keeps it.
Book ==
  /\ pc \in [Writers -> Pcs] /\ kind \in [Writers -> Kinds \union {"none"}]
  /\ target \in [Writers -> SUBSET Messages] /\ held \in [Writers -> Held]
  /\ exact \in BOOLEAN /\ safe \in BOOLEAN /\ counted \in BOOLEAN
  /\ PcKind

LEMMA BeginBook ==
  ASSUME Book, NEW w \in Writers, NEW k \in Kinds, NEW S \in SUBSET Messages,
         NEW h \in Held, NEW next \in Pcs, At(next, k), Begin(w, k, S, h, next)
  PROVE  Book'
<1>1. exact' \in BOOLEAN /\ safe' \in BOOLEAN /\ counted' \in BOOLEAN
  <2>1. exact \in BOOLEAN /\ safe \in BOOLEAN /\ counted \in BOOLEAN
    BY DEF Book
  <2> QED BY <2>1 DEF Begin, Remember
<1>2. /\ pc' \in [Writers -> Pcs] /\ kind' \in [Writers -> Kinds \union {"none"}]
      /\ target' \in [Writers -> SUBSET Messages] /\ held' \in [Writers -> Held]
  BY DEF Book, Begin
<1>3. \A x \in Writers : At(pc'[x], kind'[x])
  BY DEF Book, Begin, PcKind
<1> QED BY <1>1, <1>2, <1>3 DEF Book, PcKind

LEMMA StepBook ==
  ASSUME Book, NEW w \in Writers, NEW from, NEW to \in Pcs, At(to, kind[w]),
         Step(w, from, to), held' \in [Writers -> Held]
  PROVE  Book'
BY DEF Book, Step, PcKind, history

LEMMA IdleBook ==
  ASSUME Book, NEW w \in Writers, Idle(w),
         exact' \in BOOLEAN, safe' \in BOOLEAN, counted' \in BOOLEAN
  PROVE  Book'
<1>1. Nothing \in Held /\ At("idle", "none") /\ "idle" \in Pcs
  BY DEF Nothing, Held, At, Pcs
<1>2. /\ pc' \in [Writers -> Pcs] /\ kind' \in [Writers -> Kinds \union {"none"}]
      /\ target' \in [Writers -> SUBSET Messages] /\ held' \in [Writers -> Held]
  BY <1>1 DEF Book, Idle
<1>3. \A x \in Writers : At(pc'[x], kind'[x])
  BY <1>1 DEF Book, Idle, PcKind
<1> QED BY <1>2, <1>3 DEF Book, PcKind

LEMMA EndBook ==
  ASSUME Book, NEW w \in Writers, NEW from, End(w, from)
  PROVE  Book'
<1>1. exact' \in BOOLEAN /\ safe' \in BOOLEAN /\ counted' \in BOOLEAN
  BY DEF Book, End, history
<1> QED BY <1>1, IdleBook DEF End

\* The part that is about the rows and the thread.
RowsOK ==
  /\ stored \subseteq used /\ used \subseteq Messages
  /\ inbound \subseteq stored /\ seen \subseteq stored /\ trashed \subseteq stored
  /\ count \in Nat /\ unread \in Nat

LEMMA TypedParts ==
  /\ Typed => RowsOK /\ Book
  /\ RowsOK' /\ Book' => Typed'
BY DEF Typed, TypeOK, Book, Pcs, Held, RowsOK

LEMMA TypedStep ==
  ASSUME Typed, [Next]_vars
  PROVE  Typed'
<1>1. CASE UNCHANGED vars
  BY <1>1 DEF vars, rows, thread, writer, history, Typed, TypeOK, PcKind
<1>2. CASE MoveToSpam
  BY <1>2 DEF MoveToSpam, thread, writer, Typed, TypeOK, PcKind
<1>3. ASSUME NEW w \in Writers, WriterStep(w)
      PROVE  Typed'
  <2>0. /\ RowsOK /\ Book /\ Nothing \in Held /\ At(pc[w], kind[w])
        /\ held[w] \in Held /\ target[w] \subseteq Messages
        /\ Cardinality(Unseen) \in Nat /\ Cardinality(stored) \in Nat
    BY TypedParts, UnseenFinite DEF Typed, Book, PcKind, Nothing, Held
  <2>1. CASE Store(w)
    <3>1. PICK m \in Messages \ used, in, isSeen, isTrashed \in BOOLEAN :
            /\ Insert(m, in, isSeen, isTrashed)
            /\ Begin(w, IF ~in \/ isSeen THEN "addition"
                        ELSE IF isTrashed THEN "buried" ELSE "arrival",
                     {m}, Nothing, "bumpRead")
      BY <2>1 DEF Store
    <3>2. RowsOK'
      <4>1. /\ inbound' \subseteq inbound \union {m} /\ seen' \subseteq seen \union {m}
            /\ trashed' \subseteq trashed \union {m}
        BY <3>1, Zenon DEF Insert
      <4>2. stored' = stored \union {m} /\ used' = used \union {m} /\ UNCHANGED thread
        BY <3>1 DEF Insert
      <4> QED BY <2>0, <4>1, <4>2 DEF RowsOK, thread
    <3>3. \E k \in {"addition", "buried", "arrival"} : Begin(w, k, {m}, Nothing, "bumpRead")
      BY <3>1
    <3>4. Book'
      BY <2>0, <3>3, BeginBook DEF Kinds, At, Pcs
    <3> QED BY <3>2, <3>4, TypedParts
  <2>2. CASE Send(w)
    <3>1. PICK m \in Messages \ used :
            Insert(m, FALSE, TRUE, FALSE) /\ Begin(w, "sent", {m}, Nothing, "bumpRead")
      BY <2>2 DEF Send
    <3>2. RowsOK'
      BY <2>0, <3>1 DEF Insert, RowsOK, thread
    <3>3. Book'
      BY <2>0, <3>1, BeginBook DEF Kinds, At, Pcs
    <3> QED BY <3>2, <3>3, TypedParts
  <2>3. CASE UndoSend(w)
    <3>1. RowsOK'
      BY <2>0, <2>3 DEF UndoSend, RowsOK, rows, thread
    <3>2. Book'
      BY <2>0, <2>3, EndBook DEF UndoSend
    <3> QED BY <3>1, <3>2, TypedParts
  <2>4. CASE BumpRead(w)
    <3>1. RowsOK'
      BY <2>0, <2>4 DEF BumpRead, RowsOK, rows, thread
    <3>2. Book'
      <4>1. held' \in [Writers -> Held]
        BY <2>0, <2>4 DEF BumpRead, Book, Held, RowsOK
      <4> QED BY <2>0, <2>4, <4>1, StepBook DEF BumpRead, Step, At, Pcs
    <3> QED BY <3>1, <3>2, TypedParts
  <2>5. CASE BumpWrite(w)
    <3>1. RowsOK'
      BY <2>0, <2>5 DEF BumpWrite, RowsOK, rows, thread, Delta, Held
    <3>2. Book'
      BY <2>0, <2>5, EndBook DEF BumpWrite
    <3> QED BY <3>1, <3>2, TypedParts
  <2>6. CASE ReadRow(w)
    <3>1. RowsOK'
      BY <2>0, <2>6 DEF ReadRow, RowsOK, rows, thread
    <3>2. PICK m \in stored, s, t \in BOOLEAN, k \in {"rewrite", "star"} :
            Begin(w, k, {m}, [Nothing EXCEPT !.seen = s, !.trash = t], "patch")
      BY <2>6 DEF ReadRow
    <3>3. [Nothing EXCEPT !.seen = s, !.trash = t] \in Held /\ {m} \in SUBSET Messages
      BY <2>0 DEF Nothing, Held, RowsOK
    <3>4. Book'
      BY <2>0, <3>2, <3>3, BeginBook DEF Kinds, At, Pcs
    <3> QED BY <3>1, <3>4, TypedParts
  <2>7. CASE PatchRow(w)
    <3>1. RowsOK'
      BY <2>0, <2>7 DEF PatchRow, RowsOK, rows, thread
    <3>2. Book'
      <4>1. CASE kind[w] = "star"
        BY <2>0, <2>7, <4>1, EndBook DEF PatchRow
      <4>2. CASE kind[w] # "star"
        BY <2>0, <2>7, <4>2, StepBook DEF PatchRow, Book, Step, At, Pcs
      <4> QED BY <4>1, <4>2
    <3> QED BY <3>1, <3>2, TypedParts
  <2>8. CASE PatchThread(w)
    <3>1. RowsOK'
      BY <2>0, <2>8 DEF PatchThread, RowsOK, rows, thread
    <3>2. Book'
      BY <2>0, <2>8, BeginBook DEF PatchThread, Kinds, At, Pcs
    <3> QED BY <3>1, <3>2, TypedParts
  <2>9. CASE Delete(w)
    <3>1. PICK m \in stored :
            /\ stored' = stored \ {m} /\ inbound' = inbound \ {m}
            /\ seen' = seen \ {m} /\ trashed' = trashed \ {m}
            /\ Begin(w, "delete", {m}, Nothing, "countAll")
            /\ UNCHANGED <<used, thread>>
      BY <2>9 DEF Delete
    <3>2. RowsOK'
      BY <2>0, <3>1 DEF RowsOK, thread
    <3>3. {m} \in SUBSET Messages
      BY <2>0 DEF RowsOK
    <3>4. Book'
      BY <2>0, <3>1, <3>3, BeginBook DEF Kinds, At, Pcs
    <3> QED BY <3>2, <3>4, TypedParts
  <2>10. CASE CountAll(w)
    <3>1. RowsOK'
      BY <2>0, <2>10 DEF CountAll, RowsOK, rows, thread
    <3>2. Book'
      <4>1. held' \in [Writers -> Held]
        BY <2>0, <2>10 DEF CountAll, Book, Held, RowsOK
      <4> QED BY <2>0, <2>10, <4>1, StepBook DEF CountAll, Step, At, Pcs
    <3> QED BY <3>1, <3>2, TypedParts
  <2>11. CASE WriteAll(w)
    <3>1. RowsOK'
      BY <2>0, <2>11 DEF WriteAll, RowsOK, rows, thread, Held
    <3>2. Book'
      <4>1. held' \in [Writers -> Held]
        BY <2>0, <2>11 DEF WriteAll, Book, Held, RowsOK
      <4> QED BY <2>0, <2>11, <4>1, StepBook DEF WriteAll, Step, At, Pcs
    <3> QED BY <3>1, <3>2, TypedParts
  <2>12. CASE CountUnseen(w)
    <3>1. RowsOK'
      BY <2>0, <2>12 DEF CountUnseen, RowsOK, rows, thread
    <3>2. Book'
      <4>1. held' \in [Writers -> Held]
        BY <2>0, <2>12 DEF CountUnseen, Book, Held, RowsOK
      <4> QED BY <2>0, <2>12, <4>1, StepBook DEF CountUnseen, Step, At, Pcs
    <3> QED BY <3>1, <3>2, TypedParts
  <2>13. CASE WriteUnseen(w)
    <3>1. RowsOK'
      BY <2>0, <2>13 DEF WriteUnseen, RowsOK, rows, thread, Held
    <3>2. Book'
      BY <2>0, <2>13, EndBook DEF WriteUnseen
    <3> QED BY <3>1, <3>2, TypedParts
  <2>14. CASE StoreFlags(w)
    <3>1. RowsOK'
      BY <2>0, <2>14 DEF StoreFlags, RowsOK, rows, thread
    <3>2. Book'
      BY <2>0, <2>14, BeginBook DEF StoreFlags, Kinds, At, Pcs
    <3> QED BY <3>1, <3>2, TypedParts
  <2>15. CASE Recount(w)
    <3>1. RowsOK'
      BY <2>0, <2>15 DEF Recount, RowsOK, rows, thread
    <3>2. Book'
      BY <2>0, <2>15, EndBook DEF Recount
    <3> QED BY <3>1, <3>2, TypedParts
  <2>16. CASE ReadAll(w)
    <3>1. RowsOK'
      BY <2>0, <2>16 DEF ReadAll, RowsOK, rows, thread
    <3>2. Book'
      BY <2>0, <2>16, BeginBook DEF ReadAll, Kinds, At, Pcs
    <3> QED BY <3>1, <3>2, TypedParts
  <2>17. CASE RecountUnread(w)
    <3>1. RowsOK'
      BY <2>0, <2>17 DEF RecountUnread, RowsOK, rows, thread
    <3>2. Book'
      BY <2>0, <2>17, EndBook DEF RecountUnread
    <3> QED BY <3>1, <3>2, TypedParts
  <2>18. CASE Killed(w)
    <3>1. RowsOK'
      BY <2>0, <2>18 DEF Killed, RowsOK, rows, thread
    <3>2. Book'
      BY <2>0, <2>18, IdleBook DEF Killed
    <3> QED BY <3>1, <3>2, TypedParts
  <2> QED BY <1>3, <2>1, <2>2, <2>3, <2>4, <2>5, <2>6, <2>7, <2>8, <2>9, <2>10, <2>11,
             <2>12, <2>13, <2>14, <2>15, <2>16, <2>17, <2>18 DEF WriterStep
<1> QED BY <1>1, <1>2, <1>3 DEF Next

----------------------------------------------------------------------------
(* The badge. *)
LEMMA NobodyActive ==
  ASSUME Typed
  PROVE  /\ Active = {} <=> \A x \in Writers : kind[x] = "none"
         /\ \A x \in Writers : kind[x] # "none" => kind[x] \in KindsAtWork
BY DEF Typed, PcKind, At, Active, KindsAtWork

\* Who can be at work beside a writer while the history is exact.
LEMMA AloneBadge ==
  ASSUME Typed, BadgeInv, exact, NEW w \in Writers, kind[w] # "none"
  PROVE  IF kind[w] = "atomic" THEN AllAtomic /\ BadgeDue ELSE Only(w) /\ LoneBadge(w)
<1>1. CASE AllAtomic /\ BadgeDue
  BY <1>1 DEF AllAtomic
<1>2. CASE \E x \in Writers : OneAtWork(x)
  BY <1>2 DEF OneAtWork, Only
<1> QED BY <1>1, <1>2 DEF BadgeInv

\* A writer that begins is alone, or one atomic change among others.
LEMMA BeginBadge ==
  ASSUME Typed, BadgeInv, NEW w \in Writers, NEW k \in Kinds, NEW S, NEW h, NEW next,
         Begin(w, k, S, h, next), exact'
  PROVE  /\ k # "buried"
         /\ kind' = [kind EXCEPT ![w] = k] /\ pc' = [pc EXCEPT ![w] = next]
         /\ \/ /\ \A x \in Writers : kind[x] = "none"
               /\ k \notin Recounting => unread = Cardinality(Unseen)
            \/ k = "atomic" /\ AllAtomic /\ BadgeDue
<1>1. k # "buried" /\ kind' = [kind EXCEPT ![w] = k] /\ pc' = [pc EXCEPT ![w] = next]
  BY DEF Begin, Remember
<1>2. CASE Active = {}
  <2>1. \A x \in Writers : kind[x] = "none" /\ pc[x] = "idle"
    BY <1>2, NobodyActive DEF Active
  <2>2. exact \/ k \in Recounting
    BY <1>2 DEF Begin, Remember
  <2>3. exact => unread = Cardinality(Unseen)
    BY <2>1 DEF BadgeInv, BadgeDue, OneAtWork
  <2> QED BY <1>1, <2>1, <2>2, <2>3
<1>3. CASE Active # {}
  <2>1. exact /\ KindsAtWork \subseteq {"atomic"} /\ k = "atomic"
    BY <1>3 DEF Begin, Remember
  <2>2. AllAtomic
    BY <2>1, NobodyActive DEF AllAtomic
  <2>3. BadgeDue
    BY <2>1, <2>2 DEF BadgeInv, OneAtWork, AllAtomic
  <2> QED BY <1>1, <2>1, <2>2, <2>3
<1> QED BY <1>2, <1>3

LEMMA BadgeFrame ==
  ASSUME BadgeInv, exact' => exact, Unseen' = Unseen,
         UNCHANGED <<stored, inbound, thread, writer>>
  PROVE  BadgeInv'
<1>1. AllAtomic' = AllAtomic /\ BadgeDue' = BadgeDue
  BY DEF AllAtomic, BadgeDue, thread, writer
<1>2. ASSUME NEW w \in Writers
      PROVE  OneAtWork(w)' = OneAtWork(w)
  BY DEF OneAtWork, Only, LoneBadge, StarKeeps, Delta, thread, writer
<1> QED BY <1>1, <1>2 DEF BadgeInv

\* When the one writer at work ends, the badge is right.
LEMMA BadgeEnds ==
  ASSUME Typed, NEW w \in Writers, Only(w), Idle(w), unread' = Cardinality(Unseen')
  PROVE  BadgeInv'
<1>1. \A x \in Writers : kind'[x] = "none"
  BY DEF Idle, Only, Typed, TypeOK
<1> QED BY <1>1 DEF BadgeInv, AllAtomic, BadgeDue

\* A new row counts if it is inbound and neither seen nor trashed.
LEMMA InsertUnseen ==
  ASSUME Typed, NEW m \in Messages \ used, NEW in \in BOOLEAN, NEW isSeen \in BOOLEAN,
         NEW isTrashed \in BOOLEAN, Insert(m, in, isSeen, isTrashed)
  PROVE  IF in /\ ~isSeen /\ ~isTrashed
         THEN Unseen' = Unseen \union {m} /\ Cardinality(Unseen') = Cardinality(Unseen) + 1
         ELSE Unseen' = Unseen
<1>1. m \notin Unseen /\ m \notin stored /\ m \notin inbound /\ m \notin seen /\ m \notin trashed
  BY DEF Unseen, Typed, TypeOK
<1>2. CASE in /\ ~isSeen /\ ~isTrashed
  <2>1. Unseen' = Unseen \union {m}
    BY <1>1, <1>2 DEF Unseen, Insert
  <2> QED BY <1>1, <1>2, <2>1, UnseenFinite, FS_AddElement DEF Typed
<1>3. CASE ~in
  <2>1. Unseen' = Unseen
    BY <1>1, <1>3 DEF Unseen, Insert
  <2> QED BY <1>3, <2>1
<1>4. CASE in /\ isSeen
  <2>1. /\ m \notin Unseen' /\ stored' = stored \union {m} /\ inbound' = inbound \union {m}
        /\ seen' = seen \union {m} /\ trashed \subseteq trashed'
        /\ trashed' \subseteq trashed \union {m}
    BY <1>4, Zenon DEF Unseen, Insert
  <2>2. Unseen' = Unseen
    BY <1>1, <2>1 DEF Unseen
  <2> QED BY <1>4, <2>2
<1>5. CASE in /\ ~isSeen /\ isTrashed
  <2>1. Unseen' = Unseen
    BY <1>1, <1>5 DEF Unseen, Insert
  <2> QED BY <1>5, <2>1
<1> QED BY <1>2, <1>3, <1>4, <1>5

\* A PATCH of starred, alone, changes nothing that counts.
LEMMA StarUnseen ==
  ASSUME NEW w \in Writers, kind[w] = "star", StarKeeps(w), PatchRow(w)
  PROVE  Unseen' = Unseen
<1> DEFINE hit == target[w] \intersect stored
<1>1. /\ seen' = IF held[w].seen THEN seen \union hit ELSE seen \ hit
      /\ trashed' = IF held[w].trash THEN trashed \union hit ELSE trashed \ hit
      /\ stored' = stored /\ inbound' = inbound
  BY DEF PatchRow
<1>2. \A m \in stored \intersect inbound :
        m \in hit => (m \in Unseen' <=> ~(held[w].seen \/ held[w].trash))
  BY <1>1 DEF Unseen
<1>3. \A m \in stored \intersect inbound : m \notin hit => (m \in Unseen' <=> m \in Unseen)
  BY <1>1 DEF Unseen
<1>4. \A m \in stored \intersect inbound : m \in hit => (m \in Unseen' <=> m \in Unseen)
  BY <1>2 DEF StarKeeps
<1>5. Unseen \subseteq stored \intersect inbound /\ Unseen' \subseteq stored \intersect inbound
  BY <1>1 DEF Unseen
<1> QED BY <1>3, <1>4, <1>5

LEMMA BadgeStep ==
  ASSUME Typed, BadgeInv, [Next]_vars
  PROVE  BadgeInv'
<1>1. CASE UNCHANGED vars
  <2>1. Unseen' = Unseen
    BY <1>1 DEF vars, rows, Unseen
  <2> QED BY <1>1, <2>1, BadgeFrame DEF vars, rows, history
<1>2. CASE MoveToSpam
  <2>1. exact' => exact /\ Unseen' = Unseen
    BY <1>2 DEF MoveToSpam
  <2>2. UNCHANGED <<stored, inbound, thread, writer>>
    BY <1>2 DEF MoveToSpam
  <2> QED BY <2>1, <2>2, BadgeFrame DEF BadgeInv
<1>3. ASSUME NEW w \in Writers, WriterStep(w), exact'
      PROVE  BadgeInv'
  <2>0. Typed' /\ Cardinality(Unseen) \in Nat /\ unread \in Nat /\ held[w].unread \in Nat
    BY TypedStep, UnseenFinite, <1>3 DEF Typed, TypeOK, Next
  <2> DEFINE Alone == Only(w) /\ LoneBadge(w)
  <2>1. CASE Store(w)
    <3>1. PICK m \in Messages \ used, in, isSeen, isTrashed \in BOOLEAN :
            /\ Insert(m, in, isSeen, isTrashed)
            /\ Begin(w, IF ~in \/ isSeen THEN "addition"
                        ELSE IF isTrashed THEN "buried" ELSE "arrival",
                     {m}, Nothing, "bumpRead")
      BY <2>1 DEF Store
    <3>2. PICK k \in {"addition", "arrival"} :
            /\ Begin(w, k, {m}, Nothing, "bumpRead")
            /\ k = "arrival" <=> in /\ ~isSeen /\ ~isTrashed
      <4> DEFINE k0 == IF ~in \/ isSeen THEN "addition" ELSE IF isTrashed THEN "buried" ELSE "arrival"
      <4>1. k0 \in Kinds /\ Begin(w, k0, {m}, Nothing, "bumpRead")
        BY <3>1 DEF Kinds
      <4>2. k0 # "buried"
        BY <1>3, <4>1, BeginBadge
      <4> QED BY <4>1, <4>2
    <3>3. /\ kind' = [kind EXCEPT ![w] = k] /\ pc' = [pc EXCEPT ![w] = "bumpRead"]
          /\ \A x \in Writers : kind[x] = "none"
          /\ unread = Cardinality(Unseen)
      BY <1>3, <3>2, BeginBadge DEF Kinds, Recounting
    <3>4. Cardinality(Unseen') = unread' + Delta(w)' /\ kind'[w] = k /\ pc'[w] = "bumpRead"
      <4>1. kind'[w] = k /\ pc'[w] = "bumpRead" /\ unread' = unread
        BY <3>1, <3>3 DEF Insert, thread, Typed, TypeOK
      <4>2. Cardinality(Unseen') = IF k = "arrival" THEN Cardinality(Unseen) + 1
                                   ELSE Cardinality(Unseen)
        BY <3>1, <3>2, InsertUnseen
      <4> QED BY <2>0, <3>3, <4>1, <4>2 DEF Delta
    <3>5. OneAtWork(w)'
      BY <3>3, <3>4 DEF OneAtWork, Only, LoneBadge, Typed, TypeOK
    <3> QED BY <3>5 DEF BadgeInv
  <2>2. CASE Send(w)
    <3>1. PICK m \in Messages \ used :
            Insert(m, FALSE, TRUE, FALSE) /\ Begin(w, "sent", {m}, Nothing, "bumpRead")
      BY <2>2 DEF Send
    <3>2. /\ kind' = [kind EXCEPT ![w] = "sent"] /\ pc' = [pc EXCEPT ![w] = "bumpRead"]
          /\ \A x \in Writers : kind[x] = "none"
          /\ unread = Cardinality(Unseen)
      BY <1>3, <3>1, BeginBadge DEF Kinds, Recounting
    <3>3. Cardinality(Unseen') = unread' + Delta(w)' /\ kind'[w] = "sent" /\ pc'[w] = "bumpRead"
      <4>1. kind'[w] = "sent" /\ pc'[w] = "bumpRead" /\ unread' = unread
        BY <3>1, <3>2 DEF Insert, thread, Typed, TypeOK
      <4>2. Cardinality(Unseen') = Cardinality(Unseen)
        BY <3>1, InsertUnseen
      <4> QED BY <2>0, <3>2, <4>1, <4>2 DEF Delta
    <3>4. target'[w] \intersect inbound' = {}
      BY <3>1 DEF Insert, Begin, Typed, TypeOK
    <3>5. OneAtWork(w)'
      BY <3>2, <3>3, <3>4 DEF OneAtWork, Only, LoneBadge, Typed, TypeOK
    <3> QED BY <3>5 DEF BadgeInv
  <2>3. CASE UndoSend(w)
    <3>1. exact /\ kind[w] = "sent" /\ pc[w] = "bumpRead" /\ Idle(w) /\ unread' = unread
      BY <1>3, <2>3 DEF UndoSend, End, history, thread
    <3>2. Alone
      BY <3>1, AloneBadge
    <3>3. Unseen' = Unseen
      BY <2>3, <3>1, <3>2 DEF UndoSend, Unseen, LoneBadge
    <3> QED BY <2>0, <3>1, <3>2, <3>3, BadgeEnds DEF LoneBadge, Delta
  <2>4. CASE BumpRead(w)
    <3>1. /\ exact /\ pc[w] = "bumpRead" /\ pc' = [pc EXCEPT ![w] = "bumpWrite"]
          /\ kind' = kind /\ Unseen' = Unseen /\ held'[w].unread = unread
      BY <1>3, <2>4 DEF BumpRead, Step, history, rows, Unseen, Typed, TypeOK
    <3>2. Alone /\ kind[w] \notin {"none", "atomic", "star"}
      BY <3>1, AloneBadge DEF Typed, PcKind, At
    <3>3. OneAtWork(w)'
      BY <3>1, <3>2 DEF OneAtWork, Only, LoneBadge, Delta, Typed, TypeOK
    <3> QED BY <3>3 DEF BadgeInv
  <2>5. CASE BumpWrite(w)
    <3>1. /\ exact /\ pc[w] = "bumpWrite" /\ Idle(w) /\ Unseen' = Unseen
          /\ unread' = held[w].unread + Delta(w)
      BY <1>3, <2>5 DEF BumpWrite, End, history, rows, Unseen
    <3>2. Alone
      BY <3>1, AloneBadge DEF Typed, PcKind, At
    <3> QED BY <3>1, <3>2, BadgeEnds DEF LoneBadge
  <2>6. CASE ReadRow(w)
    <3>1. PICK m \in stored, s, t \in BOOLEAN, k \in {"rewrite", "star"} :
            /\ Begin(w, k, {m}, [Nothing EXCEPT !.seen = s, !.trash = t], "patch")
            /\ k = "star" => s = (m \in seen) /\ t = (m \in trashed)
      BY <2>6 DEF ReadRow
    <3>2. /\ kind' = [kind EXCEPT ![w] = k] /\ pc' = [pc EXCEPT ![w] = "patch"]
          /\ \A x \in Writers : kind[x] = "none"
          /\ k = "star" => unread = Cardinality(Unseen)
      BY <1>3, <3>1, BeginBadge DEF Kinds, Recounting
    <3>3. Unseen' = Unseen /\ stored' = stored /\ inbound' = inbound /\ unread' = unread
      BY <2>6 DEF ReadRow, rows, thread, Unseen
    <3>4. /\ kind'[w] = k /\ pc'[w] = "patch" /\ target'[w] = {m}
          /\ held'[w].seen = s /\ held'[w].trash = t
      BY <3>1, <3>2 DEF Begin, Nothing, Typed, TypeOK
    <3>5. k = "star" => StarKeeps(w)'
      BY <3>1, <3>3, <3>4 DEF StarKeeps, Unseen
    <3>6. OneAtWork(w)'
      BY <3>2, <3>3, <3>4, <3>5 DEF OneAtWork, Only, LoneBadge, Typed, TypeOK
    <3> QED BY <3>6 DEF BadgeInv
  <2>7. CASE PatchRow(w)
    <3>1. exact /\ pc[w] = "patch"
      BY <1>3, <2>7 DEF PatchRow, End, Step, history
    <3>2. Alone /\ kind[w] \in {"star", "rewrite"}
      BY <3>1, AloneBadge DEF Typed, PcKind, At
    <3>3. CASE kind[w] = "star"
      <4>1. Unseen' = Unseen /\ Idle(w) /\ unread' = unread
        BY <2>7, <3>2, <3>3, StarUnseen DEF PatchRow, End, thread, LoneBadge
      <4> QED BY <3>2, <3>3, <4>1, BadgeEnds DEF LoneBadge
    <3>4. CASE kind[w] = "rewrite"
      <4>1. pc' = [pc EXCEPT ![w] = "countUnseen"] /\ kind' = kind
        BY <2>7, <3>4 DEF PatchRow, Step
      <4>2. OneAtWork(w)'
        BY <3>2, <3>4, <4>1 DEF OneAtWork, Only, LoneBadge, Typed, TypeOK
      <4> QED BY <4>2 DEF BadgeInv
    <3> QED BY <3>2, <3>3, <3>4
  <2>8. CASE PatchThread(w)
    <3>1. /\ kind' = [kind EXCEPT ![w] = "rewrite"] /\ pc' = [pc EXCEPT ![w] = "countUnseen"]
          /\ \A x \in Writers : kind[x] = "none"
      BY <1>3, <2>8, BeginBadge DEF PatchThread, Kinds
    <3>2. OneAtWork(w)'
      BY <3>1 DEF OneAtWork, Only, LoneBadge, Typed, TypeOK
    <3> QED BY <3>2 DEF BadgeInv
  <2>9. CASE Delete(w)
    <3>1. \E m \in stored : Begin(w, "delete", {m}, Nothing, "countAll")
      BY <2>9 DEF Delete
    <3>2. /\ kind' = [kind EXCEPT ![w] = "delete"] /\ pc' = [pc EXCEPT ![w] = "countAll"]
          /\ \A x \in Writers : kind[x] = "none"
      BY <1>3, <3>1, BeginBadge DEF Kinds
    <3>3. OneAtWork(w)'
      BY <3>2 DEF OneAtWork, Only, LoneBadge, Typed, TypeOK
    <3> QED BY <3>3 DEF BadgeInv
  <2>10. CASE CountAll(w) \/ WriteAll(w)
    <3>1. /\ exact /\ kind' = kind
          /\ \/ pc[w] = "countAll" /\ pc' = [pc EXCEPT ![w] = "writeAll"]
             \/ pc[w] = "writeAll" /\ pc' = [pc EXCEPT ![w] = "countUnseen"]
      BY <1>3, <2>10 DEF CountAll, WriteAll, Step, history
    <3>2. Alone /\ kind[w] = "delete"
      BY <3>1, AloneBadge DEF Typed, PcKind, At
    <3>3. OneAtWork(w)'
      BY <3>1, <3>2 DEF OneAtWork, Only, LoneBadge, Typed, TypeOK
    <3> QED BY <3>3 DEF BadgeInv
  <2>11. CASE CountUnseen(w)
    <3>1. /\ exact /\ kind' = kind /\ pc[w] = "countUnseen" /\ Unseen' = Unseen
          /\ pc' = [pc EXCEPT ![w] = "writeUnseen"] /\ held'[w].unread = Cardinality(Unseen)
      BY <1>3, <2>11 DEF CountUnseen, Step, history, rows, Unseen, Typed, TypeOK
    <3>2. Alone /\ kind[w] \in {"delete", "rewrite"}
      BY <3>1, AloneBadge DEF Typed, PcKind, At
    <3>3. OneAtWork(w)'
      BY <3>1, <3>2 DEF OneAtWork, Only, LoneBadge, Typed, TypeOK
    <3> QED BY <3>3 DEF BadgeInv
  <2>12. CASE WriteUnseen(w)
    <3>1. /\ exact /\ pc[w] = "writeUnseen" /\ Idle(w) /\ Unseen' = Unseen
          /\ unread' = held[w].unread
      BY <1>3, <2>12 DEF WriteUnseen, End, history, rows, Unseen
    <3>2. Alone
      BY <3>1, AloneBadge DEF Typed, PcKind, At
    <3> QED BY <3>1, <3>2, BadgeEnds DEF LoneBadge
  <2>13. CASE StoreFlags(w) \/ ReadAll(w)
    <3>1. \/ Begin(w, "atomic", {}, Nothing, "recount")
          \/ unread' > 0 /\ Begin(w, "atomic", {}, Nothing, "recountUnread")
      BY <2>13 DEF StoreFlags, ReadAll, thread
    <3>2. AllAtomic /\ kind' = [kind EXCEPT ![w] = "atomic"]
      BY <1>3, <3>1, BeginBadge DEF Kinds, AllAtomic
    <3>3. AllAtomic' /\ BadgeDue'
      BY <3>1, <3>2 DEF AllAtomic, BadgeDue, Begin, Typed, TypeOK
    <3> QED BY <3>3 DEF BadgeInv
  <2>14. CASE Recount(w)
    <3>1. exact /\ pc[w] = "recount" /\ Idle(w) /\ unread' = Cardinality(Unseen')
      BY <1>3, <2>14 DEF Recount, End, history, rows, Unseen
    <3>2. AllAtomic
      BY <3>1, AloneBadge DEF Typed, PcKind, At
    <3>3. AllAtomic' /\ BadgeDue'
      BY <3>1, <3>2 DEF AllAtomic, BadgeDue, Idle, Typed, TypeOK
    <3> QED BY <3>3 DEF BadgeInv
  <2>15. CASE RecountUnread(w)
    <3>1. /\ exact /\ pc[w] = "recountUnread" /\ Idle(w) /\ Unseen' = Unseen
          /\ unread' = IF unread > 0 THEN Cardinality(Unseen) ELSE unread
      BY <1>3, <2>15 DEF RecountUnread, End, history, rows, Unseen
    <3>2. AllAtomic /\ BadgeDue
      BY <3>1, AloneBadge DEF Typed, PcKind, At
    <3>3. AllAtomic'
      BY <3>1, <3>2 DEF AllAtomic, Idle, Typed, TypeOK
    <3>4. BadgeDue'
      BY <3>1, <3>2 DEF BadgeDue, Idle, Typed, TypeOK
    <3> QED BY <3>3, <3>4 DEF BadgeInv
  <2>16. CASE Killed(w)
    BY <1>3, <2>16 DEF Killed
  <2> QED BY <1>3, <2>1, <2>2, <2>3, <2>4, <2>5, <2>6, <2>7, <2>8, <2>9, <2>10, <2>11, <2>12,
             <2>13, <2>14, <2>15, <2>16 DEF WriterStep
<1> QED BY <1>1, <1>2, <1>3 DEF Next, BadgeInv

----------------------------------------------------------------------------
(* Unread mail stays unread. *)
LEMMA AloneLit ==
  ASSUME Typed, LitInv, safe, NEW w \in Writers, kind[w] # "none"
  PROVE  IF kind[w] \in Gentle THEN AllGentle /\ LitDue ELSE Only(w) /\ LoneLit(w)
<1>1. CASE AllGentle /\ LitDue
  BY <1>1 DEF AllGentle
<1>2. CASE \E x \in Writers : OneLights(x)
  BY <1>2 DEF OneLights, Only, Gentle
<1> QED BY <1>1, <1>2 DEF LitInv

LEMMA BeginLit ==
  ASSUME Typed, LitInv, NEW w \in Writers, NEW k \in Kinds, NEW S, NEW h, NEW next,
         Begin(w, k, S, h, next), safe'
  PROVE  /\ kind' = [kind EXCEPT ![w] = k] /\ pc' = [pc EXCEPT ![w] = next]
         /\ \/ /\ \A x \in Writers : kind[x] = "none"
               /\ k \notin Recounting => Lit(unread)
            \/ k \in Gentle /\ AllGentle /\ LitDue
<1>1. kind' = [kind EXCEPT ![w] = k] /\ pc' = [pc EXCEPT ![w] = next]
  BY DEF Begin
<1>2. CASE Active = {}
  <2>1. \A x \in Writers : kind[x] = "none" /\ pc[x] = "idle"
    BY <1>2, NobodyActive DEF Active
  <2>2. safe \/ k \in Recounting
    BY <1>2 DEF Begin, Remember
  <2>3. safe => Lit(unread)
    BY <2>1 DEF LitInv, LitDue, OneLights, Gentle
  <2> QED BY <1>1, <2>1, <2>2, <2>3
<1>3. CASE Active # {}
  <2>1. safe /\ KindsAtWork \union {k} \subseteq {"atomic", "arrival", "buried"}
    BY <1>3 DEF Begin, Remember
  <2>2. AllGentle /\ k \in Gentle
    BY <2>1, NobodyActive DEF AllGentle, Gentle
  <2>3. LitDue
    BY <2>1, <2>2 DEF LitInv, OneLights, AllGentle
  <2> QED BY <1>1, <2>2, <2>3
<1> QED BY <1>2, <1>3

LEMMA LitFrame ==
  ASSUME LitInv, safe' => safe, Unseen' = Unseen,
         UNCHANGED <<stored, inbound, thread, writer>>
  PROVE  LitInv'
<1>1. AllGentle' = AllGentle /\ LitDue' = LitDue
  BY DEF AllGentle, LitDue, Lit, Gentle, thread, writer
<1>2. ASSUME NEW w \in Writers
      PROVE  OneLights(w)' = OneLights(w)
  BY DEF OneLights, Only, LoneLit, Lit, Gentle, StarKeeps, thread, writer
<1> QED BY <1>1, <1>2 DEF LitInv

\* When the one writer at work ends, the badge is lit if it has to be.
LEMMA LitEnds ==
  ASSUME Typed, NEW w \in Writers, Only(w), Idle(w), Lit(unread)'
  PROVE  LitInv'
<1>1. \A x \in Writers : kind'[x] = "none"
  BY DEF Idle, Only, Typed, TypeOK
<1> QED BY <1>1 DEF LitInv, AllGentle, Gentle, LitDue

LEMMA LitStep ==
  ASSUME Typed, LitInv, [Next]_vars
  PROVE  LitInv'
<1>1. CASE UNCHANGED vars
  <2>1. Unseen' = Unseen
    BY <1>1 DEF vars, rows, Unseen
  <2> QED BY <1>1, <2>1, LitFrame DEF vars, rows, history
<1>2. CASE MoveToSpam
  <2>1. safe' => safe /\ Unseen' = Unseen
    BY <1>2 DEF MoveToSpam
  <2>2. UNCHANGED <<stored, inbound, thread, writer>>
    BY <1>2 DEF MoveToSpam
  <2> QED BY <2>1, <2>2, LitFrame DEF LitInv
<1>3. ASSUME NEW w \in Writers, WriterStep(w), safe'
      PROVE  LitInv'
  <2>0. /\ Cardinality(Unseen) \in Nat
        /\ Unseen # {} => Cardinality(Unseen) > 0
        /\ unread \in Nat /\ held[w].unread \in Nat
    BY UnseenFinite DEF Typed, TypeOK
  <2> DEFINE Alone == Only(w) /\ LoneLit(w)
  <2>1. CASE Store(w)
    <3>1. PICK m \in Messages \ used, in, isSeen, isTrashed \in BOOLEAN,
               k \in {"addition", "buried", "arrival"} :
            /\ Insert(m, in, isSeen, isTrashed)
            /\ Begin(w, k, {m}, Nothing, "bumpRead")
            /\ k = "addition" <=> ~in \/ isSeen
      BY <2>1 DEF Store
    <3>2. kind' = [kind EXCEPT ![w] = k] /\ pc' = [pc EXCEPT ![w] = "bumpRead"]
      BY <3>1 DEF Begin
    <3>3. CASE k = "addition"
      <4>1. (\A x \in Writers : kind[x] = "none") /\ Lit(unread)
        BY <1>3, <3>1, <3>3, BeginLit DEF Kinds, Recounting, Gentle
      <4>2. Unseen' = Unseen /\ unread' = unread
        BY <3>1, <3>3, InsertUnseen DEF Insert, thread
      <4>3. OneLights(w)'
        BY <3>2, <3>3, <4>1, <4>2 DEF OneLights, Only, LoneLit, Lit, Gentle, Typed, TypeOK
      <4> QED BY <4>3 DEF LitInv
    <3>4. CASE k # "addition"
      <4>1. AllGentle
        BY <1>3, <3>1, BeginLit DEF Kinds, AllGentle, Gentle
      <4>2. AllGentle' /\ LitDue'
        BY <3>1, <3>2, <3>4, <4>1 DEF AllGentle, Gentle, LitDue, Typed, TypeOK
      <4> QED BY <4>2 DEF LitInv
    <3> QED BY <3>3, <3>4
  <2>2. CASE Send(w)
    <3>1. PICK m \in Messages \ used :
            Insert(m, FALSE, TRUE, FALSE) /\ Begin(w, "sent", {m}, Nothing, "bumpRead")
      BY <2>2 DEF Send
    <3>2. /\ kind' = [kind EXCEPT ![w] = "sent"] /\ pc' = [pc EXCEPT ![w] = "bumpRead"]
          /\ (\A x \in Writers : kind[x] = "none") /\ Lit(unread)
      BY <1>3, <3>1, BeginLit DEF Kinds, Recounting, Gentle
    <3>3. Unseen' = Unseen /\ unread' = unread
      BY <3>1, InsertUnseen DEF Insert, thread
    <3>4. target'[w] \intersect inbound' = {}
      BY <3>1 DEF Insert, Begin, Typed, TypeOK
    <3>5. OneLights(w)'
      BY <3>2, <3>3, <3>4 DEF OneLights, Only, LoneLit, Lit, Gentle, Typed, TypeOK
    <3> QED BY <3>5 DEF LitInv
  <2>3. CASE UndoSend(w)
    <3>1. safe /\ kind[w] = "sent" /\ pc[w] = "bumpRead" /\ Idle(w) /\ unread' = unread
      BY <1>3, <2>3 DEF UndoSend, End, history, thread
    <3>2. Alone
      BY <3>1, AloneLit DEF Gentle
    <3>3. Unseen' = Unseen
      BY <2>3, <3>1, <3>2 DEF UndoSend, Unseen, LoneLit
    <3> QED BY <3>1, <3>2, <3>3, LitEnds DEF LoneLit, Lit
  <2>4. CASE BumpRead(w)
    <3>1. /\ safe /\ pc[w] = "bumpRead" /\ pc' = [pc EXCEPT ![w] = "bumpWrite"]
          /\ kind' = kind /\ Unseen' = Unseen /\ held'[w].unread = unread
      BY <1>3, <2>4 DEF BumpRead, Step, history, rows, Unseen, Typed, TypeOK
    <3>2. kind[w] \notin {"none", "star"}
      BY <3>1 DEF Typed, PcKind, At
    <3>3. CASE kind[w] \in Gentle
      <4>1. AllGentle
        BY <3>1, <3>2, <3>3, AloneLit
      <4>2. AllGentle' /\ LitDue'
        BY <3>1, <4>1 DEF AllGentle, LitDue, Typed, TypeOK
      <4> QED BY <4>2 DEF LitInv
    <3>4. CASE kind[w] \notin Gentle
      <4>1. Alone
        BY <3>1, <3>2, <3>4, AloneLit
      <4>2. OneLights(w)'
        BY <3>1, <3>2, <3>4, <4>1 DEF OneLights, Only, LoneLit, Lit, Typed, TypeOK
      <4> QED BY <4>2 DEF LitInv
    <3> QED BY <3>3, <3>4
  <2>5. CASE BumpWrite(w)
    <3>1. /\ safe /\ pc[w] = "bumpWrite" /\ Idle(w) /\ Unseen' = Unseen
          /\ unread' = held[w].unread + Delta(w)
      BY <1>3, <2>5 DEF BumpWrite, End, history, rows, Unseen
    <3>2. kind[w] \in {"arrival", "buried", "addition", "sent"}
      BY <3>1 DEF Typed, PcKind, At
    <3>3. CASE kind[w] \in {"arrival", "buried"}
      <4>1. AllGentle
        BY <3>1, <3>3, AloneLit DEF Gentle
      <4>2. unread' > 0
        BY <2>0, <3>1, <3>3 DEF Delta
      <4>3. AllGentle' /\ LitDue'
        BY <3>1, <4>1, <4>2 DEF AllGentle, Gentle, LitDue, Lit, Idle, Typed, TypeOK
      <4> QED BY <4>3 DEF LitInv
    <3>4. CASE kind[w] \in {"addition", "sent"}
      <4>1. Alone
        BY <3>1, <3>4, AloneLit DEF Gentle
      <4>2. unread' = held[w].unread
        BY <2>0, <3>1, <3>4 DEF Delta
      <4> QED BY <3>1, <4>1, <4>2, LitEnds DEF LoneLit, Lit
    <3> QED BY <3>2, <3>3, <3>4
  <2>6. CASE ReadRow(w)
    <3>1. PICK m \in stored, s, t \in BOOLEAN, k \in {"rewrite", "star"} :
            /\ Begin(w, k, {m}, [Nothing EXCEPT !.seen = s, !.trash = t], "patch")
            /\ k = "star" => s = (m \in seen) /\ t = (m \in trashed)
      BY <2>6 DEF ReadRow
    <3>2. /\ kind' = [kind EXCEPT ![w] = k] /\ pc' = [pc EXCEPT ![w] = "patch"]
          /\ \A x \in Writers : kind[x] = "none"
          /\ k = "star" => Lit(unread)
      BY <1>3, <3>1, BeginLit DEF Kinds, Recounting, Gentle
    <3>3. Unseen' = Unseen /\ stored' = stored /\ inbound' = inbound /\ unread' = unread
      BY <2>6 DEF ReadRow, rows, thread, Unseen
    <3>4. /\ kind'[w] = k /\ pc'[w] = "patch" /\ target'[w] = {m}
          /\ held'[w].seen = s /\ held'[w].trash = t
      BY <3>1, <3>2 DEF Begin, Nothing, Typed, TypeOK
    <3>5. k = "star" => StarKeeps(w)'
      BY <3>1, <3>3, <3>4 DEF StarKeeps, Unseen
    <3>6. OneLights(w)'
      BY <3>2, <3>3, <3>4, <3>5 DEF OneLights, Only, LoneLit, Lit, Gentle, Typed, TypeOK
    <3> QED BY <3>6 DEF LitInv
  <2>7. CASE PatchRow(w)
    <3>1. safe /\ pc[w] = "patch"
      BY <1>3, <2>7 DEF PatchRow, End, Step, history
    <3>2. kind[w] \in {"star", "rewrite"}
      BY <3>1 DEF Typed, PcKind, At
    <3>3. Alone
      BY <3>1, <3>2, AloneLit DEF Gentle
    <3>4. CASE kind[w] = "star"
      <4>1. Unseen' = Unseen /\ Idle(w) /\ unread' = unread
        BY <2>7, <3>3, <3>4, StarUnseen DEF PatchRow, End, thread, LoneLit
      <4> QED BY <3>3, <3>4, <4>1, LitEnds DEF LoneLit, Lit
    <3>5. CASE kind[w] = "rewrite"
      <4>1. pc' = [pc EXCEPT ![w] = "countUnseen"] /\ kind' = kind
        BY <2>7, <3>5 DEF PatchRow, Step
      <4>2. OneLights(w)'
        BY <3>3, <3>5, <4>1 DEF OneLights, Only, LoneLit, Gentle, Typed, TypeOK
      <4> QED BY <4>2 DEF LitInv
    <3> QED BY <3>2, <3>4, <3>5
  <2>8. CASE PatchThread(w)
    <3>1. /\ kind' = [kind EXCEPT ![w] = "rewrite"] /\ pc' = [pc EXCEPT ![w] = "countUnseen"]
          /\ \A x \in Writers : kind[x] = "none"
      BY <1>3, <2>8, BeginLit DEF PatchThread, Kinds, Gentle
    <3>2. OneLights(w)'
      BY <3>1 DEF OneLights, Only, LoneLit, Gentle, Typed, TypeOK
    <3> QED BY <3>2 DEF LitInv
  <2>9. CASE Delete(w)
    <3>1. \E m \in stored : Begin(w, "delete", {m}, Nothing, "countAll")
      BY <2>9 DEF Delete
    <3>2. /\ kind' = [kind EXCEPT ![w] = "delete"] /\ pc' = [pc EXCEPT ![w] = "countAll"]
          /\ \A x \in Writers : kind[x] = "none"
      BY <1>3, <3>1, BeginLit DEF Kinds, Gentle
    <3>3. OneLights(w)'
      BY <3>2 DEF OneLights, Only, LoneLit, Gentle, Typed, TypeOK
    <3> QED BY <3>3 DEF LitInv
  <2>10. CASE CountAll(w) \/ WriteAll(w)
    <3>1. /\ safe /\ kind' = kind
          /\ \/ pc[w] = "countAll" /\ pc' = [pc EXCEPT ![w] = "writeAll"]
             \/ pc[w] = "writeAll" /\ pc' = [pc EXCEPT ![w] = "countUnseen"]
      BY <1>3, <2>10 DEF CountAll, WriteAll, Step, history
    <3>2. kind[w] = "delete"
      BY <3>1 DEF Typed, PcKind, At
    <3>3. Alone
      BY <3>1, <3>2, AloneLit DEF Gentle
    <3>4. OneLights(w)'
      BY <3>1, <3>2, <3>3 DEF OneLights, Only, LoneLit, Gentle, Typed, TypeOK
    <3> QED BY <3>4 DEF LitInv
  <2>11. CASE CountUnseen(w)
    <3>1. /\ safe /\ kind' = kind /\ pc[w] = "countUnseen" /\ Unseen' = Unseen
          /\ pc' = [pc EXCEPT ![w] = "writeUnseen"] /\ held'[w].unread = Cardinality(Unseen)
      BY <1>3, <2>11 DEF CountUnseen, Step, history, rows, Unseen, Typed, TypeOK
    <3>2. kind[w] \in {"delete", "rewrite"}
      BY <3>1 DEF Typed, PcKind, At
    <3>3. Alone
      BY <3>1, <3>2, AloneLit DEF Gentle
    <3>4. OneLights(w)'
      BY <3>1, <3>2, <3>3 DEF OneLights, Only, LoneLit, Gentle, Typed, TypeOK
    <3> QED BY <3>4 DEF LitInv
  <2>12. CASE WriteUnseen(w)
    <3>1. /\ safe /\ pc[w] = "writeUnseen" /\ Idle(w) /\ Unseen' = Unseen
          /\ unread' = held[w].unread
      BY <1>3, <2>12 DEF WriteUnseen, End, history, rows, Unseen
    <3>2. kind[w] \in {"delete", "rewrite"}
      BY <3>1 DEF Typed, PcKind, At
    <3>3. Alone
      BY <3>1, <3>2, AloneLit DEF Gentle
    <3> QED BY <2>0, <3>1, <3>3, LitEnds DEF LoneLit, Lit
  <2>13. CASE StoreFlags(w) \/ ReadAll(w)
    <3>1. \/ Begin(w, "atomic", {}, Nothing, "recount")
          \/ unread' > 0 /\ Begin(w, "atomic", {}, Nothing, "recountUnread")
      BY <2>13 DEF StoreFlags, ReadAll, thread
    <3>2. AllGentle /\ kind' = [kind EXCEPT ![w] = "atomic"]
      BY <1>3, <3>1, BeginLit DEF Kinds, AllGentle, Gentle
    <3>3. AllGentle' /\ LitDue'
      BY <3>1, <3>2 DEF AllGentle, Gentle, LitDue, Lit, Begin, Typed, TypeOK
    <3> QED BY <3>3 DEF LitInv
  <2>14. CASE Recount(w) \/ RecountUnread(w)
    <3>1. /\ safe /\ pc[w] \in {"recount", "recountUnread"} /\ Idle(w) /\ Unseen' = Unseen
          /\ \/ unread' = Cardinality(Unseen)
             \/ pc[w] = "recountUnread" /\ unread' = unread
      BY <1>3, <2>14 DEF Recount, RecountUnread, End, history, rows, Unseen
    <3>2. AllGentle /\ LitDue
      BY <3>1, AloneLit DEF Typed, PcKind, At, Gentle
    <3>3. AllGentle'
      BY <3>1, <3>2 DEF AllGentle, Gentle, Idle, Typed, TypeOK
    <3>4. CASE unread' = Cardinality(Unseen)
      <4>1. Lit(unread)'
        BY <2>0, <3>1, <3>4 DEF Lit
      <4> QED BY <3>3, <4>1 DEF LitInv, LitDue
    <3>5. CASE pc[w] = "recountUnread" /\ unread' = unread
      <4>1. LitDue'
        BY <3>1, <3>2, <3>5 DEF LitDue, Lit, Idle, Typed, TypeOK
      <4> QED BY <3>3, <4>1 DEF LitInv
    <3> QED BY <3>1, <3>4, <3>5
  <2>15. CASE Killed(w)
    BY <1>3, <2>15 DEF Killed
  <2> QED BY <1>3, <2>1, <2>2, <2>3, <2>4, <2>5, <2>6, <2>7, <2>8, <2>9, <2>10, <2>11, <2>12,
             <2>13, <2>14, <2>15 DEF WriterStep
<1> QED BY <1>1, <1>2, <1>3 DEF Next, LitInv

----------------------------------------------------------------------------
(* msgCount. *)
LEMMA AloneCount ==
  ASSUME CountInv, counted, NEW w \in Writers, kind[w] \in Membership
  PROVE  OneMember(w)
BY DEF CountInv, OneMember

LEMMA BeginCount ==
  ASSUME Typed, CountInv, NEW w \in Writers, NEW k \in Membership, NEW S, NEW h, NEW next,
         Begin(w, k, S, h, next), counted'
  PROVE  /\ kind' = [kind EXCEPT ![w] = k] /\ pc' = [pc EXCEPT ![w] = next]
         /\ target' = [target EXCEPT ![w] = S]
         /\ \A x \in Writers : kind[x] \notin Membership
         /\ k # "delete" => count = Cardinality(stored)
<1>1. KindsAtWork \intersect Membership = {} /\ (counted \/ k = "delete")
  BY DEF Begin, Remember
<1>2. \A x \in Writers : kind[x] \notin Membership
  BY <1>1, NobodyActive DEF Membership
<1>3. counted => count = Cardinality(stored)
  BY <1>2 DEF CountInv, OneMember
<1> QED BY <1>1, <1>2, <1>3 DEF Begin

\* Steps of those who neither add nor delete.
LEMMA CountFrame ==
  ASSUME CountInv, counted' => counted, stored' = stored, count' = count,
         \A x \in Writers :
           /\ kind'[x] \in Membership <=> kind[x] \in Membership
           /\ kind[x] \in Membership =>
                pc'[x] = pc[x] /\ target'[x] = target[x] /\ held'[x] = held[x]
  PROVE  CountInv'
<1>1. CASE counted /\ \A x \in Writers : kind[x] \notin Membership
  BY <1>1 DEF CountInv, OneMember
<1>2. ASSUME NEW w \in Writers, OneMember(w)
      PROVE  OneMember(w)'
  BY <1>2 DEF OneMember, LoneCount
<1> QED BY <1>1, <1>2 DEF CountInv

\* When the one who adds or deletes ends, msgCount is right.
LEMMA CountEnds ==
  ASSUME Typed, NEW w \in Writers, OneMember(w), Idle(w), count' = Cardinality(stored')
  PROVE  CountInv'
<1>1. \A x \in Writers : kind'[x] \notin Membership
  BY DEF Idle, OneMember, Membership, Typed, TypeOK
<1> QED BY <1>1 DEF CountInv

LEMMA CountStep ==
  ASSUME Typed, CountInv, [Next]_vars
  PROVE  CountInv'
<1>1. CASE UNCHANGED vars
  BY <1>1, CountFrame DEF vars, rows, thread, writer, history
<1>2. CASE MoveToSpam
  BY <1>2, CountFrame DEF MoveToSpam, thread, writer
<1>3. ASSUME NEW w \in Writers, WriterStep(w), counted'
      PROVE  CountInv'
  <2>0. /\ count \in Nat /\ Cardinality(stored) \in Nat /\ IsFiniteSet(stored)
        /\ held[w].count \in Nat /\ stored \subseteq used
    BY UnseenFinite DEF Typed, TypeOK
  <2>1. CASE Store(w) \/ Send(w)
    <3>1. PICK m \in Messages \ used, k \in {"addition", "buried", "arrival", "sent"} :
            /\ stored' = stored \union {m} /\ UNCHANGED thread
            /\ Begin(w, k, {m}, Nothing, "bumpRead")
      <4>1. CASE Store(w)
        BY <4>1 DEF Store, Insert
      <4>2. CASE Send(w)
        BY <4>2 DEF Send, Insert
      <4> QED BY <2>1, <4>1, <4>2
    <3>2. /\ kind' = [kind EXCEPT ![w] = k] /\ pc' = [pc EXCEPT ![w] = "bumpRead"]
          /\ target' = [target EXCEPT ![w] = {m}]
          /\ (\A x \in Writers : kind[x] \notin Membership) /\ count = Cardinality(stored)
      BY <1>3, <3>1, BeginCount DEF Membership
    <3>3. Cardinality(stored') = count' + 1
      <4>1. m \notin stored /\ count' = count
        BY <2>0, <3>1 DEF thread
      <4>2. Cardinality(stored \union {m}) = Cardinality(stored) + 1
        BY <2>0, <4>1, FS_AddElement
      <4> QED BY <3>1, <3>2, <4>1, <4>2
    <3>4. OneMember(w)'
      BY <3>1, <3>2, <3>3 DEF OneMember, LoneCount, Membership, Typed, TypeOK
    <3> QED BY <3>4 DEF CountInv
  <2>2. CASE UndoSend(w)
    <3>1. /\ counted /\ kind[w] = "sent" /\ pc[w] = "bumpRead" /\ Idle(w)
          /\ stored' = stored \ target[w] /\ count' = count
      BY <1>3, <2>2 DEF UndoSend, End, history, thread
    <3>2. OneMember(w)
      BY <3>1, AloneCount DEF Membership
    <3>3. PICK m \in stored : target[w] = {m}
      BY <3>1, <3>2 DEF OneMember, LoneCount
    <3>4. Cardinality(stored \ {m}) = Cardinality(stored) - 1
      BY <2>0, FS_RemoveElement
    <3>5. count' = Cardinality(stored')
      BY <2>0, <3>1, <3>2, <3>3, <3>4 DEF OneMember, LoneCount
    <3> QED BY <3>1, <3>2, <3>5, CountEnds
  <2>3. CASE BumpRead(w)
    <3>1. /\ counted /\ pc[w] = "bumpRead" /\ pc' = [pc EXCEPT ![w] = "bumpWrite"]
          /\ kind' = kind /\ stored' = stored /\ held'[w].count = count
      BY <1>3, <2>3 DEF BumpRead, Step, history, rows, Typed, TypeOK
    <3>2. OneMember(w)
      BY <3>1, AloneCount DEF Membership, Typed, PcKind, At
    <3>3. OneMember(w)'
      BY <3>1, <3>2 DEF OneMember, LoneCount, Typed, TypeOK
    <3> QED BY <3>3 DEF CountInv
  <2>4. CASE BumpWrite(w)
    <3>1. /\ counted /\ pc[w] = "bumpWrite" /\ Idle(w) /\ stored' = stored
          /\ count' = held[w].count + 1
      BY <1>3, <2>4 DEF BumpWrite, End, history, rows
    <3>2. OneMember(w)
      BY <3>1, AloneCount DEF Membership, Typed, PcKind, At
    <3> QED BY <3>1, <3>2, CountEnds DEF OneMember, LoneCount
  <2>5. CASE Delete(w)
    <3>1. \E m \in stored : Begin(w, "delete", {m}, Nothing, "countAll")
      BY <2>5 DEF Delete
    <3>2. /\ kind' = [kind EXCEPT ![w] = "delete"] /\ pc' = [pc EXCEPT ![w] = "countAll"]
          /\ \A x \in Writers : kind[x] \notin Membership
      BY <1>3, <3>1, BeginCount DEF Membership
    <3>3. OneMember(w)'
      BY <3>2 DEF OneMember, LoneCount, Membership, Typed, TypeOK
    <3> QED BY <3>3 DEF CountInv
  <2>6. CASE CountAll(w)
    <3>1. /\ counted /\ pc[w] = "countAll" /\ pc' = [pc EXCEPT ![w] = "writeAll"]
          /\ kind' = kind /\ stored' = stored /\ held'[w].count = Cardinality(stored)
      BY <1>3, <2>6 DEF CountAll, Step, history, rows, Typed, TypeOK
    <3>2. OneMember(w)
      BY <3>1, AloneCount DEF Membership, Typed, PcKind, At
    <3>3. OneMember(w)'
      BY <3>1, <3>2 DEF OneMember, LoneCount, Typed, TypeOK
    <3> QED BY <3>3 DEF CountInv
  <2>7. CASE WriteAll(w)
    <3>1. /\ counted /\ pc[w] = "writeAll" /\ pc' = [pc EXCEPT ![w] = "countUnseen"]
          /\ kind' = kind /\ stored' = stored /\ count' = held[w].count
      BY <1>3, <2>7 DEF WriteAll, Step, history, rows
    <3>2. OneMember(w)
      BY <3>1, AloneCount DEF Membership, Typed, PcKind, At
    <3>3. OneMember(w)'
      BY <3>1, <3>2 DEF OneMember, LoneCount, Typed, TypeOK
    <3> QED BY <3>3 DEF CountInv
  <2>8. CASE CountUnseen(w) \/ WriteUnseen(w)
    <3>1. /\ counted /\ stored' = stored /\ count' = count
          /\ \/ pc[w] = "countUnseen" /\ Step(w, "countUnseen", "writeUnseen")
                /\ \A x \in Writers : x # w => held'[x] = held[x]
             \/ pc[w] = "writeUnseen" /\ Idle(w)
      BY <1>3, <2>8 DEF CountUnseen, WriteUnseen, Step, End, history, rows, thread, Typed, TypeOK
    <3>2. CASE kind[w] \in Membership
      <4>1. OneMember(w) /\ count = Cardinality(stored)
        BY <3>1, <3>2, AloneCount DEF OneMember, LoneCount
      <4>2. CASE pc[w] = "countUnseen" /\ Step(w, "countUnseen", "writeUnseen")
        <5>1. OneMember(w)'
          BY <3>1, <4>1, <4>2 DEF Step, OneMember, LoneCount, Typed, TypeOK
        <5> QED BY <5>1 DEF CountInv
      <4>3. CASE Idle(w)
        BY <3>1, <4>1, <4>3, CountEnds
      <4> QED BY <3>1, <4>2, <4>3
    <3>3. CASE kind[w] \notin Membership
      <4>1. \A x \in Writers :
              /\ kind'[x] \in Membership <=> kind[x] \in Membership
              /\ kind[x] \in Membership =>
                   pc'[x] = pc[x] /\ target'[x] = target[x] /\ held'[x] = held[x]
        BY <3>1, <3>3 DEF Step, Idle, Membership, Typed, TypeOK
      <4> QED BY <3>1, <4>1, CountFrame
    <3> QED BY <3>2, <3>3
  <2>9. CASE ReadRow(w) \/ PatchThread(w) \/ StoreFlags(w) \/ ReadAll(w)
    <3>1. /\ stored' = stored /\ count' = count
          /\ \E k \in {"rewrite", "star", "atomic"} : \E S, h, next : Begin(w, k, S, h, next)
      BY <2>9 DEF ReadRow, PatchThread, StoreFlags, ReadAll, rows, thread
    <3>2. /\ counted
          /\ \A x \in Writers :
               /\ kind'[x] \in Membership <=> kind[x] \in Membership
               /\ kind[x] \in Membership =>
                    pc'[x] = pc[x] /\ target'[x] = target[x] /\ held'[x] = held[x]
      BY <1>3, <3>1, ZenonT(60) DEF Begin, Remember, Membership, Typed, TypeOK, PcKind, At
    <3> QED BY <3>1, <3>2, CountFrame
  <2>10. CASE PatchRow(w) \/ Recount(w) \/ RecountUnread(w)
    <3>1. /\ counted /\ stored' = stored /\ count' = count
          /\ pc[w] \in {"patch", "recount", "recountUnread"}
          /\ \/ Idle(w)
             \/ pc' = [pc EXCEPT ![w] = "countUnseen"] /\ UNCHANGED <<kind, target, held>>
      BY <1>3, <2>10 DEF PatchRow, Recount, RecountUnread, End, Step, history, rows, thread
    <3>2. kind[w] \notin Membership
      BY <3>1 DEF Membership, Typed, PcKind, At
    <3>3. \A x \in Writers :
            /\ kind'[x] \in Membership <=> kind[x] \in Membership
            /\ kind[x] \in Membership =>
                 pc'[x] = pc[x] /\ target'[x] = target[x] /\ held'[x] = held[x]
      BY <3>1, <3>2 DEF Idle, Membership, Typed, TypeOK
    <3> QED BY <3>1, <3>3, CountFrame
  <2>11. CASE Killed(w)
    BY <1>3, <2>11 DEF Killed
  <2> QED BY <1>3, <2>1, <2>2, <2>3, <2>4, <2>5, <2>6, <2>7, <2>8, <2>9, <2>10, <2>11
             DEF WriterStep
<1> QED BY <1>1, <1>2, <1>3 DEF Next, CountInv

----------------------------------------------------------------------------
(* The theorems. *)

\* Types, and that flags are kept only for messages of the thread that exist.
THEOREM TypeCorrect == Spec => []TypeOK
<1>1. Init => Typed
  BY TypedInit
<1>2. Typed /\ [Next]_vars => Typed'
  BY TypedStep
<1>3. Typed => TypeOK
  BY DEF Typed
<1> QED BY <1>1, <1>2, <1>3, PTL DEF Spec

Inv == Typed /\ BadgeInv /\ LitInv /\ CountInv

LEMMA Invariant == Spec => []Inv
<1>1. Init => Inv
  <2>1. ASSUME Init
        PROVE  BadgeInv /\ LitInv /\ CountInv
    <3>1. /\ \A w \in Writers : kind[w] = "none"
          /\ unread = 0 /\ count = 0 /\ Unseen = {} /\ stored = {}
      BY <2>1 DEF Init, Unseen
    <3>2. unread = Cardinality(Unseen) /\ count = Cardinality(stored)
      BY <3>1, FS_EmptySet
    <3> QED BY <3>1, <3>2 DEF BadgeInv, AllAtomic, BadgeDue, LitInv, AllGentle, Gentle,
                              LitDue, Lit, CountInv, Membership
  <2> QED BY <2>1, TypedInit DEF Inv
<1>2. Inv /\ [Next]_vars => Inv'
  BY TypedStep, BadgeStep, LitStep, CountStep DEF Inv
<1> QED BY <1>1, <1>2, PTL DEF Spec

\* With nobody at work the badge is exact unless writers overlapped in a way that
\* can hurt, and it is exact again after any recount that ran alone.
THEOREM BadgeIsExact == Spec => []BadgeExact
<1>1. Inv => BadgeExact
  <2>1. ASSUME Inv, Quiet, exact
        PROVE  unread = Cardinality(Unseen)
    <3>1. \A x \in Writers : kind[x] = "none" /\ pc[x] = "idle"
      BY <2>1, NobodyActive DEF Inv, Quiet, Active
    <3> QED BY <2>1, <3>1 DEF Inv, BadgeInv, BadgeDue, OneAtWork
  <2> QED BY <2>1 DEF BadgeExact
<1> QED BY <1>1, Invariant, PTL

\* Arrivals, IMAP flag changes and read-all never make unread mail look read,
\* however many of them overlap.
THEOREM UnreadStaysLit == Spec => []ArrivalsStayUnread
<1>1. Inv => ArrivalsStayUnread
  <2>1. ASSUME Inv, Quiet, safe
        PROVE  Lit(unread)
    <3>1. \A x \in Writers : kind[x] = "none" /\ pc[x] = "idle"
      BY <2>1, NobodyActive DEF Inv, Quiet, Active
    <3> QED BY <2>1, <3>1 DEF Inv, LitInv, LitDue, OneLights, Gentle
  <2> QED BY <2>1 DEF ArrivalsStayUnread, Lit
<1> QED BY <1>1, Invariant, PTL

\* msgCount is exact while additions and deletes do not overlap, and again after
\* a delete that none of them overlapped.
THEOREM CountIsExact == Spec => []CountExact
<1>1. Inv => CountExact
  <2>1. ASSUME Inv, Quiet, counted
        PROVE  count = Cardinality(stored)
    <3>1. \A x \in Writers : kind[x] = "none"
      BY <2>1, NobodyActive DEF Inv, Quiet
    <3> QED BY <2>1, <3>1 DEF Inv, CountInv, OneMember, Membership
  <2> QED BY <2>1 DEF CountExact
<1> QED BY <1>1, Invariant, PTL

\* Both counters of a thread are exact whenever nobody is at work on them.
THEOREM CountersAreExact == Spec => []CountersExact
<1>1. BadgeExact /\ CountExact => CountersExact
  BY DEF CountersExact
<1> QED BY <1>1, BadgeIsExact, CountIsExact, PTL

------------------------------------------------------------------------------
(***************************************************************************)
(* Deliveries, for any mails, facts, failures and changes of the           *)
(* blocklist.  DeliveryInv says of a mail what its attempt has checked so  *)
(* far and what its copies account for.                                    *)
(***************************************************************************)
Stations == {"sender", "envelope", "header", "evaluate", "look", "insert", "file", "bump",
             "act", "members", "accepted", "refused"}
Works == {"answers", "push"}
Senders == UNION {{f.envelope, f.header} : f \in Facts}

Chronicles == [copies : Nat, failures : Nat, late : Nat, known : BOOLEAN,
               outcast : SUBSET Senders, effects : SUBSET Works,
               wrongs : SUBSET {"outcast", "yanked"}]

DeliveryTypeOK ==
    /\ fact \in [Mails -> Facts]
    /\ blocks \in Nat
    /\ conversation \in [count : Nat, spam : BOOLEAN]
    /\ progress \in [Mails -> [pc : Stations, new : BOOLEAN]]
    /\ deferred \subseteq Mails \X Works
    /\ chronicle \in [Mails -> Chronicles]

IsStored(m) == progress[m].pc \in {"file", "bump", "act", "members", "accepted"}

\* Every copy is that of an attempt that failed late, or of this one.
Accounted(m) == chronicle[m].copies = chronicle[m].late + (IF IsStored(m) THEN 1 ELSE 0)

\* A sender that stayed on the blocklist does not get past its check.
Checked(m) ==
    /\ chronicle[m].outcast \subseteq blocked \cap SendersOf(m)
    /\ progress[m].pc \in {"header", "evaluate", "look", "insert"} =>
          fact[m].envelope \notin chronicle[m].outcast
    /\ progress[m].pc \in {"evaluate", "look", "insert"} =>
          fact[m].header \notin chronicle[m].outcast

\* A conversation that had mail is not taken for a new one.
Remembers(m) ==
    /\ chronicle[m].known => conversation.count > 0
    /\ chronicle[m].known /\ progress[m].pc \in {"insert", "file"} => ~progress[m].new

\* What was not refused may be stored, and is called for if it is wanted.
Fit(m) == "reject" \notin fact[m].rules /\ ~fact[m].listed
Fits(m) ==
    /\ progress[m].pc \in {"look", "insert"} \/ chronicle[m].copies > 0 => Fit(m)
    /\ chronicle[m].effects # {} => chronicle[m].copies > 0
    /\ "push" \in chronicle[m].effects => WantsNotice(m)

Sound(m) ==
    Accounted(m) /\ Checked(m) /\ Remembers(m) /\ Fits(m) /\ chronicle[m].wrongs = {}

WorkIsOwed == \A w \in deferred : chronicle[w[1]].copies > 0

DeliveryInv == DeliveryTypeOK /\ (\A m \in Mails : Sound(m)) /\ WorkIsOwed

LEMMA DeliveryInitInv == DeliveryInit => DeliveryInv
<1> SUFFICES ASSUME DeliveryInit PROVE DeliveryInv
  OBVIOUS
<1>1. DeliveryTypeOK
  <2>1. NotYet \in [pc : Stations, new : BOOLEAN] /\ Untouched \in Chronicles
    BY DEF NotYet, Stations, Untouched, Chronicles
  <2> QED
    BY <2>1 DEF DeliveryInit, DeliveryTypeOK
<1>2. ASSUME NEW m \in Mails PROVE Sound(m)
  BY DEF DeliveryInit, NotYet, Untouched, Sound, Accounted, IsStored, Checked, Remembers, Fits
<1> QED
  BY <1>1, <1>2 DEF DeliveryInv, WorkIsOwed, DeliveryInit

LEMMA TypesOfMail ==
  ASSUME DeliveryTypeOK, NEW m \in Mails
  PROVE  /\ fact[m] \in Facts
         /\ progress[m] \in [pc : Stations, new : BOOLEAN]
         /\ progress[m].pc \in Stations /\ progress[m].new \in BOOLEAN
         /\ chronicle[m] \in Chronicles
         /\ chronicle[m].copies \in Nat /\ chronicle[m].failures \in Nat
         /\ chronicle[m].late \in Nat /\ chronicle[m].known \in BOOLEAN
         /\ chronicle[m].outcast \in SUBSET Senders
         /\ chronicle[m].effects \in SUBSET Works
         /\ chronicle[m].wrongs \in SUBSET {"outcast", "yanked"}
         /\ conversation.count \in Nat /\ conversation.spam \in BOOLEAN
  BY DEF DeliveryTypeOK, Chronicles

LEMMA AdvanceOf ==
  ASSUME DeliveryTypeOK, NEW m \in Mails, NEW next \in Stations, Advance(m, next)
  PROVE  /\ progress' \in [Mails -> [pc : Stations, new : BOOLEAN]]
         /\ progress'[m].pc = next /\ progress'[m].new = progress[m].new
         /\ \A n \in Mails : n # m => progress'[n] = progress[n]
<1> DEFINE p == [progress[m] EXCEPT !.pc = next]
<1>1. p \in [pc : Stations, new : BOOLEAN] /\ p.pc = next /\ p.new = progress[m].new
  BY TypesOfMail
<1>2. progress' = [progress EXCEPT ![m] = p]
  BY DEF Advance
<1> HIDE DEF p
<1> QED
  BY <1>1, <1>2 DEF DeliveryTypeOK

LEMMA NoteOf ==
  ASSUME DeliveryTypeOK, NEW m \in Mails, NEW entry \in Chronicles, Note(m, entry)
  PROVE  /\ chronicle' \in [Mails -> Chronicles]
         /\ chronicle'[m] = entry
         /\ \A n \in Mails : n # m => chronicle'[n] = chronicle[n]
  BY DEF Note, DeliveryTypeOK

\* The mails a step is not about.
LEMMA OtherMails ==
  ASSUME DeliveryTypeOK, NEW n \in Mails, Sound(n),
         fact' = fact, blocked' = blocked,
         progress'[n] = progress[n], chronicle'[n] = chronicle[n],
         conversation'.count \in Nat, conversation'.count >= conversation.count
  PROVE  Sound(n)'
  BY TypesOfMail DEF Sound, Accounted, IsStored, Checked, Remembers, Fits, Fit, WantsNotice, SendersOf

\* A step of one mail, but for what it does to the mail itself.
LEMMA OneMail ==
  ASSUME DeliveryInv, NEW m \in Mails, Sound(m)',
         fact' = fact, blocked' = blocked, blocks' = blocks,
         conversation' \in [count : Nat, spam : BOOLEAN],
         conversation'.count >= conversation.count,
         progress' \in [Mails -> [pc : Stations, new : BOOLEAN]],
         chronicle' \in [Mails -> Chronicles],
         \A n \in Mails : n # m => progress'[n] = progress[n] /\ chronicle'[n] = chronicle[n],
         chronicle'[m].copies >= chronicle[m].copies,
         deferred' \subseteq deferred \cup ({m} \X Works),
         deferred' \subseteq deferred \/ chronicle'[m].copies > 0
  PROVE  DeliveryInv'
<1>1. DeliveryTypeOK'
  BY DEF DeliveryInv, DeliveryTypeOK
<1>2. conversation'.count \in Nat
  OBVIOUS
<1>3. \A n \in Mails : Sound(n)'
  BY <1>2, OtherMails DEF DeliveryInv
<1>4. WorkIsOwed'
  <2> SUFFICES ASSUME NEW w \in deferred' PROVE chronicle'[w[1]].copies > 0
    BY DEF WorkIsOwed
  <2>1. w[1] \in Mails /\ (w \in deferred \/ (w[1] = m /\ chronicle'[m].copies > 0))
    BY DEF DeliveryInv, DeliveryTypeOK
  <2>2. w \in deferred => chronicle[w[1]].copies > 0
    BY DEF DeliveryInv, WorkIsOwed
  <2>3. chronicle[m].copies \in Nat /\ chronicle'[m].copies \in Nat
    BY DEF DeliveryInv, DeliveryTypeOK, Chronicles
  <2> QED
    BY <2>1, <2>2, <2>3
<1> QED
  BY <1>1, <1>3, <1>4 DEF DeliveryInv

\* The checks, and what only moves the attempt on.
LEMMA MovesOn ==
  ASSUME DeliveryInv, NEW m \in Mails, NEW next \in Stations, Advance(m, next),
         UNCHANGED <<fact, blocked, blocks, chronicle>>,
         conversation' \in [count : Nat, spam : BOOLEAN],
         conversation'.count >= conversation.count,
         deferred' \subseteq deferred \cup ({m} \X Works),
         deferred' \subseteq deferred \/ chronicle[m].copies > 0,
         IsStored(m) <=> next \in {"file", "bump", "act", "members", "accepted"},
         next \notin {"file", "insert"},
         next = "header" => fact[m].envelope \notin blocked,
         next \in {"evaluate", "look"} =>
           fact[m].envelope \notin chronicle[m].outcast /\ fact[m].header \notin chronicle[m].outcast,
         next = "look" => Fit(m)
  PROVE  DeliveryInv'
<1>1. DeliveryTypeOK /\ Sound(m)
  BY DEF DeliveryInv
<1>2. /\ progress' \in [Mails -> [pc : Stations, new : BOOLEAN]]
      /\ progress'[m].pc = next
      /\ \A n \in Mails : n # m => progress'[n] = progress[n]
  BY <1>1, AdvanceOf
<1>3. conversation'.count \in Nat /\ conversation.count \in Nat
  BY <1>1, TypesOfMail
<1>4. Sound(m)'
  <2>1. Accounted(m)'
    BY <1>1, <1>2 DEF Sound, Accounted, IsStored
  <2>2. Checked(m)'
    BY <1>1, <1>2 DEF Sound, Checked, SendersOf
  <2>3. Remembers(m)'
    BY <1>1, <1>2, <1>3 DEF Sound, Remembers
  <2>4. Fits(m)' /\ chronicle'[m].wrongs = {}
    BY <1>1, <1>2 DEF Sound, Fits, Fit, WantsNotice
  <2> QED
    BY <2>1, <2>2, <2>3, <2>4 DEF Sound
<1>5. chronicle' \in [Mails -> Chronicles] /\ chronicle'[m].copies >= chronicle[m].copies
  BY <1>1, TypesOfMail DEF DeliveryTypeOK
<1> QED
  BY <1>2, <1>4, <1>5, OneMail

LEMMA ChecksInv ==
  ASSUME DeliveryInv, NEW m \in Mails, CheckEnvelope(m) \/ CheckHeader(m) \/ Evaluate(m)
  PROVE  DeliveryInv'
<1>1. DeliveryTypeOK /\ Sound(m) /\ ~IsStored(m)
  BY DEF DeliveryInv, CheckEnvelope, CheckHeader, Evaluate, IsStored
<1>2. /\ UNCHANGED <<fact, blocked, blocks, conversation, deferred, chronicle>>
      /\ conversation' \in [count : Nat, spam : BOOLEAN]
      /\ conversation'.count >= conversation.count
  BY <1>1, TypesOfMail DEF CheckEnvelope, CheckHeader, Evaluate, DeliveryTypeOK
<1>3. ASSUME NEW next \in Stations, Advance(m, next),
             next \notin {"insert", "file", "bump", "act", "members", "accepted"},
             next = "header" => fact[m].envelope \notin blocked,
             next \in {"evaluate", "look"} =>
               fact[m].envelope \notin chronicle[m].outcast
               /\ fact[m].header \notin chronicle[m].outcast,
             next = "look" => Fit(m)
      PROVE  DeliveryInv'
  BY <1>1, <1>2, <1>3, MovesOn
<1> USE DEF Stations, Refuse
<1>4. CASE CheckEnvelope(m)
  BY <1>3, <1>4 DEF CheckEnvelope
<1>5. CASE CheckHeader(m)
  <2>1. fact[m].envelope \notin chronicle[m].outcast
        /\ (fact[m].header \notin blocked => fact[m].header \notin chronicle[m].outcast)
    BY <1>1, <1>5 DEF CheckHeader, Sound, Checked
  <2> QED
    BY <1>3, <1>5, <2>1 DEF CheckHeader
<1>6. CASE Evaluate(m)
  <2>1. fact[m].envelope \notin chronicle[m].outcast
        /\ fact[m].header \notin chronicle[m].outcast
    BY <1>1, <1>6 DEF Evaluate, Sound, Checked
  <2>2. fact[m].spam = "off" => ~fact[m].listed
    BY <1>1, TypesOfMail, FactsAssumption
  <2> QED
    BY <1>3, <1>6, <2>1, <2>2 DEF Evaluate, Fit
<1> QED
  BY <1>4, <1>5, <1>6

LEMMA BeginsInv ==
  ASSUME DeliveryInv, NEW m \in Mails, Attempt(m)
  PROVE  DeliveryInv'
<1> DEFINE known == conversation.count > 0
           outcast == SendersOf(m) \cap blocked
           entry == [chronicle[m] EXCEPT !.known = known, !.outcast = outcast]
<1>1. DeliveryTypeOK /\ Sound(m)
  BY DEF DeliveryInv
<1>2. known \in BOOLEAN /\ outcast \in SUBSET Senders
  BY <1>1, TypesOfMail DEF SendersOf, Senders
<1>3. Note(m, entry) /\ Advance(m, "envelope") /\ progress[m].pc = "sender"
      /\ UNCHANGED <<fact, blocked, blocks, conversation, deferred>>
  BY DEF Attempt
<1>k. (known <=> conversation.count > 0) /\ outcast = SendersOf(m) \cap blocked
  OBVIOUS
<1> HIDE DEF known, outcast
<1>4. /\ entry \in Chronicles /\ entry.known = known /\ entry.outcast = outcast
      /\ entry.copies = chronicle[m].copies /\ entry.late = chronicle[m].late
      /\ entry.effects = chronicle[m].effects /\ entry.wrongs = chronicle[m].wrongs
  BY <1>1, <1>2, TypesOfMail DEF Chronicles
<1> HIDE DEF entry
<1>5. /\ chronicle' \in [Mails -> Chronicles] /\ chronicle'[m] = entry
      /\ progress' \in [Mails -> [pc : Stations, new : BOOLEAN]]
      /\ progress'[m].pc = "envelope"
      /\ \A n \in Mails : n # m => progress'[n] = progress[n] /\ chronicle'[n] = chronicle[n]
  BY <1>1, <1>3, <1>4, NoteOf, AdvanceOf DEF Stations
<1>6. Sound(m)'
  <2>1. Accounted(m)' /\ Checked(m)'
    BY <1>1, <1>3, <1>4, <1>5, <1>k DEF Sound, Accounted, IsStored, Checked, SendersOf
  <2>2. Remembers(m)'
    BY <1>3, <1>4, <1>5, <1>k DEF Remembers
  <2>3. Fits(m)' /\ chronicle'[m].wrongs = {}
    BY <1>1, <1>3, <1>4, <1>5 DEF Sound, Fits, Fit, WantsNotice
  <2> QED
    BY <2>1, <2>2, <2>3 DEF Sound
<1>7. chronicle'[m].copies >= chronicle[m].copies /\ conversation'.count >= conversation.count
      /\ conversation' \in [count : Nat, spam : BOOLEAN]
  BY <1>1, <1>3, <1>4, <1>5, TypesOfMail DEF DeliveryTypeOK
<1> QED
  BY <1>3, <1>5, <1>6, <1>7, OneMail

LEMMA LookInv ==
  ASSUME DeliveryInv, NEW m \in Mails, Look(m)
  PROVE  DeliveryInv'
<1>1. DeliveryTypeOK /\ Sound(m)
  BY DEF DeliveryInv
<1> DEFINE new == conversation.count = 0
           p == [pc |-> "insert", new |-> new]
<1>2. new \in BOOLEAN /\ (new <=> conversation.count = 0)
  OBVIOUS
<1>3. progress[m].pc = "look" /\ progress' = [progress EXCEPT ![m] = p]
      /\ UNCHANGED <<fact, blocked, blocks, conversation, deferred, chronicle>>
  BY DEF Look
<1> HIDE DEF new
<1>4. p \in [pc : Stations, new : BOOLEAN] /\ p.pc = "insert" /\ p.new = new
  BY <1>2 DEF Stations
<1> HIDE DEF p
<1>5. /\ progress' \in [Mails -> [pc : Stations, new : BOOLEAN]] /\ progress'[m] = p
      /\ \A n \in Mails : n # m => progress'[n] = progress[n] /\ chronicle'[n] = chronicle[n]
  BY <1>1, <1>3, <1>4 DEF DeliveryTypeOK
<1>6. Sound(m)'
  <2>1. Accounted(m)' /\ Checked(m)'
    BY <1>1, <1>3, <1>4, <1>5 DEF Sound, Accounted, IsStored, Checked, SendersOf
  <2>2. Remembers(m)'
    BY <1>1, <1>2, <1>3, <1>4, <1>5, TypesOfMail DEF Sound, Remembers
  <2>3. Fits(m)' /\ chronicle'[m].wrongs = {}
    BY <1>1, <1>3, <1>4, <1>5 DEF Sound, Fits, Fit, WantsNotice
  <2> QED
    BY <2>1, <2>2, <2>3 DEF Sound
<1>7. chronicle'[m].copies >= chronicle[m].copies /\ conversation'.count >= conversation.count
      /\ conversation' \in [count : Nat, spam : BOOLEAN] /\ chronicle' \in [Mails -> Chronicles]
  BY <1>1, <1>3, TypesOfMail DEF DeliveryTypeOK
<1> QED
  BY <1>3, <1>5, <1>6, <1>7, OneMail

LEMMA InsertInv ==
  ASSUME DeliveryInv, NEW m \in Mails, InsertMessage(m)
  PROVE  DeliveryInv'
<1>1. DeliveryTypeOK /\ Sound(m)
  BY DEF DeliveryInv
<1> DEFINE copies == chronicle[m].copies + 1
           wrongs == IF chronicle[m].outcast # {} THEN chronicle[m].wrongs \cup {"outcast"}
                     ELSE chronicle[m].wrongs
           entry == [chronicle[m] EXCEPT !.copies = copies, !.wrongs = wrongs]
<1>2. progress[m].pc = "insert" /\ Advance(m, "file") /\ Note(m, entry)
      /\ UNCHANGED <<fact, blocked, blocks, conversation, deferred>>
  BY DEF InsertMessage
<1>3. chronicle[m].outcast = {}
  BY <1>1, <1>2 DEF Sound, Checked, SendersOf
<1>k. copies \in Nat /\ copies = chronicle[m].copies + 1 /\ wrongs = chronicle[m].wrongs
  BY <1>1, <1>3, TypesOfMail
<1> HIDE DEF copies, wrongs
<1>4. /\ entry \in Chronicles /\ entry.copies = chronicle[m].copies + 1
      /\ entry.known = chronicle[m].known /\ entry.outcast = {}
      /\ entry.late = chronicle[m].late
      /\ entry.effects = chronicle[m].effects /\ entry.wrongs = chronicle[m].wrongs
  BY <1>1, <1>3, <1>k, TypesOfMail DEF Chronicles
<1> HIDE DEF entry
<1>5. /\ chronicle' \in [Mails -> Chronicles] /\ chronicle'[m] = entry
      /\ progress' \in [Mails -> [pc : Stations, new : BOOLEAN]]
      /\ progress'[m].pc = "file" /\ progress'[m].new = progress[m].new
      /\ \A n \in Mails : n # m => progress'[n] = progress[n] /\ chronicle'[n] = chronicle[n]
  BY <1>1, <1>2, <1>4, NoteOf, AdvanceOf DEF Stations
<1>6. Sound(m)'
  <2>1. Accounted(m)' /\ Checked(m)'
    BY <1>1, <1>2, <1>4, <1>5, TypesOfMail DEF Sound, Accounted, IsStored, Checked, SendersOf
  <2>2. Remembers(m)'
    BY <1>1, <1>2, <1>4, <1>5 DEF Sound, Remembers
  <2>3. Fits(m)' /\ chronicle'[m].wrongs = {}
    BY <1>1, <1>2, <1>4, <1>5, TypesOfMail DEF Sound, Fits, Fit, WantsNotice
  <2> QED
    BY <2>1, <2>2, <2>3 DEF Sound
<1>7. chronicle'[m].copies >= chronicle[m].copies /\ conversation'.count >= conversation.count
      /\ conversation' \in [count : Nat, spam : BOOLEAN]
  BY <1>1, <1>2, <1>4, <1>5, TypesOfMail DEF DeliveryTypeOK
<1> QED
  BY <1>2, <1>5, <1>6, <1>7, OneMail

LEMMA FileInv ==
  ASSUME DeliveryInv, NEW m \in Mails, File(m)
  PROVE  DeliveryInv'
<1>1. DeliveryTypeOK /\ Sound(m) /\ IsStored(m)
  BY DEF DeliveryInv, File, IsStored
<1> DEFINE spam == conversation.spam \/ FilesSpam(m)
           c == [conversation EXCEPT !.spam = spam]
<1>2. progress[m].pc = "file" /\ Advance(m, "bump") /\ conversation' = c /\ spam \in BOOLEAN
      /\ UNCHANGED <<fact, blocked, blocks, deferred>>
  BY DEF File
<1> HIDE DEF spam
<1>3. c \in [count : Nat, spam : BOOLEAN] /\ c.count = conversation.count
  BY <1>1, <1>2, TypesOfMail DEF DeliveryTypeOK
<1> HIDE DEF c
<1>4. chronicle' = chronicle
  <2>1. chronicle[m].known => ~progress[m].new
    BY <1>1, <1>2 DEF Sound, Remembers
  <2> QED
    BY <2>1 DEF File, FilesSpam
<1> QED
  BY <1>1, <1>2, <1>3, <1>4, MovesOn, TypesOfMail DEF Stations

LEMMA BumpInv ==
  ASSUME DeliveryInv, NEW m \in Mails, Bump(m)
  PROVE  DeliveryInv'
<1>1. DeliveryTypeOK /\ Sound(m) /\ IsStored(m)
  BY DEF DeliveryInv, Bump, IsStored
<1>2. /\ conversation' = [conversation EXCEPT !.count = @ + 1] /\ Advance(m, "act")
      /\ UNCHANGED <<fact, blocked, blocks, deferred, chronicle>>
  BY DEF Bump
<1>3. conversation' \in [count : Nat, spam : BOOLEAN] /\ conversation'.count >= conversation.count
  BY <1>1, <1>2, TypesOfMail DEF DeliveryTypeOK
<1> QED
  BY <1>1, <1>2, <1>3, MovesOn DEF Stations

LEMMA DefersInv ==
  ASSUME DeliveryInv, NEW m \in Mails, Act(m) \/ Members(m)
  PROVE  DeliveryInv'
<1>1. DeliveryTypeOK /\ Sound(m) /\ IsStored(m)
  BY DEF DeliveryInv, Act, Members, IsStored
<1>2. chronicle[m].copies > 0
  BY <1>1, TypesOfMail DEF Sound, Accounted
<1>3. /\ Advance(m, "members") \/ Advance(m, "accepted")
      /\ deferred' \subseteq deferred \cup ({m} \X Works)
      /\ UNCHANGED <<fact, blocked, blocks, conversation, chronicle>>
  BY DEF Act, Members, Works
<1>4. conversation' \in [count : Nat, spam : BOOLEAN] /\ conversation'.count >= conversation.count
  BY <1>1, <1>3, TypesOfMail DEF DeliveryTypeOK
<1> QED
  BY <1>1, <1>2, <1>3, <1>4, MovesOn DEF Stations

LEMMA ThrowsInv ==
  ASSUME DeliveryInv, NEW m \in Mails, Throws(m)
  PROVE  DeliveryInv'
<1>1. DeliveryTypeOK /\ Sound(m)
  BY DEF DeliveryInv
<1> DEFINE late == progress[m].pc \in {"file", "bump", "act", "members"}
           failures == chronicle[m].failures + 1
           lates == IF late THEN chronicle[m].late + 1 ELSE chronicle[m].late
           entry == [chronicle[m] EXCEPT !.failures = failures, !.late = lates]
<1>2. /\ progress[m].pc \notin {"refused", "accepted"}
      /\ Advance(m, "sender") /\ Note(m, entry)
      /\ UNCHANGED <<fact, blocked, blocks, conversation, deferred>>
  BY DEF Throws
<1>3. late \in BOOLEAN /\ (late <=> IsStored(m))
  BY <1>2 DEF IsStored
<1> HIDE DEF late
<1>k. failures \in Nat /\ lates \in Nat
      /\ lates = IF late THEN chronicle[m].late + 1 ELSE chronicle[m].late
  BY <1>1, TypesOfMail
<1> HIDE DEF failures, lates
<1>4. /\ entry \in Chronicles /\ entry.copies = chronicle[m].copies
      /\ entry.late = IF late THEN chronicle[m].late + 1 ELSE chronicle[m].late
      /\ entry.known = chronicle[m].known /\ entry.outcast = chronicle[m].outcast
      /\ entry.effects = chronicle[m].effects /\ entry.wrongs = chronicle[m].wrongs
  BY <1>1, <1>k, TypesOfMail DEF Chronicles
<1> HIDE DEF entry
<1>5. /\ chronicle' \in [Mails -> Chronicles] /\ chronicle'[m] = entry
      /\ progress' \in [Mails -> [pc : Stations, new : BOOLEAN]]
      /\ progress'[m].pc = "sender"
      /\ \A n \in Mails : n # m => progress'[n] = progress[n] /\ chronicle'[n] = chronicle[n]
  BY <1>1, <1>2, <1>4, NoteOf, AdvanceOf DEF Stations
<1>6. Sound(m)'
  <2>1. Accounted(m)'
    BY <1>1, <1>3, <1>4, <1>5, TypesOfMail DEF Sound, Accounted, IsStored
  <2>2. Checked(m)' /\ Remembers(m)'
    BY <1>1, <1>2, <1>4, <1>5 DEF Sound, Checked, Remembers, SendersOf
  <2>3. Fits(m)' /\ chronicle'[m].wrongs = {}
    BY <1>1, <1>2, <1>4, <1>5 DEF Sound, Fits, Fit, WantsNotice
  <2> QED
    BY <2>1, <2>2, <2>3 DEF Sound
<1>7. chronicle'[m].copies >= chronicle[m].copies /\ conversation'.count >= conversation.count
      /\ conversation' \in [count : Nat, spam : BOOLEAN]
  BY <1>1, <1>2, <1>4, <1>5, TypesOfMail DEF DeliveryTypeOK
<1> QED
  BY <1>2, <1>5, <1>6, <1>7, OneMail

LEMMA RunDeferredInv ==
  ASSUME DeliveryInv, NEW w \in deferred, RunDeferred(w)
  PROVE  DeliveryInv'
<1>1. PICK m \in Mails, what \in Works : w = <<m, what>>
  BY DEF DeliveryInv, DeliveryTypeOK
<1>2. DeliveryTypeOK /\ Sound(m) /\ chronicle[m].copies > 0
  BY <1>1 DEF DeliveryInv, WorkIsOwed
<1> DEFINE entry == [chronicle[m] EXCEPT !.effects = @ \cup {what}]
<1>3. /\ chronicle' = chronicle \/ (Note(m, entry) /\ (what = "push" => WantsNotice(m)))
      /\ deferred' = deferred \ {w}
      /\ UNCHANGED <<fact, blocked, blocks, conversation, progress>>
  BY <1>1 DEF RunDeferred
<1>4. /\ entry \in Chronicles /\ entry.copies = chronicle[m].copies
      /\ entry.late = chronicle[m].late /\ entry.known = chronicle[m].known
      /\ entry.outcast = chronicle[m].outcast
      /\ entry.effects = chronicle[m].effects \cup {what}
      /\ entry.wrongs = chronicle[m].wrongs
  BY <1>2, TypesOfMail DEF Chronicles
<1> HIDE DEF entry
<1>5. /\ chronicle' \in [Mails -> Chronicles]
      /\ chronicle'[m] = chronicle[m]
         \/ (chronicle'[m] = entry /\ (what = "push" => WantsNotice(m)))
      /\ \A n \in Mails : n # m => progress'[n] = progress[n] /\ chronicle'[n] = chronicle[n]
  BY <1>2, <1>3, <1>4, NoteOf DEF DeliveryTypeOK
<1>6. Sound(m)'
  <2>1. Accounted(m)'
    BY <1>2, <1>3, <1>4, <1>5 DEF Sound, Accounted, IsStored
  <2>2. Checked(m)' /\ Remembers(m)'
    BY <1>2, <1>3, <1>4, <1>5 DEF Sound, Checked, Remembers, SendersOf
  <2>3. Fits(m)' /\ chronicle'[m].wrongs = {}
    BY <1>2, <1>3, <1>4, <1>5 DEF Sound, Fits, Fit, WantsNotice
  <2> QED
    BY <2>1, <2>2, <2>3 DEF Sound
<1>7. chronicle'[m].copies >= chronicle[m].copies /\ conversation'.count >= conversation.count
      /\ conversation' \in [count : Nat, spam : BOOLEAN]
      /\ progress' \in [Mails -> [pc : Stations, new : BOOLEAN]]
  BY <1>2, <1>3, <1>4, <1>5, TypesOfMail DEF DeliveryTypeOK
<1>8. deferred' \subseteq deferred
  BY <1>3
<1> QED
  BY <1>3, <1>5, <1>6, <1>7, <1>8, OneMail

LEMMA BlocklistInv ==
  ASSUME DeliveryInv, NEW sender, ChangeBlocklist(sender)
  PROVE  DeliveryInv'
<1>1. /\ UNCHANGED <<fact, conversation, progress, deferred>> /\ blocks' = blocks + 1
      /\ blocked' = IF sender \in blocked THEN blocked \ {sender} ELSE blocked \cup {sender}
      /\ chronicle' = [m \in Mails |-> [chronicle[m] EXCEPT !.outcast = @ \ {sender}]]
  BY DEF ChangeBlocklist
<1>2. ASSUME NEW m \in Mails
      PROVE  /\ chronicle'[m] \in Chronicles
             /\ chronicle'[m].outcast = chronicle[m].outcast \ {sender}
             /\ chronicle'[m].copies = chronicle[m].copies
             /\ chronicle'[m].late = chronicle[m].late
             /\ chronicle'[m].known = chronicle[m].known
             /\ chronicle'[m].effects = chronicle[m].effects
             /\ chronicle'[m].wrongs = chronicle[m].wrongs
  BY <1>1, TypesOfMail DEF DeliveryInv, Chronicles
<1>3. DeliveryTypeOK'
  <2>1. chronicle' \in [Mails -> Chronicles]
    BY <1>1, <1>2
  <2> QED
    BY <2>1, <1>1 DEF DeliveryInv, DeliveryTypeOK
<1>4. ASSUME NEW m \in Mails PROVE Sound(m)'
  <2>1. Sound(m)
    BY DEF DeliveryInv
  <2>2. Accounted(m)' /\ Remembers(m)'
    BY <2>1, <1>1, <1>2 DEF Sound, Accounted, IsStored, Remembers
  <2>3. Checked(m)'
    BY <2>1, <1>1, <1>2 DEF Sound, Checked, SendersOf
  <2>4. Fits(m)' /\ chronicle'[m].wrongs = {}
    BY <2>1, <1>1, <1>2 DEF Sound, Fits, Fit, WantsNotice
  <2> QED
    BY <2>2, <2>3, <2>4 DEF Sound
<1>5. WorkIsOwed'
  BY <1>1, <1>2 DEF DeliveryInv, DeliveryTypeOK, WorkIsOwed
<1> QED
  BY <1>3, <1>4, <1>5 DEF DeliveryInv

LEMMA DeliveryStepInv == DeliveryInv /\ [DeliveryNext]_deliveryVars => DeliveryInv'
<1> SUFFICES ASSUME DeliveryInv, [DeliveryNext]_deliveryVars PROVE DeliveryInv'
  OBVIOUS
<1>1. CASE UNCHANGED deliveryVars
  BY <1>1 DEF deliveryVars, DeliveryInv, DeliveryTypeOK, WorkIsOwed, Sound, Accounted, IsStored,
              Checked, Remembers, Fits, Fit, WantsNotice, SendersOf
<1>2. CASE \E w \in deferred : RunDeferred(w)
  BY <1>2, RunDeferredInv
<1>3. ASSUME NEW m \in Mails,
             \/ Attempt(m) \/ CheckEnvelope(m) \/ CheckHeader(m) \/ Evaluate(m)
             \/ Look(m) \/ InsertMessage(m) \/ File(m) \/ Bump(m)
             \/ Act(m) \/ Members(m) \/ Throws(m)
             \/ \E sender \in SendersOf(m) : ChangeBlocklist(sender)
      PROVE  DeliveryInv'
  BY <1>3, ChecksInv, BeginsInv, LookInv, InsertInv, FileInv, BumpInv, DefersInv, ThrowsInv,
     BlocklistInv
<1> QED
  BY <1>1, <1>2, <1>3 DEF DeliveryNext

\* receive.ts: whatever throws, overlaps or is blocked meanwhile, what is known of a mail
\* is what its attempt has checked, and its copies are accounted for.
THEOREM DeliveryInvariant == DeliverySpec => []DeliveryInv
<1>1. DeliveryInit => DeliveryInv
  BY DeliveryInitInv
<1>2. DeliveryInv /\ [DeliveryNext]_deliveryVars => DeliveryInv'
  BY DeliveryStepInv
<1> QED
  BY <1>1, <1>2, PTL DEF DeliverySpec

\* receive.ts, ingest.ts: an accepted mail is stored once but for attempts that failed late,
\* nothing of a blocked sender is stored, one message takes no conversation to the spam
\* folder, and nobody is called for spam or for mail a rule has read.
THEOREM MailIsDelivered == DeliverySpec => []Delivered
<1>1. DeliveryInv => Delivered
  <2> SUFFICES ASSUME DeliveryInv PROVE Delivered
    OBVIOUS
  <2>1. ASSUME NEW m \in Mails
        PROVE  /\ progress[m].pc \in {"accepted", "refused", "sender"} =>
                     chronicle[m].copies =
                        chronicle[m].late + (IF progress[m].pc = "accepted" THEN 1 ELSE 0)
               /\ chronicle[m].wrongs = {}
    BY DEF DeliveryInv, Sound, Accounted, IsStored
  <2>2. ASSUME NEW m \in Mails
        PROVE  /\ chronicle[m].effects # {} => chronicle[m].copies > 0
               /\ "push" \in chronicle[m].effects =>
                     fact[m].spam # "spam" /\ fact[m].rules = {} /\ ~fact[m].listed
    <3>1. fact[m].rules \subseteq {"markSpam", "markRead", "reject"}
      BY TypesOfMail, FactsAssumption DEF DeliveryInv
    <3>2. Fits(m)
      BY DEF DeliveryInv, Sound
    <3> QED
      BY <3>1, <3>2 DEF Fits, Fit, WantsNotice
  <2> QED
    BY <2>1, <2>2 DEF Delivered, AcceptedIsStored, NothingWrong, CalledForMail
<1> QED
  BY <1>1, DeliveryInvariant, PTL

----------------------------------------------------------------------------
(***************************************************************************)
(* The schema.  References go down a level at a time and at most four      *)
(* deep, and what the handlers delete is in tables that only cascade.      *)
(***************************************************************************)
Level(t) ==
  IF t \in {"user", "domain"} THEN 0
  ELSE IF t \in {"mailbox", "folder"} THEN 1
  ELSE IF t \in {"thread", "label", "rule", "imapFolder"} THEN 2
  ELSE IF t = "message" THEN 3 ELSE 4

CascadeOnly == Named \cup {"mailboxMember", "threadFolder", "messageLabel"}

GoodColumn(t, c, ref) ==
  /\ c \notin {"table", "id", "name", "labels", "clonedFrom"}
  /\ ref.to \in Named /\ Level(ref.to) < Level(t)
  /\ ref.onDelete \in {"cascade", "set null"}
  /\ t \in CascadeOnly => ref.onDelete = "cascade"

GoodTable(t, refs) == \A c \in DOMAIN refs : GoodColumn(t, c, refs[c])
GoodTables(tables) == \A t \in DOMAIN tables : GoodTable(t, tables[t].refs)

LEMMA GoodWith ==
  ASSUME NEW t, NEW f, NEW g, GoodTable(t, f), GoodTable(t, g)
  PROVE  GoodTable(t, With(f, g))
  BY DEF GoodTable, With

LEMMA GoodTogether ==
  ASSUME NEW f, NEW g, GoodTables(f), GoodTables(g) PROVE GoodTables(With(f, g))
  BY DEF GoodTables, With

LEMMA GoodNone == ASSUME NEW t PROVE GoodTable(t, None)
<1>1. DOMAIN None = {}
  BY DEF None
<1> QED
  BY <1>1 DEF GoodTable

LEMMA GoodOwners ==
  ASSUME NEW t, Level(t) > 1
  PROVE  GoodTable(t, OfUser) /\ GoodTable(t, OfMailbox) /\ GoodTable(t, OfMember)
<1>1. Level("user") < Level(t) /\ Level("mailbox") < Level(t)
  BY DEF Level
<1>2. {"user", "mailbox"} \subseteq Named
  BY DEF Named
<1>3. DOMAIN OfUser = {"userId"} /\ OfUser["userId"] = Cascade("user")
  BY DEF OfUser
<1>4. DOMAIN OfMailbox = {"mailboxId"} /\ OfMailbox["mailboxId"] = Cascade("mailbox")
  BY DEF OfMailbox
<1>5. /\ DOMAIN OfMember = {"userId", "mailboxId"}
      /\ OfMember["userId"] = Cascade("user") /\ OfMember["mailboxId"] = Cascade("mailbox")
  BY DEF OfMember
<1>6. Cascade("user").to = "user" /\ Cascade("user").onDelete = "cascade"
  BY DEF Cascade
<1>7. Cascade("mailbox").to = "mailbox" /\ Cascade("mailbox").onDelete = "cascade"
  BY DEF Cascade
<1> QED
  BY <1>1, <1>2, <1>3, <1>4, <1>5, <1>6, <1>7 DEF GoodTable, GoodColumn

LEMMA GoodCascade ==
  ASSUME NEW t, NEW c, NEW to \in Named, Level(to) < Level(t),
         c \notin {"table", "id", "name", "labels", "clonedFrom"}
  PROVE  GoodColumn(t, c, Cascade(to))
  BY DEF GoodColumn, Cascade

LEMMA GoodSetNull ==
  ASSUME NEW t, NEW c, NEW to \in Named, Level(to) < Level(t), t \notin CascadeOnly,
         c \notin {"table", "id", "name", "labels", "clonedFrom"}
  PROVE  GoodColumn(t, c, SetNull(to))
  BY DEF GoodColumn, SetNull

LEMMA AuthGood == GoodTables(AuthTables)
<1>1. DOMAIN AuthTables = {"user", "session", "account", "twoFactor", "passkey", "userInvite"}
  BY DEF AuthTables
<1>2. GoodTable("user", AuthTables["user"].refs)
  BY GoodNone DEF AuthTables, Table
<1>3. GoodTable("session", AuthTables["session"].refs)
  BY GoodOwners DEF AuthTables, Table, Level
<1>4. GoodTable("account", AuthTables["account"].refs)
  BY GoodOwners DEF AuthTables, Table, Level
<1>5. GoodTable("twoFactor", AuthTables["twoFactor"].refs)
  BY GoodOwners DEF AuthTables, Table, Level
<1>6. GoodTable("passkey", AuthTables["passkey"].refs)
  BY GoodOwners DEF AuthTables, Table, Level
<1>7. GoodTable("userInvite", AuthTables["userInvite"].refs)
  <2>1. GoodTable("userInvite",
          [invitedByUserId |-> Cascade("user")])
    BY GoodCascade DEF GoodTable, Level, Named
  <2> QED
    BY <2>1 DEF AuthTables, Table
<1> QED
  BY <1>1, <1>2, <1>3, <1>4, <1>5, <1>6, <1>7 DEF GoodTables

LEMMA MailboxGood == GoodTables(MailboxTables)
<1>1. DOMAIN MailboxTables = {"domain", "domainGrant", "mailbox", "redirect", "mailboxMember"}
  BY DEF MailboxTables
<1>2. GoodTable("domain", MailboxTables["domain"].refs)
  BY GoodNone DEF MailboxTables, Table
<1>3. GoodTable("domainGrant", MailboxTables["domainGrant"].refs)
  <2>1. GoodTable("domainGrant", OfUser)
    BY GoodOwners DEF Level
  <2>2. GoodTable("domainGrant",
          [domainId |-> Cascade("domain")])
    BY GoodCascade DEF GoodTable, Level, Named
  <2> QED
    BY <2>1, <2>2, GoodWith DEF MailboxTables, Table
<1>4. GoodTable("mailbox", MailboxTables["mailbox"].refs)
  <2>1. GoodTable("mailbox",
          [domainId |-> Cascade("domain"), ownerUserId |-> Cascade("user")])
    BY GoodCascade DEF GoodTable, Level, Named
  <2> QED
    BY <2>1 DEF MailboxTables, Table
<1>5. GoodTable("redirect", MailboxTables["redirect"].refs)
  <2>1. GoodTable("redirect",
          [domainId |-> Cascade("domain"), targetMailboxId |-> Cascade("mailbox")])
    BY GoodCascade DEF GoodTable, Level, Named
  <2> QED
    BY <2>1 DEF MailboxTables, Table
<1>6. GoodTable("mailboxMember", MailboxTables["mailboxMember"].refs)
  BY GoodOwners DEF MailboxTables, Table, Level
<1> QED
  BY <1>1, <1>2, <1>3, <1>4, <1>5, <1>6 DEF GoodTables

LEMMA ThreadGood == GoodTables(ThreadTables)
<1>1. DOMAIN ThreadTables = {"contactKey", "thread", "message"}
  BY DEF ThreadTables
<1>2. GoodTable("contactKey", ThreadTables["contactKey"].refs)
  BY GoodOwners DEF ThreadTables, Table, Level
<1>3. GoodTable("thread", ThreadTables["thread"].refs)
  BY GoodOwners DEF ThreadTables, Table, Level
<1>4. GoodTable("message", ThreadTables["message"].refs)
  <2>1. GoodTable("message", OfMailbox)
    BY GoodOwners DEF Level
  <2>2. GoodTable("message",
          [threadId |-> Cascade("thread")])
    BY GoodCascade DEF GoodTable, Level, Named
  <2> QED
    BY <2>1, <2>2, GoodWith DEF ThreadTables, Table
<1> QED
  BY <1>1, <1>2, <1>3, <1>4 DEF GoodTables

LEMMA FilingGood == GoodTables(FilingTables)
<1>1. DOMAIN FilingTables = {"attachment", "threadSummary", "mailboxSpamUsage", "mailboxAiUsage", "label", "messageLabel", "folder", "threadFolder"}
  BY DEF FilingTables
<1>2. GoodTable("attachment", FilingTables["attachment"].refs)
  <2>1. GoodTable("attachment",
          [messageId |-> Cascade("message")])
    BY GoodCascade DEF GoodTable, Level, Named
  <2> QED
    BY <2>1 DEF FilingTables, Table
<1>3. GoodTable("threadSummary", FilingTables["threadSummary"].refs)
  <2>1. GoodTable("threadSummary",
          [threadId |-> Cascade("thread")])
    BY GoodCascade DEF GoodTable, Level, Named
  <2> QED
    BY <2>1 DEF FilingTables, Table
<1>4. GoodTable("mailboxSpamUsage", FilingTables["mailboxSpamUsage"].refs)
  BY GoodOwners DEF FilingTables, Table, Level
<1>5. GoodTable("mailboxAiUsage", FilingTables["mailboxAiUsage"].refs)
  BY GoodOwners DEF FilingTables, Table, Level
<1>6. GoodTable("label", FilingTables["label"].refs)
  BY GoodOwners DEF FilingTables, Table, Level
<1>7. GoodTable("messageLabel", FilingTables["messageLabel"].refs)
  <2>1. GoodTable("messageLabel",
          [messageId |-> Cascade("message"), labelId |-> Cascade("label")])
    BY GoodCascade DEF GoodTable, Level, Named
  <2> QED
    BY <2>1 DEF FilingTables, Table
<1>8. GoodTable("folder", FilingTables["folder"].refs)
  BY GoodCascade DEF FilingTables, Table, OfUser, GoodTable, Level, Named
<1>9. GoodTable("threadFolder", FilingTables["threadFolder"].refs)
  <2>1. GoodTable("threadFolder", OfUser)
    BY GoodOwners DEF Level
  <2>2. GoodTable("threadFolder",
          [threadId |-> Cascade("thread"), folderId |-> Cascade("folder")])
    BY GoodCascade DEF GoodTable, Level, Named
  <2> QED
    BY <2>1, <2>2, GoodWith DEF FilingTables, Table
<1> QED
  BY <1>1, <1>2, <1>3, <1>4, <1>5, <1>6, <1>7, <1>8, <1>9 DEF GoodTables

LEMMA WorkGood == GoodTables(WorkTables)
<1>1. DOMAIN WorkTables = {"rule", "ruleSendLog", "mailboxInvite", "draft"}
  BY DEF WorkTables
<1>2. GoodTable("rule", WorkTables["rule"].refs)
  <2>1. GoodTable("rule", OfMailbox)
    BY GoodOwners DEF Level
  <2>2. GoodTable("rule",
          [createdBy |-> Cascade("user")])
    BY GoodCascade DEF GoodTable, Level, Named
  <2> QED
    BY <2>1, <2>2, GoodWith DEF WorkTables, Table
<1>3. GoodTable("ruleSendLog", WorkTables["ruleSendLog"].refs)
  <2>1. GoodTable("ruleSendLog", OfMailbox)
    BY GoodOwners DEF Level
  <2>2. GoodTable("ruleSendLog",
          [ruleId |-> Cascade("rule")])
    BY GoodCascade DEF GoodTable, Level, Named
  <2> QED
    BY <2>1, <2>2, GoodWith DEF WorkTables, Table
<1>4. GoodTable("mailboxInvite", WorkTables["mailboxInvite"].refs)
  <2>1. GoodTable("mailboxInvite", OfMailbox)
    BY GoodOwners DEF Level
  <2>2. GoodTable("mailboxInvite",
          [invitedByUserId |-> Cascade("user")])
    BY GoodCascade DEF GoodTable, Level, Named
  <2> QED
    BY <2>1, <2>2, GoodWith DEF WorkTables, Table
<1>5. GoodTable("draft", WorkTables["draft"].refs)
  BY GoodOwners DEF WorkTables, Table, Level
<1> QED
  BY <1>1, <1>2, <1>3, <1>4, <1>5 DEF GoodTables

LEMMA NoticeGood == GoodTables(NoticeTables)
<1>1. DOMAIN NoticeTables = {"pushSubscription", "mailboxNotify", "blocklist", "blockRequest", "reminder"}
  BY DEF NoticeTables
<1>2. GoodTable("pushSubscription", NoticeTables["pushSubscription"].refs)
  BY GoodOwners DEF NoticeTables, Table, Level
<1>3. GoodTable("mailboxNotify", NoticeTables["mailboxNotify"].refs)
  BY GoodOwners DEF NoticeTables, Table, Level
<1>4. GoodTable("blocklist", NoticeTables["blocklist"].refs)
  <2>1. GoodTable("blocklist",
          [createdByUserId |-> SetNull("user")])
    BY GoodCascade, GoodSetNull DEF GoodTable, Level, Named, CascadeOnly
  <2> QED
    BY <2>1 DEF NoticeTables, Table
<1>5. GoodTable("blockRequest", NoticeTables["blockRequest"].refs)
  <2>1. GoodTable("blockRequest",
          [messageId |-> SetNull("message"), mailboxId |-> SetNull("mailbox"),
           requestedByUserId |-> Cascade("user"), reviewedByUserId |-> SetNull("user")])
    BY GoodCascade, GoodSetNull DEF GoodTable, Level, Named, CascadeOnly
  <2> QED
    BY <2>1 DEF NoticeTables, Table
<1>6. GoodTable("reminder", NoticeTables["reminder"].refs)
  <2>1. GoodTable("reminder", OfMember)
    BY GoodOwners DEF Level
  <2>2. GoodTable("reminder",
          [threadId |-> Cascade("thread"), messageId |-> SetNull("message")])
    BY GoodCascade, GoodSetNull DEF GoodTable, Level, Named, CascadeOnly
  <2> QED
    BY <2>1, <2>2, GoodWith DEF NoticeTables, Table
<1> QED
  BY <1>1, <1>2, <1>3, <1>4, <1>5, <1>6 DEF GoodTables

LEMMA ImapGood == GoodTables(ImapTables)
<1>1. DOMAIN ImapTables = {"shareToken", "appPassword", "imapFolder", "imapUid"}
  BY DEF ImapTables
<1>2. GoodTable("shareToken", ImapTables["shareToken"].refs)
  <2>1. GoodTable("shareToken", OfMailbox)
    BY GoodOwners DEF Level
  <2>2. GoodTable("shareToken",
          [createdByUserId |-> Cascade("user")])
    BY GoodCascade DEF GoodTable, Level, Named
  <2> QED
    BY <2>1, <2>2, GoodWith DEF ImapTables, Table
<1>3. GoodTable("appPassword", ImapTables["appPassword"].refs)
  BY GoodOwners DEF ImapTables, Table, Level
<1>4. GoodTable("imapFolder", ImapTables["imapFolder"].refs)
  <2>1. GoodTable("imapFolder", OfMember)
    BY GoodOwners DEF Level
  <2>2. GoodTable("imapFolder",
          [folderId |-> Cascade("folder")])
    BY GoodCascade DEF GoodTable, Level, Named
  <2> QED
    BY <2>1, <2>2, GoodWith DEF ImapTables, Table
<1>5. GoodTable("imapUid", ImapTables["imapUid"].refs)
  <2>1. GoodTable("imapUid",
          [imapFolderId |-> Cascade("imapFolder"), messageId |-> Cascade("message")])
    BY GoodCascade DEF GoodTable, Level, Named
  <2> QED
    BY <2>1 DEF ImapTables, Table
<1> QED
  BY <1>1, <1>2, <1>3, <1>4, <1>5 DEF GoodTables

\* schema.ts: what a column refers to lies above its table.
LEMMA SchemaIsGood == GoodTables(Tables)
  BY AuthGood, MailboxGood, ThreadGood, FilingGood, WorkGood, NoticeGood, ImapGood, GoodTogether
  DEF Tables

----------------------------------------------------------------------------
(***************************************************************************)
(* Cascades.                                                               *)
(***************************************************************************)
LEMMA LevelBound == \A t : Level(t) \in 0..4
  BY DEF Level

LEMMA ColumnsAreGood ==
  ASSUME NEW row, IsRow(row), NEW c \in DOMAIN Refs(row)
  PROVE  GoodColumn(row.table, c, Refs(row)[c]) /\ c \in DOMAIN row
  BY SchemaIsGood DEF IsRow, Refs, GoodTables, GoodTable

LEMMA HangsDown ==
  ASSUME NEW row, NEW other, IsRow(row), HangsFrom(row, other)
  PROVE  Level(other.table) < Level(row.table)
  BY ColumnsAreGood DEF HangsFrom, Mentions, GoodColumn

ClosedIn(db, some) == \A row \in db : \A other \in some : HangsFrom(row, other) => row \in some

\* Four steps reach the bottom of the schema, so that nothing hangs from what is left out.
LEMMA CascadeIsClosed ==
  ASSUME NEW db, \A row \in db : IsRow(row), NEW targets \in SUBSET db
  PROVE  /\ targets \subseteq Cascaded(db, targets) /\ Cascaded(db, targets) \subseteq db
         /\ ClosedIn(db, Cascaded(db, targets))
<1> DEFINE b1 == Below(db, targets)
           b2 == Below(db, b1)
           b3 == Below(db, b2)
           b4 == Below(db, b3)
<1>0. Cascaded(db, targets) = b4
  BY DEF Cascaded
<1>1. /\ targets \subseteq b1 /\ b1 \subseteq b2 /\ b2 \subseteq b3 /\ b3 \subseteq b4
      /\ b1 \subseteq db /\ b2 \subseteq db /\ b3 \subseteq db /\ b4 \subseteq db
  BY DEF Below
<1>2. /\ \A row \in b1 \ targets : \E other \in targets : HangsFrom(row, other)
      /\ \A row \in b2 \ b1 : \E other \in b1 \ targets : HangsFrom(row, other)
      /\ \A row \in b3 \ b2 : \E other \in b2 \ b1 : HangsFrom(row, other)
      /\ \A row \in b4 \ b3 : \E other \in b3 \ b2 : HangsFrom(row, other)
  BY <1>1 DEF Below
<1>3. \A row \in db : \A other \in b3 : HangsFrom(row, other) => row \in b4
  BY DEF Below
<1> HIDE DEF b1, b2, b3, b4
<1>4. \A row \in b1 \ targets : Level(row.table) > 0
  BY <1>1, <1>2, HangsDown, LevelBound
<1>5. \A row \in b2 \ b1 : Level(row.table) > 1
  BY <1>1, <1>2, <1>4, HangsDown, LevelBound
<1>6. \A row \in b3 \ b2 : Level(row.table) > 2
  BY <1>1, <1>2, <1>5, HangsDown, LevelBound
<1>7. \A row \in b4 \ b3 : Level(row.table) > 3
  BY <1>1, <1>2, <1>6, HangsDown, LevelBound
<1>8. ASSUME NEW row \in db, NEW other \in b4, HangsFrom(row, other) PROVE row \in b4
  <2>1. CASE other \in b3
    BY <2>1, <1>3, <1>8
  <2>2. CASE other \notin b3
    BY <2>2, <1>7, <1>8, HangsDown, LevelBound
  <2> QED
    BY <2>1, <2>2
<1> QED
  BY <1>0, <1>1, <1>8 DEF ClosedIn

LEMMA CascadeIsLeast ==
  ASSUME NEW db, NEW targets, NEW some, targets \subseteq some, ClosedIn(db, some)
  PROVE  Cascaded(db, targets) \subseteq some
<1>1. \A part : part \subseteq some => Below(db, part) \subseteq some
  BY DEF Below, ClosedIn
<1> QED
  BY <1>1 DEF Cascaded

\* What stays of a row: its table, its id and all its columns but those set to null.
LEMMA WhatStays ==
  ASSUME NEW db, NEW gone \in SUBSET db, ClosedIn(db, gone),
         NEW row \in db \ gone, IsRow(row)
  PROVE  /\ DOMAIN Cleared(row, gone) = DOMAIN row
         /\ Cleared(row, gone).table = row.table
         /\ row.table \in Named => Cleared(row, gone).id = row.id
         /\ Refs(Cleared(row, gone)) = Refs(row)
         /\ \A c \in DOMAIN Refs(row) :
               /\ Refs(row)[c].onDelete = "cascade" => Cleared(row, gone)[c] = row[c]
               /\ Cleared(row, gone)[c] = row[c] \/ Cleared(row, gone)[c] = Null
               /\ Cleared(row, gone)[c] = row[c] => Cleared(row, gone)[c] = Null
                     \/ ~\E other \in gone : Mentions(row, c, other)
         /\ IsRow(Cleared(row, gone))
         /\ row.table \in CascadeOnly => Cleared(row, gone) = row
<1> DEFINE left == Cleared(row, gone)
<1>1. DOMAIN left = DOMAIN row
  BY DEF Cleared
<1>2. /\ "table" \in DOMAIN row /\ DOMAIN Refs(row) \subseteq DOMAIN row
      /\ row.table \in Named => "id" \in DOMAIN row
  BY DEF IsRow
<1>3. "table" \notin DOMAIN Refs(row) /\ "id" \notin DOMAIN Refs(row)
  BY ColumnsAreGood DEF GoodColumn
<1>4. left.table = row.table /\ (row.table \in Named => left.id = row.id)
  BY <1>2, <1>3 DEF Cleared
<1>5. Refs(left) = Refs(row)
  BY <1>4 DEF Refs
<1>6. ASSUME NEW c \in DOMAIN Refs(row), Refs(row)[c].onDelete = "cascade"
      PROVE  left[c] = row[c]
  <2>1. ~\E other \in gone : Mentions(row, c, other)
    BY <1>6 DEF ClosedIn, HangsFrom
  <2> QED
    BY <1>2, <2>1 DEF Cleared
<1>7. \A c \in DOMAIN Refs(row) :
         /\ left[c] = row[c] \/ left[c] = Null
         /\ left[c] = row[c] => left[c] = Null \/ ~\E other \in gone : Mentions(row, c, other)
  BY <1>2 DEF Cleared
<1>8. left = [c \in DOMAIN left |-> left[c]]
  BY DEF Cleared
<1>9. row.table \in CascadeOnly => left = row
  <2>1. ASSUME row.table \in CascadeOnly PROVE \A c \in DOMAIN row : left[c] = row[c]
    <3>1. \A c \in DOMAIN Refs(row) : Refs(row)[c].onDelete = "cascade"
      BY <2>1, ColumnsAreGood DEF GoodColumn
    <3>2. \A c \in DOMAIN row : c \notin DOMAIN Refs(row) => left[c] = row[c]
      BY DEF Cleared
    <3> QED
      BY <3>1, <3>2, <1>6
  <2>2. row = [c \in DOMAIN row |-> row[c]]
    BY DEF IsRow
  <2> HIDE DEF left
  <2> QED
    BY <2>1, <2>2, <1>1, <1>8
<1>10. IsRow(left)
  <2> HIDE DEF left
  <2> QED
    BY <1>1, <1>2, <1>4, <1>5, <1>6, <1>8 DEF IsRow
<1> QED
  BY <1>1, <1>4, <1>5, <1>6, <1>7, <1>9, <1>10

\* Cascades one after another take and clear what one of all their rows would have.
LEMMA CascadesAddUp ==
  ASSUME NEW first, \A row \in first : IsRow(row), NEW roots \in SUBSET first,
         NEW db, db = Without(first, Cascaded(first, roots)),
         NEW targets \in SUBSET db, \A row \in targets : row.table \in CascadeOnly
  PROVE  /\ targets \subseteq first
         /\ Without(db, Cascaded(db, targets)) = Without(first, Cascaded(first, roots \cup targets))
<1> DEFINE gone == Cascaded(first, roots)
           left(row) == Cleared(row, gone)
           next == Cascaded(db, targets)
           all == Cascaded(first, roots \cup targets)
<1>1. roots \subseteq gone /\ gone \subseteq first /\ ClosedIn(first, gone)
  BY CascadeIsClosed
<1>2. db = {left(row) : row \in first \ gone}
  BY DEF Without
<1>3. ASSUME NEW row \in first \ gone
      PROVE  /\ left(row).table = row.table /\ IsRow(left(row))
             /\ row.table \in Named => left(row).id = row.id
             /\ Refs(left(row)) = Refs(row)
             /\ row.table \in CascadeOnly => left(row) = row
  BY <1>1, WhatStays
<1>4. targets \subseteq first \ gone
  BY <1>2, <1>3
<1>5. /\ roots \cup targets \subseteq all /\ all \subseteq first /\ ClosedIn(first, all)
  BY <1>1, <1>4, CascadeIsClosed
<1>6. /\ targets \subseteq next /\ next \subseteq db /\ ClosedIn(db, next)
  <2>1. \A row \in db : IsRow(row)
    BY <1>2, <1>3
  <2> QED
    BY <2>1, CascadeIsClosed
<1>7. gone \subseteq all
  BY <1>5, CascadeIsLeast
<1>8. ASSUME NEW row, NEW c \in DOMAIN Refs(row), IsRow(row), NEW other \in first \ gone
      PROVE  Mentions(row, c, left(other)) <=> Mentions(row, c, other)
  <2>1. Refs(row)[c].to \in Named
    BY <1>8, ColumnsAreGood DEF GoodColumn
  <2> QED
    BY <2>1, <1>3 DEF Mentions
<1>9. ASSUME NEW row \in first \ gone, NEW other \in first \ gone
      PROVE  HangsFrom(left(row), left(other)) <=> HangsFrom(row, other)
  <2>1. \A c \in DOMAIN Refs(row) : Refs(row)[c].onDelete = "cascade" => left(row)[c] = row[c]
    BY <1>1, WhatStays
  <2>2. \A c \in DOMAIN Refs(row) : Refs(row)[c].onDelete = "cascade" =>
           (Mentions(left(row), c, left(other)) <=> Mentions(row, c, other))
    <3> SUFFICES ASSUME NEW c \in DOMAIN Refs(row), Refs(row)[c].onDelete = "cascade"
                 PROVE  Mentions(left(row), c, left(other)) <=> Mentions(row, c, other)
      OBVIOUS
    <3>1. Mentions(left(row), c, left(other)) <=> Mentions(row, c, left(other))
      BY <2>1, <1>3 DEF Mentions
    <3> QED
      BY <3>1, <1>8
  <2>3. Refs(left(row)) = Refs(row)
    BY <1>3
  <2> QED
    BY <2>2, <2>3 DEF HangsFrom
<1>10. \A row \in first \ gone : row \in all => left(row) \in next
  <2> DEFINE low == gone \cup {row \in first \ gone : left(row) \in next}
  <2>1. roots \cup targets \subseteq low
    BY <1>1, <1>3, <1>4, <1>6
  <2>2. ASSUME NEW row \in first, NEW other \in low, HangsFrom(row, other) PROVE row \in low
    <3>1. CASE other \in gone
      BY <3>1, <2>2, <1>1 DEF ClosedIn
    <3>2. CASE row \notin gone /\ other \notin gone
      <4>1. left(row) \in db /\ left(other) \in next
        BY <3>2, <1>2
      <4>2. HangsFrom(left(row), left(other))
        BY <3>2, <2>2, <1>9
      <4>3. left(row) \in next
        BY <4>1, <4>2, <1>6 DEF ClosedIn
      <4> QED
        BY <3>2, <4>3
    <3> QED
      BY <3>1, <3>2
  <2> HIDE DEF low
  <2>3. all \subseteq low
    BY <2>1, <2>2, CascadeIsLeast DEF ClosedIn
  <2> QED
    BY <2>3 DEF low
<1>11. \A row \in first \ gone : left(row) \in next => row \in all
  <2> DEFINE low == {r \in db : \A row \in first \ gone : left(row) = r => row \in all}
  <2>1. targets \subseteq low
    BY <1>2, <1>3, <1>5
  <2>2. ASSUME NEW r \in db, NEW other \in low, HangsFrom(r, other) PROVE r \in low
    <3>1. PICK o \in first \ gone : other = left(o) /\ o \in all
      BY <1>2
    <3>2. ASSUME NEW row \in first \ gone, left(row) = r PROVE row \in all
      <4>1. HangsFrom(row, o)
        BY <2>2, <3>1, <3>2, <1>9
      <4> QED
        BY <4>1, <3>1, <1>5 DEF ClosedIn
    <3> QED
      BY <3>2
  <2> HIDE DEF low
  <2>3. next \subseteq low
    BY <2>1, <2>2, CascadeIsLeast DEF ClosedIn
  <2> QED
    BY <2>3 DEF low
<1>12. ASSUME NEW row \in first \ all PROVE Cleared(left(row), next) = Cleared(row, all)
  <2>0. row \in first \ gone /\ IsRow(row) /\ DOMAIN left(row) = DOMAIN row
    <3>1. row \in first \ gone
      BY <1>7, <1>12
    <3> QED
      BY <3>1 DEF Cleared
  <2>1. /\ DOMAIN Cleared(left(row), next) = DOMAIN row
        /\ DOMAIN Cleared(row, all) = DOMAIN row
    BY <2>0 DEF Cleared
  <2>2. ASSUME NEW c \in DOMAIN row
        PROVE  Cleared(left(row), next)[c] = Cleared(row, all)[c]
    <3>1. CASE c \notin DOMAIN Refs(row)
      BY <3>1, <2>0, <1>3 DEF Cleared
    <3>2. CASE c \in DOMAIN Refs(row)
      <4>1. CASE \E other \in gone : Mentions(row, c, other)
        <5>1. left(row)[c] = Null
          BY <4>1, <3>2 DEF Cleared
        <5>2. Cleared(left(row), next)[c] = Null
          BY <5>1, <2>0 DEF Cleared
        <5>3. Cleared(row, all)[c] = Null
          BY <4>1, <3>2, <1>7 DEF Cleared
        <5> QED
          BY <5>2, <5>3
      <4>2. CASE ~\E other \in gone : Mentions(row, c, other)
        <5>1. left(row)[c] = row[c]
          BY <4>2 DEF Cleared
        <5>2. \A other : Mentions(left(row), c, other) <=> Mentions(row, c, other)
          BY <5>1, <2>0, <1>3 DEF Mentions
        <5>3. (\E other \in next : Mentions(left(row), c, other))
                <=> (\E other \in all : Mentions(row, c, other))
          <6>1. ASSUME NEW other \in next, Mentions(row, c, other)
                PROVE  \E o \in all : Mentions(row, c, o)
            <7>1. PICK o \in first \ gone : other = left(o)
              BY <1>2, <1>6
            <7> QED
              BY <7>1, <6>1, <1>8, <1>11, <2>0, <3>2
          <6>2. ASSUME NEW other \in all, Mentions(row, c, other)
                PROVE  \E o \in next : Mentions(row, c, o)
            <7>1. other \in first \ gone
              BY <6>2, <4>2, <1>5
            <7> QED
              BY <7>1, <6>2, <1>8, <1>10, <2>0, <3>2
          <6> QED
            BY <6>1, <6>2, <5>2
        <5> QED
          BY <5>1, <5>3, <3>2, <2>0, <1>3 DEF Cleared
      <4> QED
        BY <4>1, <4>2
    <3> QED
      BY <3>1, <3>2
  <2>3. /\ Cleared(left(row), next) = [c \in DOMAIN row |-> Cleared(left(row), next)[c]]
        /\ Cleared(row, all) = [c \in DOMAIN row |-> Cleared(row, all)[c]]
    BY <2>0 DEF Cleared
  <2> QED
    BY <2>2, <2>3
<1>13. Without(db, next) = Without(first, all)
  <2>1. ASSUME NEW r \in db \ next PROVE Cleared(r, next) \in Without(first, all)
    <3>1. PICK row \in first \ gone : r = left(row)
      BY <1>2
    <3>2. row \in first \ all
      BY <3>1, <1>10
    <3> QED
      BY <3>1, <3>2, <1>12 DEF Without
  <2>2. ASSUME NEW row \in first \ all PROVE Cleared(row, all) \in Without(db, next)
    <3>1. left(row) \in db \ next
      BY <1>2, <1>7, <1>11
    <3> QED
      BY <3>1, <1>12 DEF Without
  <2> HIDE DEF next, all
  <2>3. /\ \A x \in Without(db, next) : \E r \in db \ next : x = Cleared(r, next)
        /\ \A x \in Without(first, all) : \E row \in first \ all : x = Cleared(row, all)
    BY DEF Without
  <2> QED
    BY <2>1, <2>2, <2>3
<1> QED
  BY <1>4, <1>13

----------------------------------------------------------------------------
(***************************************************************************)
(* The tables the handlers write.                                          *)
(***************************************************************************)
LEMMA WithAt ==
  ASSUME NEW f, NEW g, NEW t, t \in DOMAIN f \/ t \in DOMAIN g
  PROVE  t \in DOMAIN With(f, g) /\ With(f, g)[t] = IF t \in DOMAIN f THEN f[t] ELSE g[t]
  BY DEF With

LEMMA TablesBehind ==
  /\ \A t \in DOMAIN ThreadTables : Tables[t] = ThreadTables[t]
  /\ \A t \in DOMAIN FilingTables : Tables[t] = FilingTables[t]
  /\ \A t \in DOMAIN WorkTables : Tables[t] = WorkTables[t]
<1>1. DOMAIN AuthTables = {"user", "session", "account", "twoFactor", "passkey", "userInvite"}
  BY DEF AuthTables
<1>2. DOMAIN MailboxTables = {"domain", "domainGrant", "mailbox", "redirect", "mailboxMember"}
  BY DEF MailboxTables
<1>3. DOMAIN ThreadTables = {"contactKey", "thread", "message"}
  BY DEF ThreadTables
<1>4. DOMAIN FilingTables = {"attachment", "threadSummary", "mailboxSpamUsage", "mailboxAiUsage",
                             "label", "messageLabel", "folder", "threadFolder"}
  BY DEF FilingTables
<1>5. DOMAIN WorkTables = {"rule", "ruleSendLog", "mailboxInvite", "draft"}
  BY DEF WorkTables
<1> DEFINE last == With(NoticeTables, ImapTables)
           working == With(WorkTables, last)
           filing == With(FilingTables, working)
           threads == With(ThreadTables, filing)
           mailboxes == With(MailboxTables, threads)
<1>6. ASSUME NEW t,
             t \in DOMAIN ThreadTables \cup DOMAIN FilingTables \cup DOMAIN WorkTables,
             t \in DOMAIN threads
      PROVE  Tables[t] = threads[t]
  <2>1. t \notin DOMAIN MailboxTables /\ t \notin DOMAIN AuthTables
    BY <1>1, <1>2, <1>3, <1>4, <1>5, <1>6
  <2> HIDE DEF threads
  <2>2. t \in DOMAIN mailboxes /\ mailboxes[t] = threads[t]
    BY <2>1, <1>6, WithAt
  <2> HIDE DEF mailboxes
  <2>3. With(AuthTables, mailboxes)[t] = mailboxes[t]
    BY <2>1, <2>2, WithAt
  <2> QED
    BY <2>2, <2>3 DEF Tables, mailboxes, threads
<1>7. ASSUME NEW t \in DOMAIN ThreadTables PROVE Tables[t] = ThreadTables[t]
  <2>1. t \in DOMAIN threads /\ threads[t] = ThreadTables[t]
    BY WithAt
  <2> QED
    BY <2>1, <1>6
<1>8. ASSUME NEW t \in DOMAIN FilingTables PROVE Tables[t] = FilingTables[t]
  <2>1. t \in DOMAIN filing /\ filing[t] = FilingTables[t]
    BY WithAt
  <2> HIDE DEF filing
  <2>2. t \notin DOMAIN ThreadTables
    BY <1>3, <1>4
  <2>3. t \in DOMAIN threads /\ threads[t] = filing[t]
    BY <2>1, <2>2, WithAt
  <2> QED
    BY <2>1, <2>3, <1>6 DEF filing
<1>9. ASSUME NEW t \in DOMAIN WorkTables PROVE Tables[t] = WorkTables[t]
  <2>1. t \in DOMAIN working /\ working[t] = WorkTables[t]
    BY WithAt
  <2> HIDE DEF working
  <2>2. t \notin DOMAIN ThreadTables /\ t \notin DOMAIN FilingTables
    BY <1>3, <1>4, <1>5
  <2>3. t \in DOMAIN filing /\ filing[t] = working[t]
    BY <2>1, <2>2, WithAt
  <2> HIDE DEF filing
  <2>4. t \in DOMAIN threads /\ threads[t] = filing[t]
    BY <2>2, <2>3, WithAt
  <2> QED
    BY <2>1, <2>3, <2>4, <1>6 DEF filing, working
<1> QED
  BY <1>7, <1>8, <1>9

\* What the rows the properties speak of refer to.
LEMMA ReferencesOf ==
  ASSUME NEW row
  PROVE  /\ row.table = "messageLabel" => Refs(row) = [messageId |-> Cascade("message"),
                                                       labelId |-> Cascade("label")]
         /\ row.table = "threadFolder" => Refs(row) =
               With(OfUser, [threadId |-> Cascade("thread"), folderId |-> Cascade("folder")])
         /\ row.table = "message" => Refs(row) = With(OfMailbox, [threadId |-> Cascade("thread")])
         /\ row.table = "rule" => Refs(row) = With(OfMailbox, [createdBy |-> Cascade("user")])
         /\ row.table \in {"label", "thread"} => Refs(row) = OfMailbox
         /\ row.table = "folder" => Refs(row) = OfUser
<1>1. /\ {"thread", "message"} \subseteq DOMAIN ThreadTables
      /\ {"label", "messageLabel", "folder", "threadFolder"} \subseteq DOMAIN FilingTables
      /\ "rule" \in DOMAIN WorkTables
  BY DEF ThreadTables, FilingTables, WorkTables
<1>2. /\ row.table = "messageLabel" => Refs(row) = FilingTables["messageLabel"].refs
      /\ row.table = "threadFolder" => Refs(row) = FilingTables["threadFolder"].refs
      /\ row.table = "label" => Refs(row) = FilingTables["label"].refs
      /\ row.table = "folder" => Refs(row) = FilingTables["folder"].refs
      /\ row.table = "message" => Refs(row) = ThreadTables["message"].refs
      /\ row.table = "thread" => Refs(row) = ThreadTables["thread"].refs
      /\ row.table = "rule" => Refs(row) = WorkTables["rule"].refs
  BY <1>1, TablesBehind DEF Refs
<1>3. /\ FilingTables["messageLabel"].refs = [messageId |-> Cascade("message"),
                                              labelId |-> Cascade("label")]
      /\ FilingTables["label"].refs = OfMailbox
      /\ FilingTables["folder"].refs = OfUser
  BY DEF FilingTables, Table
<1>4. FilingTables["threadFolder"].refs =
        With(OfUser, [threadId |-> Cascade("thread"), folderId |-> Cascade("folder")])
  BY DEF FilingTables, Table
<1>5. ThreadTables["message"].refs = With(OfMailbox, [threadId |-> Cascade("thread")])
  BY DEF ThreadTables, Table
<1>6. ThreadTables["thread"].refs = OfMailbox
  BY DEF ThreadTables, Table
<1>7. WorkTables["rule"].refs = With(OfMailbox, [createdBy |-> Cascade("user")])
  BY DEF WorkTables, Table
<1> QED
  BY <1>2, <1>3, <1>4, <1>5, <1>6, <1>7

Points(row, c, to) == c \in DOMAIN Refs(row) /\ Refs(row)[c] = Cascade(to)

LEMMA ColumnsOf ==
  ASSUME NEW row
  PROVE  /\ row.table = "messageLabel" =>
               /\ DOMAIN Refs(row) = {"messageId", "labelId"}
               /\ Points(row, "messageId", "message") /\ Points(row, "labelId", "label")
         /\ row.table = "threadFolder" =>
               /\ DOMAIN Refs(row) = {"userId", "threadId", "folderId"}
               /\ Points(row, "userId", "user")
               /\ Points(row, "threadId", "thread") /\ Points(row, "folderId", "folder")
         /\ row.table = "message" =>
               /\ DOMAIN Refs(row) = {"mailboxId", "threadId"}
               /\ Points(row, "mailboxId", "mailbox") /\ Points(row, "threadId", "thread")
         /\ row.table = "rule" =>
               /\ DOMAIN Refs(row) = {"mailboxId", "createdBy"}
               /\ Points(row, "mailboxId", "mailbox") /\ Points(row, "createdBy", "user")
         /\ row.table \in {"label", "thread"} =>
               DOMAIN Refs(row) = {"mailboxId"} /\ Points(row, "mailboxId", "mailbox")
         /\ row.table = "folder" =>
               DOMAIN Refs(row) = {"userId"} /\ Points(row, "userId", "user")
<1>1. row.table = "messageLabel" =>
               /\ DOMAIN Refs(row) = {"messageId", "labelId"}
               /\ Points(row, "messageId", "message") /\ Points(row, "labelId", "label")
  BY ReferencesOf DEF Points
<1>2. row.table \in {"label", "thread"} =>
               DOMAIN Refs(row) = {"mailboxId"} /\ Points(row, "mailboxId", "mailbox")
  BY ReferencesOf DEF Points, OfMailbox
<1>3. row.table = "folder" =>
               DOMAIN Refs(row) = {"userId"} /\ Points(row, "userId", "user")
  BY ReferencesOf DEF Points, OfUser
<1>4. row.table = "threadFolder" =>
               /\ DOMAIN Refs(row) = {"userId", "threadId", "folderId"}
               /\ Points(row, "userId", "user")
               /\ Points(row, "threadId", "thread") /\ Points(row, "folderId", "folder")
  BY ReferencesOf DEF Points, OfUser, With
<1>5. row.table = "message" =>
               /\ DOMAIN Refs(row) = {"mailboxId", "threadId"}
               /\ Points(row, "mailboxId", "mailbox") /\ Points(row, "threadId", "thread")
  BY ReferencesOf DEF Points, OfMailbox, With
<1>6. row.table = "rule" =>
               /\ DOMAIN Refs(row) = {"mailboxId", "createdBy"}
               /\ Points(row, "mailboxId", "mailbox") /\ Points(row, "createdBy", "user")
  BY ReferencesOf DEF Points, OfMailbox, With
<1> QED
  BY <1>1, <1>2, <1>3, <1>4, <1>5, <1>6

LEMMA OneFolderForAThread ==
  ASSUME NEW row, NEW other, row.table = "threadFolder"
  PROVE  Collide(row, other) <=>
           other.table = "threadFolder" /\ row.userId = other.userId /\ row.threadId = other.threadId
<1>1. Tables["threadFolder"] = FilingTables["threadFolder"]
  BY TablesBehind DEF FilingTables
<1>2. FilingTables["threadFolder"].keys = {{"userId", "threadId"}}
  BY DEF FilingTables, Table
<1> QED
  BY <1>1, <1>2 DEF Collide, Indexed

----------------------------------------------------------------------------
(***************************************************************************)
(* What is true of the rows, whatever is at the desks.                     *)
(***************************************************************************)
Rows(db) == \A row \in db : IsRow(row)

Unique(db) ==
  \A row, other \in db :
    row.table \in Named /\ other.table = row.table /\ other.id = row.id => other = row

\* Refers, of any rows.
RefersIn(row, db) ==
  \A c \in DOMAIN Refs(row) :
    row[c] = Null \/ \E other \in db : other.table = Refs(row)[c].to /\ other.id = row[c]

Whole(db) == \A row \in db : RefersIn(row, db)

Together(db) ==
  \A msg, th \in db :
    msg.table = "message" /\ th.table = "thread" /\ th.id = msg.threadId =>
      th.mailboxId = msg.mailboxId

LabelFits(row, db) ==
  \A label, msg \in db :
    /\ label.table = "label" /\ label.id = row.labelId
    /\ msg.table = "message" /\ msg.id = row.messageId
    => label.mailboxId = msg.mailboxId

FolderFits(row, db) ==
  \A folder \in db : folder.table = "folder" /\ folder.id = row.folderId => folder.userId = row.userId

RuleFits(row, db) ==
  row.clonedFrom # row.mailboxId =>
    \A label \in db : label.table = "label" /\ label.id \in row.labels => label.mailboxId = row.mailboxId

FitsIn(row, db) ==
  /\ row.table = "messageLabel" => LabelFits(row, db)
  /\ row.table = "threadFolder" => FolderFits(row, db)
  /\ row.table = "rule" => RuleFits(row, db)

Alone(db) ==
  \A row, other \in db :
    /\ row.table = "threadFolder" /\ other.table = "threadFolder"
    /\ row.userId = other.userId /\ row.threadId = other.threadId
    => row = other

Tidy(db) ==
  /\ Rows(db) /\ Unique(db) /\ Whole(db) /\ Together(db) /\ Alone(db)
  /\ \A row \in db : FitsIn(row, db)

\* The ids in use: a name that is drawn is none of them.
InUse(n, db) ==
  \/ \E row \in db : row.table \in Named /\ row.id = n
  \/ \E rule \in db : rule.table = "rule" /\ n \in rule.labels

\* A cascade leaves rows of these tables as they are.
LEMMA CascadeKeepsTidy ==
  ASSUME NEW db, Tidy(db), NEW targets \in SUBSET db
  PROVE  /\ Tidy(Without(db, Cascaded(db, targets)))
         /\ \A row \in Without(db, Cascaded(db, targets)) : row.table \in CascadeOnly => row \in db
<1> DEFINE gone == Cascaded(db, targets)
           new == Without(db, gone)
<1>1. gone \subseteq db /\ ClosedIn(db, gone)
  BY CascadeIsClosed DEF Tidy, Rows
<1>2. ASSUME NEW row \in db \ gone
      PROVE  /\ DOMAIN Refs(Cleared(row, gone)) = DOMAIN Refs(row)
             /\ Cleared(row, gone).table = row.table
             /\ row.table \in Named => Cleared(row, gone).id = row.id
             /\ IsRow(Cleared(row, gone))
             /\ row.table \in CascadeOnly => Cleared(row, gone) = row
             /\ RefersIn(Cleared(row, gone), new)
  <2>1. IsRow(row)
    BY DEF Tidy, Rows
  <2>2. RefersIn(Cleared(row, gone), new)
    <3> SUFFICES ASSUME NEW c \in DOMAIN Refs(row), Cleared(row, gone)[c] # Null
                 PROVE  \E other \in new : other.table = Refs(row)[c].to
                                           /\ other.id = Cleared(row, gone)[c]
      BY <1>1, <2>1, WhatStays DEF RefersIn
    <3>1. /\ Cleared(row, gone)[c] = row[c]
          /\ ~\E other \in gone : Mentions(row, c, other)
      BY <1>1, <2>1, WhatStays
    <3>2. PICK other \in db : other.table = Refs(row)[c].to /\ other.id = row[c]
      BY <3>1 DEF Tidy, Whole, RefersIn
    <3>3. other \in db \ gone /\ IsRow(other) /\ other.table \in Named
      BY <3>1, <3>2, <2>1, ColumnsAreGood DEF Mentions, GoodColumn, Tidy, Rows
    <3>4. Cleared(other, gone).table = other.table /\ Cleared(other, gone).id = other.id
      BY <3>3, <1>1, WhatStays
    <3>5. Cleared(other, gone) \in new
      BY <3>3 DEF Without
    <3> QED
      BY <3>1, <3>2, <3>4, <3>5
  <2> QED
    BY <1>1, <2>1, <2>2, WhatStays
<1>3. \A row \in new : row.table \in CascadeOnly => row \in db
  BY <1>2 DEF Without
<1>4. \A row \in new : IsRow(row) /\ RefersIn(row, new)
  BY <1>2 DEF Without
<1>5. Named \cup {"messageLabel", "threadFolder"} \subseteq CascadeOnly
  BY DEF CascadeOnly
<1> HIDE DEF new
<1>6. /\ Rows(new) /\ Whole(new)
  BY <1>4 DEF Rows, Whole
<1>7. Unique(new)
  BY <1>3, <1>5 DEF Tidy, Unique
<1>8. Together(new)
  BY <1>3 DEF Tidy, Together, CascadeOnly, Named
<1>9. Alone(new)
  BY <1>3 DEF Tidy, Alone, CascadeOnly
<1>10. ASSUME NEW row \in new PROVE FitsIn(row, new)
  <2>1. \A r \in new : r.table \in {"label", "message", "folder"} => r \in db
    BY <1>3 DEF CascadeOnly, Named
  <2>2. row.table \in {"messageLabel", "threadFolder", "rule"} => row \in db
    BY <1>3 DEF CascadeOnly, Named
  <2> QED
    BY <2>1, <2>2 DEF Tidy, FitsIn, LabelFits, FolderFits, RuleFits
<1> QED
  BY <1>3, <1>6, <1>7, <1>8, <1>9, <1>10 DEF Tidy, new

\* A label, a folder or a rule of a name that was just drawn.
LEMMA BirthKeepsTidy ==
  ASSUME NEW db, Tidy(db), NEW row, IsRow(row), row.table \in {"label", "folder", "rule"},
         RefersIn(row, db), FitsIn(row, db), ~InUse(row.id, db), row.table = "rule" => row.id \notin row.labels
  PROVE  Tidy(db \cup {row})
<1> DEFINE new == db \cup {row}
<1>1. Rows(new)
  BY DEF Tidy, Rows
<1>2. Unique(new)
  BY DEF Tidy, Unique, InUse, Named
<1>3. Whole(new)
  BY DEF Tidy, Whole, RefersIn
<1>4. Together(new) /\ Alone(new)
  BY DEF Tidy, Together, Alone
<1>5. ASSUME NEW r \in db PROVE FitsIn(r, new)
  <2>1. IsRow(r) /\ RefersIn(r, db) /\ FitsIn(r, db)
    BY DEF Tidy, Rows, Whole
  <2>2. r.table = "messageLabel" => r.labelId # row.id
    BY <2>1, ColumnsOf DEF IsRow, RefersIn, Points, Cascade, InUse, Named
  <2>3. r.table = "threadFolder" => r.folderId # row.id
    BY <2>1, ColumnsOf DEF IsRow, RefersIn, Points, Cascade, InUse, Named
  <2>4. r.table = "rule" => row.id \notin r.labels
    BY DEF InUse
  <2> QED
    BY <2>1, <2>2, <2>3, <2>4 DEF FitsIn, LabelFits, FolderFits, RuleFits
<1>6. FitsIn(row, new)
  BY DEF FitsIn, RuleFits
<1> QED
  BY <1>1, <1>2, <1>3, <1>4, <1>5, <1>6 DEF Tidy

\* Labels are put on messages.
LEMMA StickingKeepsTidy ==
  ASSUME NEW db, Tidy(db), NEW some,
         \A row \in some : /\ IsRow(row) /\ row.table = "messageLabel"
                           /\ RefersIn(row, db) /\ LabelFits(row, db)
  PROVE  Tidy(db \cup some)
<1> DEFINE new == db \cup some
<1>1. Rows(new)
  BY DEF Tidy, Rows
<1>2. Unique(new)
  BY DEF Tidy, Unique, Named
<1>3. Whole(new)
  BY DEF Tidy, Whole, RefersIn
<1>4. Together(new) /\ Alone(new)
  BY DEF Tidy, Together, Alone
<1>5. \A row \in new : FitsIn(row, new)
  BY DEF Tidy, FitsIn, LabelFits, FolderFits, RuleFits
<1> QED
  BY <1>1, <1>2, <1>3, <1>4, <1>5 DEF Tidy

\* A thread is filed, instead of where it was filed before.
LEMMA FilingKeepsTidy ==
  ASSUME NEW db, Tidy(db), NEW row, IsRow(row), row.table = "threadFolder",
         RefersIn(row, db), FolderFits(row, db)
  PROVE  Tidy((db \ {other \in db : Collide(other, row)}) \cup {row})
<1> DEFINE old == {other \in db : Collide(other, row)}
           new == (db \ old) \cup {row}
<1>0. old = {other \in db : /\ other.table = "threadFolder"
                            /\ other.userId = row.userId /\ other.threadId = row.threadId}
  <2>1. \A other : Collide(other, row) => other.table = "threadFolder"
    BY DEF Collide
  <2> QED
    BY <2>1, OneFolderForAThread
<1> HIDE DEF old
<1>1. Rows(new)
  BY DEF Tidy, Rows
<1>2. Unique(new)
  BY DEF Tidy, Unique, Named
<1>3. Whole(new)
  <2>1. ASSUME NEW r \in new, NEW c \in DOMAIN Refs(r), r[c] # Null
        PROVE  \E other \in new : other.table = Refs(r)[c].to /\ other.id = r[c]
    <3>1. IsRow(r) /\ RefersIn(r, db)
      BY DEF Tidy, Rows, Whole
    <3>2. PICK other \in db : other.table = Refs(r)[c].to /\ other.id = r[c]
      BY <2>1, <3>1 DEF RefersIn
    <3>3. other.table \in Named
      BY <3>1, <3>2, ColumnsAreGood DEF GoodColumn
    <3>4. other \notin old
      BY <3>3, <1>0 DEF Named
    <3> QED
      BY <3>2, <3>4
  <2> QED
    BY <2>1 DEF Whole, RefersIn
<1>4. Together(new)
  BY DEF Tidy, Together
<1>5. Alone(new)
  BY <1>0 DEF Tidy, Alone
<1>6. \A r \in new : FitsIn(r, new)
  BY DEF Tidy, FitsIn, LabelFits, FolderFits, RuleFits
<1> QED
  BY <1>1, <1>2, <1>3, <1>4, <1>5, <1>6 DEF Tidy, old

\* A label, a folder or a rule that is renamed or rewritten.
LEMMA RewriteKeepsTidy ==
  ASSUME NEW db, Tidy(db), NEW row \in db, row.table \in {"label", "folder", "rule"},
         NEW patch, "name" \in DOMAIN patch, DOMAIN patch \subseteq {"name", "labels", "clonedFrom"},
         row.table = "rule" => DOMAIN patch = {"name", "labels", "clonedFrom"}
                               /\ patch.clonedFrom = row.mailboxId
  PROVE  /\ Tidy((db \ {row}) \cup {With(patch, row)})
         /\ With(patch, row).table = row.table /\ With(patch, row).id = row.id
         /\ row.table \in {"label", "rule"} => With(patch, row).mailboxId = row.mailboxId
         /\ row.table = "folder" => With(patch, row).userId = row.userId
<1> DEFINE now == With(patch, row)
           new == (db \ {row}) \cup {now}
<1>0. IsRow(row) /\ RefersIn(row, db) /\ "table" \in DOMAIN row /\ "id" \in DOMAIN row
  BY DEF Tidy, Rows, Whole, IsRow, Named
<1>1. /\ now.table = row.table /\ now.id = row.id /\ Refs(now) = Refs(row)
      /\ \A c \in DOMAIN Refs(row) : now[c] = row[c]
  <2>1. now.table = row.table /\ now.id = row.id
    BY <1>0 DEF With
  <2>2. \A c \in DOMAIN Refs(row) : c \notin {"name", "labels", "clonedFrom"} /\ c \in DOMAIN row
    BY <1>0, ColumnsAreGood DEF GoodColumn
  <2>3. \A c \in DOMAIN Refs(row) : now[c] = row[c]
    BY <2>2 DEF With
  <2> QED
    BY <2>1, <2>3 DEF Refs
<1>2. IsRow(now)
  <2>1. DOMAIN now = DOMAIN patch \cup DOMAIN row /\ now = [c \in DOMAIN now |-> now[c]]
    BY DEF With
  <2> HIDE DEF now
  <2> QED
    BY <1>0, <1>1, <2>1 DEF IsRow
<1>3. /\ row.table \in {"label", "rule"} => now.mailboxId = row.mailboxId
      /\ row.table = "folder" => now.userId = row.userId
  BY <1>1, ColumnsOf DEF Points
<1>4. row.table = "rule" => now.clonedFrom = now.mailboxId
  BY <1>3 DEF With
<1> HIDE DEF now
<1>5. Rows(new)
  BY <1>2 DEF Tidy, Rows
<1>6. Unique(new)
  BY <1>1 DEF Tidy, Unique
<1>7. Whole(new)
  <2>1. \A r : RefersIn(r, db) => RefersIn(r, new)
    BY <1>1 DEF RefersIn
  <2>2. RefersIn(now, new)
    BY <2>1, <1>0, <1>1 DEF RefersIn
  <2> HIDE DEF new
  <2> QED
    BY <2>1, <2>2 DEF Tidy, Whole, new
<1>8. Together(new) /\ Alone(new)
  BY <1>1 DEF Tidy, Together, Alone
<1>9. ASSUME NEW r \in db PROVE FitsIn(r, new)
  BY <1>1, <1>3 DEF Tidy, FitsIn, LabelFits, FolderFits, RuleFits
<1>10. FitsIn(now, new)
  BY <1>1, <1>4 DEF FitsIn, RuleFits
<1> QED
  BY <1>1, <1>3, <1>5, <1>6, <1>7, <1>8, <1>9, <1>10 DEF Tidy, now

----------------------------------------------------------------------------
(***************************************************************************)
(* What is at the desks.                                                   *)
(***************************************************************************)
Drawn == {"label", "folder", "rule"}

\* The ids a statement gives to new rows, and those it took from rows that were there.
Made(s) == IF s.do = "insert" THEN {row.id : row \in {r \in s.new : r.table \in Drawn}} ELSE {}

Knows(s, n) ==
  \/ s.do = "update" /\ s.id = n
  \/ /\ s.do = "insert"
     /\ \E row \in s.new : \/ row.table = "messageLabel" /\ row.labelId = n
                           \/ row.table = "threadFolder" /\ row.folderId = n
                           \/ row.table = "rule" /\ n \in row.labels

Renames(s, db) ==
  /\ s.do = "update" /\ s.table \in Drawn
  /\ "name" \in DOMAIN s.patch /\ DOMAIN s.patch \subseteq {"name", "labels", "clonedFrom"}
  /\ s.table = "rule" =>
       /\ DOMAIN s.patch = {"name", "labels", "clonedFrom"} /\ s.patch.labels = {}
       /\ \A rule \in db : rule.table = "rule" /\ rule.id = s.id =>
            s.patch.clonedFrom = rule.mailboxId

Inserts(s, db) ==
  /\ s.do = "insert"
  /\ \A row \in s.new : IsRow(row) /\ FitsIn(row, db)
  /\ \/ /\ s.onConflict = "refuse"
        /\ \E row \in s.new : s.new = {row} /\ row.table \in Drawn
     \/ /\ s.onConflict = "nothing"
        /\ \A row \in s.new : row.table = "messageLabel"
     \/ /\ s.onConflict = "replace"
        /\ \E row \in s.new : s.new = {row} /\ row.table = "threadFolder"

\* A statement would still be right if it ran now.
Timely(s, db) == s = AtDesk \/ s.do = "delete" \/ Renames(s, db) \/ Inserts(s, db)

DesksTyped == desks = [d \in Desks |-> desks[d]] /\ given \subseteq NewIds /\ work \in Nat

IdsAreNew ==
  /\ \A n \in NewIds \ given : ~InUse(n, records) /\ \A d \in Desks : ~Knows(desks[d], n)
  /\ \A d \in Desks : \A n \in Made(desks[d]) :
        /\ n \in given /\ ~InUse(n, records)
        /\ \A e \in Desks : ~Knows(desks[e], n) /\ (e # d => n \notin Made(desks[e]))

DesksAreTimely == \A d \in Desks : Timely(desks[d], records)

BeforeWork == work = 0 => (\A d \in Desks : desks[d] = AtDesk) /\ DeletesReachBelow

OrganizingInv ==
  /\ Tidy(records) /\ Rows(origin)
  /\ DesksTyped /\ IdsAreNew /\ DesksAreTimely /\ BeforeWork

LEMMA AtDeskIdle == AtDesk.do = "nothing" /\ Made(AtDesk) = {} /\ \A n : ~Knows(AtDesk, n)
  BY DEF AtDesk, Made, Knows

\* What a statement found out stays true of rows that stem from those there were, and of
\* new ones whose ids it does not know.
Stems(row, db) ==
  \E old \in db :
    /\ old.table = row.table /\ old.id = row.id
    /\ row.table \in {"label", "rule"} => old.mailboxId = row.mailboxId
    /\ row.table = "folder" => old.userId = row.userId

LEMMA TimelyStays ==
  ASSUME NEW s, NEW db, NEW new, Timely(s, db),
         \A row \in new : row.table = "message" => row \in db,
         \A row \in new : row.table \in Drawn => Stems(row, db) \/ ~Knows(s, row.id)
  PROVE  Timely(s, new)
<1>1. CASE Renames(s, db)
  <2>1. \A rule \in new : rule.table = "rule" /\ rule.id = s.id => Stems(rule, db)
    BY <1>1 DEF Renames, Knows, Drawn
  <2> QED
    BY <1>1, <2>1 DEF Renames, Timely, Stems
<1>2. CASE Inserts(s, db)
  <2>1. ASSUME NEW row \in s.new PROVE FitsIn(row, new)
    <3>0. FitsIn(row, db) /\ s.do = "insert"
      BY <1>2 DEF Inserts
    <3>1. ASSUME row.table = "messageLabel" PROVE LabelFits(row, new)
      <4>1. \A label \in new : label.table = "label" /\ label.id = row.labelId => Stems(label, db)
        BY <3>0, <3>1 DEF Knows, Drawn
      <4> QED
        BY <3>0, <3>1, <4>1 DEF FitsIn, LabelFits, Stems
    <3>2. ASSUME row.table = "threadFolder" PROVE FolderFits(row, new)
      <4>1. \A folder \in new : folder.table = "folder" /\ folder.id = row.folderId => Stems(folder, db)
        BY <3>0, <3>2 DEF Knows, Drawn
      <4> QED
        BY <3>0, <3>2, <4>1 DEF FitsIn, FolderFits, Stems
    <3>3. ASSUME row.table = "rule" PROVE RuleFits(row, new)
      <4>1. \A label \in new : label.table = "label" /\ label.id \in row.labels => Stems(label, db)
        BY <3>0, <3>3 DEF Knows, Drawn
      <4> QED
        BY <3>0, <3>3, <4>1 DEF FitsIn, RuleFits, Stems
    <3> QED
      BY <3>1, <3>2, <3>3 DEF FitsIn
  <2> QED
    BY <1>2, <2>1 DEF Inserts, Timely
<1> QED
  BY <1>1, <1>2 DEF Timely

\* A handler takes its statement to a desk.
LEMMA StartKeepsInv ==
  ASSUME OrganizingInv, NEW d \in Desks, NEW s, Start(d, s), Timely(s, records),
         \A n : Knows(s, n) => InUse(n, records),
         given \subseteq given', given' \subseteq NewIds,
         \A n \in Made(s) : n \in given' \ given
  PROVE  OrganizingInv'
<1> USE DEF OrganizingInv
<1>0. /\ UNCHANGED <<records, origin, deleted>>
      /\ desks' = [desks EXCEPT ![d] = s] /\ work' = work + 1 /\ work \in Nat
  BY DEF Start, dbVars, DesksTyped
<1>1. /\ desks'[d] = s
      /\ \A e \in Desks : e # d => desks'[e] = desks[e]
  BY <1>0 DEF DesksTyped
<1>2. (Tidy(records) /\ Rows(origin))'
  BY <1>0
<1>3. DesksTyped'
  BY <1>0 DEF DesksTyped
<1>4. DesksAreTimely'
  BY <1>0, <1>1 DEF DesksAreTimely
<1>5. IdsAreNew'
  <2>1. \A n \in NewIds \ given' : ~InUse(n, records) /\ \A e \in Desks : ~Knows(desks'[e], n)
    BY <1>1 DEF IdsAreNew
  <2>2. ASSUME NEW e \in Desks, NEW n \in Made(desks'[e])
        PROVE  /\ n \in given' /\ ~InUse(n, records)
               /\ \A f \in Desks : ~Knows(desks'[f], n) /\ (f # e => n \notin Made(desks'[f]))
    <3>1. CASE e = d
      <4>1. n \in NewIds \ given
        BY <2>2, <3>1, <1>1
      <4>2. n \in given' /\ ~InUse(n, records)
        BY <2>2, <3>1, <1>1, <4>1 DEF IdsAreNew
      <4>3. \A f \in Desks : ~Knows(desks'[f], n)
        BY <1>1, <4>1, <4>2 DEF IdsAreNew
      <4>4. \A f \in Desks : f # d => n \notin Made(desks'[f])
        BY <1>1, <4>1 DEF IdsAreNew
      <4> QED
        BY <3>1, <4>2, <4>3, <4>4
    <3>2. CASE e # d
      <4>1. n \in Made(desks[e]) /\ n \in given /\ ~InUse(n, records)
        BY <2>2, <3>2, <1>1 DEF IdsAreNew
      <4>2. \A f \in Desks : ~Knows(desks'[f], n)
        BY <1>1, <4>1 DEF IdsAreNew
      <4>3. \A f \in Desks : f # e => n \notin Made(desks'[f])
        BY <1>1, <4>1 DEF IdsAreNew
      <4> QED
        BY <4>1, <4>2, <4>3
    <3> QED
      BY <3>1, <3>2
  <2> QED
    BY <1>0, <2>1, <2>2 DEF IdsAreNew
<1>6. BeforeWork'
  BY <1>0 DEF BeforeWork
<1> QED
  BY <1>2, <1>3, <1>4, <1>5, <1>6

\* A statement has run.
LEMMA RunKeepsInv ==
  ASSUME OrganizingInv, NEW d \in Desks, desks[d] # AtDesk,
         desks' = [desks EXCEPT ![d] = AtDesk], UNCHANGED <<origin, deleted, given, work>>,
         Tidy(records'),
         \A row \in records' : row.table = "message" => row \in records,
         \A row \in records' : row.table \in Drawn => Stems(row, records) \/ row.id \in Made(desks[d]),
         \A n : InUse(n, records') =>
            InUse(n, records) \/ n \in Made(desks[d]) \/ Knows(desks[d], n)
  PROVE  OrganizingInv'
<1> USE DEF OrganizingInv
<1>1. /\ desks'[d] = AtDesk
      /\ \A e \in Desks : e # d => desks'[e] = desks[e]
  BY DEF DesksTyped
<1>2. DesksTyped'
  BY DEF DesksTyped
<1>3. DesksAreTimely'
  <2>1. ASSUME NEW e \in Desks PROVE Timely(desks'[e], records')
    <3>1. CASE e = d
      BY <3>1, <1>1 DEF Timely
    <3>2. CASE e # d
      <4>1. \A n \in Made(desks[d]) : ~Knows(desks[e], n)
        BY DEF IdsAreNew
      <4>2. Timely(desks[e], records)
        BY DEF DesksAreTimely
      <4>3. Timely(desks[e], records')
        BY <4>1, <4>2, TimelyStays
      <4> QED
        BY <3>2, <4>3, <1>1
    <3> QED
      BY <3>1, <3>2
  <2> QED
    BY <2>1 DEF DesksAreTimely
<1>4. IdsAreNew'
  <2>1. ASSUME NEW n \in NewIds \ given
        PROVE  ~InUse(n, records') /\ \A e \in Desks : ~Knows(desks'[e], n)
    BY <1>1, AtDeskIdle DEF IdsAreNew
  <2>2. ASSUME NEW e \in Desks, NEW n \in Made(desks'[e])
        PROVE  /\ n \in given /\ ~InUse(n, records')
               /\ \A f \in Desks : ~Knows(desks'[f], n) /\ (f # e => n \notin Made(desks'[f]))
    <3>1. e # d /\ n \in Made(desks[e])
      BY <1>1, <2>2, AtDeskIdle
    <3>2. n \in given /\ ~InUse(n, records) /\ ~Knows(desks[d], n) /\ n \notin Made(desks[d])
      BY <3>1 DEF IdsAreNew
    <3>3. \A f \in Desks : ~Knows(desks'[f], n) /\ (f # e => n \notin Made(desks'[f]))
      BY <1>1, <3>1, AtDeskIdle DEF IdsAreNew
    <3> QED
      BY <3>2, <3>3
  <2> QED
    BY <2>1, <2>2 DEF IdsAreNew
<1>5. BeforeWork'
  BY DEF BeforeWork
<1> QED
  BY <1>2, <1>3, <1>4, <1>5

----------------------------------------------------------------------------
(***************************************************************************)
(* The statements, run.                                                    *)
(***************************************************************************)
LEMMA RefersIsRefersIn == \A row : Refers(row) <=> RefersIn(row, records)
  BY DEF Refers, RefersIn, There

LEMMA RunInsertInv ==
  ASSUME OrganizingInv, NEW d \in Desks, Run(d), Inserts(desks[d], records)
  PROVE  OrganizingInv'
<1> DEFINE s == desks[d]
<1>1. /\ desks[d] # AtDesk /\ desks' = [desks EXCEPT ![d] = AtDesk]
      /\ UNCHANGED <<origin, deleted, given, work>>
      /\ records' = Inserted(s.new, s.onConflict)
  BY DEF Run, Inserts
<1>2. Tidy(records) /\ \A n \in Made(s) : ~InUse(n, records) /\ ~Knows(s, n)
  BY DEF OrganizingInv, IdsAreNew
<1>3. CASE records' = records
  BY <1>1, <1>2, <1>3, RunKeepsInv DEF Stems
<1>4. ASSUME NEW row \in s.new, s.onConflict = "refuse", s.new = {row}, row.table \in Drawn,
             records' # records
      PROVE  OrganizingInv'
  <2>1. records' = records \cup {row} /\ RefersIn(row, records)
    BY <1>1, <1>4, RefersIsRefersIn DEF Inserted
  <2>2. row.id \in Made(s) /\ IsRow(row) /\ FitsIn(row, records)
    BY <1>4 DEF Inserts, Made
  <2>3. row.table = "rule" => \A n \in row.labels : Knows(s, n)
    BY <1>4 DEF Inserts, Knows
  <2>4. Tidy(records')
    BY <1>2, <1>4, <2>1, <2>2, <2>3, BirthKeepsTidy DEF Drawn
  <2>5. \A n : InUse(n, records') => InUse(n, records) \/ n \in Made(s) \/ Knows(s, n)
    BY <2>1, <2>2, <2>3 DEF InUse
  <2>6. \A r \in records' : r.table = "message" => r \in records
    BY <2>1, <1>4 DEF Drawn
  <2>7. \A r \in records' : r.table \in Drawn => Stems(r, records) \/ r.id \in Made(s)
    BY <2>1, <2>2 DEF Stems
  <2> QED
    BY <1>1, <2>4, <2>5, <2>6, <2>7, RunKeepsInv
<1>5. ASSUME s.onConflict = "nothing", \A row \in s.new : row.table = "messageLabel",
             records' # records
      PROVE  OrganizingInv'
  <2> DEFINE some == {row \in s.new : \A other \in records : ~Collide(row, other)}
  <2>1. records' = records \cup some
    BY <1>1, <1>5 DEF Inserted
  <2>2. \A row \in some : /\ IsRow(row) /\ row.table = "messageLabel"
                          /\ RefersIn(row, records) /\ LabelFits(row, records)
    BY <1>1, <1>5, RefersIsRefersIn DEF Inserted, Inserts, FitsIn
  <2> HIDE DEF some
  <2>3. Tidy(records')
    BY <1>2, <2>1, <2>2, StickingKeepsTidy
  <2>4. \A row \in records' : row.table \in Drawn \cup Named => row \in records
    BY <2>1, <2>2 DEF Drawn, Named
  <2>5. \A n : InUse(n, records') => InUse(n, records)
    BY <2>4 DEF InUse, Drawn
  <2>6. \A row \in records' : row.table = "message" => row \in records
    BY <2>4 DEF Named
  <2>7. \A r \in records' : r.table \in Drawn => Stems(r, records)
    BY <2>4 DEF Stems
  <2> QED
    BY <1>1, <2>3, <2>5, <2>6, <2>7, RunKeepsInv
<1>6. ASSUME NEW row \in s.new, s.onConflict = "replace", s.new = {row}, row.table = "threadFolder",
             records' # records
      PROVE  OrganizingInv'
  <2>1. records' = (records \ {other \in records : Collide(other, row)}) \cup {row}
    BY <1>1, <1>6 DEF Inserted, Clashing
  <2>2. IsRow(row) /\ RefersIn(row, records) /\ FolderFits(row, records)
    BY <1>1, <1>6, RefersIsRefersIn DEF Inserted, Inserts, FitsIn
  <2>3. Tidy(records')
    BY <1>2, <1>6, <2>1, <2>2, FilingKeepsTidy
  <2>4. \A r \in records' : r.table \in Drawn \cup Named => r \in records
    BY <2>1, <1>6 DEF Drawn, Named
  <2>5. \A n : InUse(n, records') => InUse(n, records)
    BY <2>4 DEF InUse, Drawn
  <2>6. \A r \in records' : r.table = "message" => r \in records
    BY <2>4 DEF Named
  <2>7. \A r \in records' : r.table \in Drawn => Stems(r, records)
    BY <2>4 DEF Stems
  <2> QED
    BY <1>1, <2>3, <2>5, <2>6, <2>7, RunKeepsInv
<1> QED
  BY <1>3, <1>4, <1>5, <1>6 DEF Inserts

LEMMA RunUpdateInv ==
  ASSUME OrganizingInv, NEW d \in Desks, Run(d), Renames(desks[d], records)
  PROVE  OrganizingInv'
<1> DEFINE s == desks[d]
           now == {row \in Of(s.table) : row.id = s.id}
<1>1. /\ desks[d] # AtDesk /\ desks' = [desks EXCEPT ![d] = AtDesk]
      /\ UNCHANGED <<origin, deleted, given, work>>
      /\ records' = Updated(s.table, s.id, s.patch)
  BY DEF Run, Renames
<1>2. Tidy(records)
  BY DEF OrganizingInv
<1>3. CASE records' = records
  BY <1>1, <1>2, <1>3, RunKeepsInv DEF Stems
<1>4. CASE now # {} /\ records' # records
  <2>1. PICK row \in records : row.table = s.table /\ row.id = s.id
    BY <1>4 DEF Of
  <2>2. now = {row}
    BY <2>1, <1>2 DEF Tidy, Unique, Of, Renames, Drawn, Named
  <2>3. records' = (records \ {row}) \cup {With(s.patch, row)}
    BY <1>1, <1>4, <2>2 DEF Updated
  <2>4. /\ row.table \in Drawn /\ "name" \in DOMAIN s.patch
        /\ DOMAIN s.patch \subseteq {"name", "labels", "clonedFrom"}
        /\ row.table = "rule" => /\ DOMAIN s.patch = {"name", "labels", "clonedFrom"}
                                 /\ s.patch.clonedFrom = row.mailboxId
                                 /\ s.patch.labels = {}
    BY <2>1 DEF Renames
  <2>5. /\ Tidy(records')
        /\ With(s.patch, row).table = row.table /\ With(s.patch, row).id = row.id
        /\ row.table \in {"label", "rule"} => With(s.patch, row).mailboxId = row.mailboxId
        /\ row.table = "folder" => With(s.patch, row).userId = row.userId
    <3> DEFINE patch == s.patch
    <3>1. /\ row.table \in {"label", "folder", "rule"} /\ "name" \in DOMAIN patch
          /\ DOMAIN patch \subseteq {"name", "labels", "clonedFrom"}
          /\ row.table = "rule" => /\ DOMAIN patch = {"name", "labels", "clonedFrom"}
                                   /\ patch.clonedFrom = row.mailboxId
      BY <2>4 DEF Drawn
    <3> HIDE DEF patch
    <3>2. /\ Tidy((records \ {row}) \cup {With(patch, row)})
          /\ With(patch, row).table = row.table /\ With(patch, row).id = row.id
          /\ row.table \in {"label", "rule"} => With(patch, row).mailboxId = row.mailboxId
          /\ row.table = "folder" => With(patch, row).userId = row.userId
      BY <1>2, <3>1, <2>1, RewriteKeepsTidy
    <3> QED
      BY <2>3, <3>2 DEF patch
  <2>6. row.table = "rule" => With(s.patch, row).labels = {}
    BY <2>4 DEF With
  <2>7. \A n : InUse(n, records') => InUse(n, records)
    BY <2>3, <2>5, <2>6 DEF InUse
  <2>8. \A r \in records' : r.table = "message" => r \in records
    BY <2>3, <2>4, <2>5 DEF Drawn
  <2>9. \A r \in records' : r.table \in Drawn => Stems(r, records)
    BY <2>3, <2>5 DEF Stems
  <2> QED
    BY <1>1, <2>5, <2>7, <2>8, <2>9, RunKeepsInv
<1>5. CASE now = {}
  BY <1>1, <1>3, <1>5 DEF Updated
<1> QED
  BY <1>3, <1>4, <1>5

LEMMA RunDeleteInv ==
  ASSUME OrganizingInv, NEW d \in Desks, Run(d), desks[d].do = "delete"
  PROVE  OrganizingInv'
<1> DEFINE targets == Matching(desks[d].table, desks[d].where)
<1>1. /\ desks[d] # AtDesk /\ desks' = [desks EXCEPT ![d] = AtDesk]
      /\ UNCHANGED <<origin, deleted, given, work>>
      /\ records' = Without(records, Cascaded(records, targets))
  BY DEF Run
<1>2. targets \in SUBSET records
  BY DEF Matching, Of
<1>3. /\ Tidy(records')
      /\ \A row \in records' : row.table \in CascadeOnly => row \in records
  BY <1>1, <1>2, CascadeKeepsTidy DEF OrganizingInv
<1>4. \A row \in records' : row.table \in Drawn \cup Named => row \in records
  BY <1>3 DEF CascadeOnly, Drawn, Named
<1>5. \A n : InUse(n, records') => InUse(n, records)
  BY <1>4 DEF InUse, Drawn
<1>6. \A row \in records' : row.table = "message" => row \in records
  BY <1>4 DEF Named
<1>7. \A r \in records' : r.table \in Drawn => Stems(r, records)
  BY <1>4 DEF Stems
<1> QED
  BY <1>1, <1>3, <1>5, <1>6, <1>7, RunKeepsInv

LEMMA RunInv == ASSUME OrganizingInv, NEW d \in Desks, Run(d) PROVE OrganizingInv'
<1>1. desks[d] # AtDesk /\ Timely(desks[d], records)
  BY DEF Run, OrganizingInv, DesksAreTimely
<1> QED
  BY <1>1, RunInsertInv, RunUpdateInv, RunDeleteInv DEF Timely

----------------------------------------------------------------------------
(***************************************************************************)
(* Deletes.                                                                *)
(***************************************************************************)
LEMMA TheRow ==
  ASSUME OrganizingInv, NEW row \in records, row.table \in Named
  PROVE  There(row.table, row.id) /\ The(row.table, row.id) = row
<1>1. \A other \in records : other.table = row.table /\ other.id = row.id => other = row
  BY DEF OrganizingInv, Tidy, Unique
<1>2. row \in Of(row.table)
  BY DEF Of
<1>3. \A other \in Of(row.table) : other.id = row.id => other = row
  BY <1>1 DEF Of
<1> QED
  BY <1>2, <1>3 DEF There, The

LEMMA TheOfThere ==
  ASSUME NEW t, NEW id, There(t, id)
  PROVE  The(t, id) \in records /\ The(t, id).table = t /\ The(t, id).id = id
<1>1. \E row \in Of(t) : row.id = id
  BY DEF There, Of
<1>2. The(t, id) \in Of(t) /\ The(t, id).id = id
  BY <1>1 DEF The
<1> QED
  BY <1>2 DEF Of

LEMMA DeleteRowsInv ==
  ASSUME OrganizingInv, NEW targets \in SUBSET records,
         \A row \in targets : row.table \in CascadeOnly,
         DeleteRows(targets), UNCHANGED <<desks, given, work>>
  PROVE  OrganizingInv'
<1>1. /\ records' = Without(records, Cascaded(records, targets))
      /\ deleted' = deleted \cup targets /\ UNCHANGED origin
  BY DEF DeleteRows
<1>2. /\ Tidy(records')
      /\ \A row \in records' : row.table \in CascadeOnly => row \in records
  BY <1>1, CascadeKeepsTidy DEF OrganizingInv
<1>3. \A row \in records' : row.table \in Drawn \cup Named => row \in records
  BY <1>2 DEF CascadeOnly, Drawn, Named
<1>4. \A n : InUse(n, records') => InUse(n, records)
  BY <1>3 DEF InUse, Drawn
<1>5. ASSUME NEW s, Timely(s, records) PROVE Timely(s, records')
  <2>1. \A row \in records' : row.table = "message" => row \in records
    BY <1>3 DEF Named
  <2>2. \A r \in records' : r.table \in Drawn => Stems(r, records)
    BY <1>3 DEF Stems
  <2> QED
    BY <1>5, <2>1, <2>2, TimelyStays
<1>6. IdsAreNew'
  BY <1>4 DEF OrganizingInv, IdsAreNew
<1>7. DesksTyped' /\ DesksAreTimely'
  BY <1>5 DEF OrganizingInv, DesksTyped, DesksAreTimely
<1>8. BeforeWork'
  <2>1. ASSUME work = 0, DeletesReachBelow PROVE DeletesReachBelow'
    <3>1. \A row \in origin : IsRow(row)
      BY DEF OrganizingInv, Rows
    <3>2. records = Without(origin, Cascaded(origin, origin \cap deleted))
      BY <2>1 DEF DeletesReachBelow
    <3>3. /\ targets \subseteq origin
          /\ records' = Without(origin, Cascaded(origin, (origin \cap deleted) \cup targets))
      <4> DEFINE roots == origin \cap deleted
      <4>1. roots \in SUBSET origin /\ records = Without(origin, Cascaded(origin, roots))
        BY <3>2
      <4> HIDE DEF roots
      <4>2. /\ targets \subseteq origin
            /\ Without(records, Cascaded(records, targets)) =
                 Without(origin, Cascaded(origin, roots \cup targets))
        BY <3>1, <4>1, CascadesAddUp
      <4> QED
        BY <1>1, <4>2 DEF roots
    <3>4. (origin \cap deleted) \cup targets = origin' \cap deleted'
      BY <1>1, <3>3
    <3> QED
      BY <1>1, <3>3, <3>4 DEF DeletesReachBelow
  <2> QED
    BY <2>1 DEF OrganizingInv, BeforeWork
<1>9. Rows(origin)'
  BY <1>1 DEF OrganizingInv
<1> QED
  BY <1>2, <1>6, <1>7, <1>8, <1>9 DEF OrganizingInv

LEMMA DeletesInv ==
  ASSUME OrganizingInv, DeletesNext, UNCHANGED <<desks, given, work>>
  PROVE  OrganizingInv'
<1>1. Named \cup {"mailboxMember"} \subseteq CascadeOnly
  BY DEF CascadeOnly
<1>2. ASSUME NEW seat \in Of("mailboxMember"), RemoveMember(seat) PROVE OrganizingInv'
  BY <1>1, <1>2, DeleteRowsInv DEF RemoveMember, Of
<1>3. ASSUME NEW t \in Named, NEW id, There(t, id), DeleteRows({The(t, id)})
      PROVE  OrganizingInv'
  <2> DEFINE targets == {The(t, id)}
  <2>1. The(t, id) \in records /\ The(t, id).table = t
    BY <1>3, TheOfThere
  <2>2. targets \in SUBSET records /\ \A row \in targets : row.table \in CascadeOnly
    BY <1>1, <2>1
  <2> HIDE DEF targets
  <2>3. DeleteRows(targets)
    BY <1>3 DEF targets
  <2> QED
    BY <2>2, <2>3, DeleteRowsInv
<1>4. ASSUME NEW id, DeleteMessage(id) PROVE OrganizingInv'
  <2> DEFINE msg == The("message", id)
             rest == {m \in Of("message") : m.threadId = msg.threadId} \ {msg}
             th == The("thread", msg.threadId)
             targets == {msg} \cup IF rest = {} THEN {th} ELSE {}
  <2>1. msg \in records /\ msg.table = "message"
    <3>1. There("message", id)
      BY <1>4 DEF DeleteMessage
    <3> QED
      BY <3>1, TheOfThere
  <2>2. There("thread", msg.threadId)
    <3>1. IsRow(msg) /\ RefersIn(msg, records) /\ Points(msg, "threadId", "thread")
      BY <2>1, ColumnsOf DEF OrganizingInv, Tidy, Rows, Whole
    <3> QED
      BY <2>1, <3>1 DEF IsRow, RefersIn, Points, Cascade, There
  <2>3. th \in records /\ th.table = "thread"
    BY <2>2, TheOfThere
  <2>4. targets \in SUBSET records /\ \A row \in targets : row.table \in CascadeOnly
    BY <1>1, <2>1, <2>3 DEF Named
  <2>5. DeleteRows(targets)
    BY <1>4 DEF DeleteMessage
  <2> QED
    BY <2>4, <2>5, DeleteRowsInv
<1>5. {"user", "domain", "mailbox", "thread", "label", "folder", "rule"} \subseteq Named
  BY DEF Named
<1> QED
  BY <1>2, <1>3, <1>4, <1>5
  DEF DeletesNext, DeleteUser, DeleteDomain, DropMailbox, DeleteThread, DeleteLabel, DeleteFolder,
      DeleteRule

----------------------------------------------------------------------------
(***************************************************************************)
(* The handlers: what they take to a desk is right when they take it.      *)
(***************************************************************************)
LEMMA PlainInv ==
  ASSUME OrganizingInv, NEW d \in Desks, NEW s, Plain(d, s), Timely(s, records), Made(s) = {},
         \A n : Knows(s, n) => InUse(n, records)
  PROVE  OrganizingInv'
<1>1. Start(d, s) /\ given' = given /\ given \subseteq NewIds
  BY DEF Plain, OrganizingInv, DesksTyped
<1> QED
  BY <1>1, StartKeepsInv

LEMMA StartNewInv ==
  ASSUME OrganizingInv, NEW d \in Desks, NEW id, NEW s, StartNew(d, id, s), Timely(s, records),
         Made(s) \subseteq {id}, \A n : Knows(s, n) => InUse(n, records)
  PROVE  OrganizingInv'
<1>1. /\ Start(d, s) /\ given' = given \cup {id} /\ id \in NewIds \ given
      /\ given \subseteq NewIds
  BY DEF StartNew, OrganizingInv, DesksTyped
<1> QED
  BY <1>1, StartKeepsInv

LEMMA DropInv ==
  ASSUME OrganizingInv, NEW d \in Desks, NEW table, NEW where, Plain(d, DropRows(table, where))
  PROVE  OrganizingInv'
<1> DEFINE s == DropRows(table, where)
<1>1. s.do = "delete"
  BY DEF DropRows
<1>2. Plain(d, s)
  OBVIOUS
<1> HIDE DEF s
<1>3. Timely(s, records) /\ Made(s) = {} /\ \A n : ~Knows(s, n)
  BY <1>1 DEF Timely, Made, Knows
<1> QED
  BY <1>2, <1>3, PlainInv

LEMMA UpdateInv ==
  ASSUME OrganizingInv, NEW d \in Desks, NEW row \in records, row.table \in Drawn, NEW patch,
         Plain(d, UpdateRows(row.table, row.id, patch)),
         "name" \in DOMAIN patch, DOMAIN patch \subseteq {"name", "labels", "clonedFrom"},
         row.table = "rule" => /\ DOMAIN patch = {"name", "labels", "clonedFrom"}
                               /\ patch.labels = {} /\ patch.clonedFrom = row.mailboxId
  PROVE  OrganizingInv'
<1> DEFINE s == UpdateRows(row.table, row.id, patch)
<1>1. s.do = "update" /\ s.table = row.table /\ s.id = row.id /\ s.patch = patch
  BY DEF UpdateRows
<1>2. Plain(d, s)
  OBVIOUS
<1> HIDE DEF s
<1>3. \A rule \in records : rule.table = "rule" /\ row.table = "rule" /\ rule.id = row.id => rule = row
  BY DEF OrganizingInv, Tidy, Unique, Named
<1>4. Renames(s, records)
  BY <1>1, <1>3 DEF Renames
<1>5. Made(s) = {}
  BY <1>1 DEF Made
<1>6. \A n : Knows(s, n) => InUse(n, records)
  BY <1>1 DEF Knows, InUse, Named, Drawn
<1> QED
  BY <1>2, <1>4, <1>5, <1>6, PlainInv DEF Timely

\* A row of a table the handlers write.
Written == Drawn \cup {"messageLabel", "threadFolder"}

LEMMA WrittenTables == Written \subseteq DOMAIN Tables
<1>1. {"label", "folder", "messageLabel", "threadFolder"} \subseteq DOMAIN FilingTables
  BY DEF FilingTables
<1>2. "rule" \in DOMAIN WorkTables
  BY DEF WorkTables
<1>3. \A f, g : DOMAIN f \cup DOMAIN g \subseteq DOMAIN With(f, g)
  BY DEF With
<1>4. DOMAIN FilingTables \cup DOMAIN WorkTables \subseteq DOMAIN Tables
  <2> DEFINE working == With(WorkTables, With(NoticeTables, ImapTables))
             filing == With(FilingTables, working)
             threads == With(ThreadTables, filing)
             mailboxes == With(MailboxTables, threads)
  <2>1. DOMAIN WorkTables \subseteq DOMAIN working
    BY <1>3
  <2> HIDE DEF working
  <2>2. DOMAIN FilingTables \cup DOMAIN working \subseteq DOMAIN filing
    BY <1>3
  <2> HIDE DEF filing
  <2>3. DOMAIN filing \subseteq DOMAIN threads
    BY <1>3
  <2> HIDE DEF threads
  <2>4. DOMAIN threads \subseteq DOMAIN mailboxes
    BY <1>3
  <2> HIDE DEF mailboxes
  <2>5. DOMAIN mailboxes \subseteq DOMAIN With(AuthTables, mailboxes)
    BY <1>3
  <2>6. Tables = With(AuthTables, mailboxes)
    BY DEF Tables, mailboxes, threads, filing, working
  <2> QED
    BY <2>1, <2>2, <2>3, <2>4, <2>5, <2>6
<1> QED
  BY <1>1, <1>2, <1>4 DEF Written, Drawn

LEMMA WrittenIsRow ==
  ASSUME NEW row, row = [c \in DOMAIN row |-> row[c]], "table" \in DOMAIN row, row.table \in Written,
         row.table \in Named => "id" \in DOMAIN row /\ row.id # Null,
         \A c \in DOMAIN Refs(row) : c \in DOMAIN row /\ row[c] # Null
  PROVE  IsRow(row)
  BY WrittenTables DEF IsRow

\* The rows and ids there are.
LEMMA ThoseThere ==
  ASSUME OrganizingInv, NEW row \in records
  PROVE  /\ IsRow(row) /\ RefersIn(row, records)
         /\ row.table \in Named => row.id # Null /\ InUse(row.id, records)
         /\ row.table \in {"label", "thread", "message", "rule"} => row.mailboxId # Null
         /\ row.table = "message" => row.threadId # Null
         /\ row.table = "rule" => row.createdBy # Null
         /\ row.table = "folder" => row.userId # Null
<1>1. IsRow(row) /\ RefersIn(row, records)
  BY DEF OrganizingInv, Tidy, Rows, Whole
<1>2. row.table \in Named => row.id # Null /\ InUse(row.id, records)
  BY <1>1 DEF IsRow, InUse
<1>3. ASSUME NEW c, NEW to, Points(row, c, to), row.table # "imapFolder" PROVE row[c] # Null
  BY <1>1, <1>3 DEF IsRow, Points, Cascade
<1>4. row.table \in {"label", "thread", "message", "rule"} => row.mailboxId # Null
  BY <1>3, ColumnsOf
<1>5. /\ row.table = "message" => row.threadId # Null
      /\ row.table = "rule" => row.createdBy # Null
      /\ row.table = "folder" => row.userId # Null
  BY <1>3, ColumnsOf
<1> QED
  BY <1>1, <1>2, <1>4, <1>5

\* One new label, folder or rule.
LEMMA RefuseInv ==
  ASSUME OrganizingInv, NEW d \in Desks, NEW id, NEW row,
         StartNew(d, id, InsertRows({row}, "refuse")), row.table \in Drawn, row.id = id,
         IsRow(row), row.table = "rule" => /\ RuleFits(row, records)
                                           /\ \A n \in row.labels : InUse(n, records)
  PROVE  OrganizingInv'
<1> DEFINE s == InsertRows({row}, "refuse")
<1>1. s.do = "insert" /\ s.new = {row} /\ s.onConflict = "refuse"
  BY DEF InsertRows
<1>2. StartNew(d, id, s)
  OBVIOUS
<1> HIDE DEF s
<1>3. FitsIn(row, records)
  BY DEF FitsIn, Drawn
<1>4. Timely(s, records)
  BY <1>1, <1>3 DEF Timely, Inserts
<1>5. Made(s) \subseteq {id}
  BY <1>1 DEF Made
<1>6. \A n : Knows(s, n) => InUse(n, records)
  BY <1>1 DEF Knows, Drawn
<1> QED
  BY <1>2, <1>4, <1>5, <1>6, StartNewInv

LEMMA CreateLabelInv ==
  ASSUME OrganizingInv, NEW d \in Desks, NEW u, NEW m, m # Null, NEW name, NEW id \in NewIds,
         CreateLabel(d, u, m, name, id)
  PROVE  OrganizingInv'
<1> DEFINE row == LabelRow(id, m, name)
<1>1. row.table = "label" /\ row.id = id /\ row.mailboxId = m /\ row["mailboxId"] = m
      /\ DOMAIN row = {"table", "id", "mailboxId", "name"} /\ row = [c \in DOMAIN row |-> row[c]]
  BY DEF LabelRow
<1>2. StartNew(d, id, InsertRows({row}, "refuse"))
  BY DEF CreateLabel
<1> HIDE DEF row
<1>3. IsRow(row)
  BY <1>1, WrittenIsRow, ColumnsOf, OrganizingAssumption DEF Written, Drawn
<1> QED
  BY <1>1, <1>2, <1>3, RefuseInv DEF Drawn

LEMMA CreateFolderInv ==
  ASSUME OrganizingInv, NEW d \in Desks, NEW u, u # Null, NEW name, NEW id \in NewIds,
         CreateFolder(d, u, name, id)
  PROVE  OrganizingInv'
<1> DEFINE row == [table |-> "folder", id |-> id, userId |-> u, name |-> name]
<1>1. row.table = "folder" /\ row.id = id /\ row["userId"] = u
      /\ DOMAIN row = {"table", "id", "userId", "name"} /\ row = [c \in DOMAIN row |-> row[c]]
  OBVIOUS
<1>2. StartNew(d, id, InsertRows({row}, "refuse"))
  BY DEF CreateFolder
<1> HIDE DEF row
<1>3. IsRow(row)
  BY <1>1, WrittenIsRow, ColumnsOf, OrganizingAssumption DEF Written, Drawn
<1> QED
  BY <1>1, <1>2, <1>3, RefuseInv DEF Drawn

\* A rule, and where it was copied from.
CopyRow(id, m, u, name, labels, folder, from) ==
  [RuleRow(id, m, u, name, labels, folder) EXCEPT !.clonedFrom = from]

LEMMA CopyRowIs ==
  ASSUME NEW id \in NewIds, NEW m, m # Null, NEW u, u # Null, NEW name, NEW labels, NEW folder, NEW from,
         NEW row, row = CopyRow(id, m, u, name, labels, folder, from)
  PROVE  /\ IsRow(row) /\ row.table = "rule" /\ row.id = id /\ row.mailboxId = m
         /\ row.labels = labels /\ row.clonedFrom = from
<1>1. /\ row.table = "rule" /\ row.id = id /\ row.mailboxId = m
      /\ row.labels = labels /\ row.clonedFrom = from
      /\ row["mailboxId"] = m /\ row["createdBy"] = u
      /\ DOMAIN row = {"table", "id", "mailboxId", "createdBy", "name", "labels", "folder", "clonedFrom"}
      /\ row = [c \in DOMAIN row |-> row[c]]
  BY DEF CopyRow, RuleRow
<1>2. IsRow(row)
  BY <1>1, WrittenIsRow, ColumnsOf, OrganizingAssumption DEF Written, Drawn
<1> QED
  BY <1>1, <1>2

LEMMA CreateRuleInv ==
  ASSUME OrganizingInv, NEW d \in Desks, NEW u, u # Null, NEW m, m # Null, NEW name,
         NEW labels, \A n \in labels : InUse(n, records), NEW folder, NEW id \in NewIds,
         CreateRule(d, u, m, name, labels, folder, id)
  PROVE  OrganizingInv'
<1> DEFINE row == RuleRow(id, m, u, name, labels, folder)
<1>1. row = CopyRow(id, m, u, name, labels, folder, m)
  BY DEF CopyRow, RuleRow
<1>3. StartNew(d, id, InsertRows({row}, "refuse"))
  BY DEF CreateRule
<1> HIDE DEF row
<1>2. /\ IsRow(row) /\ row.table = "rule" /\ row.id = id /\ row.mailboxId = m
      /\ row.labels = labels /\ row.clonedFrom = m
  BY <1>1, CopyRowIs
<1> QED
  BY <1>2, <1>3, RefuseInv DEF Drawn, RuleFits

LEMMA RemapLabelsFit ==
  ASSUME OrganizingInv, NEW from, NEW to, NEW labels, NEW n \in RemapLabels(from, to, labels)
  PROVE  /\ InUse(n, records)
         /\ \A label \in records : label.table = "label" /\ label.id = n => label.mailboxId = to
<1>1. PICK row \in records : row.table = "label" /\ row.mailboxId = to /\ row.id = n
  BY DEF RemapLabels, Of
<1>2. \A label \in records : label.table = "label" /\ label.id = n => label = row
  BY <1>1 DEF OrganizingInv, Tidy, Unique, Named
<1> QED
  BY <1>1, <1>2 DEF InUse, Named

LEMMA CloneRuleInv ==
  ASSUME OrganizingInv, NEW d \in Desks, NEW u, u # Null, NEW rule \in Of("rule"), NEW to, to # Null,
         NEW name, NEW id \in NewIds, CloneRule(d, u, rule, to, name, id)
  PROVE  OrganizingInv'
<1> DEFINE labels == IF to = rule.mailboxId THEN rule.labels
                     ELSE RemapLabels(rule.mailboxId, to, rule.labels)
           copy == RuleRow(id, to, u, name, labels, rule.folder)
           row == [copy EXCEPT !.clonedFrom = rule.mailboxId]
<1>1. StartNew(d, id, InsertRows({row}, "refuse"))
  BY DEF CloneRule
<1>2. /\ IsRow(row) /\ row.table = "rule" /\ row.id = id /\ row.mailboxId = to
      /\ row.labels = labels /\ row.clonedFrom = rule.mailboxId
  <2> DEFINE folder == rule.folder
             from == rule.mailboxId
  <2>1. row = CopyRow(id, to, u, name, labels, folder, from)
    BY DEF CopyRow
  <2> HIDE DEF row, labels, folder, from
  <2>2. /\ IsRow(row) /\ row.table = "rule" /\ row.id = id /\ row.mailboxId = to
        /\ row.labels = labels /\ row.clonedFrom = from
    BY <2>1, CopyRowIs
  <2> QED
    BY <2>2 DEF from
<1>3. \A n \in labels : InUse(n, records)
  BY RemapLabelsFit DEF InUse, Of
<1>4. to # rule.mailboxId =>
        \A label \in records : label.table = "label" /\ label.id \in labels => label.mailboxId = to
  BY RemapLabelsFit
<1> HIDE DEF row, labels
<1>5. RuleFits(row, records)
  BY <1>2, <1>4 DEF RuleFits
<1> QED
  BY <1>1, <1>2, <1>3, <1>5, RefuseInv DEF Drawn

\* A label on messages of its mailbox.
LEMMA StickInv ==
  ASSUME OrganizingInv, NEW d \in Desks, NEW label \in Of("label"), NEW ids,
         Plain(d, InsertRows(Stuck(label, ids), "nothing")),
         \A id \in ids : \E msg \in Of("message") : msg.id = id /\ msg.mailboxId = label.mailboxId
  PROVE  OrganizingInv'
<1> DEFINE s == InsertRows(Stuck(label, ids), "nothing")
<1>1. s.do = "insert" /\ s.new = Stuck(label, ids) /\ s.onConflict = "nothing"
  BY DEF InsertRows
<1>2. Plain(d, s)
  OBVIOUS
<1> HIDE DEF s
<1>3. label \in records /\ label.table = "label" /\ label.id # Null /\ InUse(label.id, records)
  BY ThoseThere DEF Of, Named
<1>4. ASSUME NEW row \in Stuck(label, ids)
      PROVE  IsRow(row) /\ row.table = "messageLabel" /\ row.labelId = label.id /\ FitsIn(row, records)
  <2>1. PICK id \in ids : row = [table |-> "messageLabel", messageId |-> id, labelId |-> label.id]
    BY DEF Stuck
  <2>2. PICK msg \in records : /\ msg.table = "message" /\ msg.id = id
                               /\ msg.mailboxId = label.mailboxId
    BY DEF Of
  <2>3. id # Null
    BY <2>2, ThoseThere DEF Named
  <2>4. /\ row.table = "messageLabel" /\ row.messageId = id /\ row.labelId = label.id
        /\ row["messageId"] = id /\ row["labelId"] = label.id
        /\ DOMAIN row = {"table", "messageId", "labelId"} /\ row = [c \in DOMAIN row |-> row[c]]
    BY <2>1
  <2>5. IsRow(row)
    BY <2>3, <2>4, <1>3, WrittenIsRow, ColumnsOf DEF Written, Named
  <2>6. LabelFits(row, records)
    <3>1. \A l \in records : l.table = "label" /\ l.id = label.id => l = label
      BY <1>3 DEF OrganizingInv, Tidy, Unique, Named
    <3>2. \A m \in records : m.table = "message" /\ m.id = id => m = msg
      BY <2>2 DEF OrganizingInv, Tidy, Unique, Named
    <3> QED
      BY <3>1, <3>2, <2>2, <2>4 DEF LabelFits
  <2> QED
    BY <2>4, <2>5, <2>6 DEF FitsIn
<1>5. Timely(s, records)
  BY <1>1, <1>4 DEF Timely, Inserts
<1>6. Made(s) = {}
  BY <1>1, <1>4 DEF Made, Drawn
<1>7. \A n : Knows(s, n) => InUse(n, records)
  BY <1>1, <1>3, <1>4 DEF Knows
<1> QED
  BY <1>2, <1>5, <1>6, <1>7, PlainInv

\* A thread in a folder of the user's.
LEMMA FilingInv ==
  ASSUME OrganizingInv, NEW d \in Desks, NEW folder \in Of("folder"), NEW u, folder.userId = u,
         NEW id, id # Null, Plain(d, InsertRows({Filed(u, id, folder.id)}, "replace"))
  PROVE  OrganizingInv'
<1> DEFINE row == Filed(u, id, folder.id)
           s == InsertRows({row}, "replace")
<1>1. s.do = "insert" /\ s.new = {row} /\ s.onConflict = "replace"
  BY DEF InsertRows
<1>2. Plain(d, s)
  OBVIOUS
<1> HIDE DEF s
<1>3. /\ folder \in records /\ folder.table = "folder" /\ folder.id # Null /\ u # Null
      /\ InUse(folder.id, records)
  BY ThoseThere DEF Of, Named
<1>4. /\ row.table = "threadFolder" /\ row.userId = u /\ row.folderId = folder.id
      /\ row["userId"] = u /\ row["threadId"] = id /\ row["folderId"] = folder.id
      /\ DOMAIN row = {"table", "userId", "threadId", "folderId"} /\ row = [c \in DOMAIN row |-> row[c]]
  BY DEF Filed
<1> HIDE DEF row
<1>5. IsRow(row)
  BY <1>3, <1>4, WrittenIsRow, ColumnsOf DEF Written, Named
<1>6. FolderFits(row, records)
  BY <1>3, <1>4 DEF FolderFits, OrganizingInv, Tidy, Unique, Named
<1>7. Timely(s, records)
  BY <1>1, <1>4, <1>5, <1>6 DEF Timely, Inserts, FitsIn
<1>8. Made(s) = {}
  BY <1>1, <1>4 DEF Made, Drawn
<1>9. \A n : Knows(s, n) => InUse(n, records)
  BY <1>1, <1>3, <1>4 DEF Knows
<1> QED
  BY <1>2, <1>7, <1>8, <1>9, PlainInv

LEMMA PutOrTakeInv ==
  ASSUME OrganizingInv, NEW d \in Desks, NEW label \in Of("label"), NEW ids, PutOrTake(d, label, ids),
         \A id \in ids : \E msg \in Of("message") : msg.id = id /\ msg.mailboxId = label.mailboxId
  PROVE  OrganizingInv'
  BY StickInv, DropInv DEF PutOrTake

LEMMA ApplyRuleInv ==
  ASSUME OrganizingInv, NEW d \in Desks, NEW rule \in Of("rule"), NEW msg \in Of("message"),
         ApplyRule(d, rule, msg)
  PROVE  OrganizingInv'
<1>1. msg.threadId # Null
  BY ThoseThere DEF Of
<1>2. ASSUME NEW label \in ValidLabels(msg.mailboxId, rule.labels),
             Plain(d, InsertRows(Stuck(label, {msg.id}), "nothing"))
      PROVE  OrganizingInv'
  BY <1>2, StickInv DEF ValidLabels
<1>3. ASSUME NEW folder \in Of("folder"), folder.userId = rule.createdBy,
             Plain(d, InsertRows({Filed(rule.createdBy, msg.threadId, folder.id)}, "replace"))
      PROVE  OrganizingInv'
  BY <1>1, <1>3, FilingInv
<1> QED
  BY <1>2, <1>3 DEF ApplyRule

LEMMA HandlersInv == ASSUME OrganizingInv, HandlersNext PROVE OrganizingInv'
<1>1. ASSUME NEW d \in Desks, NEW user \in Of("user"), NEW name \in Titles, NEW mb \in Of("mailbox"),
             NEW id \in NewIds,
             \/ CreateLabel(d, user.id, mb.id, name, id)
             \/ CreateFolder(d, user.id, name, id)
             \/ \E labels \in {{row.id : row \in Of("label")}}, folder \in Of("folder") :
                  CreateRule(d, user.id, mb.id, name, labels, folder.id, id)
             \/ \E rule \in Of("rule") : CloneRule(d, user.id, rule, mb.id, name, id)
      PROVE  OrganizingInv'
  <2>1. user.id # Null /\ mb.id # Null
    BY ThoseThere DEF Of, Named
  <2>2. \A n \in {row.id : row \in Of("label")} : InUse(n, records)
    BY DEF Of, InUse, Named
  <2> QED
    BY <1>1, <2>1, <2>2, CreateLabelInv, CreateFolderInv, CreateRuleInv, CloneRuleInv
<1>2. ASSUME NEW d \in Desks, NEW user \in Of("user"), NEW label \in Of("label"),
             \/ \E name \in Titles : RenameLabel(d, user.id, label, name)
             \/ RemoveLabel(d, user.id, label)
             \/ \E msg \in Of("message") : LabelMessage(d, user.id, label, msg)
             \/ \E th \in Of("thread") : LabelThread(d, user.id, label, th)
      PROVE  OrganizingInv'
  <2>1. ASSUME NEW name, RenameLabel(d, user.id, label, name) PROVE OrganizingInv'
    <3> DEFINE patch == [name |-> name]
    <3>1. label \in records /\ label.table = "label"
      BY DEF Of
    <3>2. Plain(d, UpdateRows(label.table, label.id, patch)) /\ DOMAIN patch = {"name"}
      BY <2>1, <3>1 DEF RenameLabel
    <3> HIDE DEF patch
    <3> QED
      BY <3>1, <3>2, UpdateInv DEF Drawn
  <2>2. RemoveLabel(d, user.id, label) => OrganizingInv'
    BY DropInv DEF RemoveLabel
  <2>3. ASSUME NEW msg \in Of("message"), LabelMessage(d, user.id, label, msg) PROVE OrganizingInv'
    BY <2>3, PutOrTakeInv DEF LabelMessage, BelongTogether
  <2>4. ASSUME NEW th \in Of("thread"), LabelThread(d, user.id, label, th) PROVE OrganizingInv'
    <3> DEFINE ids == {msg.id : msg \in {x \in Of("message") :
                          x.threadId = th.id /\ x.mailboxId = label.mailboxId}}
    <3>1. PutOrTake(d, label, ids)
      BY <2>4 DEF LabelThread
    <3>2. \A id \in ids : \E msg \in Of("message") : msg.id = id /\ msg.mailboxId = label.mailboxId
      OBVIOUS
    <3> HIDE DEF ids
    <3> QED
      BY <3>1, <3>2, PutOrTakeInv
  <2> QED
    BY <1>2, <2>1, <2>2, <2>3, <2>4
<1>3. ASSUME NEW d \in Desks, NEW user \in Of("user"), NEW folder \in Of("folder"),
             \/ \E name \in Titles : UpdateFolder(d, user.id, folder, name)
             \/ RemoveFolder(d, user.id, folder)
             \/ \E th \in Of("thread") : \/ FileThread(d, user.id, folder, th)
                                         \/ Unfile(d, user.id, folder, th.id)
      PROVE  OrganizingInv'
  <2>1. ASSUME NEW name, UpdateFolder(d, user.id, folder, name) PROVE OrganizingInv'
    <3> DEFINE patch == [name |-> name]
    <3>1. folder \in records /\ folder.table = "folder"
      BY DEF Of
    <3>2. Plain(d, UpdateRows(folder.table, folder.id, patch)) /\ DOMAIN patch = {"name"}
      BY <2>1, <3>1 DEF UpdateFolder
    <3> HIDE DEF patch
    <3> QED
      BY <3>1, <3>2, UpdateInv DEF Drawn
  <2>2. RemoveFolder(d, user.id, folder) => OrganizingInv'
    BY DropInv DEF RemoveFolder
  <2>3. ASSUME NEW th \in Of("thread"), FileThread(d, user.id, folder, th) PROVE OrganizingInv'
    <3>1. th.id # Null
      BY ThoseThere DEF Of, Named
    <3> QED
      BY <2>3, <3>1, FilingInv DEF FileThread
  <2>4. ASSUME NEW th \in Of("thread"), Unfile(d, user.id, folder, th.id) PROVE OrganizingInv'
    BY <2>4, DropInv DEF Unfile
  <2> QED
    BY <1>3, <2>1, <2>2, <2>3, <2>4
<1>4. ASSUME NEW d \in Desks, NEW rule \in Of("rule"),
             \/ \E user \in Of("user") :
                  \/ RemoveRule(d, user.id, rule)
                  \/ \E name \in Titles : UpdateRule(d, user.id, rule, name, {})
             \/ \E msg \in Of("message") : ApplyRule(d, rule, msg)
      PROVE  OrganizingInv'
  <2>1. ASSUME NEW user, RemoveRule(d, user.id, rule) PROVE OrganizingInv'
    BY <2>1, DropInv DEF RemoveRule
  <2>2. ASSUME NEW user, NEW name, UpdateRule(d, user.id, rule, name, {}) PROVE OrganizingInv'
    <3> DEFINE patch == [name |-> name, labels |-> {}, clonedFrom |-> rule.mailboxId]
    <3>1. rule \in records /\ rule.table = "rule"
      BY DEF Of
    <3>2. /\ Plain(d, UpdateRows(rule.table, rule.id, patch))
          /\ DOMAIN patch = {"name", "labels", "clonedFrom"}
          /\ patch.labels = {} /\ patch.clonedFrom = rule.mailboxId
      BY <2>2, <3>1 DEF UpdateRule
    <3> HIDE DEF patch
    <3> QED
      BY <3>1, <3>2, UpdateInv DEF Drawn
  <2> QED
    BY <1>4, <2>1, <2>2, ApplyRuleInv
<1> QED
  BY <1>1, <1>2, <1>3, <1>4, RunInv DEF HandlersNext
----------------------------------------------------------------------------
(***************************************************************************)
(* The invariant, and what follows from it.                                *)
(***************************************************************************)
\* With nothing deleted yet, nothing is missing and nothing is cleared.
LEMMA NothingDeleted ==
  ASSUME NEW db, \A row \in db : IsRow(row) PROVE db = Without(db, Cascaded(db, {}))
<1>1. Below(db, {}) = {}
  BY DEF Below
<1>2. Cascaded(db, {}) = {}
  BY <1>1 DEF Cascaded
<1>3. ASSUME NEW row \in db PROVE Cleared(row, {}) = row
  <2>1. row = [c \in DOMAIN row |-> row[c]]
    BY DEF IsRow
  <2>2. Cleared(row, {}) = [c \in DOMAIN row |-> row[c]]
    BY DEF Cleared
  <2> QED
    BY <2>1, <2>2
<1> QED
  BY <1>2, <1>3 DEF Without

LEMMA InitInv == ASSUME OrganizingInit PROVE OrganizingInv
<1> USE DEF OrganizingInit
<1>1. Rows(records) /\ Rows(origin)
  BY DEF Rows
<1>2. Unique(records)
  BY DEF IdsAreUnique, Unique, Of
<1>3. Whole(records)
  BY RefersIsRefersIn DEF Whole, NothingDangles
<1>4. Together(records)
  BY DEF ThreadsStayHome, Together, Of
<1>5. Alone(records)
  BY OneFolderForAThread DEF Alone, OrganizedApart, FilingIsPersonal, Of
<1>6. ASSUME NEW row \in records, row.table \in Named
      PROVE  The(row.table, row.id) = row
  <2>1. \A other \in records : other.table = row.table /\ other.id = row.id => other = row
    BY <1>2, <1>6 DEF Unique
  <2>2. row \in Of(row.table) /\ \A other \in Of(row.table) : other.id = row.id => other = row
    BY <2>1 DEF Of
  <2> QED
    BY <2>2 DEF The
<1>7. ASSUME NEW row \in records PROVE FitsIn(row, records)
  <2>1. ASSUME row.table = "messageLabel" PROVE LabelFits(row, records)
    <3>1. The("label", row.labelId).mailboxId = The("message", row.messageId).mailboxId
      BY <2>1 DEF OrganizedApart, LabelsStayHome, Of
    <3>2. ASSUME NEW label \in records, NEW msg \in records,
                 label.table = "label", label.id = row.labelId,
                 msg.table = "message", msg.id = row.messageId
          PROVE  label.mailboxId = msg.mailboxId
      <4>1. The("label", row.labelId) = label /\ The("message", row.messageId) = msg
        BY <3>2, <1>6 DEF Named
      <4> QED
        BY <3>1, <4>1
    <3> QED
      BY <3>2 DEF LabelFits
  <2>2. ASSUME row.table = "threadFolder" PROVE FolderFits(row, records)
    <3>1. The("folder", row.folderId).userId = row.userId
      BY <2>2 DEF OrganizedApart, FilingIsPersonal, Of
    <3>2. ASSUME NEW folder \in records, folder.table = "folder", folder.id = row.folderId
          PROVE  folder.userId = row.userId
      <4>1. The("folder", row.folderId) = folder
        BY <3>2, <1>6 DEF Named
      <4> QED
        BY <3>1, <4>1
    <3> QED
      BY <3>2 DEF FolderFits
  <2>3. ASSUME row.table = "rule" PROVE RuleFits(row, records)
    BY <2>3 DEF OrganizedApart, ClonesFit, RuleFits, Of
  <2> QED
    BY <2>1, <2>2, <2>3 DEF FitsIn
<1>8. IdsAreNew
  <2>1. \A d \in Desks : desks[d] = AtDesk
    OBVIOUS
  <2>2. \A n \in NewIds : ~InUse(n, records)
    BY DEF IdsToCome, InUse, Of
  <2> QED
    BY <2>1, <2>2, AtDeskIdle DEF IdsAreNew
<1>9. DesksTyped /\ DesksAreTimely
  BY DEF DesksTyped, DesksAreTimely, Timely
<1>10. BeforeWork
  <2>1. origin \cap deleted = {}
    OBVIOUS
  <2>2. records = Without(records, Cascaded(records, {}))
    BY <1>1, NothingDeleted DEF Rows
  <2> QED
    BY <2>1, <2>2 DEF BeforeWork, DeletesReachBelow
<1> QED
  BY <1>1, <1>2, <1>3, <1>4, <1>5, <1>7, <1>8, <1>9, <1>10 DEF OrganizingInv, Tidy

LEMMA OrganizingInvStays ==
  ASSUME OrganizingInv, UNCHANGED organizingVars PROVE OrganizingInv'
<1> USE DEF organizingVars, dbVars
<1>1. UNCHANGED <<records, origin, deleted, desks, given, work>>
  OBVIOUS
<1>2. /\ (Tidy(records) /\ Rows(origin))' <=> Tidy(records) /\ Rows(origin)
      /\ DesksTyped' <=> DesksTyped
      /\ DesksAreTimely' <=> DesksAreTimely
  BY <1>1 DEF DesksTyped, DesksAreTimely
<1>3. IdsAreNew' <=> IdsAreNew
  BY <1>1 DEF IdsAreNew
<1>4. BeforeWork' <=> BeforeWork
  BY <1>1 DEF BeforeWork, DeletesReachBelow
<1> QED
  BY <1>2, <1>3, <1>4 DEF OrganizingInv

THEOREM OrganizingInvariant == OrganizingSpec => []OrganizingInv
<1>1. OrganizingInit => OrganizingInv
  BY InitInv
<1>2. OrganizingInv /\ [OrganizingNext]_organizingVars => OrganizingInv'
  BY HandlersInv, DeletesInv, OrganizingInvStays DEF OrganizingNext
<1> QED
  BY <1>1, <1>2, PTL DEF OrganizingSpec

\* A row a column points at is the one The finds.
LEMMA PointedAt ==
  ASSUME OrganizingInv, NEW row \in records, NEW c, NEW to \in Named, Points(row, c, to),
         row.table # "imapFolder"
  PROVE  /\ The(to, row[c]) \in records
         /\ The(to, row[c]).table = to /\ The(to, row[c]).id = row[c]
<1>1. IsRow(row) /\ RefersIn(row, records)
  BY ThoseThere
<1>2. c \in DOMAIN Refs(row) /\ Refs(row)[c].to = to /\ row[c] # Null
  BY <1>1 DEF IsRow, Points, Cascade
<1>3. There(to, row[c])
  BY <1>1, <1>2 DEF RefersIn, There
<1> QED
  BY <1>3, TheOfThere

LEMMA LabelsHome == ASSUME OrganizingInv PROVE LabelsStayHome
<1> SUFFICES ASSUME NEW row \in records, row.table = "messageLabel"
    PROVE The("label", row.labelId).mailboxId = The("message", row.messageId).mailboxId
  BY DEF LabelsStayHome, Of
<1>1. /\ The("label", row.labelId) \in records
      /\ The("label", row.labelId).table = "label" /\ The("label", row.labelId).id = row.labelId
  BY PointedAt, ColumnsOf DEF Named
<1>2. /\ The("message", row.messageId) \in records
      /\ The("message", row.messageId).table = "message"
      /\ The("message", row.messageId).id = row.messageId
  BY PointedAt, ColumnsOf DEF Named
<1>3. LabelFits(row, records)
  BY DEF OrganizingInv, Tidy, FitsIn
<1> QED
  BY <1>1, <1>2, <1>3 DEF LabelFits

LEMMA LabelsReadable == ASSUME OrganizingInv PROVE LabelsShownAreReadable
<1> SUFFICES ASSUME NEW user \in Of("user"), NEW row \in LabelsByMessages(user.id)
    PROVE "read" \in Perms(user.id, The("thread", The("message", row.messageId).threadId).mailboxId)
  BY DEF LabelsShownAreReadable, LabelsByThreads
<1> DEFINE msg == The("message", row.messageId)
           th == The("thread", msg.threadId)
<1>1. /\ row \in records /\ row.table = "messageLabel"
      /\ "read" \in Perms(user.id, The("label", row.labelId).mailboxId)
  BY DEF LabelsByMessages, Of
<1>2. The("label", row.labelId).mailboxId = msg.mailboxId
  BY <1>1, LabelsHome DEF LabelsStayHome, Of
<1>3. msg \in records /\ msg.table = "message"
  BY <1>1, PointedAt, ColumnsOf DEF Named
<1> HIDE DEF msg
<1>4. th \in records /\ th.table = "thread" /\ th.id = msg.threadId
  BY <1>3, PointedAt, ColumnsOf DEF Named
<1> HIDE DEF th
<1>5. th.mailboxId = msg.mailboxId
  BY <1>3, <1>4 DEF OrganizingInv, Tidy, Together
<1> QED
  BY <1>1, <1>2, <1>5 DEF th, msg

LEMMA FilingPersonal == ASSUME OrganizingInv PROVE FilingIsPersonal
<1> SUFFICES ASSUME NEW row \in records, row.table = "threadFolder"
    PROVE /\ The("folder", row.folderId).userId = row.userId
          /\ \A other \in Of("threadFolder") : Collide(row, other) => row = other
  BY DEF FilingIsPersonal, Of
<1>1. /\ The("folder", row.folderId) \in records
      /\ The("folder", row.folderId).table = "folder" /\ The("folder", row.folderId).id = row.folderId
  BY PointedAt, ColumnsOf DEF Named
<1>2. FolderFits(row, records)
  BY DEF OrganizingInv, Tidy, FitsIn
<1>3. The("folder", row.folderId).userId = row.userId
  BY <1>1, <1>2 DEF FolderFits
<1>4. \A other \in Of("threadFolder") : Collide(row, other) => row = other
  BY OneFolderForAThread DEF OrganizingInv, Tidy, Alone, Of
<1> QED
  BY <1>3, <1>4

LEMMA CountsMatch == ASSUME OrganizingInv PROVE CountsMatchLists
<1> SUFFICES ASSUME NEW u, NEW f
    PROVE FolderTotal(u, f) = Cardinality(FolderThreads(u, f))
  BY DEF CountsMatchLists
<1> DEFINE tallied == {row \in {x \in Of("threadFolder") : x.userId = u} :
             \E th \in Of("thread") : /\ th.id = row.threadId /\ th.mailboxId \in Accessible(u)
                                      /\ ~th.hidden /\ row.folderId = f}
<1>1. ASSUME NEW row \in Of("threadFolder") PROVE row \in tallied <=> row \in FolderThreads(u, f)
  <2> DEFINE th == The("thread", row.threadId)
  <2>1. row \in records /\ row.table = "threadFolder"
    BY DEF Of
  <2>2. th \in Of("thread") /\ th.id = row.threadId
    BY <2>1, PointedAt, ColumnsOf DEF Named, Of
  <2>3. \A other \in Of("thread") : other.id = row.threadId => other = th
    BY <2>2 DEF OrganizingInv, Tidy, Unique, Named, Of
  <2> HIDE DEF th
  <2>4. row \in FolderThreads(u, f) <=>
          row.folderId = f /\ row.userId = u /\ th.mailboxId \in Accessible(u) /\ ~th.hidden
    BY DEF FolderThreads, th
  <2> QED
    BY <2>2, <2>3, <2>4
<1>2. tallied = FolderThreads(u, f)
  BY <1>1 DEF FolderThreads
<1>3. FolderTotal(u, f) = Cardinality(tallied)
  BY DEF FolderTotal
<1> QED
  BY <1>2, <1>3

LEMMA ClonesOnlyFit == ASSUME OrganizingInv PROVE ClonesFit
  BY DEF OrganizingInv, Tidy, FitsIn, RuleFits, ClonesFit, Of

LEMMA InvHolds == ASSUME OrganizingInv PROVE RecordsHold
<1>1. NothingDangles
  BY RefersIsRefersIn DEF OrganizingInv, Tidy, Whole, NothingDangles
<1>2. work = 0 => DeletesReachBelow
  BY DEF OrganizingInv, BeforeWork
<1> QED
  BY <1>1, <1>2, LabelsHome, LabelsReadable, FilingPersonal, CountsMatch, ClonesOnlyFit
  DEF RecordsHold, OrganizedApart

\* Whatever the tables held at first and whichever handlers overlap: no row refers to one that is
\* gone, deletes take what hangs below and nothing else, labels stay in their mailbox and filing
\* with its user, and a copied rule applies no label of the mailbox it came from.
THEOREM RecordsAlwaysHold == OrganizingSpec => []RecordsHold
<1>1. OrganizingInv => RecordsHold
  BY InvHolds
<1> QED
  BY <1>1, OrganizingInvariant, PTL
=============================================================================
