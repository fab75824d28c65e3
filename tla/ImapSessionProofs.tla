-------------------------- MODULE ImapSessionProofs --------------------------
(***************************************************************************)
(* Proofs about ImapSession, for any messages and any number of changes by *)
(* others.                                                                 *)
(***************************************************************************)
EXTENDS ImapSession, FiniteSetTheorems, FunctionTheorems, SequenceTheorems, TLAPS

----------------------------------------------------------------------------
(***************************************************************************)
(* The invariant.                                                          *)
(***************************************************************************)
\* UIDs are given once; a message without one has 0.
Given(u, n) ==
  /\ u \in [Messages -> Nat] /\ n \in Nat \ {0}
  /\ \A m \in Messages : u[m] < n
  /\ \A m, k \in Messages : u[m] = u[k] /\ u[m] # 0 => m = k

\* Entries as loaded: in the order of their UIDs, and what got a UID since then has a higher one.
Listing(es, u, n) ==
  /\ es \in Seq(Entry)
  /\ \A i \in 1..Len(es) : es[i].uid > 0 /\ es[i].uid < n
  /\ \A i, j \in 1..Len(es) : i < j => es[i].uid < es[j].uid
  /\ \A m \in Messages : u[m] # 0 => u[m] \in UidsOf(es) \/ \A i \in 1..Len(es) : es[i].uid < u[m]

\* What is new in an announcement comes after all there was, and what has been told to be
\* gone after what is still to be told.
Announcing ==
  /\ cmd # "announce" => leaving = {}
  /\ leaving \subseteq 1..Len(view)
  /\ cmd = "announce" =>
       /\ leaving \subseteq Departed(view, fresh)
       /\ \A i \in Departed(view, fresh) \ leaving, j \in leaving : j < i
       /\ \A j \in 1..Len(fresh) : fresh[j].uid \in UidsOf(view) \/ \A i \in 1..Len(view) : view[i].uid < fresh[j].uid

\* The rows of a view, and those of the folder.
RowsOf(es) == {<<es[i].uid, es[i].msg, es[i].del>> : i \in 1..Len(es)}
Contents == {<<uid[m], m, m \in flagged>> : m \in members}

\* Nothing is on its way that would wake the session, and nothing went by unheard.
Unaware == mailbox # "gone" /\ ~dirty /\ frames = {} /\ ~missed

UpToDate ==
  Unaware =>
    /\ cmd \in {"ready", "idle"} /\ selected => RowsOf(view) = Contents
    /\ cmd \in {"greet", "announce"} => RowsOf(fresh) = Contents

Shapes ==
  /\ members \subseteq Messages
  /\ flagged \subseteq Messages
  /\ mailbox \in {"live", "pending", "gone"}
  /\ cmd \in {"ready", "select", "greet", "load", "announce", "idle", "closed"}
  /\ then \in {"ready", "idle"}
  /\ selected \in BOOLEAN
  /\ readOnly \in BOOLEAN
  /\ client \in Seq(Known)
  /\ dirty \in BOOLEAN
  /\ expired \in BOOLEAN
  /\ frames \subseteq {"mailbox_changed", "mailbox_expired"}
  /\ missed \in BOOLEAN
  /\ changes \in 0..MaxChanges
  /\ ~selected => view = << >>
  /\ cmd \in {"load", "announce"} => selected

SessionInv ==
  /\ Shapes /\ Given(uid, uidNext) /\ Listing(view, uid, uidNext) /\ Listing(fresh, uid, uidNext)
  /\ Announcing /\ SequenceNumbersAgree /\ UpToDate

----------------------------------------------------------------------------
(***************************************************************************)
(* Ranks, and the sequences they sort.                                     *)
(***************************************************************************)
\* The rank of an element, the number of those below it, tells it from the others.
LEMMA Ranks ==
  ASSUME NEW S, IsFiniteSet(S), NEW f \in [S -> Nat],
         \A a, b \in S : f[a] = f[b] => a = b,
         NEW e \in S
  PROVE  /\ Cardinality({d \in S : f[d] < f[e]}) \in 0..Cardinality(S) - 1
         /\ \A b \in S : f[e] < f[b] =>
               Cardinality({d \in S : f[d] < f[e]}) < Cardinality({d \in S : f[d] < f[b]})
<1> DEFINE low(x) == {d \in S : f[d] < f[x]}
<1>1. Cardinality(S) \in Nat /\ \A x \in S : IsFiniteSet(low(x)) /\ Cardinality(low(x)) \in Nat
  BY FS_CardinalityType, FS_Subset
<1>2. ASSUME NEW b, NEW T \in SUBSET S, b \in T, low(e) \subseteq T \ {b}
      PROVE  Cardinality(low(e)) < Cardinality(T)
  <2>1. IsFiniteSet(T) /\ IsFiniteSet(T \ {b}) /\ Cardinality(T) \in Nat
    BY FS_Subset, FS_CardinalityType
  <2>2. Cardinality(T \ {b}) = Cardinality(T) - 1
    BY <1>2, <2>1, FS_RemoveElement
  <2>3. Cardinality(low(e)) <= Cardinality(T \ {b})
    BY <1>2, <2>1, FS_Subset
  <2>4. Cardinality(low(e)) \in Nat
    BY <1>1
  <2> HIDE DEF low
  <2> QED
    BY <2>1, <2>2, <2>3, <2>4
<1>3. Cardinality(low(e)) < Cardinality(S)
  <2>1. low(e) \subseteq S \ {e}
    OBVIOUS
  <2> QED
    BY <1>2, <2>1
<1>4. ASSUME NEW b \in S, f[e] < f[b] PROVE Cardinality(low(e)) < Cardinality(low(b))
  <2>1. e \in low(b) /\ low(b) \in SUBSET S
    BY <1>4
  <2>2. low(e) \subseteq low(b) \ {e}
    BY <1>4
  <2> QED
    BY <1>2, <2>1, <2>2
<1> QED
  BY <1>1, <1>3, <1>4

\* ByUid lists every entry once, by ascending UIDs.
LEMMA Sorted ==
  ASSUME NEW S \in SUBSET Entry, IsFiniteSet(S), \A a, b \in S : a.uid = b.uid => a = b
  PROVE  /\ ByUid(S) \in Seq(S) /\ Len(ByUid(S)) = Cardinality(S)
         /\ \A i, j \in 1..Len(ByUid(S)) : i < j => ByUid(S)[i].uid < ByUid(S)[j].uid
         /\ \A e \in S : \E i \in 1..Len(ByUid(S)) : ByUid(S)[i] = e
<1> DEFINE f == [e \in S |-> e.uid]
           N == Cardinality(S)
           r == [e \in S |-> Place(S, e) + 1]
<1>1. f \in [S -> Nat] /\ \A a, b \in S : f[a] = f[b] => a = b
  BY DEF Entry
<1>2. N \in Nat
  BY FS_CardinalityType
<1>3. ASSUME NEW e \in S
      PROVE  Place(S, e) \in 0..N - 1 /\ \A b \in S : e.uid < b.uid => Place(S, e) < Place(S, b)
  <2>1. \A b \in S : {d \in S : f[d] < f[b]} = {d \in S : d.uid < b.uid}
    OBVIOUS
  <2>2. \A b \in S : Place(S, b) = Cardinality({d \in S : f[d] < f[b]})
    BY <2>1 DEF Place
  <2>3. \A b \in S : e.uid < b.uid <=> f[e] < f[b]
    OBVIOUS
  <2> HIDE DEF f
  <2>4. /\ Cardinality({d \in S : f[d] < f[e]}) \in 0..Cardinality(S) - 1
        /\ \A b \in S : f[e] < f[b] =>
              Cardinality({d \in S : f[d] < f[e]}) < Cardinality({d \in S : f[d] < f[b]})
    BY <1>1, Ranks
  <2> QED
    BY <2>2, <2>3, <2>4
<1>4. r \in [S -> 1..N]
  BY <1>2, <1>3
<1>5. \A a, b \in S : r[a] = r[b] => a = b
  <2> SUFFICES ASSUME NEW a \in S, NEW b \in S, r[a] = r[b] PROVE a = b
    OBVIOUS
  <2>1. Place(S, a) = Place(S, b) /\ Place(S, a) \in Int /\ a.uid \in Nat /\ b.uid \in Nat
    BY <1>2, <1>3 DEF Entry
  <2>2. ~(a.uid < b.uid) /\ ~(b.uid < a.uid)
    BY <1>3, <2>1
  <2> QED
    BY <2>1, <2>2
<1>6. r \in Surjection(S, 1..N)
  <2>1. r \in Injection(S, 1..N)
    BY <1>4, <1>5, Fun_IsInj
  <2>2. IsFiniteSet(1..N) /\ Cardinality(1..N) = N
    BY <1>2, FS_Interval
  <2> QED
    BY <2>1, <2>2, FS_Injection
<1>7. \A i \in 1..N : \E e \in S : r[e] = i
  <2> HIDE DEF r, N
  <2> QED
    BY <1>6, Fun_SurjectionProperties
<1>8. ASSUME NEW i \in 1..N PROVE ByUid(S)[i] \in S /\ Place(S, ByUid(S)[i]) = i - 1
  <2>1. PICK e \in S : r[e] = i
    BY <1>7
  <2>2. Place(S, e) = i - 1
    BY <1>2, <1>3, <2>1
  <2> QED
    BY <2>2 DEF ByUid
<1>9. ByUid(S) \in Seq(S) /\ Len(ByUid(S)) = N
  BY <1>2, <1>8 DEF ByUid
<1>10. ASSUME NEW i \in 1..N, NEW j \in 1..N, i < j PROVE ByUid(S)[i].uid < ByUid(S)[j].uid
  <2> DEFINE a == ByUid(S)[i]
             b == ByUid(S)[j]
  <2>1. a \in S /\ b \in S /\ Place(S, a) = i - 1 /\ Place(S, b) = j - 1
    BY <1>8
  <2>2. a.uid \in Nat /\ b.uid \in Nat
    BY <2>1 DEF Entry
  <2> HIDE DEF a, b
  <2>3. a.uid # b.uid
    BY <1>2, <1>10, <2>1
  <2>4. ~(b.uid < a.uid)
    BY <1>2, <1>3, <1>10, <2>1
  <2> QED
    BY <2>2, <2>3, <2>4 DEF a, b
<1>11. ASSUME NEW e \in S PROVE ByUid(S)[r[e]] = e /\ r[e] \in 1..N
  <2> DEFINE b == ByUid(S)[r[e]]
  <2>1. b \in S /\ Place(S, b) = r[e] - 1 /\ r[e] \in 1..N
    BY <1>4, <1>8
  <2>2. r[b] = r[e]
    BY <1>2, <1>3, <2>1
  <2> QED
    BY <1>5, <2>1, <2>2
<1> QED
  BY <1>9, <1>10, <1>11

----------------------------------------------------------------------------
(***************************************************************************)
(* Loading.                                                                *)
(***************************************************************************)
\* Among the new messages ranks are numbers below their count, no two the same.
LEMMA NewRanks ==
  ASSUME members \subseteq Messages
  PROVE  /\ IsFiniteSet(New) /\ Cardinality(New) \in Nat
         /\ \A m \in New : Rank(m) \in 0..Cardinality(New) - 1
         /\ \A m, k \in New : Rank(m) = Rank(k) => m = k
<1> DEFINE f == [m \in New |-> m]
<1>1. New \subseteq Messages /\ New \subseteq Nat
  BY MessagesAssumption DEF New
<1>2. IsFiniteSet(New) /\ Cardinality(New) \in Nat
  BY <1>1, MessagesAssumption, FS_Subset, FS_CardinalityType
<1>3. f \in [New -> Nat] /\ \A a, b \in New : f[a] = f[b] => a = b
  BY <1>1
<1>4. \A m \in New : {k \in New : f[k] < f[m]} = {k \in New : k < m}
  OBVIOUS
<1>5. \A m \in New : Rank(m) = Cardinality({k \in New : f[k] < f[m]})
  BY <1>4 DEF Rank
<1>6. \A m, k \in New : f[m] < f[k] <=> m < k
  OBVIOUS
<1> HIDE DEF f
<1>7. ASSUME NEW m \in New
      PROVE  /\ Cardinality({k \in New : f[k] < f[m]}) \in 0..Cardinality(New) - 1
             /\ \A b \in New : f[m] < f[b] =>
                   Cardinality({k \in New : f[k] < f[m]}) < Cardinality({k \in New : f[k] < f[b]})
  BY <1>2, <1>3, Ranks
<1>8. \A m \in New : Rank(m) \in 0..Cardinality(New) - 1
  BY <1>5, <1>7
<1>9. ASSUME NEW m \in New, NEW b \in New, m < b PROVE Rank(m) < Rank(b)
  <2>1. f[m] < f[b]
    BY <1>6, <1>9
  <2>2. Cardinality({k \in New : f[k] < f[m]}) < Cardinality({k \in New : f[k] < f[b]})
    BY <1>7, <2>1
  <2> QED
    BY <1>5, <2>2
<1>10. \A m, k \in New : Rank(m) = Rank(k) => m = k
  <2> SUFFICES ASSUME NEW m \in New, NEW k \in New, Rank(m) = Rank(k) PROVE m = k
    OBVIOUS
  <2>1. Rank(m) \in Int /\ m \in Nat /\ k \in Nat
    BY <1>1, <1>2, <1>8
  <2> QED
    BY <1>9, <2>1
<1> QED
  BY <1>2, <1>8, <1>10

\* loadView leaves UIDs of members alone, takes away the others and gives new ones.
LEMMA Renumbered ==
  ASSUME Given(uid, uidNext), members \subseteq Messages, Renumbers
  PROVE  /\ Given(uid', uidNext') /\ uidNext <= uidNext'
         /\ \A m \in Messages : uid'[m] \in {0, uid[m]} \/ uidNext <= uid'[m]
         /\ \A m \in Messages : uid'[m] = 0 <=> m \notin members
         /\ \A m \in members : uid[m] # 0 => uid'[m] = uid[m]
<1>1. uid \in [Messages -> Nat] /\ uidNext \in Nat \ {0}
  BY DEF Given
<1>2. /\ Cardinality(New) \in Nat
      /\ \A m \in New : Rank(m) \in 0..Cardinality(New) - 1
      /\ \A m, k \in New : Rank(m) = Rank(k) => m = k
  BY NewRanks
<1>3. New = {m \in members : uid[m] = 0}
  BY DEF New
<1>4. uidNext' = uidNext + Cardinality(New) /\ DOMAIN uid' = Messages
  BY DEF Renumbers, Numbered
<1>5. ASSUME NEW m \in Messages
      PROVE  uid'[m] = IF m \notin members THEN 0 ELSE IF m \in New THEN uidNext + Rank(m) ELSE uid[m]
  BY DEF Renumbers, Numbered
<1>6. ASSUME NEW m \in Messages
      PROVE  /\ uid'[m] \in Nat /\ uid'[m] < uidNext'
             /\ m \in New => uid'[m] >= uidNext
             /\ m \notin New => uid'[m] \in {0, uid[m]}
             /\ uid'[m] = 0 <=> m \notin members
             /\ m \in members /\ uid[m] # 0 => uid'[m] = uid[m]
  <2>1. CASE m \in New
    BY <2>1, <1>1, <1>2, <1>3, <1>4, <1>5
  <2>2. CASE m \notin New
    BY <2>2, <1>1, <1>2, <1>3, <1>4, <1>5 DEF Given
  <2> QED
    BY <2>1, <2>2
<1>7. ASSUME NEW m \in Messages, NEW k \in Messages, uid'[m] = uid'[k], uid'[m] # 0 PROVE m = k
  <2>1. CASE m \in New /\ k \in New
    BY <2>1, <1>1, <1>2, <1>3, <1>5, <1>7
  <2>2. CASE m \notin New /\ k \notin New
    <3>1. uid'[m] = uid[m] /\ uid'[k] = uid[k]
      BY <2>2, <1>5, <1>7
    <3> QED
      BY <3>1, <1>7 DEF Given
  <2>3. CASE ~(m \in New <=> k \in New)
    BY <2>3, <1>1, <1>6, <1>7 DEF Given
  <2> QED
    BY <2>1, <2>2, <2>3
<1>8. uid' \in [Messages -> Nat]
  BY <1>6, <1>4 DEF Renumbers, Numbered
<1> QED
  BY <1>1, <1>2, <1>3, <1>4, <1>6, <1>7, <1>8 DEF Given

\* What was loaded stays a listing while UIDs are given and taken away.
LEMMA ListingStays ==
  ASSUME NEW es, NEW u, NEW n, NEW v, NEW k,
         Listing(es, u, n), Given(u, n), Given(v, k), n <= k,
         \A m \in Messages : v[m] \in {0, u[m]} \/ n <= v[m]
  PROVE  Listing(es, v, k)
<1>1. \A i \in 1..Len(es) : es[i].uid \in Nat /\ es[i].uid < n
  <2>1. \A i \in 1..Len(es) : es[i] \in Entry
    BY DEF Listing
  <2> QED
    BY <2>1 DEF Listing, Entry
<1>2. n \in Nat /\ k \in Nat /\ \A m \in Messages : v[m] \in Nat
  BY DEF Given
<1>3. ASSUME NEW m \in Messages, v[m] # 0
      PROVE  v[m] \in UidsOf(es) \/ \A i \in 1..Len(es) : es[i].uid < v[m]
  <2>1. CASE v[m] = u[m]
    BY <2>1, <1>3 DEF Listing
  <2>2. CASE n <= v[m]
    BY <2>2, <1>1, <1>2
  <2> QED
    BY <2>1, <2>2, <1>3
<1> QED
  BY <1>1, <1>2, <1>3 DEF Listing

\* What loadView returns.
LEMMA Loaded ==
  ASSUME Given(uid, uidNext), members \subseteq Messages, Loads
  PROVE  /\ Listing(fresh', uid', uidNext')
         /\ RowsOf(fresh') = {<<uid'[m], m, m \in flagged>> : m \in members}
         /\ \A i \in 1..Len(fresh') : fresh'[i].msg \in members /\ fresh'[i].uid = uid'[fresh'[i].msg]
<1> DEFINE row(m) == [uid |-> Numbered[m], msg |-> m, del |-> m \in flagged]
           S == {row(m) : m \in members}
           es == ByUid(S)
<1>1. uid' = Numbered /\ Renumbers /\ fresh' = es
  BY DEF Loads, Renumbers
<1>2. /\ Given(uid', uidNext')
      /\ \A m \in Messages : uid'[m] = 0 <=> m \notin members
  BY <1>1, Renumbered
<1>3. \A m \in members : uid'[m] \in Nat \ {0} /\ uid'[m] < uidNext'
  BY <1>2 DEF Given
<1>4. S \in SUBSET Entry
  <2> SUFFICES ASSUME NEW m \in members PROVE row(m) \in Entry
    OBVIOUS
  <2>1. Numbered[m] \in Nat /\ m \in Messages /\ (m \in flagged) \in BOOLEAN
    BY <1>1, <1>3
  <2> QED
    BY <2>1 DEF Entry
<1>5. IsFiniteSet(S)
  <2>1. IsFiniteSet(members)
    BY MessagesAssumption, FS_Subset
  <2> DEFINE g == [m \in members |-> row(m)]
  <2>2. g \in Surjection(members, S)
    <3>1. g \in [members -> S] /\ \A t \in S : \E m \in members : g[m] = t
      OBVIOUS
    <3> QED
      BY <3>1, Fun_IsSurj
  <2> QED
    BY <2>1, <2>2, FS_Surjection
<1>6. \A a, b \in S : a.uid = b.uid => a = b
  <2> SUFFICES ASSUME NEW m \in members, NEW k \in members, uid'[m] = uid'[k] PROVE m = k
    BY <1>1
  <2> QED
    BY <1>3, <1>2 DEF Given
<1>7. /\ es \in Seq(S)
      /\ \A i, j \in 1..Len(es) : i < j => es[i].uid < es[j].uid
      /\ \A e \in S : \E i \in 1..Len(es) : es[i] = e
  <2> HIDE DEF S
  <2> QED
    BY <1>4, <1>5, <1>6, Sorted
<1>8. ASSUME NEW i \in 1..Len(es)
      PROVE  \E m \in members : es[i] = row(m)
  <2>1. es[i] \in S
    <3> HIDE DEF S, es
    <3> QED
      BY <1>7
  <2> QED
    BY <2>1
<1> HIDE DEF es
<1>9. \A m \in members : \E i \in 1..Len(es) : es[i] = row(m)
  BY <1>7
<1>10. \A i \in 1..Len(es) : /\ es[i] \in Entry /\ es[i].msg \in members
                             /\ es[i].uid = uid'[es[i].msg] /\ es[i].del = (es[i].msg \in flagged)
  <2> TAKE i \in 1..Len(es)
  <2>1. PICK m \in members : es[i] = row(m)
    BY <1>8
  <2> QED
    BY <2>1, <1>1, <1>3 DEF Entry
<1>11. Listing(es, uid', uidNext')
  <2>1. es \in Seq(Entry)
    <3> HIDE DEF S
    <3> QED
      BY <1>4, <1>7
  <2>2. ASSUME NEW m \in Messages, uid'[m] # 0 PROVE uid'[m] \in UidsOf(es)
    <3>1. PICK i \in 1..Len(es) : es[i] = row(m)
      BY <2>2, <1>2, <1>9
    <3>2. es[i].uid = uid'[m]
      BY <3>1, <1>1
    <3> QED
      BY <3>2 DEF UidsOf
  <2> QED
    BY <2>1, <2>2, <1>3, <1>7, <1>10 DEF Listing
<1>12. RowsOf(es) = {<<uid'[m], m, m \in flagged>> : m \in members}
  <2> DEFINE shown(m) == <<uid'[m], m, m \in flagged>>
  <2>1. ASSUME NEW i \in 1..Len(es)
        PROVE  <<es[i].uid, es[i].msg, es[i].del>> = shown(es[i].msg) /\ es[i].msg \in members
    BY <1>10
  <2>2. ASSUME NEW m \in members
        PROVE  \E i \in 1..Len(es) : es[i].msg = m
    <3>1. PICK i \in 1..Len(es) : es[i] = row(m)
      BY <1>9
    <3>2. es[i].msg = m
      BY <3>1
    <3> QED
      BY <3>2
  <2> HIDE DEF shown
  <2>3. RowsOf(es) \subseteq {shown(m) : m \in members}
    BY <2>1 DEF RowsOf
  <2>4. {shown(m) : m \in members} \subseteq RowsOf(es)
    BY <2>1, <2>2 DEF RowsOf
  <2>5. RowsOf(es) = {shown(m) : m \in members}
    BY <2>3, <2>4
  <2> QED
    BY <2>5 DEF shown
<1> QED
  BY <1>1, <1>10, <1>11, <1>12

----------------------------------------------------------------------------
(***************************************************************************)
(* Announcing.                                                             *)
(***************************************************************************)
\* What the client holds at a position fits an entry.
Matches(k, e) == k.uid \in {0, e.uid} /\ k.del \in {"?", Told(e).del}

\* The number of an entry once those of gone were expunged.
Shown(i, gone) == i - Cardinality({k \in gone : k < i})

AgreeOn(list, es, gone) ==
  /\ Len(list) = Len(es) - Cardinality(gone)
  /\ \A i \in (1..Len(es)) \ gone : Matches(list[Shown(i, gone)], es[i])

LEMMA AgreeAll ==
  /\ SequenceNumbersAgree <=> AgreeOn(client, view, Gone)
  /\ SequenceNumbersAgree' <=> AgreeOn(client', view', Gone')
<1>1. SequenceNumbersAgree <=> AgreeOn(client, view, Gone)
  BY DEF SequenceNumbersAgree, AgreeOn, Matches, Shown, Position
<1>2. SequenceNumbersAgree' <=> AgreeOn(client', view', Gone')
  BY DEF SequenceNumbersAgree, AgreeOn, Matches, Shown, Position
<1> QED
  BY <1>1, <1>2

LEMMA NothingGone == Cardinality({}) = 0 /\ \A i \in Int : Shown(i, {}) = i
<1>1. \A i : {k \in {} : k < i} = {}
  OBVIOUS
<1>2. Cardinality({}) = 0
  BY FS_EmptySet
<1> QED
  BY <1>1, <1>2 DEF Shown

LEMMA NothingBelow ==
  ASSUME NEW gone, NEW p, \A k \in gone : ~(k < p)
  PROVE  Cardinality({k \in gone : k < p}) = 0
<1>1. {k \in gone : k < p} = {}
  OBVIOUS
<1> QED
  BY <1>1, NothingGone, Zenon

LEMMA FinitePart ==
  ASSUME NEW n \in Nat, NEW gone \in SUBSET (1..n)
  PROVE  IsFiniteSet(gone) /\ Cardinality(gone) \in 0..n
<1>1. IsFiniteSet(1..n) /\ Cardinality(1..n) = n
  <2>1. 1 \in Int /\ n \in Int
    OBVIOUS
  <2> QED
    BY <2>1, FS_Interval
<1>2. IsFiniteSet(gone) /\ Cardinality(gone) <= n
  BY <1>1, FS_Subset
<1> QED
  BY <1>2, FS_CardinalityType

\* Of n entries those that are left are numbered from 1 on.
LEMMA ShownBounds ==
  ASSUME NEW n \in Nat, NEW gone \in SUBSET (1..n), NEW p \in (1..n) \ gone
  PROVE  /\ Cardinality({k \in gone : k < p}) \in Nat
         /\ Shown(p, gone) \in 1..n - Cardinality(gone)
<1> DEFINE low == {k \in gone : k < p}
           high == {k \in gone : p < k}
           below == 1..p - 1
           above == p + 1..n
<1>0. p \in Nat /\ p >= 1 /\ p <= n /\ p \notin gone /\ \A k \in gone : k \in Nat /\ 1 <= k /\ k <= n
  OBVIOUS
<1>1. /\ IsFiniteSet(below) /\ Cardinality(below) = p - 1
      /\ IsFiniteSet(above) /\ Cardinality(above) = n - p
  <2>1. \A a, b \in Int : IsFiniteSet(a..b) /\ Cardinality(a..b) = IF a > b THEN 0 ELSE b - a + 1
    BY FS_Interval
  <2>2. p - 1 \in Int /\ p + 1 \in Int /\ n \in Int /\ 1 \in Int
    BY <1>0
  <2>3. IsFiniteSet(below) /\ Cardinality(below) = IF 1 > p - 1 THEN 0 ELSE p - 1 - 1 + 1
    BY <2>1, <2>2
  <2>4. IsFiniteSet(above) /\ Cardinality(above) = IF p + 1 > n THEN 0 ELSE n - (p + 1) + 1
    BY <2>1, <2>2
  <2> HIDE DEF below, above
  <2> QED
    BY <1>0, <2>3, <2>4
<1>2. /\ \A k \in low : k \in below /\ k \notin high
      /\ \A k \in high : k \in above
  BY <1>0
<1>3. \A k : k \in low \/ k \in high <=> k \in gone
  <2>1. ASSUME NEW k \in gone PROVE k < p \/ p < k
    <3>1. k \in Nat /\ k # p
      BY <1>0
    <3> QED
      BY <1>0, <3>1
  <2> QED
    BY <2>1
<1> HIDE DEF low, high, below, above
<1>4. /\ IsFiniteSet(low) /\ Cardinality(low) <= p - 1
      /\ IsFiniteSet(high) /\ Cardinality(high) <= n - p
  <2>1. low \subseteq below /\ high \subseteq above
    BY <1>2
  <2> QED
    BY <1>1, <2>1, FS_Subset
<1>5. Cardinality(low) \in Nat /\ Cardinality(high) \in Nat /\ Cardinality(gone) \in Nat
  BY <1>4, FinitePart, FS_CardinalityType
<1>6. Cardinality(gone) = Cardinality(low) + Cardinality(high)
  <2>1. Cardinality(low \cup high) = Cardinality(low) + Cardinality(high) - Cardinality(low \cap high)
    BY <1>4, FS_Union
  <2>2. low \cap high = {} /\ low \cup high = gone
    BY <1>2, <1>3
  <2>3. Cardinality(low \cap high) = 0 /\ Cardinality(low \cup high) = Cardinality(gone)
    BY <2>2, NothingGone, Zenon
  <2> QED
    BY <2>1, <2>3, <1>5
<1> QED
  BY <1>0, <1>4, <1>5, <1>6 DEF Shown, low

LEMMA Removed ==
  ASSUME NEW T, NEW s \in Seq(T), NEW i \in 1..Len(s)
  PROVE  /\ RemoveAt(s, i) \in Seq(T) /\ Len(RemoveAt(s, i)) = Len(s) - 1
         /\ \A j \in 1..Len(s) - 1 : RemoveAt(s, i)[j] = IF j < i THEN s[j] ELSE s[j + 1]
<1> DEFINE a == SubSeq(s, 1, i - 1)
           b == SubSeq(s, i + 1, Len(s))
<1>1. Len(s) \in Nat /\ i \in Nat /\ 1 <= i /\ i <= Len(s) /\ \A j \in 1..Len(s) : s[j] \in T
  OBVIOUS
<1>2. a \in Seq(T) /\ Len(a) = i - 1 /\ \A j \in 1..i - 1 : a[j] = s[j]
  <2>1. 1 \in Int /\ i - 1 \in Int /\ \A j \in 1..i - 1 : s[j] \in T
    BY <1>1
  <2>2. /\ a \in Seq(T) /\ Len(a) = IF 1 <= i - 1 THEN i - 1 - 1 + 1 ELSE 0
        /\ \A j \in 1..i - 1 - 1 + 1 : a[j] = s[1 + j - 1]
    BY <2>1, SubSeqProperties
  <2> HIDE DEF a
  <2> QED
    BY <1>1, <2>2
<1>3. b \in Seq(T) /\ Len(b) = Len(s) - i /\ \A j \in 1..Len(s) - i : b[j] = s[i + j]
  <2>1. i + 1 \in Int /\ Len(s) \in Int /\ \A j \in i + 1..Len(s) : s[j] \in T
    BY <1>1
  <2>2. /\ b \in Seq(T) /\ Len(b) = IF i + 1 <= Len(s) THEN Len(s) - (i + 1) + 1 ELSE 0
        /\ \A j \in 1..Len(s) - (i + 1) + 1 : b[j] = s[i + 1 + j - 1]
    BY <2>1, SubSeqProperties
  <2> HIDE DEF b
  <2> QED
    BY <1>1, <2>2
<1>4. RemoveAt(s, i) = a \o b
  BY DEF RemoveAt
<1> HIDE DEF a, b
<1>5. /\ a \o b \in Seq(T) /\ Len(a \o b) = Len(a) + Len(b)
      /\ \A j \in 1..Len(a) + Len(b) : (a \o b)[j] = IF j <= Len(a) THEN a[j] ELSE b[j - Len(a)]
  BY <1>2, <1>3, ConcatProperties
<1>6. ASSUME NEW j \in 1..Len(s) - 1 PROVE (a \o b)[j] = IF j < i THEN s[j] ELSE s[j + 1]
  <2>0. Len(a) = i - 1 /\ Len(b) = Len(s) - i /\ j \in 1..Len(a) + Len(b) /\ j \in Nat
    BY <1>1, <1>2, <1>3
  <2>a. (a \o b)[j] = IF j <= Len(a) THEN a[j] ELSE b[j - Len(a)]
    BY <1>5, <2>0
  <2>1. (a \o b)[j] = IF j <= i - 1 THEN a[j] ELSE b[j - (i - 1)]
    BY <2>0, <2>a
  <2>2. CASE j < i
    BY <1>1, <1>2, <2>1, <2>2
  <2>3. CASE i <= j
    <3>1. j - (i - 1) \in 1..Len(s) - i /\ i + (j - (i - 1)) = j + 1
      BY <1>1, <2>3
    <3> QED
      BY <1>1, <1>3, <2>1, <2>3, <3>1, SMTT(30)
  <2> QED
    BY <1>1, <2>0, <2>2, <2>3
<1> QED
  BY <1>1, <1>2, <1>3, <1>4, <1>5, <1>6

\* An EXPUNGE before all that were sent already.
LEMMA ExpungeAgrees ==
  ASSUME NEW es \in Seq(Entry), NEW list \in Seq(Known), NEW gone \in SUBSET (1..Len(es)),
         AgreeOn(list, es, gone),
         NEW i \in (1..Len(es)) \ gone, \A k \in gone : i < k
  PROVE  /\ RemoveAt(list, i) \in Seq(Known)
         /\ AgreeOn(RemoveAt(list, i), es, gone \cup {i})
<1> DEFINE n == Len(es)
           more == gone \cup {i}
<1>1. n \in Nat /\ Len(list) \in Nat /\ Len(list) = n - Cardinality(gone) /\ i \in 1..n /\ i \notin gone
  BY DEF AgreeOn
<1>2. IsFiniteSet(gone) /\ Cardinality(gone) \in Nat
  BY <1>1, FinitePart
<1>3. Cardinality(more) = Cardinality(gone) + 1 /\ more \subseteq 1..n
  BY <1>1, <1>2, FS_AddElement
<1>4. ASSUME NEW p \in 1..n, p <= i PROVE Shown(p, gone) = p /\ Shown(p, more) = p
  <2>0. p \in Nat /\ i \in Nat /\ \A k \in gone : k \in Nat /\ i < k
    BY <1>1
  <2>1. (\A k \in gone : ~(k < p)) /\ \A k \in more : ~(k < p)
    BY <2>0, <1>4
  <2> HIDE DEF more
  <2>2. Cardinality({k \in gone : k < p}) = 0 /\ Cardinality({k \in more : k < p}) = 0
    BY <2>1, NothingBelow
  <2> QED
    BY <2>0, <2>2 DEF Shown
<1>5. i \in 1..Len(list)
  <2>1. Shown(i, gone) \in 1..n - Cardinality(gone)
    BY <1>1, ShownBounds
  <2>2. Shown(i, gone) = i
    BY <1>1, <1>4
  <2> QED
    BY <1>1, <2>1, <2>2
<1>6. ASSUME NEW p \in (1..n) \ gone, i < p
      PROVE  /\ Shown(p, more) = Shown(p, gone) - 1
             /\ Shown(p, gone) \in i + 1..Len(list)
  <2> DEFINE low == {k \in gone : k < p}
             between == i + 1..p - 1
  <2>0. p \in Nat /\ i \in Nat /\ i < p /\ \A k \in gone : k \in Nat /\ i < k
    BY <1>1, <1>6
  <2>1. (\A k \in low : k \in between) /\ i \notin low
    BY <2>0
  <2>2. {k \in more : k < p} = low \cup {i}
    BY <2>0
  <2>3. IsFiniteSet(between) /\ Cardinality(between) = p - 1 - i
    <3>1. \A a, b \in Int : IsFiniteSet(a..b) /\ Cardinality(a..b) = IF a > b THEN 0 ELSE b - a + 1
      BY FS_Interval
    <3>2. i + 1 \in Int /\ p - 1 \in Int
      BY <2>0
    <3>3. IsFiniteSet(between) /\ Cardinality(between) = IF i + 1 > p - 1 THEN 0 ELSE p - 1 - (i + 1) + 1
      BY <3>1, <3>2
    <3> HIDE DEF between
    <3> QED
      BY <2>0, <3>3
  <2>4. Shown(p, gone) = p - Cardinality(low) /\ Shown(p, more) = p - Cardinality(low \cup {i})
    BY <2>2 DEF Shown
  <2> HIDE DEF low, between
  <2>5. IsFiniteSet(low) /\ Cardinality(low) \in Nat /\ Cardinality(low) <= p - 1 - i
    <3>1. low \subseteq between
      BY <2>1
    <3> QED
      BY <3>1, <2>3, FS_Subset, FS_CardinalityType
  <2>6. Cardinality(low \cup {i}) = Cardinality(low) + 1
    BY <2>1, <2>5, FS_AddElement
  <2>7. Shown(p, gone) \in 1..n - Cardinality(gone)
    BY <1>1, ShownBounds
  <2> QED
    BY <1>1, <2>0, <2>4, <2>5, <2>6, <2>7
<1>7. /\ RemoveAt(list, i) \in Seq(Known) /\ Len(RemoveAt(list, i)) = Len(list) - 1
      /\ \A j \in 1..Len(list) - 1 : RemoveAt(list, i)[j] = IF j < i THEN list[j] ELSE list[j + 1]
  BY <1>5, Removed
<1>8. ASSUME NEW p \in (1..n) \ more
      PROVE  Matches(RemoveAt(list, i)[Shown(p, more)], es[p])
  <2>0. p \in Nat /\ p \in 1..n /\ p \notin gone /\ p # i
    OBVIOUS
  <2>1. Matches(list[Shown(p, gone)], es[p])
    BY <2>0 DEF AgreeOn
  <2>2. CASE p < i
    <3>1. Shown(p, gone) = p /\ Shown(p, more) = p
      <4>1. p <= i
        BY <1>1, <2>0, <2>2
      <4> HIDE DEF more
      <4> QED
        BY <1>4, <2>0, <4>1
    <3>2. RemoveAt(list, i)[p] = list[p]
      BY <1>1, <1>5, <1>7, <2>0, <2>2
    <3> QED
      BY <2>1, <3>1, <3>2
  <2>3. CASE i < p
    <3> DEFINE q == Shown(p, gone)
    <3>1. Shown(p, more) = q - 1 /\ q \in i + 1..Len(list)
      BY <1>6, <2>0, <2>3
    <3> HIDE DEF q
    <3>2. RemoveAt(list, i)[q - 1] = list[q]
      BY <1>1, <1>5, <1>7, <3>1
    <3> QED
      BY <2>1, <3>1, <3>2 DEF q
  <2> QED
    BY <1>1, <2>0, <2>2, <2>3
<1>9. Len(RemoveAt(list, i)) = Len(es) - Cardinality(more)
  BY <1>1, <1>2, <1>3, <1>7
<1> QED
  BY <1>7, <1>8, <1>9 DEF AgreeOn

LEMMA Parts ==
  ASSUME NEW S, NEW A, NEW B, IsFiniteSet(S), A \cup B = S, A \cap B = {}
  PROVE  /\ IsFiniteSet(A) /\ IsFiniteSet(B)
         /\ Cardinality(A) \in Nat /\ Cardinality(B) \in Nat
         /\ Cardinality(S) = Cardinality(A) + Cardinality(B)
<1>1. A \in SUBSET S /\ B \in SUBSET S
  OBVIOUS
<1>2. IsFiniteSet(A) /\ IsFiniteSet(B) /\ Cardinality(A) \in Nat /\ Cardinality(B) \in Nat
  BY <1>1, FS_Subset, FS_CardinalityType
<1>3. Cardinality(A \cup B) = Cardinality(A) + Cardinality(B) - Cardinality(A \cap B)
  BY <1>2, FS_Union
<1>4. Cardinality(A \cup B) = Cardinality(S) /\ Cardinality(A \cap B) = 0
  BY NothingGone, Zenon
<1> QED
  BY <1>2, <1>3, <1>4

LEMMA UpTo ==
  ASSUME NEW n \in Nat
  PROVE  IsFiniteSet(1..n) /\ Cardinality(1..n) = n
<1>1. 1 \in Int /\ n \in Int
  OBVIOUS
<1> QED
  BY <1>1, FS_Interval

\* The numbers of what is left, counted among what is left.
LEMMA Kept ==
  ASSUME NEW n \in Nat, NEW gone \in SUBSET (1..n)
  PROVE  LET kept == (1..n) \ gone
         IN /\ IsFiniteSet(kept) /\ Cardinality(kept) = n - Cardinality(gone)
            /\ \A p \in kept : Shown(p, gone) = Cardinality({k \in kept : k < p}) + 1
<1> DEFINE all == 1..n
           kept == all \ gone
<1>1. IsFiniteSet(all) /\ Cardinality(all) = n
  BY UpTo
<1>2. gone \cup kept = all /\ gone \cap kept = {}
  OBVIOUS
<1>3. IsFiniteSet(kept) /\ Cardinality(kept) = n - Cardinality(gone)
  <2> HIDE DEF kept, all
  <2>1. /\ IsFiniteSet(kept) /\ Cardinality(kept) \in Nat /\ Cardinality(gone) \in Nat
        /\ Cardinality(all) = Cardinality(gone) + Cardinality(kept)
    BY <1>1, <1>2, Parts
  <2> QED
    BY <1>1, <2>1
<1>4. ASSUME NEW p \in kept PROVE Shown(p, gone) = Cardinality({k \in kept : k < p}) + 1
  <2> DEFINE lost == {k \in gone : k < p}
             stay == {k \in kept : k < p}
             low == 1..p - 1
  <2>1. p \in Nat /\ 1 <= p /\ p <= n /\ \A k \in 1..n : k \in Nat /\ 1 <= k
    OBVIOUS
  <2>2. IsFiniteSet(low) /\ Cardinality(low) = p - 1
    <3>1. p - 1 \in Nat
      BY <2>1
    <3> QED
      BY <3>1, UpTo
  <2>3. \A k : k \in low <=> k \in 1..n /\ k < p
    BY <2>1
  <2>4. \A k : k \in 1..n <=> k \in gone \/ k \in kept
    OBVIOUS
  <2>5. lost \cup stay = low
    <3> HIDE DEF low
    <3> QED
      BY <2>3, <2>4
  <2>6. lost \cap stay = {}
    OBVIOUS
  <2>7. Shown(p, gone) = p - Cardinality(lost)
    BY DEF Shown
  <2> HIDE DEF lost, stay, low
  <2>8. /\ Cardinality(lost) \in Nat /\ Cardinality(stay) \in Nat
        /\ Cardinality(low) = Cardinality(lost) + Cardinality(stay)
    BY <2>2, <2>5, <2>6, Parts
  <2>9. Shown(p, gone) = Cardinality(stay) + 1
    BY <2>1, <2>2, <2>7, <2>8
  <2> QED
    BY <2>9 DEF stay
<1> QED
  BY <1>3, <1>4

OneToOne(f, S) == \A a, b \in S : f[a] = f[b] => a = b

\* No more than there are numbers for, and exactly as many if every number is taken.
LEMMA Injected ==
  ASSUME NEW S, NEW n \in Nat, NEW f \in [S -> 1..n], OneToOne(f, S)
  PROVE  /\ IsFiniteSet(S) /\ Cardinality(S) \in Nat /\ Cardinality(S) <= n
<1>1. f \in Injection(S, 1..n)
  BY Fun_IsInj DEF OneToOne
<1>2. IsFiniteSet(1..n) /\ Cardinality(1..n) = n
  BY UpTo
<1>3. IsFiniteSet(S) /\ Cardinality(S) <= Cardinality(1..n)
  BY <1>1, <1>2, FS_Injection
<1> QED
  BY <1>2, <1>3, FS_CardinalityType

Covers(f, S, n) == \A j \in 1..n : \E a \in S : f[a] = j

LEMMA Matched ==
  ASSUME NEW S, NEW n \in Nat, NEW f \in [S -> 1..n], OneToOne(f, S), Covers(f, S, n)
  PROVE  Cardinality(S) = n
<1>1. f \in Injection(S, 1..n)
  BY Fun_IsInj DEF OneToOne
<1>2. f \in Surjection(S, 1..n)
  BY Fun_IsSurj DEF Covers
<1>3. IsFiniteSet(1..n) /\ Cardinality(1..n) = n
  BY UpTo
<1>4. Cardinality(S) = Cardinality(1..n) <=> f \in Surjection(S, 1..n)
  BY <1>1, <1>3, FS_Injection
<1> QED
  BY <1>2, <1>3, <1>4

Ascending(es) == \A i, j \in 1..Len(es) : i < j => es[i].uid < es[j].uid

LEMMA AscendingOnce ==
  ASSUME NEW es \in Seq(Entry), Ascending(es)
  PROVE  /\ \A i \in 1..Len(es) : es[i] \in Entry /\ es[i].uid \in Nat
         /\ \A i, j \in 1..Len(es) : es[i].uid = es[j].uid => i = j
         /\ \A i, j \in 1..Len(es) : es[i].uid < es[j].uid => i < j
<1>1. \A i \in 1..Len(es) : es[i] \in Entry /\ es[i].uid \in Nat
  <2>1. \A i \in 1..Len(es) : es[i] \in Entry
    OBVIOUS
  <2> QED
    BY <2>1 DEF Entry
<1>2. ASSUME NEW i \in 1..Len(es), NEW j \in 1..Len(es)
      PROVE  (es[i].uid = es[j].uid => i = j) /\ (es[i].uid < es[j].uid => i < j)
  <2>1. i \in Nat /\ j \in Nat /\ es[i].uid \in Nat /\ es[j].uid \in Nat
    BY <1>1
  <2>2. (i < j => es[i].uid < es[j].uid) /\ (j < i => es[j].uid < es[i].uid)
    BY DEF Ascending
  <2> QED
    BY <2>1, <2>2
<1> QED
  BY <1>1, <1>2

\* What was there before comes first, in the order and with the numbers it had; what is new
\* comes after it.
LEMMA OldComesFirst ==
  ASSUME NEW old \in Seq(Entry), NEW new \in Seq(Entry), Ascending(old), Ascending(new),
         \A j \in 1..Len(new) : new[j].uid \in UidsOf(old) \/ \A i \in 1..Len(old) : old[i].uid < new[j].uid
  PROVE  LET gone == Departed(old, new)
             left == Len(old) - Cardinality(gone)
         IN /\ gone \in SUBSET (1..Len(old)) /\ left \in Nat /\ left <= Len(new)
            /\ \A j \in 1..Len(new) :
                  \/ new[j].uid \notin UidsOf(old) /\ left < j
                  \/ j <= left /\ \E p \in (1..Len(old)) \ gone : old[p].uid = new[j].uid /\ Shown(p, gone) = j
<1> DEFINE gone == Departed(old, new)
           n == Len(old)
           w == Len(new)
           kept == (1..n) \ gone
           left == n - Cardinality(gone)
           at == [p \in kept |-> CHOOSE j \in 1..w : new[j].uid = old[p].uid]
<1>1. n \in Nat /\ w \in Nat /\ gone \in SUBSET (1..n)
  BY DEF Departed
<1>2. /\ \A i \in 1..n : old[i].uid \in Nat
      /\ \A i, j \in 1..n : old[i].uid = old[j].uid => i = j
      /\ \A i, j \in 1..n : old[i].uid < old[j].uid => i < j
  BY AscendingOnce
<1>3. /\ \A i \in 1..w : new[i].uid \in Nat
      /\ \A i, j \in 1..w : new[i].uid = new[j].uid => i = j
      /\ \A i, j \in 1..w : new[i].uid < new[j].uid => i < j
  BY AscendingOnce
<1>4. ASSUME NEW p \in kept PROVE at[p] \in 1..w /\ new[at[p]].uid = old[p].uid
  <2>1. old[p].uid \in UidsOf(new)
    BY DEF Departed
  <2>2. \E j \in 1..w : new[j].uid = old[p].uid
    BY <2>1 DEF UidsOf
  <2> QED
    BY <2>2
<1>5. DOMAIN at = kept /\ kept \subseteq 1..n
  OBVIOUS
<1>6. left \in Nat /\ IsFiniteSet(kept) /\ Cardinality(kept) = left
      /\ \A p \in kept : Shown(p, gone) = Cardinality({k \in kept : k < p}) + 1
  <2> HIDE DEF gone
  <2>1. /\ IsFiniteSet(kept) /\ Cardinality(kept) = left
        /\ \A p \in kept : Shown(p, gone) = Cardinality({k \in kept : k < p}) + 1
    BY <1>1, Kept
  <2> HIDE DEF kept, left
  <2>2. left \in Nat
    BY <2>1, FS_CardinalityType
  <2> QED
    BY <2>1, <2>2
<1>7. at \in [kept -> 1..w]
  <2> HIDE DEF kept
  <2> QED
    BY <1>4
<1>8. OneToOne(at, kept)
  <2> HIDE DEF kept, at
  <2> QED
    BY <1>2, <1>4, <1>5 DEF OneToOne
<1> HIDE DEF kept, at, gone
<1>9. left <= w
  BY <1>1, <1>6, <1>7, <1>8, Injected
<1>10. ASSUME NEW j \in 1..w, new[j].uid \notin UidsOf(old) PROVE left < j
  <2>1. \A p \in kept : old[p].uid < new[j].uid
    BY <1>5, <1>10
  <2>2. \A p \in kept : at[p] \in 1..j - 1
    <3> SUFFICES ASSUME NEW p \in kept PROVE at[p] \in 1..j - 1
      OBVIOUS
    <3>1. at[p] \in 1..w /\ new[at[p]].uid < new[j].uid
      BY <1>4, <2>1
    <3>2. at[p] < j
      BY <1>3, <3>1
    <3> QED
      BY <3>1, <3>2
  <2>3. at \in [kept -> 1..j - 1] /\ j - 1 \in Nat
    BY <2>2, <1>7
  <2>4. Cardinality(kept) <= j - 1
    BY <2>3, <1>8, Injected
  <2> QED
    BY <2>4, <1>6
<1>11. ASSUME NEW j \in 1..w, new[j].uid \in UidsOf(old)
       PROVE  \E p \in kept : old[p].uid = new[j].uid /\ at[p] = j
  <2>1. PICK p \in 1..n : old[p].uid = new[j].uid
    BY <1>11 DEF UidsOf
  <2>2. p \in kept
    BY <2>1 DEF kept, gone, Departed, UidsOf
  <2>3. at[p] = j
    BY <2>1, <2>2, <1>3, <1>4
  <2> QED
    BY <2>1, <2>2, <2>3
<1>12. ASSUME NEW p \in kept PROVE Shown(p, gone) = at[p]
  <2> DEFINE low == {k \in kept : k < p}
             f == [k \in low |-> at[k]]
  <2>0. at[p] \in 1..w /\ new[at[p]].uid = old[p].uid /\ p \in 1..n
    BY <1>4, <1>5
  <2>1. ASSUME NEW k \in low PROVE f[k] = at[k] /\ at[k] \in 1..at[p] - 1
    <3>1. k \in kept /\ k < p /\ k \in 1..n
      BY <1>5
    <3>2. old[k].uid < old[p].uid
      BY <2>0, <3>1 DEF Ascending
    <3>3. at[k] \in 1..w /\ new[at[k]].uid < new[at[p]].uid
      BY <1>4, <2>0, <3>1, <3>2
    <3>4. at[k] < at[p]
      BY <1>3, <2>0, <3>3
    <3> QED
      BY <2>0, <3>3, <3>4
  <2>2. at[p] - 1 \in Nat /\ f \in [low -> 1..at[p] - 1]
    <3> HIDE DEF low
    <3> QED
      BY <2>0, <2>1
  <2>3. OneToOne(f, low)
    BY <1>8 DEF OneToOne
  <2>4. ASSUME NEW j \in 1..at[p] - 1 PROVE \E a \in low : f[a] = j
    <3>1. j \in 1..w /\ j < at[p]
      BY <1>1, <2>0
    <3>2. new[j].uid < old[p].uid
      BY <2>0, <3>1 DEF Ascending
    <3>3. new[j].uid \in UidsOf(old)
      BY <1>2, <1>3, <2>0, <3>1, <3>2
    <3>4. PICK k \in kept : old[k].uid = new[j].uid /\ at[k] = j
      BY <1>11, <3>1, <3>3
    <3>5. k < p
      BY <1>2, <1>5, <2>0, <3>2, <3>4
    <3> QED
      BY <3>4, <3>5
  <2>5. Cardinality(low) = at[p] - 1
    <3> DEFINE m == at[p] - 1
    <3>1. m \in Nat /\ f \in [low -> 1..m] /\ Covers(f, low, m)
      BY <2>2, <2>4 DEF Covers
    <3> HIDE DEF low, f, m
    <3>2. Cardinality(low) = m
      BY <2>3, <3>1, Matched
    <3> QED
      BY <3>2 DEF m
  <2>6. Shown(p, gone) = Cardinality(low) + 1
    BY <1>6
  <2> HIDE DEF low
  <2> QED
    BY <2>0, <2>5, <2>6
<1>13. ASSUME NEW j \in 1..w, new[j].uid \in UidsOf(old)
       PROVE  j <= left /\ \E p \in kept : old[p].uid = new[j].uid /\ Shown(p, gone) = j
  <2>1. PICK p \in kept : old[p].uid = new[j].uid /\ at[p] = j
    BY <1>11, <1>13
  <2>2. Shown(p, gone) = j
    BY <1>12, <2>1
  <2>3. Shown(p, gone) \in 1..n - Cardinality(gone)
    BY <1>1, ShownBounds DEF kept
  <2> QED
    BY <2>1, <2>2, <2>3
<1> QED
  BY <1>1, <1>6, <1>9, <1>10, <1>13 DEF kept, gone

\* After the announcement the client's list is the new view.
LEMMA AnnounceAgrees ==
  ASSUME NEW old \in Seq(Entry), NEW new \in Seq(Entry), NEW list \in Seq(Known),
         Ascending(old), Ascending(new),
         \A j \in 1..Len(new) : new[j].uid \in UidsOf(old) \/ \A i \in 1..Len(old) : old[i].uid < new[j].uid,
         AgreeOn(list, old, Departed(old, new))
  PROVE  Heard(list, old, new) \in Seq(Known) /\ AgreeOn(Heard(list, old, new), new, {})
<1> DEFINE gone == Departed(old, new)
           w == Len(new)
           left == Len(old) - Cardinality(gone)
           grown == IF Exists(old, new) THEN Grown(list, w) ELSE list
           heard == [i \in 1..Len(grown) |-> IF i \in Changed(old, new) THEN Told(new[i]) ELSE grown[i]]
<1>1. w \in Nat /\ Len(list) = left
  BY DEF AgreeOn
<1>2. /\ gone \in SUBSET (1..Len(old)) /\ left \in Nat /\ left <= w
      /\ \A j \in 1..w :
            \/ new[j].uid \notin UidsOf(old) /\ left < j
            \/ j <= left /\ \E p \in (1..Len(old)) \ gone : old[p].uid = new[j].uid /\ Shown(p, gone) = j
  BY OldComesFirst
<1>3. \A p \in (1..Len(old)) \ gone : Matches(list[Shown(p, gone)], old[p])
  BY DEF AgreeOn
<1>4. Unknown \in Known /\ \A j \in 1..w : Told(new[j]) \in Known /\ new[j] \in Entry
  <2>1. \A j \in 1..w : new[j] \in Entry
    OBVIOUS
  <2> QED
    BY <2>1 DEF Unknown, Known, Told, Entry
<1>5. /\ grown \in Seq(Known) /\ Len(grown) = w
      /\ \A j \in 1..w : grown[j] = IF j <= left THEN list[j] ELSE Unknown
  <2>1. CASE Exists(old, new)
    <3> DEFINE more == [i \in 1..w - left |-> Unknown]
    <3>1. more \in Seq(Known) /\ Len(more) = w - left /\ \A i \in 1..w - left : more[i] = Unknown
      <4>1. w - left \in Nat
        BY <1>1, <1>2
      <4> HIDE DEF w, left
      <4> QED
        BY <1>4, <4>1, SMTT(30)
    <3>2. grown = list \o more
      BY <1>1, <2>1 DEF Grown
    <3> HIDE DEF more, grown, left, w
    <3>3. /\ list \o more \in Seq(Known) /\ Len(list \o more) = Len(list) + Len(more)
          /\ \A j \in 1..Len(list) + Len(more) :
                (list \o more)[j] = IF j <= Len(list) THEN list[j] ELSE more[j - Len(list)]
      BY <3>1, ConcatProperties
    <3>4. Len(list) + Len(more) = w
      BY <1>1, <1>2, <3>1
    <3>5. ASSUME NEW j \in 1..w PROVE grown[j] = IF j <= left THEN list[j] ELSE Unknown
      <4>1. grown[j] = IF j <= left THEN list[j] ELSE more[j - left]
        BY <1>1, <3>2, <3>3, <3>4
      <4>2. ~(j <= left) => j - left \in 1..w - left
        BY <1>1, <1>2
      <4> QED
        BY <3>1, <4>1, <4>2
    <3> QED
      BY <3>2, <3>3, <3>4, <3>5
  <2>2. CASE ~Exists(old, new)
    <3>1. w = left /\ grown = list
      BY <2>2 DEF Exists
    <3> HIDE DEF grown, left, w
    <3> QED
      BY <1>1, <1>2, <3>1
  <2> QED
    BY <2>1, <2>2
<1>6. Heard(list, old, new) = heard
  BY DEF Heard
<1> HIDE DEF grown, left, gone
<1>7. /\ Len(heard) = w /\ heard \in Seq(Known)
      /\ \A j \in 1..w : heard[j] = IF j \in Changed(old, new) THEN Told(new[j]) ELSE grown[j]
  <2>1. \A j \in 1..w : grown[j] \in Known
    BY <1>5
  <2> QED
    BY <1>1, <1>4, <1>5, <2>1
<1> HIDE DEF heard
<1>8. ASSUME NEW j \in 1..w PROVE Matches(heard[j], new[j])
  <2>1. CASE j \in Changed(old, new)
    <3>1. heard[j] = Told(new[j])
      BY <2>1, <1>7
    <3>2. \A e : Matches(Told(e), e)
      BY DEF Matches, Told
    <3> QED
      BY <3>1, <3>2
  <2>2. CASE j \notin Changed(old, new) /\ left < j
    <3>1. heard[j] = grown[j]
      BY <2>2, <1>7
    <3>2. j \in Nat /\ ~(j <= left)
      BY <2>2, <1>1, <1>2
    <3>3. heard[j] = Unknown
      BY <3>1, <3>2, <1>5
    <3> QED
      BY <3>3 DEF Matches, Unknown
  <2>3. CASE j \notin Changed(old, new) /\ j <= left
    <3>1. PICK p \in (1..Len(old)) \ gone : old[p].uid = new[j].uid /\ Shown(p, gone) = j
      BY <2>3, <1>2
    <3>2. heard[j] = list[j] /\ Matches(list[j], old[p])
      BY <2>3, <3>1, <1>3, <1>5, <1>7
    <3>3. old[p].del = new[j].del
      BY <2>3, <3>1 DEF Changed
    <3> QED
      BY <3>1, <3>2, <3>3 DEF Matches, Told
  <2> QED
    BY <1>2, <2>1, <2>2, <2>3
<1>9. AgreeOn(heard, new, {})
  <2>1. Len(heard) = w - Cardinality({})
    BY <1>1, <1>7, NothingGone
  <2>2. ASSUME NEW j \in (1..w) \ {} PROVE Matches(heard[Shown(j, {})], new[j])
    <3>1. j \in 1..w /\ Shown(j, {}) = j
      BY NothingGone
    <3> QED
      BY <1>8, <3>1
  <2> QED
    BY <2>1, <2>2 DEF AgreeOn
<1> QED
  BY <1>6, <1>7, <1>9

----------------------------------------------------------------------------
(***************************************************************************)
(* The invariant holds initially, and every step preserves it.             *)
(***************************************************************************)
\* Outside an announcement nothing is gone.
LEMMA Quiet ==
  /\ cmd # "announce" => (SequenceNumbersAgree <=> AgreeOn(client, view, {}))
  /\ cmd' # "announce" => (SequenceNumbersAgree' <=> AgreeOn(client', view', {}))
<1>1. cmd # "announce" => Gone = {}
  BY DEF Gone
<1>2. cmd' # "announce" => Gone' = {}
  BY DEF Gone
<1>3. cmd # "announce" => (AgreeOn(client, view, Gone) <=> AgreeOn(client, view, {}))
  BY <1>1, Zenon
<1>4. cmd' # "announce" => (AgreeOn(client', view', Gone') <=> AgreeOn(client', view', {}))
  BY <1>2, Zenon
<1> QED
  BY <1>3, <1>4, AgreeAll

LEMMA AgreeNone ==
  ASSUME NEW list, NEW es \in Seq(Entry)
  PROVE  AgreeOn(list, es, {}) <=> Len(list) = Len(es) /\ \A i \in 1..Len(es) : Matches(list[i], es[i])
<1>1. Len(es) \in Nat /\ Len(es) - Cardinality({}) = Len(es)
  BY NothingGone
<1>2. \A i \in 1..Len(es) : Shown(i, {}) = i
  BY NothingGone
<1> QED
  BY <1>1, <1>2 DEF AgreeOn

\* A step that neither begins nor ends an announcement nor touches what it is about.
LEMMA SameSession ==
  ASSUME Announcing, SequenceNumbersAgree,
         UNCHANGED <<view, fresh, leaving, client>>, cmd' = "announce" <=> cmd = "announce"
  PROVE  Announcing' /\ SequenceNumbersAgree'
<1>1. Announcing'
  BY DEF Announcing, Departed, UidsOf
<1>2. Gone' = Gone
  BY DEF Gone, Departed, UidsOf
<1>3. AgreeOn(client', view', Gone')
  <2>1. AgreeOn(client, view, Gone)
    BY AgreeAll
  <2> QED
    BY <2>1, <1>2, Zenon
<1> QED
  BY <1>1, <1>3, AgreeAll

LEMMA Blank ==
  /\ AgreeOn(<< >>, << >>, {})
  /\ \A u, n : Given(u, n) => Listing(<< >>, u, n)
<1>1. << >> \in Seq(Entry) /\ Len(<< >>) = 0
  OBVIOUS
<1>2. AgreeOn(<< >>, << >>, {}) <=> Len(<< >>) = Len(<< >>) /\ \A i \in 1..Len(<< >>) : Matches(<< >>[i], << >>[i])
  BY <1>1, AgreeNone
<1> QED
  BY <1>1, <1>2 DEF Listing

\* CLOSE and the like.
LEMMA NoSession ==
  ASSUME Deselected(readOnly'), cmd' # "announce", leaving' = {}
  PROVE  Announcing' /\ SequenceNumbersAgree'
<1>1. view' = << >> /\ client' = << >>
  BY DEF Deselected
<1>2. AgreeOn(client', view', {})
  BY <1>1, Blank
<1>3. SequenceNumbersAgree'
  BY <1>2, Quiet
<1> QED
  BY <1>3 DEF Announcing

\* Others may load the folder without changing what is in a listing that is up to date.
LEMMA ContentsStay ==
  ASSUME NEW es, Listing(es, uid, uidNext), RowsOf(es) = Contents,
         Given(uid, uidNext), members \subseteq Messages, Renumbers, UNCHANGED <<members, flagged>>
  PROVE  Contents' = Contents
<1>1. ASSUME NEW m \in members PROVE uid[m] # 0
  <2>1. <<uid[m], m, m \in flagged>> \in RowsOf(es)
    BY DEF Contents
  <2>2. PICK i \in 1..Len(es) : <<uid[m], m, m \in flagged>> = <<es[i].uid, es[i].msg, es[i].del>>
    BY <2>1 DEF RowsOf
  <2>3. uid[m] = es[i].uid
    BY <2>2
  <2>4. es[i].uid > 0
    BY DEF Listing
  <2> QED
    BY <2>3, <2>4
<1>2. \A m \in members : uid'[m] = uid[m]
  BY <1>1, Renumbered
<1> QED
  BY <1>2 DEF Contents

\* A view that stays one while the folder is loaded.
LEMMA StaysListed ==
  ASSUME Given(uid, uidNext), members \subseteq Messages, Renumbers, NEW es, Listing(es, uid, uidNext)
  PROVE  Listing(es, uid', uidNext')
<1>1. /\ Given(uid', uidNext') /\ uidNext <= uidNext'
      /\ \A m \in Messages : uid'[m] \in {0, uid[m]} \/ uidNext <= uid'[m]
  BY Renumbered
<1> QED
  BY <1>1, ListingStays

LEMMA ListingAscends ==
  ASSUME NEW es, NEW u, NEW n, Listing(es, u, n)
  PROVE  es \in Seq(Entry) /\ Ascending(es)
  BY DEF Listing, Ascending

LEMMA SessionInit == Init => SessionInv
<1> SUFFICES ASSUME Init PROVE SessionInv
  OBVIOUS
<1>1. view = << >> /\ fresh = << >> /\ client = << >> /\ leaving = {} /\ cmd = "ready"
  BY DEF Init
<1>2. Given(uid, uidNext)
  BY DEF Init, Given
<1>3. Listing(view, uid, uidNext) /\ Listing(fresh, uid, uidNext)
  BY <1>1, <1>2, Blank
<1>4. SequenceNumbersAgree
  <2>1. AgreeOn(client, view, {})
    BY <1>1, Blank
  <2> QED
    BY <1>1, <2>1, Quiet
<1>5. Shapes
  <2>1. client \in Seq(Known) /\ 0 \in 0..MaxChanges
    BY <1>1, BoundAssumption
  <2> QED
    BY <2>1, <1>1 DEF Init, Shapes
<1>6. Announcing
  BY <1>1 DEF Announcing
<1>7. UpToDate
  BY DEF Init, UpToDate
<1> QED
  BY <1>2, <1>3, <1>4, <1>5, <1>6, <1>7 DEF SessionInv

\* What others do to the folder, and the events about it, leave the session alone.
LEMMA SessionAlone ==
  ASSUME SessionInv, UNCHANGED session, Shapes', UpToDate', UNCHANGED <<uid, uidNext>> \/ Renumbers
  PROVE  SessionInv'
<1> USE DEF session
<1>1. Announcing' /\ SequenceNumbersAgree'
  <2>1. UNCHANGED <<view, fresh, leaving, client>> /\ (cmd' = "announce" <=> cmd = "announce")
    OBVIOUS
  <2> QED
    BY <2>1, SameSession DEF SessionInv
<1>2. Given(uid', uidNext') /\ Listing(view, uid', uidNext') /\ Listing(fresh, uid', uidNext')
  <2>1. CASE UNCHANGED <<uid, uidNext>>
    BY <2>1 DEF SessionInv
  <2>2. CASE Renumbers
    <3>1. members \subseteq Messages /\ Given(uid, uidNext)
      BY DEF SessionInv, Shapes
    <3> QED
      BY <2>2, <3>1, Renumbered, StaysListed DEF SessionInv
  <2> QED
    BY <2>1, <2>2
<1> QED
  BY <1>1, <1>2 DEF SessionInv

LEMMA OthersStep ==
  ASSUME SessionInv, Others
  PROVE  SessionInv'
<1>0. Shapes
  BY DEF SessionInv
<1> USE DEF session, hub
<1>1. ASSUME NEW m \in Messages, Enter(m) \/ Leave(m) \/ Flag(m) PROVE SessionInv'
  <2>1. Shapes'
    <3>0. MayChange => changes' \in 0..MaxChanges
      BY <1>0, BoundAssumption DEF MayChange, Shapes
    <3>a. ASSUME Broadcast, MayChange, UNCHANGED <<mailbox, session>>,
                 members' \subseteq Messages, flagged' \subseteq Messages
          PROVE  Shapes'
      <4>1. /\ frames' \subseteq {"mailbox_changed", "mailbox_expired"}
            /\ missed' \in BOOLEAN /\ UNCHANGED <<dirty, expired>>
        BY <3>a, <1>0 DEF Broadcast, Shapes
      <4> QED
        BY <3>0, <3>a, <4>1, <1>0 DEF Shapes
    <3>1. CASE Enter(m)
      <4>1. Broadcast /\ MayChange /\ UNCHANGED <<mailbox, session>> /\ members' \subseteq Messages /\ flagged' \subseteq Messages
        BY <3>1, <1>0 DEF Enter, Shapes
      <4> QED
        BY <3>a, <4>1
    <3>2. CASE Leave(m)
      <4>1. Broadcast /\ MayChange /\ UNCHANGED <<mailbox, session>> /\ members' \subseteq Messages /\ flagged' \subseteq Messages
        BY <3>2, <1>0 DEF Leave, Shapes
      <4> QED
        BY <3>a, <4>1
    <3>3. CASE Flag(m)
      <4>1. Broadcast /\ MayChange /\ UNCHANGED <<mailbox, session>> /\ members' \subseteq Messages /\ flagged' \subseteq Messages
        BY <3>3, <1>0 DEF Flag, Shapes
      <4> QED
        BY <3>a, <4>1
    <3> QED
      BY <1>1, <3>1, <3>2, <3>3
  <2>2. ~Unaware'
    BY <1>1 DEF Enter, Leave, Flag, Broadcast, Unaware
  <2>3. UNCHANGED session /\ UNCHANGED <<uid, uidNext>>
    BY <1>1 DEF Enter, Leave, Flag
  <2> QED
    BY <2>1, <2>2, <2>3, SessionAlone DEF UpToDate
<1>2. CASE Expire
  <2>1. Shapes'
    <3>1. MayChange => changes' \in 0..MaxChanges
      BY <1>0, BoundAssumption DEF MayChange, Shapes
    <3> QED
      BY <1>2, <1>0, <3>1 DEF Expire, Shapes
  <2>2. ~Unaware'
    BY <1>2 DEF Expire, Unaware
  <2> QED
    BY <1>2, <2>1, <2>2, SessionAlone DEF UpToDate, Expire
<1>3. CASE DropMailbox
  <2>1. Shapes'
    BY <1>3, <1>0 DEF DropMailbox, Shapes
  <2>2. ~Unaware'
    BY <1>3 DEF DropMailbox, Unaware
  <2> QED
    BY <1>3, <2>1, <2>2, SessionAlone DEF UpToDate, DropMailbox
<1>4. CASE PeerLoads
  <2>1. Shapes'
    BY <1>4, <1>0 DEF PeerLoads, Shapes
  <2>2. Unaware' = Unaware
    BY <1>4 DEF PeerLoads, Unaware
  <2>3. ASSUME NEW es, Listing(es, uid, uidNext), RowsOf(es) = Contents
        PROVE  RowsOf(es) = Contents'
    <3>1. Contents' = Contents
      <4>1. Given(uid, uidNext) /\ members \subseteq Messages /\ Renumbers /\ UNCHANGED <<members, flagged>>
        BY <1>4 DEF SessionInv, Shapes, PeerLoads
      <4> QED
        BY <2>3, <4>1, ContentsStay
    <3> QED
      BY <2>3, <3>1, Zenon
  <2>4. Listing(view, uid, uidNext) /\ Listing(fresh, uid, uidNext) /\ UpToDate
    BY DEF SessionInv
  <2>5. UpToDate'
    <3>1. UNCHANGED <<cmd, selected, view, fresh>>
      BY <1>4 DEF PeerLoads
    <3>2. RowsOf(view)' = RowsOf(view) /\ RowsOf(fresh)' = RowsOf(fresh)
      BY <3>1 DEF RowsOf
    <3>3. ASSUME Unaware', cmd \in {"ready", "idle"}, selected PROVE RowsOf(view)' = Contents'
      <4>1. RowsOf(view) = Contents
        BY <2>2, <2>4, <3>3 DEF UpToDate
      <4>2. RowsOf(view) = Contents'
        BY <4>1, <2>3, <2>4
      <4> QED
        BY <3>2, <4>2, Zenon
    <3>4. ASSUME Unaware', cmd \in {"greet", "announce"} PROVE RowsOf(fresh)' = Contents'
      <4>1. RowsOf(fresh) = Contents
        BY <2>2, <2>4, <3>4 DEF UpToDate
      <4>2. RowsOf(fresh) = Contents'
        BY <4>1, <2>3, <2>4
      <4> QED
        BY <3>2, <4>2, Zenon
    <3> QED
      BY <3>1, <3>3, <3>4 DEF UpToDate
  <2> QED
    BY <1>4, <2>1, <2>5, SessionAlone DEF PeerLoads
<1>5. ASSUME NEW f \in frames, Deliver(f) \/ Lose(f) PROVE SessionInv'
  <2>1. Shapes'
    <3>1. /\ frames' \subseteq frames /\ UNCHANGED <<folder, session, changes>>
          /\ dirty' \in BOOLEAN /\ expired' \in BOOLEAN /\ missed' \in BOOLEAN
      BY <1>5, <1>0 DEF Deliver, Lose, Shapes
    <3> QED
      BY <3>1, <1>0 DEF Shapes, folder
  <2>2. ~Unaware'
    BY <1>5 DEF Deliver, Lose, Unaware
  <2> QED
    BY <1>5, <2>1, <2>2, SessionAlone DEF UpToDate, Deliver, Lose, folder
<1> QED
  BY <1>1, <1>2, <1>3, <1>4, <1>5 DEF Others

\* What the client asks for, outside an announcement, and without a load.
LEMMA AskedStep ==
  ASSUME SessionInv, Shapes', UpToDate',
         UNCHANGED <<uid, uidNext, fresh>>, leaving' = {}, cmd # "announce", cmd' # "announce",
         \/ UNCHANGED <<view, client>>
         \/ Deselected(readOnly')
         \/ Listing(view', uid, uidNext) /\ AgreeOn(client', view', {})
  PROVE  SessionInv'
<1>1. Given(uid, uidNext) /\ Listing(fresh, uid, uidNext) /\ Listing(view, uid, uidNext) /\ AgreeOn(client, view, {})
  BY Quiet DEF SessionInv
<1>2. Listing(view', uid, uidNext) /\ AgreeOn(client', view', {})
  <2>1. CASE UNCHANGED <<view, client>>
    BY <2>1, <1>1
  <2>2. CASE Deselected(readOnly')
    BY <2>2, <1>1, Blank DEF Deselected
  <2> QED
    BY <2>1, <2>2
<1>3. Announcing'
  BY DEF Announcing
<1>4. SequenceNumbersAgree'
  BY <1>2, Quiet
<1>5. Given(uid, uidNext)' /\ Listing(view, uid, uidNext)' /\ Listing(fresh, uid, uidNext)'
  BY <1>1, <1>2
<1> QED
  BY <1>3, <1>4, <1>5 DEF SessionInv

LEMMA StillUpToDate ==
  ASSUME UpToDate, UNCHANGED <<folder, selected, view, fresh, dirty, frames, missed>>,
         cmd \in {"ready", "idle"}, cmd' \in {"ready", "idle"}
  PROVE  UpToDate'
<1>1. Unaware' = Unaware /\ RowsOf(view)' = RowsOf(view) /\ Contents' = Contents
  BY DEF Unaware, RowsOf, Contents, folder
<1>2. UNCHANGED selected
  OBVIOUS
<1>3. Unaware' /\ selected' => RowsOf(view)' = Contents'
  <2> SUFFICES ASSUME Unaware', selected' PROVE RowsOf(view)' = Contents'
    OBVIOUS
  <2>1. RowsOf(view) = Contents
    BY <1>1, <1>2 DEF UpToDate
  <2> QED
    BY <1>1, <2>1, Zenon
<1> QED
  BY <1>3 DEF UpToDate

\* FETCH tells the client all there is in the view.
LEMMA AllTold ==
  ASSUME NEW es \in Seq(Entry)
  PROVE  LET list == [i \in 1..Len(es) |-> Told(es[i])]
         IN list \in Seq(Known) /\ AgreeOn(list, es, {})
<1> DEFINE list == [i \in 1..Len(es) |-> Told(es[i])]
<1>1. \A i \in 1..Len(es) : es[i] \in Entry
  OBVIOUS
<1>2. \A i \in 1..Len(es) : Told(es[i]) \in Known /\ Matches(Told(es[i]), es[i])
  BY <1>1 DEF Told, Known, Entry, Matches
<1>3. list \in Seq(Known) /\ Len(list) = Len(es) /\ \A i \in 1..Len(es) : list[i] = Told(es[i])
  BY <1>2
<1> HIDE DEF list
<1>4. \A i \in 1..Len(es) : Matches(list[i], es[i])
  BY <1>2, <1>3
<1>5. AgreeOn(list, es, {})
  BY <1>3, <1>4, AgreeNone
<1> QED
  BY <1>3, <1>5 DEF list

\* STORE changes the same flag on both sides.
LEMMA BothSet ==
  ASSUME NEW es \in Seq(Entry), NEW list \in Seq(Known), AgreeOn(list, es, {}),
         NEW i \in 1..Len(es), NEW set \in BOOLEAN
  PROVE  LET es2 == [es EXCEPT ![i].del = set]
             list2 == [list EXCEPT ![i].del = IF set THEN "yes" ELSE "no"]
         IN /\ list2 \in Seq(Known) /\ AgreeOn(list2, es2, {})
            /\ \A u, n : Listing(es, u, n) => Listing(es2, u, n)
<1> DEFINE es2 == [es EXCEPT ![i].del = set]
           list2 == [list EXCEPT ![i].del = IF set THEN "yes" ELSE "no"]
<1>1. Len(list) = Len(es) /\ \A j \in 1..Len(es) : Matches(list[j], es[j])
  BY AgreeNone
<1>2. \A j \in 1..Len(es) : es[j] \in Entry /\ list[j] \in Known
  BY <1>1
<1>3. /\ es2[i] = [es[i] EXCEPT !.del = set]
      /\ list2[i] = [list[i] EXCEPT !.del = IF set THEN "yes" ELSE "no"]
      /\ \A j \in 1..Len(es) : j # i => es2[j] = es[j] /\ list2[j] = list[j]
  BY <1>1
<1>4. /\ es2[i] \in Entry /\ es2[i].uid = es[i].uid
      /\ list2[i] \in Known /\ Matches(list2[i], es2[i])
  <2>1. es[i] \in Entry /\ list[i] \in Known /\ Matches(list[i], es[i])
    BY <1>1, <1>2
  <2> HIDE DEF es2, list2
  <2>2. es2[i] \in Entry /\ es2[i].uid = es[i].uid /\ es2[i].del = set
    BY <2>1, <1>3 DEF Entry
  <2>3. list2[i] \in Known /\ list2[i].uid = list[i].uid /\ list2[i].del = IF set THEN "yes" ELSE "no"
    BY <2>1, <1>3 DEF Known
  <2>4. Matches(list2[i], es2[i])
    BY <2>1, <2>2, <2>3 DEF Matches, Told
  <2> QED
    BY <2>2, <2>3, <2>4
<1>5. es2 \in Seq(Entry) /\ Len(es2) = Len(es) /\ list2 \in Seq(Known) /\ Len(list2) = Len(list)
  <2>1. Len(es) \in Nat /\ es \in [1..Len(es) -> Entry] /\ list \in [1..Len(es) -> Known]
    BY <1>1
  <2>2. [es[i] EXCEPT !.del = set] \in Entry /\ [list[i] EXCEPT !.del = IF set THEN "yes" ELSE "no"] \in Known
    BY <1>2 DEF Entry, Known
  <2>3. es2 \in [1..Len(es) -> Entry] /\ list2 \in [1..Len(es) -> Known]
    BY <2>1, <2>2
  <2>4. \A T : \A f \in [1..Len(es) -> T] : f \in Seq(T) /\ Len(f) = Len(es)
    BY <2>1
  <2> HIDE DEF es2, list2
  <2> QED
    BY <1>1, <2>3, <2>4
<1> HIDE DEF es2, list2
<1>6. AgreeOn(list2, es2, {})
  <2>1. \A j \in 1..Len(es2) : Matches(list2[j], es2[j])
    BY <1>1, <1>3, <1>4, <1>5
  <2> QED
    BY <1>1, <1>5, <2>1, AgreeNone
<1>7. ASSUME NEW u, NEW n, Listing(es, u, n) PROVE Listing(es2, u, n)
  <2>1. \A j \in 1..Len(es) : es2[j].uid = es[j].uid
    BY <1>3, <1>4
  <2>2. UidsOf(es2) = UidsOf(es)
    BY <1>5, <2>1 DEF UidsOf
  <2> QED
    BY <1>5, <1>7, <2>1, <2>2 DEF Listing
<1> QED
  BY <1>5, <1>6, <1>7 DEF es2, list2

LEMMA Emptied ==
  ASSUME NEW ro \in BOOLEAN, Deselected(ro)
  PROVE  client' \in Seq(Known) /\ view' = << >> /\ selected' = FALSE /\ readOnly' \in BOOLEAN
<1>1. << >> \in Seq(Known)
  OBVIOUS
<1> QED
  BY <1>1 DEF Deselected

LEMMA ClientStep ==
  ASSUME SessionInv, Client
  PROVE  SessionInv'
<1>0. /\ Shapes /\ UpToDate /\ Given(uid, uidNext) /\ Listing(view, uid, uidNext) /\ Listing(fresh, uid, uidNext)
      /\ view \in Seq(Entry) /\ client \in Seq(Known)
      /\ cmd # "announce" => leaving = {} /\ AgreeOn(client, view, {})
  BY Quiet DEF SessionInv, Listing, Announcing, Shapes
<1> USE DEF folder, hub
\* Without a folder, or before the next load, there is nothing to be up to date with.
<1>1. ASSUME cmd' \in {"ready", "idle"} => ~selected', cmd' \notin {"greet", "announce"} PROVE UpToDate'
  BY <1>1 DEF UpToDate
<1>2. ASSUME frames' # {} PROVE UpToDate'
  BY <1>2 DEF UpToDate, Unaware
<1>3. ASSUME NEW b \in BOOLEAN, Select(b) PROVE SessionInv'
  <2>1. Shapes'
    <3>1. client' \in Seq(Known) /\ view' = << >> /\ selected' = FALSE /\ readOnly' \in BOOLEAN
      <4>1. Deselected(b)
        BY <1>3 DEF Select
      <4> QED
        BY <4>1, Emptied
    <3> QED
      BY <1>0, <1>3, <3>1 DEF Select, Shapes
  <2>2. UpToDate'
    BY <1>1, <1>3 DEF Select
  <2> QED
    BY <1>0, <1>3, <2>1, <2>2, AskedStep DEF Select, Deselected
<1>4. ASSUME NEW b \in BOOLEAN, Fetch(b) PROVE SessionInv'
  <2>1. client' \in Seq(Known) /\ AgreeOn(client', view, {}) /\ UNCHANGED view
    BY <1>0, <1>4, AllTold DEF Fetch
  <2>2. Shapes'
    BY <1>0, <1>4, <2>1 DEF Fetch, AndSync, BeginSync, Shapes
  <2>3. cmd = "ready" /\ cmd' \in {"ready", "load"} /\ UNCHANGED <<folder, selected, view, fresh, leaving, frames, missed>>
    BY <1>4 DEF Fetch, AndSync, BeginSync
  <2>4. UpToDate'
    <3>1. CASE UNCHANGED <<cmd, dirty>>
      BY <1>0, <2>3, <3>1, StillUpToDate
    <3>2. CASE cmd' = "load"
      BY <1>1, <3>2
    <3> QED
      BY <1>4, <3>1, <3>2 DEF Fetch, AndSync, BeginSync
  <2> QED
    BY <1>0, <2>1, <2>2, <2>3, <2>4, AskedStep
<1>5. ASSUME NEW i \in 1..Len(view), NEW s \in BOOLEAN, NEW b \in BOOLEAN, Store(i, s, b) PROVE SessionInv'
  <2>1. /\ client' \in Seq(Known) /\ AgreeOn(client', view', {})
        /\ Listing(view', uid, uidNext)
    BY <1>0, <1>5, BothSet DEF Store
  <2>2. flagged' \subseteq Messages
    <3>1. view[i] \in Entry
      BY <1>0
    <3>2. view[i].msg \in Messages
      BY <3>1 DEF Entry
    <3> QED
      BY <1>0, <1>5, <3>2 DEF Store, Shapes
  <2>3. Shapes'
    BY <1>0, <1>5, <2>1, <2>2 DEF Store, AndSync, BeginSync, Shapes
  <2>4. UpToDate'
    BY <1>2, <1>5 DEF Store
  <2>5. cmd = "ready" /\ cmd' # "announce" /\ UNCHANGED <<uid, uidNext, fresh, leaving>>
    BY <1>5 DEF Store, AndSync, BeginSync
  <2> QED
    BY <1>0, <2>1, <2>3, <2>4, <2>5, AskedStep
<1>6. ASSUME NEW ms, DropRows(ms) PROVE SessionInv'
  <2>1. Shapes'
    BY <1>0, <1>6 DEF DropRows, BeginSync, Shapes
  <2>2. cmd = "ready" /\ cmd' = "load" /\ UNCHANGED <<uid, uidNext, fresh, leaving, view, client>>
    BY <1>6 DEF DropRows, BeginSync
  <2>3. UpToDate'
    BY <1>1, <2>2
  <2> QED
    BY <1>0, <2>1, <2>2, <2>3, AskedStep
<1>7. ASSUME NEW m \in Messages, AppendMessage(m) PROVE SessionInv'
  <2>1. Shapes'
    <3>1. MayChange => changes' \in 0..MaxChanges
      BY <1>0, BoundAssumption DEF MayChange, Shapes
    <3> QED
      BY <1>0, <1>7, <3>1 DEF AppendMessage, BeginSync, Shapes
  <2>2. cmd = "ready" /\ cmd' = "load" /\ UNCHANGED <<uid, uidNext, fresh, leaving, view, client>>
    BY <1>7 DEF AppendMessage, BeginSync
  <2>3. UpToDate'
    BY <1>1, <2>2
  <2> QED
    BY <1>0, <2>1, <2>2, <2>3, AskedStep
<1>8. CASE Unselect \/ Close
  <2>1. Shapes'
    <3>1. client' \in Seq(Known) /\ view' = << >> /\ selected' = FALSE /\ readOnly' \in BOOLEAN
      <4>1. Deselected(FALSE)
        BY <1>8 DEF Unselect, Close, TakeOut
      <4> QED
        BY <4>1, Emptied
    <3> QED
      BY <1>0, <1>8, <3>1 DEF Unselect, Close, TakeOut, Shapes
  <2>2. /\ cmd = "ready" /\ cmd' = "ready" /\ Deselected(readOnly')
        /\ UNCHANGED <<uid, uidNext, fresh, leaving>>
    BY <1>8 DEF Unselect, Close, TakeOut, Deselected
  <2>3. UpToDate'
    BY <1>1, <2>2 DEF Deselected
  <2> QED
    BY <1>0, <2>1, <2>2, <2>3, AskedStep
<1>9. CASE Noop
  <2>1. Shapes'
    BY <1>0, <1>9 DEF Noop, BeginSync, Shapes
  <2>2. /\ cmd = "ready" /\ UNCHANGED <<uid, uidNext, fresh, leaving, view, client, selected>>
        /\ cmd' = IF selected THEN "load" ELSE "ready"
    BY <1>9 DEF Noop, BeginSync
  <2>3. UpToDate'
    BY <1>1, <2>2
  <2> QED
    BY <1>0, <2>1, <2>2, <2>3, AskedStep
<1>10. CASE Idle \/ Done
  <2>1. Shapes'
    BY <1>0, <1>10 DEF Idle, Done, Shapes
  <2>2. /\ cmd \in {"ready", "idle"} /\ cmd' \in {"ready", "idle"}
        /\ UNCHANGED <<folder, selected, view, fresh, leaving, client, dirty, frames, missed>>
    BY <1>10 DEF Idle, Done
  <2>3. UpToDate'
    BY <1>0, <2>2, StillUpToDate
  <2> QED
    BY <1>0, <2>1, <2>2, <2>3, AskedStep
<1>11. CASE Logout
  <2>1. /\ cmd' = "closed" /\ view' = << >> /\ client' = << >> /\ fresh' = << >> /\ leaving' = {}
        /\ UNCHANGED <<uid, uidNext>>
    BY <1>11 DEF Logout, Deselected
  <2>2. Shapes'
    <3>1. client' \in Seq(Known) /\ view' = << >> /\ selected' = FALSE /\ readOnly' \in BOOLEAN
      <4>1. Deselected(FALSE)
        BY <1>11 DEF Logout
      <4> QED
        BY <4>1, Emptied
    <3> QED
      BY <1>0, <1>11, <3>1 DEF Logout, Shapes
  <2>3. UpToDate'
    BY <1>1, <2>1
  <2>4. Given(uid, uidNext)' /\ Listing(view, uid, uidNext)' /\ Listing(fresh, uid, uidNext)'
    BY <1>0, <2>1, Blank
  <2>5. Announcing' /\ SequenceNumbersAgree'
    BY <1>11, <2>1, NoSession DEF Logout, Deselected
  <2> QED
    BY <2>2, <2>3, <2>4, <2>5 DEF SessionInv
<1> QED
  BY <1>3, <1>4, <1>5, <1>6, <1>7, <1>8, <1>9, <1>10, <1>11 DEF Client, Move, Expunge

LEMMA ServerStep ==
  ASSUME SessionInv, Server
  PROVE  SessionInv'
<1>0. /\ Shapes /\ UpToDate /\ Given(uid, uidNext) /\ Listing(view, uid, uidNext) /\ Listing(fresh, uid, uidNext)
      /\ Announcing /\ SequenceNumbersAgree /\ members \subseteq Messages
      /\ view \in Seq(Entry) /\ fresh \in Seq(Entry) /\ client \in Seq(Known)
      /\ Ascending(view) /\ Ascending(fresh)
      /\ cmd # "announce" => leaving = {} /\ AgreeOn(client, view, {})
  BY Quiet, ListingAscends DEF SessionInv, Announcing, Shapes
<1> USE DEF folder, hub
<1>1. ASSUME cmd' \in {"ready", "idle"} => ~selected', cmd' \notin {"greet", "announce"} PROVE UpToDate'
  BY <1>1 DEF UpToDate
\* A load.
<1>2. ASSUME Loads
      PROVE  /\ Given(uid, uidNext)' /\ Listing(view, uid', uidNext') /\ Listing(fresh, uid, uidNext)'
             /\ RowsOf(fresh)' = Contents'
             /\ \A j \in 1..Len(fresh') : fresh'[j].msg \in Messages /\ fresh'[j].uid = uid'[fresh'[j].msg] /\ fresh'[j].uid # 0
  <2>1. Renumbers /\ UNCHANGED <<members, flagged>>
    BY <1>2 DEF Loads
  <2>2. Given(uid', uidNext') /\ Listing(view, uid', uidNext')
    BY <1>0, <2>1, Renumbered, StaysListed
  <2>3. /\ Listing(fresh', uid', uidNext')
        /\ RowsOf(fresh') = {<<uid'[m], m, m \in flagged>> : m \in members}
        /\ \A i \in 1..Len(fresh') : fresh'[i].msg \in members /\ fresh'[i].uid = uid'[fresh'[i].msg]
    BY <1>0, <1>2, Loaded
  <2>4. RowsOf(fresh') = RowsOf(fresh)' /\ Contents' = {<<uid'[m], m, m \in flagged>> : m \in members}
    BY <2>1 DEF RowsOf, Contents
  <2>5. RowsOf(fresh)' = Contents'
    BY <2>3, <2>4, Zenon
  <2>6. \A j \in 1..Len(fresh') : fresh'[j].uid # 0
    BY <2>3 DEF Listing
  <2> QED
    BY <1>0, <2>2, <2>3, <2>5, <2>6
<1>3. CASE SelectLoads
  <2>1. Loads /\ cmd = "select" /\ cmd' = "greet" /\ UNCHANGED <<leaving, view, client>>
    BY <1>3 DEF SelectLoads
  <2>2. Shapes'
    BY <1>0, <1>3 DEF SelectLoads, Loads, Shapes
  <2>3. Announcing' /\ SequenceNumbersAgree'
    BY <1>0, <2>1, Quiet DEF Announcing
  <2>4. UpToDate'
    BY <1>2, <2>1 DEF UpToDate
  <2> QED
    BY <1>2, <2>1, <2>2, <2>3, <2>4 DEF SessionInv
<1>4. CASE Greet
  <2>1. /\ cmd = "greet" /\ cmd' = "ready" /\ view' = fresh /\ fresh' = << >> /\ leaving' = {}
        /\ client' = [i \in 1..Len(fresh) |-> Unknown] /\ UNCHANGED <<uid, uidNext>>
    BY <1>0, <1>4 DEF Greet
  <2>2. client' \in Seq(Known) /\ AgreeOn(client', fresh, {})
    <3>1. Unknown \in Known /\ \A e : Matches(Unknown, e)
      BY DEF Unknown, Known, Matches
    <3>2. client' \in Seq(Known) /\ Len(client') = Len(fresh) /\ \A i \in 1..Len(fresh) : client'[i] = Unknown
      BY <1>0, <2>1, <3>1
    <3>3. \A i \in 1..Len(fresh) : Matches(client'[i], fresh[i])
      BY <3>1, <3>2
    <3> QED
      BY <1>0, <3>2, <3>3, AgreeNone
  <2>3. Shapes'
    BY <1>0, <1>4, <2>2 DEF Greet, Shapes
  <2>4. Given(uid, uidNext)' /\ Listing(view, uid, uidNext)' /\ Listing(fresh, uid, uidNext)'
    BY <1>0, <2>1, Blank
  <2>5. Announcing' /\ SequenceNumbersAgree'
    BY <2>1, <2>2, Quiet DEF Announcing
  <2>6. UpToDate'
    <3> SUFFICES ASSUME Unaware' PROVE RowsOf(view)' = Contents'
      BY <2>1 DEF UpToDate
    <3>1. Unaware
      BY <1>4 DEF Greet, Unaware
    <3>2. RowsOf(fresh) = Contents
      BY <1>0, <2>1, <3>1 DEF UpToDate
    <3>3. RowsOf(view)' = RowsOf(fresh) /\ Contents' = Contents
      BY <1>4 DEF Greet, RowsOf, Contents
    <3> QED
      BY <3>2, <3>3, Zenon
  <2> QED
    BY <2>3, <2>4, <2>5, <2>6 DEF SessionInv
<1>5. CASE SyncLoads
  <2>1. /\ Loads /\ cmd = "load" /\ cmd' = "announce" /\ UNCHANGED <<view, client>>
        /\ leaving' = Departed(view, fresh')
    BY <1>5 DEF SyncLoads
  <2>2. Shapes'
    BY <1>0, <1>5 DEF SyncLoads, Loads, Shapes
  <2>3. Announcing'
    <3>1. leaving' \subseteq 1..Len(view)
      BY <2>1 DEF Departed
    <3>2. ASSUME NEW j \in 1..Len(fresh')
          PROVE  fresh'[j].uid \in UidsOf(view) \/ \A i \in 1..Len(view) : view[i].uid < fresh'[j].uid
      BY <1>2, <2>1 DEF Listing
    <3>3. \A i : i \notin Departed(view', fresh') \ leaving'
      BY <2>1
    <3> QED
      BY <2>1, <3>1, <3>2, <3>3 DEF Announcing
  <2>4. SequenceNumbersAgree'
    <3>1. Gone' = {}
      BY <2>1 DEF Gone
    <3>2. AgreeOn(client', view', {})
      BY <1>0, <2>1
    <3>3. AgreeOn(client', view', Gone')
      BY <3>1, <3>2, Zenon
    <3> QED
      BY <3>3, AgreeAll
  <2>5. UpToDate'
    BY <1>2, <2>1 DEF UpToDate
  <2> QED
    BY <1>2, <2>1, <2>2, <2>3, <2>4, <2>5 DEF SessionInv
<1>6. CASE LastComesFirst
  <2>1. PICK i \in leaving : (\A j \in leaving : j <= i) /\ SendExpunge(i)
    BY <1>6 DEF LastComesFirst
  <2>2. /\ cmd = "announce" /\ leaving' = leaving \ {i} /\ client' = RemoveAt(client, i)
        /\ UNCHANGED <<folder, cmd, then, selected, readOnly, view, fresh, hub, changes>>
    BY <2>1 DEF SendExpunge
  <2> DEFINE gone == Departed(view, fresh) \ leaving
  <2>3. /\ leaving \subseteq Departed(view, fresh) /\ Departed(view, fresh) \subseteq 1..Len(view)
        /\ \A k \in gone, j \in leaving : j < k
    BY <1>0, <2>2 DEF Announcing, Departed
  <2>4. Gone = gone /\ Gone' = gone \cup {i}
    BY <2>1, <2>2, <2>3 DEF Gone, Departed, UidsOf
  <2>5. AgreeOn(client, view, gone)
    BY <1>0, <2>4, AgreeAll, Zenon
  <2>6. /\ gone \in SUBSET (1..Len(view)) /\ i \in (1..Len(view)) \ gone
        /\ \A k \in gone : i < k
    BY <2>1, <2>3
  <2>7. client' \in Seq(Known) /\ AgreeOn(client', view, gone \cup {i})
    <3> HIDE DEF gone
    <3> QED
      BY <1>0, <2>2, <2>5, <2>6, ExpungeAgrees
  <2>8. SequenceNumbersAgree'
    <3>1. AgreeOn(client', view', Gone')
      BY <2>2, <2>4, <2>7, Zenon
    <3> QED
      BY <3>1, AgreeAll
  <2>9. Announcing'
    <3>1. leaving' \subseteq Departed(view, fresh) /\ leaving' \subseteq 1..Len(view)
      BY <2>2, <2>3
    <3>2. ASSUME NEW k \in Departed(view, fresh) \ leaving', NEW j \in leaving' PROVE j < k
      <4>1. j \in leaving /\ j # i /\ (k = i \/ k \in gone) /\ j \in 1..Len(view) /\ i \in 1..Len(view)
        BY <2>1, <2>2, <2>3
      <4>2. CASE k = i
        BY <2>1, <4>1, <4>2
      <4>3. CASE k \in gone
        BY <2>3, <4>1, <4>3
      <4> QED
        BY <4>1, <4>2, <4>3
    <3>3. Departed(view', fresh') = Departed(view, fresh) /\ UidsOf(view') = UidsOf(view)
      BY <2>2 DEF Departed, UidsOf
    <3> QED
      BY <1>0, <2>2, <3>1, <3>2, <3>3 DEF Announcing
  <2>10. UpToDate'
    BY <1>0, <2>2 DEF UpToDate, Unaware, RowsOf, Contents
  <2>11. Shapes'
    BY <1>0, <2>2, <2>7 DEF Shapes
  <2> QED
    BY <1>0, <2>2, <2>8, <2>9, <2>10, <2>11 DEF SessionInv
<1>7. CASE Announce
  <2>1. /\ cmd = "announce" /\ leaving = {} /\ cmd' = then /\ then' = "ready"
        /\ client' = Heard(client, view, fresh) /\ view' = fresh /\ fresh' = << >>
        /\ UNCHANGED <<folder, selected, readOnly, leaving, hub, changes>>
    BY <1>7 DEF Announce, Return
  <2>2. AgreeOn(client, view, Departed(view, fresh))
    <3>1. Gone = Departed(view, fresh)
      BY <2>1 DEF Gone
    <3> QED
      BY <1>0, <3>1, AgreeAll, Zenon
  <2>3. \A j \in 1..Len(fresh) : fresh[j].uid \in UidsOf(view) \/ \A i \in 1..Len(view) : view[i].uid < fresh[j].uid
    BY <1>0, <2>1 DEF Announcing
  <2>4. client' \in Seq(Known) /\ AgreeOn(client', fresh, {})
    BY <1>0, <2>1, <2>2, <2>3, AnnounceAgrees
  <2>5. Shapes'
    BY <1>0, <2>1, <2>4 DEF Shapes
  <2>6. cmd' \in {"ready", "idle"}
    BY <1>0, <2>1 DEF Shapes
  <2>7. Given(uid, uidNext)' /\ Listing(view, uid, uidNext)' /\ Listing(fresh, uid, uidNext)'
    BY <1>0, <2>1, Blank
  <2>8. Announcing' /\ SequenceNumbersAgree'
    BY <2>1, <2>4, <2>6, Quiet DEF Announcing
  <2>9. UpToDate'
    <3> SUFFICES ASSUME Unaware' PROVE RowsOf(view)' = Contents'
      BY <2>6 DEF UpToDate
    <3>1. Unaware
      BY <2>1 DEF Unaware
    <3>2. RowsOf(fresh) = Contents
      BY <1>0, <2>1, <3>1 DEF UpToDate
    <3>3. RowsOf(view)' = RowsOf(fresh) /\ Contents' = Contents
      BY <2>1 DEF RowsOf, Contents
    <3> QED
      BY <3>2, <3>3, Zenon
  <2> QED
    BY <2>5, <2>7, <2>8, <2>9 DEF SessionInv
<1>8. CASE LoadFails
  <2>1. /\ cmd \in {"select", "load"} /\ cmd' = then /\ missed'
        /\ UNCHANGED <<folder, selected, readOnly, view, fresh, leaving, client, dirty, expired, frames>>
    BY <1>8 DEF LoadFails, Return
  <2>2. Shapes'
    BY <1>0, <1>8, BoundAssumption DEF LoadFails, Return, Shapes
  <2>3. cmd' # "announce" /\ cmd # "announce"
    BY <1>0, <2>1 DEF Shapes
  <2>4. UpToDate'
    BY <2>1 DEF UpToDate, Unaware
  <2> QED
    BY <1>0, <2>1, <2>2, <2>3, <2>4, AskedStep DEF SessionInv
<1>9. CASE Wake \/ Tick
  <2>1. /\ cmd = "idle" /\ UNCHANGED <<folder, fresh, leaving, expired, frames, missed, changes>>
        /\ Woken
    BY <1>9 DEF Wake, Tick
  <2>2. CASE expired
    <3>1. cmd' = "closed" /\ Deselected(FALSE) /\ UNCHANGED <<then, dirty>>
      BY <2>1, <2>2 DEF Woken
    <3>2. client' \in Seq(Known) /\ view' = << >> /\ selected' = FALSE /\ readOnly' = FALSE
      BY <3>1, Emptied DEF Deselected
    <3>3. Shapes'
      BY <1>0, <2>1, <3>1, <3>2 DEF Shapes
    <3>4. UpToDate'
      BY <1>1, <3>1
    <3>5. Deselected(readOnly')
      BY <3>1 DEF Deselected
    <3> QED
      BY <1>0, <2>1, <3>1, <3>3, <3>4, <3>5, AskedStep
  <2>3. CASE ~expired
    <3>1. /\ cmd' = IF selected THEN "load" ELSE "idle"
          /\ then' \in {"idle", then} /\ dirty' = FALSE /\ UNCHANGED <<selected, readOnly, view, client>>
      BY <2>1, <2>3 DEF Woken, BeginSync
    <3>2. Shapes'
      BY <1>0, <2>1, <3>1 DEF Shapes
    <3>3. UpToDate'
      BY <1>1, <3>1
    <3> QED
      BY <1>0, <2>1, <3>1, <3>2, <3>3, AskedStep
  <2> QED
    BY <2>2, <2>3
<1> QED
  BY <1>3, <1>4, <1>5, <1>6, <1>7, <1>8, <1>9 DEF Server

\* Every reachable state satisfies the invariant.
THEOREM SessionInvariant == Spec => []SessionInv
<1>1. SessionInv /\ [Next]_vars => SessionInv'
  <2> SUFFICES ASSUME SessionInv, [Next]_vars PROVE SessionInv'
    OBVIOUS
  <2>1. CASE UNCHANGED vars
    <3>1. /\ UNCHANGED <<members, flagged, uid, uidNext, mailbox, cmd, then, selected, readOnly, view, fresh,
                         leaving, client, dirty, expired, frames, missed, changes>>
      BY <2>1 DEF vars, folder, session, hub
    <3>2. Announcing' /\ SequenceNumbersAgree'
      BY <3>1, SameSession DEF SessionInv
    <3>3. Shapes'
      BY <3>1 DEF SessionInv, Shapes
    <3>4. UpToDate'
      BY <3>1 DEF SessionInv, UpToDate, Unaware, RowsOf, Contents
    <3> QED
      BY <3>1, <3>2, <3>3, <3>4 DEF SessionInv
  <2> QED
    BY <2>1, OthersStep, ClientStep, ServerStep DEF Next
<1> QED
  BY <1>1, SessionInit, PTL DEF Spec

\* The variables have their types, and a view its order.
THEOREM SessionTypes == Spec => []TypeOK
<1>1. SessionInv => TypeOK
  <2> SUFFICES ASSUME SessionInv PROVE TypeOK
    OBVIOUS
  <2>1. Shapes /\ Given(uid, uidNext) /\ Listing(view, uid, uidNext) /\ Listing(fresh, uid, uidNext) /\ Announcing
    BY DEF SessionInv
  <2>2. view \in Seq(Entry) /\ fresh \in Seq(Entry) /\ leaving \subseteq 1..Len(view)
    BY <2>1 DEF Listing, Announcing
  <2>3. \A i \in 1..Len(view) - 1 : view[i].uid < view[i + 1].uid
    <3> SUFFICES ASSUME NEW i \in 1..Len(view) - 1 PROVE view[i].uid < view[i + 1].uid
      OBVIOUS
    <3>1. i \in 1..Len(view) /\ i + 1 \in 1..Len(view) /\ i < i + 1
      BY <2>2
    <3> QED
      BY <2>1, <3>1 DEF Listing
  <2> QED
    BY <2>1, <2>2, <2>3 DEF TypeOK, Shapes, Given
<1> QED
  BY <1>1, SessionInvariant, PTL

\* The client's sequence numbers mean what the session takes them for: after every
\* response, in the middle of an announcement as well, whatever other actors did to the
\* folder, whatever other connections loaded, each load in one step, and whichever failed.
THEOREM NumbersAgree == Spec => []SequenceNumbersAgree
<1>1. SessionInv => SequenceNumbersAgree
  BY DEF SessionInv
<1> QED
  BY <1>1, SessionInvariant, PTL

\* No event is lost between a load and the next wait: an IDLE behind the folder has an
\* event latched or coming, or one of the excuses the history records.
THEOREM Latched == Spec => []LatchWakes
<1>1. SessionInv => LatchWakes
  <2> SUFFICES ASSUME SessionInv, cmd = "idle", selected, Behind, ~dirty, frames = {}, ~missed PROVE FALSE
    BY DEF LatchWakes
  <2>1. RowsOf(view) = Contents
    BY DEF SessionInv, UpToDate, Unaware, Behind
  <2> QED
    BY <2>1 DEF Behind, RowsOf, Contents
<1> QED
  BY <1>1, SessionInvariant, PTL
=============================================================================
