--------------------------- MODULE ServicesProofs ---------------------------
(***************************************************************************)
(* Proofs about SystemSecrets, ServicePolling, Addresses and Reminders,    *)
(* for any number of isolates, messages, addresses, reminders and of the   *)
(* requests and invocations that overlap, and about the limits of the      *)
(* worker, RateLimit, RuleSends and the meters and summaries of            *)
(* AiFeatures, for any number of callers, users, mailboxes and runs and    *)
(* for every cap and window.  Each part: the inductive invariant, that the *)
(* initial states have it and every action keeps it, and the theorems that *)
(* follow; at the end all the limits together for the composition of       *)
(* MCServices.                                                             *)
(***************************************************************************)
EXTENDS MCServices, FiniteSetTheorems, WellFoundedInduction, TLAPS


-----------------------------------------------------------------------------
(***************************************************************************)
(* SystemSecrets: every number of isolates and draws.                      *)
(***************************************************************************)
VapidKeys == {"vapid_public", "vapid_private"}
IsolateSteps ==
    [pc : {"ready"}]
    \cup [pc : {"insert", "readback"}, key : Lazy, value : Nat \ {0}]
    \cup [pc : {"other"}, read : VapidKeys, found : Nat]
    \cup [pc : {"public", "private"}, value : Nat \ {0}]

SecretsTypeOK ==
    /\ config \in [ConfigKeys -> Nat]
    /\ draws \in Nat
    /\ isolates \in [Isolates -> IsolateSteps]
    /\ handed \in [secret : [Lazy -> SUBSET Nat], pairs : SUBSET (Nat \X Nat), raced : BOOLEAN]

\* A row once written is what every isolate gets.
RowsAreFinal ==
    /\ \A k \in Lazy : \A v \in handed.secret[k] : v = config[k] /\ v # 0
    /\ \A i \in Isolates : isolates[i].pc = "readback" => config[isolates[i].key] # 0

Pub == config["vapid_public"]
Priv == config["vapid_private"]

\* Isolates that did not race: the private half completes a pair, a pair that was handed out
\* is the one in the rows, and whoever is initialising knows what the rows hold.
PairIsWhole ==
    /\ Priv # 0 => Pub = Priv
    /\ \A p \in handed.pairs : p = <<Priv, Priv>> /\ Priv # 0
    /\ \A i \in Isolates :
         /\ isolates[i].pc = "other" => isolates[i].found = config[isolates[i].read]
         /\ isolates[i].pc = "public" => Priv = 0
         /\ isolates[i].pc = "private" => Priv = 0 /\ Pub = isolates[i].value

SecretsInv == SecretsTypeOK /\ RowsAreFinal /\ (handed.raced \/ PairIsWhole)

LEMMA SecretsInitInv == SecretsInit => SecretsInv
  BY DEF SecretsInit, SecretsInv, SecretsTypeOK, RowsAreFinal, PairIsWhole, Pub, Priv, IsolateSteps, Ready,
         ConfigKeys, Lazy

LEMMA SecretsStepInv == SecretsInv /\ [SecretsNext]_secretVars => SecretsInv'
<1> SUFFICES ASSUME SecretsInv, [SecretsNext]_secretVars PROVE SecretsInv'
  OBVIOUS
<1> USE DEF SecretsInv, SecretsTypeOK, IsolateSteps, ConfigKeys, Proceed, Ready
<1>1. ASSUME NEW i \in Isolates, NEW k \in Lazy, ReadSecret(i, k) PROVE SecretsInv'
  <2>1. SecretsTypeOK'
    BY <1>1 DEF ReadSecret, Return
  <2>2. RowsAreFinal'
    BY <1>1 DEF RowsAreFinal, ReadSecret, Return, Lazy
  <2>3. (handed.raced \/ PairIsWhole)'
    BY <1>1 DEF PairIsWhole, Pub, Priv, ReadSecret, Return
  <2> QED
    BY <2>1, <2>2, <2>3
<1>2. ASSUME NEW i \in Isolates, InsertSecret(i) PROVE SecretsInv'
  <2>1. SecretsTypeOK'
    BY <1>2 DEF InsertSecret, SetConfig
  <2>2. RowsAreFinal'
    BY <1>2 DEF RowsAreFinal, InsertSecret, SetConfig, Lazy
  <2>3. (handed.raced \/ PairIsWhole)'
    BY <1>2 DEF PairIsWhole, Pub, Priv, InsertSecret, SetConfig, Lazy, VapidKeys
  <2> QED
    BY <2>1, <2>2, <2>3
<1>3. ASSUME NEW i \in Isolates, ReadBack(i) PROVE SecretsInv'
  <2>1. SecretsTypeOK'
    BY <1>3 DEF ReadBack, Return, Final
  <2>2. RowsAreFinal'
    BY <1>3 DEF RowsAreFinal, ReadBack, Return, Final
  <2>3. (handed.raced \/ PairIsWhole)'
    BY <1>3 DEF PairIsWhole, Pub, Priv, ReadBack, Return
  <2> QED
    BY <2>1, <2>2, <2>3
<1>4. ASSUME NEW i \in Isolates, ReadVapid(i) PROVE SecretsInv'
  <2>1. SecretsTypeOK'
    BY <1>4 DEF ReadVapid, VapidKeys
  <2>2. RowsAreFinal'
    BY <1>4 DEF RowsAreFinal, ReadVapid
  <2>3. (handed.raced \/ PairIsWhole)'
    BY <1>4 DEF PairIsWhole, Pub, Priv, ReadVapid
  <2> QED
    BY <2>1, <2>2, <2>3
<1>5. ASSUME NEW i \in Isolates, ReadOtherHalf(i) PROVE SecretsInv'
  <2>1. SecretsTypeOK'
    BY <1>5 DEF ReadOtherHalf, VapidKeys
  <2>2. RowsAreFinal'
    BY <1>5 DEF RowsAreFinal, ReadOtherHalf
  <2>3. (handed.raced \/ PairIsWhole)'
    BY <1>5 DEF PairIsWhole, Pub, Priv, ReadOtherHalf, Present, VapidKeys
  <2> QED
    BY <2>1, <2>2, <2>3
<1>6. ASSUME NEW i \in Isolates, WritePublic(i) PROVE SecretsInv'
  <2>1. SecretsTypeOK'
    BY <1>6, ZenonT(60) DEF WritePublic, SetConfig
  <2>2. RowsAreFinal'
    BY <1>6 DEF RowsAreFinal, WritePublic, SetConfig, Lazy
  <2>3. (handed.raced \/ PairIsWhole)'
    BY <1>6, ZenonT(60) DEF PairIsWhole, Pub, Priv, WritePublic, SetConfig, Contended, VapidKeys
  <2> QED
    BY <2>1, <2>2, <2>3
<1>7. ASSUME NEW i \in Isolates, WritePrivate(i) PROVE SecretsInv'
  <2>1. SecretsTypeOK'
    <3>1. isolates[i].value \in Nat \ {0}
      BY <1>7 DEF WritePrivate
    <3>2. handed.pairs \cup {<<isolates[i].value, isolates[i].value>>} \in SUBSET (Nat \X Nat)
      BY <3>1
    <3>3. handed' \in [secret : [Lazy -> SUBSET Nat], pairs : SUBSET (Nat \X Nat), raced : BOOLEAN]
      BY <1>7, <3>2 DEF WritePrivate
    <3> QED
      BY <1>7, <3>1, <3>3 DEF WritePrivate, SetConfig
  <2>2. RowsAreFinal'
    BY <1>7 DEF RowsAreFinal, WritePrivate, SetConfig, Lazy
  <2>3. (handed.raced \/ PairIsWhole)'
    BY <1>7 DEF PairIsWhole, Pub, Priv, WritePrivate, SetConfig, Contended, VapidKeys
  <2> QED
    BY <2>1, <2>2, <2>3
<1>8. ASSUME NEW i \in Isolates, Evict(i) PROVE SecretsInv'
  <2>1. SecretsTypeOK'
    BY <1>8 DEF Evict
  <2>2. RowsAreFinal'
    BY <1>8 DEF RowsAreFinal, Evict
  <2>3. (handed.raced \/ PairIsWhole)'
    BY <1>8 DEF PairIsWhole, Pub, Priv, Evict
  <2> QED
    BY <2>1, <2>2, <2>3
<1>9. CASE UNCHANGED secretVars
  BY <1>9 DEF secretVars, RowsAreFinal, PairIsWhole, Pub, Priv
<1> HIDE DEF SecretsInv
<1> QED
  BY <1>1, <1>2, <1>3, <1>4, <1>5, <1>6, <1>7, <1>8, <1>9 DEF SecretsNext

\* What isolates were handed is what the rows hold.
THEOREM SecretsInvariant == SecretsSpec => []SecretsInv
  BY SecretsInitInv, SecretsStepInv, PTL DEF SecretsSpec

\* Every isolate gets the same secrets and the same whole pair of VAPID keys, however many
\* initialise them at once and wherever they are evicted, unless two raced for the pair
\* (config.ts:27-57, push.ts:22-44).
THEOREM SecretsAreShared == SecretsSpec => []SecretsShared
<1>1. SecretsInv => SecretsShared
  BY DEF SecretsInv, SecretsShared, SecretsAgree, VapidPairStays, RowsAreFinal, PairIsWhole, Pub, Priv
<1> QED
  BY <1>1, SecretsInvariant, PTL

-----------------------------------------------------------------------------
(***************************************************************************)
(* The least and the greatest of a set of numbers.                         *)
(***************************************************************************)
LEMMA LeastOf ==
    ASSUME NEW S \in SUBSET Nat, S # {}
    PROVE  Min(S) \in S /\ \A x \in S : Min(S) <= x
<1>1. PICK n \in S : TRUE
  OBVIOUS
<1> DEFINE Upto == {0..k : k \in S \cap (0..n)}
<1>2. IsWellFoundedOn(StrictSubsetOrdering(0..n), FiniteSubsetsOf(0..n))
  BY FS_StrictSubsetOrderingWellFounded
<1>3. Upto # {} /\ Upto \subseteq FiniteSubsetsOf(0..n)
  <2>1. n \in S \cap (0..n)
    BY <1>1
  <2>2. \A k \in S \cap (0..n) : 0..k \in SUBSET (0..n) /\ IsFiniteSet(0..k)
    BY FS_Interval
  <2> QED
    BY <2>1, <2>2 DEF FiniteSubsetsOf
<1>4. PICK X \in Upto : \A Y \in Upto : <<Y, X>> \notin StrictSubsetOrdering(0..n)
  <2> HIDE DEF Upto
  <2> QED
    BY <1>2, <1>3, WFMin
<1>5. PICK x \in S \cap (0..n) : X = 0..x
  BY <1>4
<1>6. \A y \in S : x <= y
  <2> SUFFICES ASSUME NEW y \in S, y < x PROVE FALSE
    OBVIOUS
  <2>1. y \in S \cap (0..n) /\ 0..y \in SUBSET (0..n) /\ 0..x \in SUBSET (0..n)
    BY <1>5
  <2>2. 0..y \subseteq 0..x /\ 0..y # 0..x
    <3>1. x \in 0..x /\ x \notin 0..y
      OBVIOUS
    <3> QED
      BY <3>1
  <2>3. <<0..y, 0..x>> \in StrictSubsetOrdering(0..n)
    <3> DEFINE lo == 0..y
               hi == 0..x
               all == 0..n
    <3>1. lo \in SUBSET all /\ hi \in SUBSET all /\ lo \subseteq hi /\ lo # hi
      BY <2>1, <2>2
    <3> HIDE DEF lo, hi, all
    <3>2. <<lo, hi>> \in StrictSubsetOrdering(all)
      BY <3>1 DEF StrictSubsetOrdering
    <3> QED
      BY <3>2 DEF lo, hi, all
  <2>4. 0..y \in Upto
    BY <2>1
  <2> QED
    BY <1>4, <1>5, <2>3, <2>4
<1> QED
  BY <1>6 DEF Min

LEMMA GreatestOf ==
    ASSUME NEW S \in SUBSET Nat, S # {}, IsFiniteSet(S)
    PROVE  Max(S) \in S /\ \A x \in S : x <= Max(S)
<1> DEFINE Above(k) == {y \in S : y > k}
           Aboves == {Above(k) : k \in S}
<1>1. IsWellFoundedOn(StrictSubsetOrdering(S), FiniteSubsetsOf(S))
  BY FS_StrictSubsetOrderingWellFounded
<1>2. Aboves # {} /\ Aboves \subseteq FiniteSubsetsOf(S)
  <2>1. \A k \in S : Above(k) \in SUBSET S /\ IsFiniteSet(Above(k))
    BY FS_Subset
  <2> QED
    BY <2>1 DEF FiniteSubsetsOf
<1>3. PICK X \in Aboves : \A Y \in Aboves : <<Y, X>> \notin StrictSubsetOrdering(S)
  <2> HIDE DEF Aboves
  <2> QED
    BY <1>1, <1>2, WFMin
<1>4. PICK x \in S : X = Above(x)
  BY <1>3
<1>5. \A y \in S : x >= y
  <2> SUFFICES ASSUME NEW y \in S, x < y PROVE FALSE
    OBVIOUS
  <2>1. /\ Above(y) \in SUBSET S /\ Above(x) \in SUBSET S
        /\ Above(y) \subseteq Above(x) /\ y \in Above(x) /\ y \notin Above(y)
    <3>1. \A z \in S : z > y => z > x
      OBVIOUS
    <3>2. y > x /\ ~(y > y)
      OBVIOUS
    <3> QED
      BY <3>1, <3>2
  <2>3. Above(y) \in Aboves
    OBVIOUS
  <2>2. <<Above(y), Above(x)>> \in StrictSubsetOrdering(S)
    <3> HIDE DEF Above
    <3> QED
      BY <2>1 DEF StrictSubsetOrdering
  <2> QED
    BY <1>3, <1>4, <2>2, <2>3
<1> QED
  BY <1>5 DEF Max

(***************************************************************************)
(* Polling: every page size, every number of messages.                     *)
(***************************************************************************)
PollingTypeOK ==
    /\ second \in Nat
    /\ IsFiniteSet(DOMAIN rows) /\ DOMAIN rows \subseteq used /\ used \subseteq Ids
    /\ rows \in [DOMAIN rows -> 0..second]

\* The client holds the id of a message it was given.
CursorWasSeen == cursor # 0 => cursor \in seen /\ cursor \in used

PollingInv == PollingTypeOK /\ CursorWasSeen /\ NoGaps

LEMMA PollingInitInv == PollingInit => PollingInv
  BY FS_EmptySet DEF PollingInit, PollingInv, PollingTypeOK, CursorWasSeen, NoGaps

\* Messages are ordered by second and id.
LEMMA OrderOfRows ==
    ASSUME PollingTypeOK, NEW i \in DOMAIN rows, NEW j \in DOMAIN rows
    PROVE  /\ ~Precedes(rows, i, i)
           /\ i = j \/ Precedes(rows, i, j) \/ Precedes(rows, j, i)
           /\ \A k \in DOMAIN rows : Precedes(rows, i, j) /\ Precedes(rows, j, k) => Precedes(rows, i, k)
  BY PollingAssumption DEF PollingTypeOK, Precedes

\* A page has with a message every earlier one of the set it is a page of.
LEMMA PagesAreClosed ==
    ASSUME PollingTypeOK, NEW S \in SUBSET DOMAIN rows, NEW i \in S, NEW j \in Oldest(S), Precedes(rows, i, j)
    PROVE  i \in Oldest(S)
<1> DEFINE Below(k) == {l \in S : Precedes(rows, l, k)}
<1>1. IsFiniteSet(Below(j)) /\ Below(i) \in SUBSET Below(j)
  <2>1. IsFiniteSet(DOMAIN rows) /\ Below(j) \in SUBSET DOMAIN rows
    BY DEF PollingTypeOK
  <2>2. j \in S
    BY DEF Oldest, FirstOf
  <2> QED
    BY <2>1, <2>2, OrderOfRows, FS_Subset
<1>2. Cardinality(Below(i)) \in Nat /\ Cardinality(Below(j)) \in Nat /\ Cardinality(Below(i)) <= Cardinality(Below(j))
  BY <1>1, FS_Subset, FS_CardinalityType
<1>3. Cardinality(Below(j)) < PageSize
  BY DEF Oldest, FirstOf
<1>4. Cardinality(Below(i)) < PageSize
  BY <1>2, <1>3, PollingAssumption
<1> QED
  BY <1>4 DEF Oldest, FirstOf

\* The next cursor is a message of the page.
LEMMA LatestOfPage ==
    ASSUME PollingTypeOK, NEW page \in SUBSET DOMAIN rows, page # {}
    PROVE  Min(Latest(page)) \in page /\ Max(Latest(page)) \in page
<1>1. IsFiniteSet(page)
  BY FS_Subset DEF PollingTypeOK
<1>2. page \subseteq Nat /\ \A i \in page : rows[i] \in Nat /\ rows[i] <= second
  BY PollingAssumption DEF PollingTypeOK
<1>3. Latest(page) # {} /\ Latest(page) \subseteq page
  <2> DEFINE Seconds == {rows[i] : i \in page}
  <2>1. Seconds \in SUBSET Nat /\ Seconds # {} /\ IsFiniteSet(Seconds)
    BY <1>2, FS_BoundedSetOfNaturals DEF PollingTypeOK
  <2>2. PICK i \in page : rows[i] = Max(Seconds)
    BY <2>1, GreatestOf DEF PollingTypeOK
  <2>3. \A j \in page : rows[j] <= rows[i]
    BY <2>1, <2>2, GreatestOf DEF PollingTypeOK
  <2> QED
    BY <2>3 DEF Latest
<1>4. IsFiniteSet(Latest(page))
  BY <1>1, <1>3, FS_Subset
<1> QED
  BY <1>2, <1>3, <1>4, LeastOf, GreatestOf

LEMMA PollingStepInv == PollingInv /\ [PollingNext]_pollVars => PollingInv'
<1> SUFFICES ASSUME PollingInv, [PollingNext]_pollVars PROVE PollingInv'
  OBVIOUS
<1> USE PollingAssumption DEF PollingInv
<1>1. CASE Clock
  BY <1>1 DEF Clock, PollingTypeOK, CursorWasSeen, NoGaps, Precedes
<1>2. CASE PollFresh
  <2> DEFINE page == Newest(DOMAIN rows)
  <2>1. page \in SUBSET DOMAIN rows
    BY DEF Newest, FirstOf
  <2>2. /\ UNCHANGED <<second, rows, used>> /\ seen' = seen \cup page
        /\ excused' = excused \cup (DOMAIN rows \ page)
        /\ cursor' = IF page = {} THEN 0 ELSE Max(Latest(page))
    BY <1>2 DEF PollFresh
  <2>3. PollingTypeOK'
    BY <2>2 DEF PollingTypeOK
  <2>4. cursor' = 0 \/ cursor' \in page
    BY <2>1, <2>2, LatestOfPage
  <2> HIDE DEF page
  <2>5. CursorWasSeen'
    BY <2>1, <2>2, <2>4 DEF CursorWasSeen, PollingTypeOK
  <2>6. NoGaps'
    BY <2>2 DEF NoGaps
  <2> QED
    BY <2>3, <2>5, <2>6
<1>3. CASE PollAfter
  <2> DEFINE page == Oldest(After(cursor))
  <2>1. After(cursor) \in SUBSET DOMAIN rows /\ page \in SUBSET After(cursor)
    BY DEF Oldest, FirstOf, After
  <2>2. /\ UNCHANGED <<second, rows, used, excused>> /\ seen' = seen \cup page
        /\ cursor \in DOMAIN rows
        /\ cursor' = IF page = {} THEN cursor ELSE Min(Latest(page))
    BY <1>3 DEF PollAfter, NextCursor
  <2>3. PollingTypeOK'
    BY <2>2 DEF PollingTypeOK
  <2>4. cursor' = cursor \/ cursor' \in page
    BY <2>1, <2>2, LatestOfPage
  <2>5. CursorWasSeen'
    BY <2>1, <2>2, <2>4 DEF CursorWasSeen, PollingTypeOK
  <2>6. ASSUME NEW i \in DOMAIN rows, Precedes(rows, i, cursor'), cursor' \in page
        PROVE  i \in seen' \cup excused'
    <3>1. CASE i \in After(cursor)
      BY <2>1, <2>2, <2>6, <3>1, PagesAreClosed
    <3>2. CASE i = cursor
      BY <2>2, <3>2 DEF CursorWasSeen, PollingTypeOK
    <3>3. CASE Precedes(rows, i, cursor)
      BY <2>2, <3>3 DEF NoGaps
    <3> QED
      BY <2>2, <3>1, <3>2, <3>3, OrderOfRows DEF After
  <2>7. NoGaps'
    <3>1. CASE cursor' = cursor
      BY <2>2, <3>1 DEF NoGaps
    <3>2. CASE cursor' \in page
      BY <2>2, <2>6, <3>2 DEF NoGaps
    <3> QED
      BY <2>4, <3>1, <3>2
  <2> QED
    BY <2>3, <2>5, <2>7
<1>4. CASE PollUnknown
  BY <1>4 DEF PollUnknown, PollingTypeOK, CursorWasSeen, NoGaps
<1>5. ASSUME NEW i \in Ids, Arrive(i) PROVE PollingInv'
  <2>1. PollingTypeOK'
    <3>1. second' \in Nat /\ DOMAIN rows' \subseteq used' /\ used' \subseteq Ids
      BY <1>5 DEF Arrive, PollingTypeOK
    <3>2. IsFiniteSet(DOMAIN rows')
      BY <1>5, FS_AddElement DEF Arrive, PollingTypeOK
    <3>3. rows' \in [DOMAIN rows' -> 0..second']
      BY <1>5 DEF Arrive, PollingTypeOK
    <3> QED
      BY <3>1, <3>2, <3>3 DEF PollingTypeOK
  <2>2. CursorWasSeen'
    BY <1>5 DEF Arrive, CursorWasSeen
  <2>3. NoGaps'
    <3>1. cursor # i
      BY <1>5 DEF Arrive, CursorWasSeen
    <3>2. \A j \in DOMAIN rows : rows'[j] = rows[j]
      BY <1>5 DEF Arrive, PollingTypeOK
    <3> QED
      BY <1>5, <3>1, <3>2 DEF Arrive, NoGaps, Precedes
  <2> QED
    BY <2>1, <2>2, <2>3
<1>6. ASSUME NEW i \in Ids, Delete(i) PROVE PollingInv'
  <2>1. PollingTypeOK'
    <3>1. IsFiniteSet(DOMAIN rows')
      BY <1>6, FS_RemoveElement DEF Delete, PollingTypeOK
    <3> QED
      BY <1>6, <3>1 DEF Delete, PollingTypeOK
  <2> QED
    BY <1>6, <2>1 DEF Delete, CursorWasSeen, NoGaps, Precedes
<1>7. CASE UNCHANGED pollVars
  BY <1>7 DEF pollVars, PollingTypeOK, CursorWasSeen, NoGaps
<1> HIDE DEF PollingInv
<1> QED
  BY <1>1, <1>2, <1>3, <1>4, <1>5, <1>6, <1>7 DEF PollingNext

\* The rows, the client's cursor and its open page keep to their types, and all the client was
\* to get below its cursor it got (svc.ts:79-160).
THEOREM PollingInvariant == PollingSpec => []PollingInv
<1> QED
  BY PollingInitInv, PollingStepInv, PTL DEF PollingSpec

\* A polling client has been given every message its cursor has passed, but for the excused: for
\* every page size and number of messages, however arrivals and deletions fall (svc.ts:79-160).
THEOREM PollingLeavesNoGaps == PollingSpec => []NoGaps
<1>1. PollingInv => NoGaps
  BY DEF PollingInv
<1> QED
  BY <1>1, PollingInvariant, PTL

-----------------------------------------------------------------------------
(***************************************************************************)
(* Addresses: every number of addresses, mailboxes and requests.           *)
(***************************************************************************)
MailboxRows == [local : LocalParts, kind : Kinds, doomed : BOOLEAN]

AddressesTypeOK ==
    /\ created \in Nat /\ DOMAIN mailboxes \subseteq 1..created
    /\ mailboxes \in [DOMAIN mailboxes -> MailboxRows]
    /\ redirects \in [DOMAIN redirects -> DOMAIN mailboxes]
    /\ workers = [w \in Workers |-> workers[w]]
    /\ notes = [handed |-> notes.handed, cleared |-> notes.cleared,
                shadowed |-> notes.shadowed, swallowed |-> notes.swallowed]

\* A handover has put its redirect in place before it marks the mailbox.
HandoversKeepRedirects ==
    /\ notes.handed \subseteq DOMAIN redirects \cup notes.cleared
    /\ \A w \in Workers : workers[w].pc = "mark" /\ workers[w].target # 0 =>
          workers[w].local \in DOMAIN redirects \cup notes.cleared

\* The clash was looked for where the redirect is going to be.
ChecksStand ==
    \A w \in Workers : workers[w].pc = "redirect" /\ workers[w].op = "create" =>
        workers[w].local \in notes.shadowed \/ LiveAt(workers[w].local) = {}

RoutedToLive ==
    ~notes.swallowed /\ \A w \in Workers : workers[w].pc = "store" => ~workers[w].doomed

AddressesInv ==
    AddressesTypeOK /\ HandoversKeepRedirects /\ ChecksStand /\ RedirectsCanFire /\ RoutedToLive

LEMMA AddressesInitInv == AddressesInit => AddressesInv
  BY DEF AddressesInit, AddressesInv, AddressesTypeOK, HandoversKeepRedirects, ChecksStand,
     RedirectsCanFire, RoutedToLive, AtRest

LEMMA AddressesStepInv == AddressesInv /\ [AddressesNext]_addressVars => AddressesInv'
<1> SUFFICES ASSUME AddressesInv, [AddressesNext]_addressVars PROVE AddressesInv'
  OBVIOUS
<1> USE AddressesAssumption DEF AddressesInv
<1>1. ASSUME NEW a \in LocalParts, NEW kind \in Kinds, Create(a, kind)
      PROVE AddressesInv'
  <2>1. AddressesTypeOK'
    <3>1. created' \in Nat /\ DOMAIN mailboxes' \subseteq 1..created'
      BY <1>1 DEF AddressesTypeOK, Create
    <3>2. mailboxes' \in [DOMAIN mailboxes' -> MailboxRows] /\ DOMAIN mailboxes \subseteq DOMAIN mailboxes'
      <4>1. [local |-> a, kind |-> kind, doomed |-> FALSE] \in MailboxRows
        BY <1>1 DEF MailboxRows
      <4> QED
        BY <1>1, <4>1 DEF AddressesTypeOK, Create
    <3>3. redirects' \in [DOMAIN redirects' -> DOMAIN mailboxes']
      BY <1>1, <3>2 DEF AddressesTypeOK, Create
    <3>4. /\ workers' = [u \in Workers |-> workers'[u]]
          /\ notes' = [handed |-> notes'.handed, cleared |-> notes'.cleared,
                       shadowed |-> notes'.shadowed, swallowed |-> notes'.swallowed]
      BY <1>1 DEF AddressesTypeOK, Create
    <3> QED
      BY <3>1, <3>2, <3>3, <3>4 DEF AddressesTypeOK
  <2>2. HandoversKeepRedirects'
    BY <1>1 DEF AddressesTypeOK, HandoversKeepRedirects, Create
  <2>3. ChecksStand'
    BY <1>1 DEF AddressesTypeOK, MailboxRows, ChecksStand, LiveAt, Create
  <2>4. RedirectsCanFire'
    BY <1>1 DEF AddressesTypeOK, MailboxRows, ChecksStand, RedirectsCanFire, LiveAt, Create
  <2>5. RoutedToLive'
    BY <1>1 DEF AddressesTypeOK, RoutedToLive, LiveAt, Create
  <2> QED
    BY <2>1, <2>2, <2>3, <2>4, <2>5
<1>2. ASSUME NEW w \in Workers, NEW a \in Aliases, NEW m \in 1..MaxMailboxes, CheckRedirect(w, a, m)
      PROVE AddressesInv'
  <2>1. AddressesTypeOK'
    BY <1>2 DEF AddressesTypeOK, MailboxRows, CheckRedirect, MayReceive, Clash, AtRest, Does
  <2>2. HandoversKeepRedirects'
    BY <1>2 DEF AddressesTypeOK, HandoversKeepRedirects, CheckRedirect, MayReceive, Clash, AtRest, Does
  <2>3. ChecksStand'
    BY <1>2 DEF AddressesTypeOK, MailboxRows, ChecksStand, LiveAt, CheckRedirect, MayReceive, Clash, AtRest, Does
  <2>4. RedirectsCanFire'
    BY <1>2 DEF AddressesTypeOK, MailboxRows, ChecksStand, RedirectsCanFire, LiveAt, CheckRedirect, MayReceive, Clash, AtRest, Does
  <2>5. RoutedToLive'
    BY <1>2 DEF AddressesTypeOK, RoutedToLive, LiveAt, CheckRedirect, MayReceive, Clash, AtRest, Does
  <2> QED
    BY <2>1, <2>2, <2>3, <2>4, <2>5
<1>3. ASSUME NEW w \in Workers, UpsertRedirect(w)
      PROVE AddressesInv'
  <2>1. AddressesTypeOK'
    BY <1>3 DEF AddressesTypeOK, MailboxRows, UpsertRedirect, Points, Rests, Does, AtRest
  <2>2. HandoversKeepRedirects'
    BY <1>3 DEF AddressesTypeOK, HandoversKeepRedirects, UpsertRedirect, Points, Rests, Does, AtRest
  <2>3. ChecksStand'
    BY <1>3 DEF AddressesTypeOK, MailboxRows, ChecksStand, LiveAt, UpsertRedirect, Points, Rests, Does, AtRest
  <2>4. RedirectsCanFire'
    BY <1>3 DEF AddressesTypeOK, MailboxRows, ChecksStand, RedirectsCanFire, LiveAt, UpsertRedirect, Points, Rests, Does, AtRest
  <2>5. RoutedToLive'
    BY <1>3 DEF AddressesTypeOK, RoutedToLive, LiveAt, UpsertRedirect, Points, Rests, Does, AtRest
  <2> QED
    BY <2>1, <2>2, <2>3, <2>4, <2>5
<1>4. ASSUME NEW a, NEW m, Retarget(a, m)
      PROVE AddressesInv'
  <2>1. AddressesTypeOK'
    BY <1>4 DEF AddressesTypeOK, MailboxRows, Retarget, Points, MayReceive
  <2>2. HandoversKeepRedirects'
    BY <1>4 DEF AddressesTypeOK, HandoversKeepRedirects, Retarget, Points, MayReceive
  <2>3. ChecksStand'
    BY <1>4 DEF AddressesTypeOK, MailboxRows, ChecksStand, LiveAt, Retarget, Points, MayReceive
  <2>4. RedirectsCanFire'
    BY <1>4 DEF AddressesTypeOK, MailboxRows, ChecksStand, RedirectsCanFire, LiveAt, Retarget, Points, MayReceive
  <2>5. RoutedToLive'
    BY <1>4 DEF AddressesTypeOK, RoutedToLive, LiveAt, Retarget, Points, MayReceive
  <2> QED
    BY <2>1, <2>2, <2>3, <2>4, <2>5
<1>5. ASSUME NEW a, DeleteRedirect(a)
      PROVE AddressesInv'
  <2>1. AddressesTypeOK'
    BY <1>5 DEF AddressesTypeOK, MailboxRows, DeleteRedirect
  <2>2. HandoversKeepRedirects'
    BY <1>5 DEF AddressesTypeOK, HandoversKeepRedirects, DeleteRedirect
  <2>3. ChecksStand'
    BY <1>5 DEF AddressesTypeOK, MailboxRows, ChecksStand, LiveAt, DeleteRedirect
  <2>4. RedirectsCanFire'
    BY <1>5 DEF AddressesTypeOK, MailboxRows, ChecksStand, RedirectsCanFire, LiveAt, DeleteRedirect
  <2>5. RoutedToLive'
    BY <1>5 DEF AddressesTypeOK, RoutedToLive, LiveAt, DeleteRedirect
  <2> QED
    BY <2>1, <2>2, <2>3, <2>4, <2>5
<1>6. ASSUME NEW w \in Workers, NEW m \in 1..MaxMailboxes, NEW target \in 0..MaxMailboxes, RequestDelete(w, m, target)
      PROVE AddressesInv'
  <2>1. AddressesTypeOK'
    BY <1>6 DEF AddressesTypeOK, MailboxRows, RequestDelete, Deletion, Handover, Does
  <2>2. HandoversKeepRedirects'
    BY <1>6 DEF AddressesTypeOK, HandoversKeepRedirects, RequestDelete, Deletion, Handover, Does
  <2>3. ChecksStand'
    BY <1>6 DEF AddressesTypeOK, MailboxRows, ChecksStand, LiveAt, RequestDelete, Deletion, Handover, Does
  <2>4. RedirectsCanFire'
    BY <1>6 DEF AddressesTypeOK, MailboxRows, ChecksStand, RedirectsCanFire, LiveAt, RequestDelete, Deletion, Handover, Does
  <2>5. RoutedToLive'
    BY <1>6 DEF AddressesTypeOK, RoutedToLive, LiveAt, RequestDelete, Deletion, Handover, Does
  <2> QED
    BY <2>1, <2>2, <2>3, <2>4, <2>5
<1>7. ASSUME NEW w \in Workers, InsertRedirect(w)
      PROVE AddressesInv'
  <2> DEFINE me == workers[w]
  <2>0. /\ UNCHANGED <<mailboxes, created>>
        /\ \/ /\ UNCHANGED <<redirects, notes>> /\ workers' = [workers EXCEPT ![w] = AtRest]
           \/ /\ redirects' = [b \in DOMAIN redirects \cup {me.local} |->
                                  IF b = me.local THEN me.target ELSE redirects[b]]
              /\ \/ workers' = [workers EXCEPT ![w] = AtRest]
                 \/ workers' = [workers EXCEPT ![w] = Deletion("mark", me.mailbox, me.target, me.local)]
              /\ me.target \in DOMAIN mailboxes
              /\ notes' = [notes EXCEPT !.shadowed = @ \cup {me.local}, !.cleared = @ \ {me.local}]
    BY <1>7 DEF InsertRedirect, Points, AfterStep, Handover, Rests, Does
  <2>1. AddressesTypeOK'
    BY <1>7, <2>0 DEF AddressesTypeOK, Deletion, AtRest
  <2>A. /\ notes'.handed = notes.handed /\ notes'.swallowed = notes.swallowed
        /\ \/ notes'.shadowed = notes.shadowed /\ notes'.cleared = notes.cleared /\ redirects' = redirects
           \/ /\ notes'.shadowed = notes.shadowed \cup {me.local}
              /\ notes'.cleared = notes.cleared \ {me.local}
              /\ DOMAIN redirects' = DOMAIN redirects \cup {me.local}
    BY <2>0 DEF AddressesTypeOK
  <2>a. /\ \A b : LiveAt(b)' = LiveAt(b)
        /\ notes'.handed = notes.handed /\ notes'.swallowed = notes.swallowed
        /\ notes.shadowed \subseteq notes'.shadowed
        /\ DOMAIN redirects \subseteq DOMAIN redirects'
    BY <2>0, <2>A DEF LiveAt
  <2>b. DOMAIN redirects \cup notes.cleared \subseteq DOMAIN redirects' \cup notes'.cleared
    BY <2>A
  <2>c. DOMAIN redirects' \ notes'.shadowed \subseteq DOMAIN redirects \ notes.shadowed
    BY <2>A
  <2>d. \A u \in Workers : \/ workers'[u] = workers[u] \/ workers'[u] = AtRest
                            \/ /\ workers'[u] = Deletion("mark", me.mailbox, me.target, me.local)
                               /\ me.local \in DOMAIN redirects'
    BY <2>0 DEF AddressesTypeOK
  <2> HIDE DEF me
  <2>2. HandoversKeepRedirects'
    BY <2>a, <2>b, <2>d DEF HandoversKeepRedirects, Deletion, AtRest
  <2>3. ChecksStand'
    BY <2>a, <2>d DEF ChecksStand, Deletion, AtRest
  <2>4. RedirectsCanFire'
    BY <2>a, <2>c DEF RedirectsCanFire
  <2>5. RoutedToLive'
    BY <2>a, <2>d DEF RoutedToLive, Deletion, AtRest
  <2> QED
    BY <2>1, <2>2, <2>3, <2>4, <2>5
<1>8. ASSUME NEW w \in Workers, MarkDelete(w)
      PROVE AddressesInv'
  <2>1. AddressesTypeOK'
    BY <1>8 DEF AddressesTypeOK, MailboxRows, MarkDelete, AfterStep, Deletion, Handover, Rests, Does, AtRest
  <2>2. HandoversKeepRedirects'
    BY <1>8 DEF AddressesTypeOK, HandoversKeepRedirects, MarkDelete, AfterStep, Deletion, Handover, Rests, Does, AtRest
  <2>3. ChecksStand'
    <3>1. \A b : LiveAt(b)' \subseteq LiveAt(b)
      BY <1>8 DEF AddressesTypeOK, MailboxRows, LiveAt, MarkDelete
    <3>2. notes'.shadowed = notes.shadowed
      BY <1>8 DEF AddressesTypeOK, MarkDelete
    <3>3. \A u \in Workers : workers'[u].pc = "redirect" => workers'[u] = workers[u]
      BY <1>8 DEF AddressesTypeOK, MarkDelete, AfterStep, Deletion, Handover, Rests, Does, AtRest
    <3> QED
      BY <3>1, <3>2, <3>3 DEF ChecksStand
  <2>4. RedirectsCanFire'
    BY <1>8 DEF AddressesTypeOK, MailboxRows, ChecksStand, RedirectsCanFire, LiveAt, MarkDelete, AfterStep, Deletion, Handover, Rests, Does, AtRest
  <2>5. RoutedToLive'
    BY <1>8 DEF AddressesTypeOK, RoutedToLive, LiveAt, MarkDelete, AfterStep, Deletion, Handover, Rests, Does, AtRest
  <2> QED
    BY <2>1, <2>2, <2>3, <2>4, <2>5
<1>9. ASSUME NEW m, Discard(m)
      PROVE AddressesInv'
  <2>1. AddressesTypeOK'
    BY <1>9 DEF AddressesTypeOK, MailboxRows, Discard, Doomed
  <2>2. HandoversKeepRedirects'
    BY <1>9 DEF AddressesTypeOK, HandoversKeepRedirects, Discard, Doomed
  <2>3. ChecksStand'
    BY <1>9 DEF AddressesTypeOK, MailboxRows, ChecksStand, LiveAt, Discard, Doomed
  <2>4. RedirectsCanFire'
    BY <1>9 DEF AddressesTypeOK, MailboxRows, ChecksStand, RedirectsCanFire, LiveAt, Discard, Doomed
  <2>5. RoutedToLive'
    BY <1>9 DEF AddressesTypeOK, RoutedToLive, LiveAt, Discard, Doomed
  <2> QED
    BY <2>1, <2>2, <2>3, <2>4, <2>5
<1>10. ASSUME NEW w \in Workers, NEW a \in LocalParts, Receive(w, a)
      PROVE AddressesInv'
  <2>1. AddressesTypeOK'
    BY <1>10 DEF AddressesTypeOK, MailboxRows, Receive, Direct, Doomed, Does
  <2>2. HandoversKeepRedirects'
    BY <1>10 DEF AddressesTypeOK, HandoversKeepRedirects, Receive, Direct, Doomed, Does
  <2>3. ChecksStand'
    BY <1>10 DEF AddressesTypeOK, MailboxRows, ChecksStand, LiveAt, Receive, Direct, Doomed, Does
  <2>4. RedirectsCanFire'
    BY <1>10 DEF AddressesTypeOK, MailboxRows, ChecksStand, RedirectsCanFire, LiveAt, Receive, Direct, Doomed, Does
  <2>5. RoutedToLive'
    <3>1. \A m \in Direct(a) : m \notin Doomed
      BY DEF Direct, LiveAt, Doomed
    <3>2. CASE Direct(a) = {} /\ Does(w, [pc |-> "fallback", local |-> a])
      BY <1>10, <3>2 DEF AddressesTypeOK, RoutedToLive, Receive, Does
    <3>3. ASSUME NEW m \in Direct(a), Does(w, [pc |-> "store", mailbox |-> m, doomed |-> m \in Doomed])
          PROVE  RoutedToLive'
      <4>1. workers'[w].doomed = FALSE
        <5> DEFINE d == m \in Doomed
        <5>1. d = FALSE
          BY <3>1
        <5>2. Does(w, [pc |-> "store", mailbox |-> m, doomed |-> d])
          BY <3>3
        <5> HIDE DEF d
        <5> QED
          BY <5>1, <5>2 DEF AddressesTypeOK, Does
      <4>2. notes' = notes /\ \A u \in Workers \ {w} : workers'[u] = workers[u]
        BY <1>10, <3>3 DEF AddressesTypeOK, Receive, Does
      <4> QED
        BY <4>1, <4>2 DEF RoutedToLive
    <3> QED
      BY <1>10, <3>2, <3>3 DEF Receive
  <2> QED
    BY <2>1, <2>2, <2>3, <2>4, <2>5
<1>11. ASSUME NEW w \in Workers, Fallback(w)
      PROVE AddressesInv'
  <2>1. AddressesTypeOK'
    BY <1>11 DEF AddressesTypeOK, MailboxRows, Fallback, Rests, Does, AtRest
  <2>2. HandoversKeepRedirects'
    BY <1>11 DEF AddressesTypeOK, HandoversKeepRedirects, Fallback, Rests, Does, AtRest
  <2>3. ChecksStand'
    BY <1>11 DEF AddressesTypeOK, MailboxRows, ChecksStand, LiveAt, Fallback, Rests, Does, AtRest
  <2>4. RedirectsCanFire'
    BY <1>11 DEF AddressesTypeOK, MailboxRows, ChecksStand, RedirectsCanFire, LiveAt, Fallback, Rests, Does, AtRest
  <2>5. RoutedToLive'
    BY <1>11 DEF AddressesTypeOK, RoutedToLive, LiveAt, Fallback, Rests, Does, AtRest
  <2> QED
    BY <2>1, <2>2, <2>3, <2>4, <2>5
<1>12. ASSUME NEW w \in Workers, Store(w)
      PROVE AddressesInv'
  <2>1. AddressesTypeOK'
    BY <1>12 DEF AddressesTypeOK, MailboxRows, Store, Rests, Does, AtRest
  <2>2. HandoversKeepRedirects'
    BY <1>12 DEF AddressesTypeOK, HandoversKeepRedirects, Store, Rests, Does, AtRest
  <2>3. ChecksStand'
    BY <1>12 DEF AddressesTypeOK, MailboxRows, ChecksStand, LiveAt, Store, Rests, Does, AtRest
  <2>4. RedirectsCanFire'
    BY <1>12 DEF AddressesTypeOK, MailboxRows, ChecksStand, RedirectsCanFire, LiveAt, Store, Rests, Does, AtRest
  <2>5. RoutedToLive'
    BY <1>12 DEF AddressesTypeOK, RoutedToLive, LiveAt, Store, Rests, Does, AtRest
  <2> QED
    BY <2>1, <2>2, <2>3, <2>4, <2>5
<1>13. ASSUME NEW w \in Workers, Perish(w)
      PROVE AddressesInv'
  <2>1. AddressesTypeOK'
    BY <1>13 DEF AddressesTypeOK, MailboxRows, Perish, Rests, Does, AtRest
  <2>2. HandoversKeepRedirects'
    BY <1>13 DEF AddressesTypeOK, HandoversKeepRedirects, Perish, Rests, Does, AtRest
  <2>3. ChecksStand'
    BY <1>13 DEF AddressesTypeOK, MailboxRows, ChecksStand, LiveAt, Perish, Rests, Does, AtRest
  <2>4. RedirectsCanFire'
    BY <1>13 DEF AddressesTypeOK, MailboxRows, ChecksStand, RedirectsCanFire, LiveAt, Perish, Rests, Does, AtRest
  <2>5. RoutedToLive'
    BY <1>13 DEF AddressesTypeOK, RoutedToLive, LiveAt, Perish, Rests, Does, AtRest
  <2> QED
    BY <2>1, <2>2, <2>3, <2>4, <2>5
<1>14. CASE UNCHANGED addressVars
  BY <1>14 DEF addressVars, AddressesTypeOK, HandoversKeepRedirects, ChecksStand, RedirectsCanFire,
     RoutedToLive, LiveAt
<1> HIDE DEF AddressesInv
<1> QED
  BY <1>1, <1>2, <1>3, <1>4, <1>5, <1>6, <1>7, <1>8, <1>9, <1>10, <1>11, <1>12, <1>13, <1>14 DEF AddressesNext

\* The rows, the requests in flight and the history keep to their types, every redirect leads to
\* a mailbox there is, and each request knows what its checks found (admin.ts:260-280, 470-495,
\* receive.ts:68-115).
THEOREM AddressesInvariant == AddressesSpec => []AddressesInv
<1> QED
  BY AddressesInitInv, AddressesStepInv, PTL DEF AddressesSpec

\* Mail to an address finds the mailbox or the redirect it should at every moment, for any number
\* of addresses, mailboxes and of requests and deliveries that meet (admin.ts:266-278, 473-493,
\* receive.ts:68-115).
THEOREM MailAlwaysFindsItsWay == AddressesSpec => []MailFindsItsWay
<1>1. AddressesInv => MailFindsItsWay
  BY DEF AddressesInv, HandoversKeepRedirects, RoutedToLive, MailFindsItsWay, HandedOverStillReceives,
     MarkedMailboxesRefuse
<1> QED
  BY <1>1, AddressesInvariant, PTL

-----------------------------------------------------------------------------
(***************************************************************************)
(* Reminders: every number of reminders and of overlapping invocations.    *)
(***************************************************************************)
ReminderRows == [kind : {"manual", "follow_up"}, status : {"pending", "done", "cancelled", "fired"}, at : Nat]
Stories == [armed : Nat, notified : Nat, wanted : BOOLEAN, overtaken : BOOLEAN, shared : BOOLEAN]

RemindersTypeOK ==
    /\ time \in Nat
    /\ DOMAIN reminders \subseteq Reminds /\ reminders \in [DOMAIN reminders -> ReminderRows]
    /\ ticks = [t \in Ticks |-> ticks[t]]
    /\ \A t \in Ticks : /\ DOMAIN ticks[t] \subseteq Reminds
                        /\ \A r \in DOMAIN ticks[t] : ticks[t][r] \in {"mark", "notify"}
    /\ story \in [Reminds -> Stories]

Undisturbed(r) == ~story[r].overtaken

\* What the story of a reminder tells of its row and of the invocations that hold it.
RowsTellStories == \A r \in Reminds :
    /\ r \in DOMAIN reminders \/ Held(r) => story[r].armed > 0
    /\ r \in DOMAIN reminders /\ reminders[r].status = "pending" => story[r].wanted
    /\ story[r].wanted => r \in DOMAIN reminders
    /\ story[r].wanted /\ Undisturbed(r) =>
          \/ reminders[r].status = "pending"
          \/ reminders[r].status = "fired" /\ reminders[r].at <= time

\* An invocation holds what was due, alone unless noted, and marks it before it notifies.
HoldersKnow == \A r \in Reminds, t \in Ticks : r \in DOMAIN ticks[t] =>
    /\ story[r].wanted \/ story[r].overtaken
    /\ Undisturbed(r) /\ r \in DOMAIN reminders => reminders[r].at <= time
    /\ Undisturbed(r) /\ ticks[t][r] = "notify" /\ r \in DOMAIN reminders => reminders[r].status # "pending"
    /\ \A u \in Ticks \ {t} : r \in DOMAIN ticks[u] => story[r].shared

\* Once notified it is out of the invocations' hands until it is set again.
NotifiedIsOver == \A r \in Reminds : Undisturbed(r) /\ ~story[r].shared =>
    \/ story[r].notified = 0
    \/ /\ story[r].notified = 1 /\ ~Held(r)
       /\ r \in DOMAIN reminders => reminders[r].status # "pending"

RemindersInv == RemindersTypeOK /\ RowsTellStories /\ HoldersKnow /\ NotifiedIsOver

LEMMA RemindersInitInv == RemindersInit => RemindersInv
  BY RemindersAssumption DEF RemindersInit, RemindersInv, RemindersTypeOK, RowsTellStories, HoldersKnow, NotifiedIsOver, Held, Untold,
     Stories

\* What setting and dropping a reminder write into its story.
LEMMA ArmedStory ==
    ASSUME RemindersTypeOK, NEW r \in Reminds
    PROVE  /\ Armed(r) \in Stories
           /\ Armed(r).armed > 0 /\ Armed(r).notified = 0 /\ Armed(r).wanted
           /\ Armed(r).overtaken = (story[r].overtaken \/ Held(r)) /\ Armed(r).shared = story[r].shared
<1>1. /\ story[r].armed \in Nat /\ story[r].overtaken \in BOOLEAN /\ story[r].shared \in BOOLEAN
      /\ Overtake(r) \in BOOLEAN /\ Overtake(r) = (story[r].overtaken \/ Held(r))
  BY DEF RemindersTypeOK, Stories, Overtake
<1> QED
  BY <1>1 DEF Stories, Armed

LEMMA DroppedStory ==
    ASSUME RemindersTypeOK, NEW r \in Reminds
    PROVE  /\ Dropped(r) \in Stories
           /\ Dropped(r).armed = story[r].armed /\ Dropped(r).notified = story[r].notified /\ ~Dropped(r).wanted
           /\ Dropped(r).overtaken = (story[r].overtaken \/ Held(r)) /\ Dropped(r).shared = story[r].shared
<1>1. story[r] \in Stories /\ Overtake(r) \in BOOLEAN /\ Overtake(r) = (story[r].overtaken \/ Held(r))
  BY DEF RemindersTypeOK, Stories, Overtake
<1> QED
  BY <1>1 DEF Stories, Dropped

LEMMA RemindersStepInv == RemindersInv /\ [RemindersNext]_remindVars => RemindersInv'
<1> SUFFICES ASSUME RemindersInv, [RemindersNext]_remindVars PROVE RemindersInv'
  OBVIOUS
<1> USE RemindersAssumption DEF RemindersInv, RemindersTypeOK, ReminderRows, Undisturbed, Held
<1>1. CASE Pass
  <2>1. RemindersTypeOK'
    BY <1>1 DEF Pass, Stories
  <2>2. RowsTellStories'
    BY <1>1 DEF RowsTellStories, HoldersKnow, Pass, Stories
  <2>3. HoldersKnow'
    BY <1>1 DEF RowsTellStories, HoldersKnow, Pass, Stories
  <2>4. NotifiedIsOver'
    BY <1>1 DEF RowsTellStories, HoldersKnow, NotifiedIsOver, Pass, Stories
  <2> QED
    BY <2>1, <2>2, <2>3, <2>4
<1>2. CASE StoreReply
  <2>1. RemindersTypeOK'
    BY <1>2 DEF StoreReply, Stories
  <2>2. RowsTellStories'
    BY <1>2 DEF RowsTellStories, HoldersKnow, StoreReply, Stories
  <2>3. HoldersKnow'
    BY <1>2 DEF RowsTellStories, HoldersKnow, StoreReply, Stories
  <2>4. NotifiedIsOver'
    BY <1>2 DEF RowsTellStories, HoldersKnow, NotifiedIsOver, StoreReply, Stories
  <2> QED
    BY <2>1, <2>2, <2>3, <2>4
<1>3. CASE LoseCancel
  <2>1. RemindersTypeOK'
    BY <1>3 DEF LoseCancel, Stories
  <2>2. RowsTellStories'
    BY <1>3 DEF RowsTellStories, HoldersKnow, LoseCancel, Stories
  <2>3. HoldersKnow'
    BY <1>3 DEF RowsTellStories, HoldersKnow, LoseCancel, Stories
  <2>4. NotifiedIsOver'
    BY <1>3 DEF RowsTellStories, HoldersKnow, NotifiedIsOver, LoseCancel, Stories
  <2> QED
    BY <2>1, <2>2, <2>3, <2>4
<1>4. CASE CancelFollowUps
  <2>1. RemindersTypeOK'
    <3>1. time' \in Nat
      BY <1>4 DEF CancelFollowUps, Silences
    <3>2. DOMAIN reminders' \subseteq Reminds /\ reminders' \in [DOMAIN reminders' -> ReminderRows]
      BY <1>4 DEF CancelFollowUps, Silences
    <3>3. /\ ticks' = [t1 \in Ticks |-> ticks'[t1]]
          /\ \A t1 \in Ticks : /\ DOMAIN ticks'[t1] \subseteq Reminds
                               /\ \A q \in DOMAIN ticks'[t1] : ticks'[t1][q] \in {"mark", "notify"}
      BY <1>4 DEF CancelFollowUps, Silences
    <3>4. story' \in [Reminds -> Stories]
      BY DroppedStory, <1>4 DEF CancelFollowUps, Silences
    <3> QED
      BY <3>1, <3>2, <3>3, <3>4
  <2>2. RowsTellStories'
    BY DroppedStory, <1>4 DEF RowsTellStories, HoldersKnow, CancelFollowUps, Silences
  <2>3. HoldersKnow'
    BY DroppedStory, <1>4 DEF RowsTellStories, HoldersKnow, CancelFollowUps, Silences
  <2>4. NotifiedIsOver'
    <3>1. \A q \in Reminds : /\ story'[q].notified = story[q].notified /\ story'[q].shared = story[q].shared
                             /\ story[q].overtaken => story'[q].overtaken
      BY DroppedStory, <1>4 DEF CancelFollowUps, Silences
    <3>2. /\ ticks' = ticks /\ DOMAIN reminders' = DOMAIN reminders
          /\ \A q \in DOMAIN reminders : reminders'[q].status = "pending" => reminders[q].status = "pending"
      BY <1>4 DEF CancelFollowUps, Silences
    <3> QED
      <4> SUFFICES ASSUME NEW q \in Reminds, ~story'[q].overtaken, ~story'[q].shared
                   PROVE  \/ story'[q].notified = 0
                          \/ /\ story'[q].notified = 1 /\ ~Held(q)'
                             /\ q \in DOMAIN reminders' => reminders'[q].status # "pending"
        BY DEF NotifiedIsOver
      <4>1. ~story[q].overtaken /\ ~story[q].shared
        BY <3>1, Zenon
      <4>2. story[q].notified = 0 \/ (story[q].notified = 1 /\ ~Held(q) /\ (q \in DOMAIN reminders => reminders[q].status # "pending"))
        BY <4>1, Zenon DEF NotifiedIsOver
      <4>3. Held(q)' = Held(q)
        BY <3>2
      <4>4. story'[q].notified = story[q].notified
        BY <3>1, Zenon
      <4> QED
        BY <3>2, <4>2, <4>3, <4>4, Zenon
  <2> QED
    BY <2>1, <2>2, <2>3, <2>4
<1>5. ASSUME NEW r \in Reminds, Dismiss(r) PROVE RemindersInv'
  <2>1. RemindersTypeOK'
    <3>1. time' \in Nat
      BY <1>5 DEF Dismiss
    <3>2. DOMAIN reminders' \subseteq Reminds /\ reminders' \in [DOMAIN reminders' -> ReminderRows]
      BY <1>5, SMTT(30) DEF Dismiss
    <3>3. /\ ticks' = [t1 \in Ticks |-> ticks'[t1]]
          /\ \A t1 \in Ticks : /\ DOMAIN ticks'[t1] \subseteq Reminds
                               /\ \A q \in DOMAIN ticks'[t1] : ticks'[t1][q] \in {"mark", "notify"}
      BY <1>5 DEF Dismiss
    <3>4. story' \in [Reminds -> Stories]
      BY DroppedStory, <1>5 DEF Dismiss
    <3> QED
      BY <3>1, <3>2, <3>3, <3>4
  <2>2. RowsTellStories'
    BY DroppedStory, <1>5 DEF RowsTellStories, HoldersKnow, Dismiss
  <2>3. HoldersKnow'
    BY <1>5 DEF RowsTellStories, HoldersKnow, Dismiss, Dropped, Overtake, Stories
  <2>4. NotifiedIsOver'
    BY <1>5 DEF RowsTellStories, HoldersKnow, NotifiedIsOver, Dismiss, Dropped, Overtake, Stories
  <2> QED
    BY <2>1, <2>2, <2>3, <2>4
<1>6. ASSUME NEW r \in Reminds, DeleteReminder(r) PROVE RemindersInv'
  <2>1. RemindersTypeOK'
    <3>1. time' \in Nat
      BY <1>6 DEF DeleteReminder
    <3>2. DOMAIN reminders' \subseteq Reminds /\ reminders' \in [DOMAIN reminders' -> ReminderRows]
      BY <1>6 DEF DeleteReminder
    <3>3. /\ ticks' = [t1 \in Ticks |-> ticks'[t1]]
          /\ \A t1 \in Ticks : /\ DOMAIN ticks'[t1] \subseteq Reminds
                               /\ \A q \in DOMAIN ticks'[t1] : ticks'[t1][q] \in {"mark", "notify"}
      BY <1>6 DEF DeleteReminder
    <3>4. story' \in [Reminds -> Stories]
      BY DroppedStory, <1>6 DEF DeleteReminder
    <3> QED
      BY <3>1, <3>2, <3>3, <3>4
  <2>2. RowsTellStories'
    BY DroppedStory, <1>6 DEF RowsTellStories, HoldersKnow, DeleteReminder
  <2>3. HoldersKnow'
    BY <1>6 DEF RowsTellStories, HoldersKnow, DeleteReminder, Dropped, Overtake, Stories
  <2>4. NotifiedIsOver'
    BY <1>6 DEF RowsTellStories, HoldersKnow, NotifiedIsOver, DeleteReminder, Dropped, Overtake, Stories
  <2> QED
    BY <2>1, <2>2, <2>3, <2>4
<1>7. ASSUME NEW r \in Reminds, NEW at \in 1..LastTime, Snooze(r, at) PROVE RemindersInv'
  <2>1. RemindersTypeOK'
    <3>1. time' \in Nat
      BY <1>7 DEF Snooze
    <3>2. DOMAIN reminders' \subseteq Reminds /\ reminders' \in [DOMAIN reminders' -> ReminderRows]
      BY <1>7 DEF Snooze
    <3>3. /\ ticks' = [t1 \in Ticks |-> ticks'[t1]]
          /\ \A t1 \in Ticks : /\ DOMAIN ticks'[t1] \subseteq Reminds
                               /\ \A q \in DOMAIN ticks'[t1] : ticks'[t1][q] \in {"mark", "notify"}
      BY <1>7 DEF Snooze
    <3>4. story' \in [Reminds -> Stories]
      BY ArmedStory, <1>7 DEF Snooze
    <3> QED
      BY <3>1, <3>2, <3>3, <3>4
  <2>2. RowsTellStories'
    BY ArmedStory, <1>7 DEF RowsTellStories, HoldersKnow, Snooze
  <2>3. HoldersKnow'
    <3> SUFFICES ASSUME NEW q \in Reminds, NEW t \in Ticks, q \in DOMAIN ticks[t]
                 PROVE  HoldersKnow!(q, t)'
      BY <1>7 DEF HoldersKnow, Snooze
    <3> QED
      BY ArmedStory, <1>7 DEF HoldersKnow, Snooze
  <2>4. NotifiedIsOver'
    BY ArmedStory, <1>7 DEF RowsTellStories, HoldersKnow, NotifiedIsOver, Snooze
  <2> QED
    BY <2>1, <2>2, <2>3, <2>4
<1>8. ASSUME NEW r \in Reminds, NEW at \in 1..LastTime, NEW kind \in {"manual", "follow_up"}, Set(r, kind, at) PROVE RemindersInv'
  <2>1. RemindersTypeOK'
    <3>1. time' \in Nat
      BY <1>8 DEF Set
    <3>2. DOMAIN reminders' \subseteq Reminds /\ reminders' \in [DOMAIN reminders' -> ReminderRows]
      BY <1>8 DEF Set
    <3>3. /\ ticks' = [t1 \in Ticks |-> ticks'[t1]]
          /\ \A t1 \in Ticks : /\ DOMAIN ticks'[t1] \subseteq Reminds
                               /\ \A q \in DOMAIN ticks'[t1] : ticks'[t1][q] \in {"mark", "notify"}
      BY <1>8 DEF Set
    <3>4. story' \in [Reminds -> Stories]
      BY ArmedStory, <1>8 DEF Set
    <3> QED
      BY <3>1, <3>2, <3>3, <3>4
  <2>2. RowsTellStories'
    BY ArmedStory, <1>8 DEF RowsTellStories, HoldersKnow, Set
  <2>3. HoldersKnow'
    BY ArmedStory, <1>8 DEF RowsTellStories, HoldersKnow, Set
  <2>4. NotifiedIsOver'
    BY ArmedStory, <1>8 DEF RowsTellStories, HoldersKnow, NotifiedIsOver, Set
  <2> QED
    BY <2>1, <2>2, <2>3, <2>4
<1>9. ASSUME NEW t \in Ticks, NEW r \in Reminds, Mark(t, r) PROVE RemindersInv'
  <2>1. RemindersTypeOK'
    <3>1. time' \in Nat
      BY <1>9 DEF Mark, MarkFired, Moves
    <3>2. DOMAIN reminders' \subseteq Reminds /\ reminders' \in [DOMAIN reminders' -> ReminderRows]
      BY <1>9 DEF Mark, MarkFired, Moves
    <3>3. /\ ticks' = [t1 \in Ticks |-> ticks'[t1]]
          /\ \A t1 \in Ticks : /\ DOMAIN ticks'[t1] \subseteq Reminds
                               /\ \A q \in DOMAIN ticks'[t1] : ticks'[t1][q] \in {"mark", "notify"}
      BY <1>9 DEF Mark, MarkFired, Moves
    <3>4. story' \in [Reminds -> Stories]
      BY <1>9 DEF Mark, MarkFired, Moves, Stories
    <3> QED
      BY <3>1, <3>2, <3>3, <3>4
  <2>2. RowsTellStories'
    BY <1>9 DEF RowsTellStories, HoldersKnow, Mark, MarkFired, Moves, Stories
  <2>3. HoldersKnow'
    BY <1>9 DEF RowsTellStories, HoldersKnow, Mark, MarkFired, Moves, Stories
  <2>4. NotifiedIsOver'
    BY <1>9 DEF RowsTellStories, HoldersKnow, NotifiedIsOver, Mark, MarkFired, Moves, Stories
  <2> QED
    BY <2>1, <2>2, <2>3, <2>4
<1>10. ASSUME NEW t \in Ticks, NEW r \in Reminds, Notify(t, r) PROVE RemindersInv'
  <2>1. RemindersTypeOK'
    BY <1>10 DEF Notify, Moves, Stories
  <2>2. RowsTellStories'
    BY <1>10 DEF RowsTellStories, HoldersKnow, Notify, Moves, Stories
  <2>3. HoldersKnow'
    BY <1>10 DEF RowsTellStories, HoldersKnow, Notify, Moves, Stories
  <2>4. NotifiedIsOver'
    BY <1>10 DEF RowsTellStories, HoldersKnow, NotifiedIsOver, Notify, Moves, Stories
  <2> QED
    BY <2>1, <2>2, <2>3, <2>4
<1>11. ASSUME NEW t \in Ticks, Select(t) PROVE RemindersInv'
  <2>1. RemindersTypeOK'
    <3>1. time' \in Nat
      BY <1>11 DEF Select, Due
    <3>2. DOMAIN reminders' \subseteq Reminds /\ reminders' \in [DOMAIN reminders' -> ReminderRows]
      BY <1>11 DEF Select, Due
    <3>3. /\ ticks' = [t1 \in Ticks |-> ticks'[t1]]
          /\ \A t1 \in Ticks : /\ DOMAIN ticks'[t1] \subseteq Reminds
                               /\ \A q \in DOMAIN ticks'[t1] : ticks'[t1][q] \in {"mark", "notify"}
      BY <1>11 DEF Select, Due
    <3>4. story' \in [Reminds -> Stories]
      <4>1. \A q \in Reminds : story[q] \in Stories /\ [story[q] EXCEPT !.shared = TRUE] \in Stories
        <5>1. \A x \in Stories : [x EXCEPT !.shared = TRUE] \in Stories
          BY DEF Stories
        <5> QED
          BY <5>1
      <4> QED
        BY <1>11, <4>1 DEF Select
    <3> QED
      BY <3>1, <3>2, <3>3, <3>4
  <2>2. RowsTellStories'
    BY <1>11 DEF RowsTellStories, HoldersKnow, Select, Due, Stories
  <2>3. HoldersKnow'
    BY <1>11 DEF RowsTellStories, HoldersKnow, Select, Due, Stories
  <2>4. NotifiedIsOver'
    BY <1>11 DEF RowsTellStories, HoldersKnow, NotifiedIsOver, Select, Due, Stories
  <2> QED
    BY <2>1, <2>2, <2>3, <2>4
<1>12. ASSUME NEW t \in Ticks, CutOff(t) PROVE RemindersInv'
  <2>1. RemindersTypeOK'
    BY <1>12 DEF CutOff, Stories
  <2>2. RowsTellStories'
    BY <1>12 DEF RowsTellStories, HoldersKnow, CutOff, Stories
  <2>3. HoldersKnow'
    BY <1>12 DEF RowsTellStories, HoldersKnow, CutOff, Stories
  <2>4. NotifiedIsOver'
    BY <1>12 DEF RowsTellStories, HoldersKnow, NotifiedIsOver, CutOff, Stories
  <2> QED
    BY <2>1, <2>2, <2>3, <2>4
<1>13. CASE UNCHANGED remindVars
  BY <1>13 DEF remindVars, RowsTellStories, HoldersKnow, NotifiedIsOver
<1> HIDE DEF RemindersInv
<1> QED
  BY <1>1, <1>2, <1>3, <1>4, <1>5, <1>6, <1>7, <1>8, <1>9, <1>10, <1>11, <1>12, <1>13 DEF RemindersNext

\* The rows, the invocations and what is known of them agree.
THEOREM RemindersInvariant == RemindersSpec => []RemindersInv
  BY RemindersInitInv, RemindersStepInv, PTL DEF RemindersSpec

LEMMA OnlyWantedNotify == RemindersInv /\ [RemindersNext]_remindVars => DismissedStaysQuiet
<1> SUFFICES ASSUME RemindersInv, [RemindersNext]_remindVars PROVE DismissedStaysQuiet
  OBVIOUS
<1> USE DEF RemindersInv, DismissedStaysQuiet
<1>0. story \in [Reminds -> Stories] /\ \A r \in Reminds : story[r].notified \in Nat
  BY DEF RemindersTypeOK, Stories
<1>1. ASSUME NEW t \in Ticks, NEW r \in Reminds, Notify(t, r) PROVE DismissedStaysQuiet
  BY <1>0, <1>1 DEF Notify, HoldersKnow, Stories
<1>2. ASSUME NEW q \in Reminds, story' = [story EXCEPT ![q] = Armed(q)] PROVE DismissedStaysQuiet
  BY <1>0, <1>2, ArmedStory
<1>3. ASSUME NEW q \in Reminds, story' = [story EXCEPT ![q] = Dropped(q)] PROVE DismissedStaysQuiet
  BY <1>0, <1>3, DroppedStory
<1>4. CASE CancelFollowUps
  BY <1>0, <1>4, DroppedStory DEF CancelFollowUps
<1>5. ASSUME NEW t \in Ticks, Select(t) PROVE DismissedStaysQuiet
  BY <1>0, <1>5 DEF Select, Stories
<1>6. CASE UNCHANGED story
  BY <1>0, <1>6
<1>7. ASSUME NEW r \in Reminds, Dismiss(r) PROVE DismissedStaysQuiet
  BY <1>3, <1>7 DEF Dismiss
<1>8. ASSUME NEW r \in Reminds, DeleteReminder(r) PROVE DismissedStaysQuiet
  BY <1>3, <1>8 DEF DeleteReminder
<1>9. ASSUME NEW r \in Reminds, NEW at \in 1..LastTime, Snooze(r, at) PROVE DismissedStaysQuiet
  BY <1>2, <1>9 DEF Snooze
<1>10. ASSUME NEW r \in Reminds, NEW at \in 1..LastTime, NEW kind \in {"manual", "follow_up"}, Set(r, kind, at)
       PROVE  DismissedStaysQuiet
  BY <1>2, <1>10 DEF Set
<1>11. ASSUME NEW t \in Ticks, NEW r \in Reminds, Mark(t, r) PROVE DismissedStaysQuiet
  BY <1>6, <1>11 DEF Mark
<1>12. ASSUME Pass \/ StoreReply \/ LoseCancel \/ (\E t \in Ticks : CutOff(t)) \/ UNCHANGED remindVars
       PROVE  DismissedStaysQuiet
  BY <1>6, <1>12 DEF Pass, StoreReply, LoseCancel, CutOff, remindVars
<1> HIDE DEF RemindersInv, DismissedStaysQuiet
<1> QED
  BY <1>1, <1>4, <1>5, <1>7, <1>8, <1>9, <1>10, <1>11, <1>12 DEF RemindersNext

\* A reminder fires once each time it is set, only while somebody wants it, and one that is
\* wanted waits or its time has come; for any number of overlapping invocations that may be cut
\* off anywhere, with the exceptions the three parts name (cron.ts:210-246, reminders.ts:64-105,
\* receive.ts:297-309).
THEOREM RemindersFireOnce == RemindersSpec => RemindersHold
<1>1. RemindersInv' => NotifiedOnce' /\ WantedIsPending'
  BY DEF RemindersInv, RemindersTypeOK, Stories, Undisturbed, NotifiedOnce, WantedIsPending, RowsTellStories, NotifiedIsOver
<1>2. RemindersInv /\ RemindersInv' /\ [RemindersNext]_remindVars
        => [DismissedStaysQuiet /\ NotifiedOnce' /\ WantedIsPending']_remindVars
  BY <1>1, OnlyWantedNotify
<1> QED
  BY <1>2, RemindersInvariant, PTL DEF RemindersSpec, RemindersHold

-----------------------------------------------------------------------------
(***************************************************************************)
(* The limiter: every limit, every window and every number of checks.      *)
(***************************************************************************)
LogRows == [at : Nat, late : BOOLEAN, allowed : BOOLEAN]

RateTypeOK ==
    /\ now \in 0..LastTick
    /\ counter \in [count : Nat, start : 0..(LastTick + 1)]
    /\ callers \in [Callers -> 0..(LastTick + 1)]
    /\ log \in Seq(LogRows)

\* The checks before the window's reset; the others were counted in it.
Earlier == Len(log) - counter.count
Counts(i) == log[i].allowed /\ ~log[i].late

\* What the row tells of the checks: a window is at least as long as Window, those punctual fall
\* into the window they were counted in, and the first Limit of a window were let through.
RowTellsLog ==
    /\ counter = NoRow => log = <<>>
    /\ counter # NoRow => counter.count > 0 /\ counter.count <= Len(log) /\ counter.start <= now
    /\ \A i \in DOMAIN log : log[i].at <= now
    /\ counter # NoRow => \A i \in DOMAIN log :
          IF i <= Earlier THEN ~log[i].late => log[i].at < counter.start
          ELSE /\ log[i].at >= counter.start
               /\ ~log[i].late => log[i].at < counter.start + Window
               /\ log[i].allowed => i <= Earlier + Limit
    \* Of the windows before, one at most reaches into the last Window of ticks.
    /\ counter # NoRow => \E a \in Nat : \A i \in DOMAIN log :
          i <= Earlier /\ Counts(i) /\ log[i].at + Window > counter.start => i > a /\ i <= a + Limit
    /\ \A c \in Callers : callers[c] # Absent => callers[c] <= now

RateInv == RateTypeOK /\ RowTellsLog /\ BurstsBounded /\ RefusedOnlyWhenBusy

LEMMA RateInitInv == RateInit => RateInv
<1> SUFFICES ASSUME RateInit PROVE RateInv
  OBVIOUS
<1> USE RateAssumption
<1>1. RateTypeOK
  BY DEF RateInit, RateTypeOK, NoRow, Absent
<1>2. RowTellsLog
  BY DEF RateInit, RowTellsLog, NoRow, Absent
<1>3. BurstsBounded /\ RefusedOnlyWhenBusy
  <2>1. \A t : {i \in Within(t) : log[i].allowed /\ ~log[i].late} = {}
    BY DEF RateInit, Within
  <2> QED
    BY <2>1, FS_EmptySet DEF RateInit, BurstsBounded, RefusedOnlyWhenBusy
<1> QED
  BY <1>1, <1>2, <1>3 DEF RateInv

\* One upsert counts a check, or begins a window with it.
LEMMA UpsertStep ==
    ASSUME RateInv, NEW c \in Callers, Upsert(c)
    PROVE  RateInv'
<1> USE RateAssumption DEF RateInv
<1> DEFINE t == callers[c]
           row == Counted(counter, t)
           n == Len(log)
           e == [at |-> now, late |-> t # now, allowed |-> row.count <= Limit]
           resets == counter = NoRow \/ Lapsed(counter, t)
<1>1. /\ n \in Nat /\ t \in Nat /\ t <= now /\ now \in Nat /\ now <= LastTick /\ t <= LastTick /\ UNCHANGED now
      /\ counter' = row /\ log' = Append(log, e) /\ callers' = [callers EXCEPT ![c] = Absent]
      /\ counter.count \in Nat /\ counter.start \in Nat
  BY DEF Upsert, RateTypeOK, RowTellsLog, Absent
<1>2. /\ row.count = (IF resets THEN 1 ELSE counter.count + 1)
      /\ row.start = (IF resets THEN t ELSE counter.start)
      /\ row \in [count : Nat, start : 0..(LastTick + 1)] /\ row.count > 0 /\ row # NoRow
      /\ ~resets => counter # NoRow /\ t < counter.start + Window
      /\ resets /\ counter # NoRow => counter.start + Window <= t
  <2>1. CASE resets
    <3>1. row = [count |-> 1, start |-> t]
      BY <2>1 DEF Counted
    <3>2. resets /\ counter # NoRow => counter.start + Window <= t
      BY DEF Lapsed
    <3> HIDE DEF row, resets
    <3> QED
      BY <1>1, <2>1, <3>1, <3>2 DEF NoRow
  <2>2. CASE ~resets
    <3>1. row = [count |-> counter.count + 1, start |-> counter.start]
      BY <2>2 DEF Counted
    <3>2. counter # NoRow /\ t < counter.start + Window
      BY <1>1, <2>2 DEF Lapsed
    <3>3. counter.count > 0 /\ counter.start <= LastTick
      BY <1>1, <3>2 DEF RowTellsLog
    <3> HIDE DEF row, resets
    <3> QED
      BY <1>1, <2>2, <3>1, <3>2, <3>3, SMTT(30) DEF NoRow
  <2> QED
    BY <2>1, <2>2
<1>a. row.count \in Nat /\ row.start \in Nat /\ row.start <= now
  BY <1>1, <1>2 DEF RowTellsLog
<1>3. /\ e \in LogRows /\ e.at = now
      /\ e.late <=> t # now
      /\ e.allowed <=> row.count <= Limit
  <2> DEFINE lt == t # now
             al == row.count <= Limit
  <2>1. e = [at |-> now, late |-> lt, allowed |-> al]
    OBVIOUS
  <2>2. lt \in BOOLEAN /\ al \in BOOLEAN
    OBVIOUS
  <2> HIDE DEF lt, al, e
  <2>3. e \in LogRows /\ e.at = now /\ e.late = lt /\ e.allowed = al
    BY <1>1, <2>1, <2>2 DEF LogRows
  <2> QED
    BY <2>3 DEF lt, al
<1> HIDE DEF row, e, resets
<1>4. /\ log' \in Seq(LogRows) /\ Len(log') = n + 1 /\ DOMAIN log' = 1..(n + 1) /\ DOMAIN log = 1..n
      /\ \A i \in 1..n : log'[i] = log[i]
      /\ log'[n + 1] = e
  BY <1>1, <1>3 DEF RateTypeOK
<1>5. /\ \A i \in 1..n : log[i].at \in Nat /\ log[i].at <= now /\ log[i].late \in BOOLEAN /\ log[i].allowed \in BOOLEAN
      /\ counter = NoRow => n = 0
      /\ counter # NoRow => counter.count <= n /\ counter.start <= now
  <2>1. \A i \in 1..n : log[i] \in LogRows
    BY <1>1, <1>4 DEF RateTypeOK
  <2>2. \A i \in 1..n : log[i].at <= now
    BY <1>4 DEF RowTellsLog
  <2>3. /\ counter = NoRow => n = 0
        /\ counter # NoRow => counter.count <= n /\ counter.start <= now
    BY DEF RowTellsLog
  <2> QED
    BY <2>1, <2>2, <2>3 DEF LogRows
<1> DEFINE first == n + 1 - row.count
<1>6. /\ first \in Nat /\ Earlier' = first
      /\ first = IF resets THEN n ELSE n - counter.count
  <2>1. Earlier' = n + 1 - row.count
    <3>1. Earlier' = Len(log') - counter'.count
      BY DEF Earlier
    <3>2. Len(log') = n + 1 /\ counter' = row
      BY <1>1, <1>4
    <3>3. n \in Nat /\ row.count \in Nat /\ counter'.count = row.count
      BY <1>1, <1>a, <3>2
    <3> HIDE DEF n
    <3> QED
      BY <3>1, <3>2, <3>3
  <2>2. /\ first \in Nat
        /\ first = IF resets THEN n ELSE n - counter.count
    <3>1. CASE resets
      <4>1. row.count = 1
        BY <1>2, <3>1
      <4>2. first = n /\ n \in Nat
        BY <1>1, <4>1
      <4> HIDE DEF first, n
      <4> QED
        BY <3>1, <4>2
    <3>2. CASE ~resets
      <4>1. row.count = counter.count + 1 /\ counter.count <= n
        BY <1>2, <1>5, <3>2
      <4>2. first = n - counter.count /\ first \in Nat
        <5>1. n \in Nat /\ counter.count \in Nat
          BY <1>1
        <5> HIDE DEF n
        <5> QED
          BY <4>1, <5>1
      <4> HIDE DEF first, n
      <4> QED
        BY <3>2, <4>2
    <3> QED
      BY <3>1, <3>2
  <2> QED
    BY <2>1, <2>2
<1>b. first = n + 1 - row.count
  OBVIOUS
<1> HIDE DEF first
<1>7. RateTypeOK'
  <2>1. callers' \in [Callers -> 0..(LastTick + 1)]
    BY <1>1 DEF RateTypeOK, Absent
  <2> QED
    BY <1>1, <1>2, <1>4, <2>1 DEF RateTypeOK
\* The checks of this window.
<1>8. \A i \in 1..(n + 1) :
         IF i <= first THEN ~log'[i].late => log'[i].at < row.start
         ELSE /\ log'[i].at >= row.start
              /\ ~log'[i].late => log'[i].at < row.start + Window
              /\ log'[i].allowed => i <= first + Limit
  <2> TAKE i \in 1..(n + 1)
  <2>1. CASE i = n + 1
    <3>1. log'[i] = e /\ e.at = now /\ now >= row.start /\ ~(i <= first)
      <4>1. log'[i] = e /\ e.at = now /\ now >= row.start
        BY <1>1, <1>a, <1>3, <1>4, <2>1
      <4>2. first \in Nat /\ n \in Nat /\ row.count \in Nat /\ row.count > 0 /\ first = n + 1 - row.count
        BY <1>1, <1>2, <1>a, <1>6, <1>b
      <4>3. ~(n + 1 <= first)
        BY <4>2
      <4> QED
        BY <4>1, <4>3, <2>1
    <3>2. e.allowed => i <= first + Limit
      BY <1>1, <1>a, <1>b, <1>3, <2>1
    <3>3. ~e.late => now < row.start + Window
      <4>1. ~e.late => t = now
        BY <1>3
      <4>2. t < row.start + Window
        BY <1>1, <1>2
      <4> QED
        BY <4>1, <4>2
    <3> QED
      BY <3>1, <3>2, <3>3
  <2>2. CASE i \in 1..n
    <3>1. /\ log'[i] = log[i] /\ counter # NoRow
          /\ IF i <= n - counter.count THEN ~log[i].late => log[i].at < counter.start
             ELSE /\ log[i].at >= counter.start
                  /\ ~log[i].late => log[i].at < counter.start + Window
                  /\ log[i].allowed => i <= n - counter.count + Limit
      BY <1>4, <1>5, <2>2 DEF RowTellsLog, Earlier
    <3>2. CASE resets
      BY <1>1, <1>2, <1>5, <1>6, <2>2, <3>1, <3>2, SMTT(30)
    <3>3. CASE ~resets
      BY <1>1, <1>2, <1>5, <1>6, <2>2, <3>1, <3>3
    <3> QED
      BY <3>2, <3>3
  <2> QED
    BY <2>1, <2>2
\* Those of the window before.
<1>9. \E a \in Nat : \A i \in 1..(n + 1) :
         i <= first /\ ~log'[i].late /\ log'[i].allowed /\ log'[i].at + Window > row.start => i > a /\ i <= a + Limit
  <2>1. CASE counter = NoRow
    BY <1>1, <1>2, <1>5, <1>6, <2>1
  <2>2. CASE counter # NoRow /\ resets
    <3>1. n - counter.count \in Nat
      BY <1>1, <1>5, <2>2
    <3>2. ASSUME NEW i \in 1..(n + 1), i <= first, ~log'[i].late, log'[i].allowed, log'[i].at + Window > row.start
          PROVE  i > n - counter.count /\ i <= n - counter.count + Limit
      <4>1. i \in 1..n /\ log'[i] = log[i] /\ row.start >= counter.start + Window
        BY <1>1, <1>2, <1>4, <1>6, <2>2, <3>2
      <4>2. log[i].at > counter.start
        BY <1>1, <1>2, <1>5, <3>2, <4>1, SMTT(30)
      <4>3. IF i <= n - counter.count THEN ~log[i].late => log[i].at < counter.start
            ELSE log[i].allowed => i <= n - counter.count + Limit
        BY <1>4, <2>2, <4>1 DEF RowTellsLog, Earlier
      <4> QED
        BY <1>1, <1>5, <3>2, <4>1, <4>2, <4>3, SMTT(30)
    <3> QED
      BY <3>1, <3>2
  <2>3. CASE ~resets
    <3>1. PICK a \in Nat : \A i \in DOMAIN log :
            i <= Earlier /\ Counts(i) /\ log[i].at + Window > counter.start => i > a /\ i <= a + Limit
      BY <1>2, <2>3 DEF RowTellsLog
    <3>2. ASSUME NEW i \in 1..(n + 1), i <= first, ~log'[i].late, log'[i].allowed, log'[i].at + Window > row.start
          PROVE  i > a /\ i <= a + Limit
      <4>1. i \in 1..n /\ log'[i] = log[i] /\ row.start = counter.start /\ first = Earlier
        <5>1. counter.count > 0
          BY <1>2, <2>3 DEF RowTellsLog
        <5> QED
          BY <1>1, <1>2, <1>4, <1>6, <2>3, <3>2, <5>1 DEF Earlier
      <4> QED
        BY <1>4, <3>1, <3>2, <4>1 DEF Counts
    <3> QED
      BY <3>1, <3>2
  <2> QED
    BY <2>1, <2>2, <2>3
<1>10. RowTellsLog'
  <2>1. \A i \in 1..(n + 1) : log'[i].at <= now
    BY <1>1, <1>3, <1>4, <1>5
  <2>2. \A d \in Callers : callers'[d] # Absent => callers'[d] <= now
    BY <1>1 DEF RateTypeOK, RowTellsLog
  <2>3. row.count <= n + 1 /\ row.start <= now
    BY <1>1, <1>2, <1>5
  <2>4. NoRow' = NoRow /\ Absent' = Absent
    BY DEF NoRow, Absent
  <2> QED
    BY <1>1, <1>2, <1>4, <1>6, <1>8, <1>9, <2>1, <2>2, <2>3, <2>4 DEF RowTellsLog, Counts
\* Only the last check can make an interval fuller, and it fills those of its own window and of
\* the one before.
<1>11. BurstsBounded'
  <2> SUFFICES ASSUME NEW u \in 0..LastTick
               PROVE  Cardinality({i \in Within(u)' : log'[i].allowed /\ ~log'[i].late}) <= 2 * Limit
    BY DEF BurstsBounded
  <2> DEFINE S == {i \in Within(u) : log[i].allowed /\ ~log[i].late}
             T == {i \in Within(u)' : log'[i].allowed /\ ~log'[i].late}
  <2>1. CASE ~(e.allowed /\ ~e.late /\ now < u + Window)
    <3>1. T = S
      BY <1>1, <1>3, <1>4, <1>5, <2>1 DEF Within
    <3> QED
      BY <3>1 DEF BurstsBounded
  <2>2. CASE e.allowed /\ ~e.late /\ now < u + Window
    <3>1. PICK a \in Nat : \A i \in 1..(n + 1) :
            i <= first /\ ~log'[i].late /\ log'[i].allowed /\ log'[i].at + Window > row.start => i > a /\ i <= a + Limit
      BY <1>9
    <3> DEFINE I == (first + 1)..(first + Limit)
               J == (a + 1)..(a + Limit)
    <3>2. T \subseteq I \cup J
      <4> SUFFICES ASSUME NEW i \in T PROVE i \in I \cup J
        OBVIOUS
      <4>1. i \in 1..(n + 1) /\ log'[i].at \in Nat /\ log'[i].at >= u /\ log'[i].allowed /\ ~log'[i].late
        BY <1>1, <1>3, <1>4, <1>5 DEF Within
      <4>2. log'[i].at + Window > row.start
        BY <1>1, <1>a, <2>2, <4>1, SMTT(30)
      <4> QED
        BY <1>6, <1>8, <3>1, <4>1, <4>2
    <3>3. /\ IsFiniteSet(I) /\ Cardinality(I) = Limit /\ IsFiniteSet(J) /\ Cardinality(J) = Limit
      <4>2. IsFiniteSet(I) /\ Cardinality(I) = Limit
        <5> DEFINE x == first + 1
                   y == first + Limit
        <5>1. x \in Int /\ y \in Int /\ I = x..y /\ ~(x > y) /\ y - x + 1 = Limit
          BY <1>6
        <5> HIDE DEF x, y, I
        <5> QED
          BY <5>1, FS_Interval
      <4>3. IsFiniteSet(J) /\ Cardinality(J) = Limit
        <5> DEFINE x == a + 1
                   y == a + Limit
        <5>1. x \in Int /\ y \in Int /\ J = x..y /\ ~(x > y) /\ y - x + 1 = Limit
          OBVIOUS
        <5> HIDE DEF x, y, J
        <5> QED
          BY <5>1, FS_Interval
      <4> QED
        BY <4>2, <4>3
    <3> HIDE DEF I, J, T
    <3>4. /\ IsFiniteSet(I \cup J) /\ IsFiniteSet(I \cap J)
          /\ Cardinality(I \cup J) = Cardinality(I) + Cardinality(J) - Cardinality(I \cap J)
      BY <3>3, FS_Union, FS_Subset
    <3>5. Cardinality(I \cap J) \in Nat /\ Cardinality(T) <= Cardinality(I \cup J) /\ Cardinality(T) \in Nat
      BY <3>2, <3>4, FS_Subset, FS_CardinalityType
    <3> QED
      BY <3>3, <3>4, <3>5 DEF T
  <2> QED
    BY <2>1, <2>2
<1>12. RefusedOnlyWhenBusy'
  <2> SUFFICES ASSUME NEW i \in 1..(n + 1), ~log'[i].allowed, ~log'[i].late
               PROVE  Cardinality({j \in 1..i : log'[j].at + Window > log'[i].at}) > Limit
    BY <1>4 DEF RefusedOnlyWhenBusy
  <2>1. CASE i \in 1..n
    <3>1. {j \in 1..i : log'[j].at + Window > log'[i].at} = {j \in 1..i : log[j].at + Window > log[i].at}
      BY <1>1, <1>4, <2>1
    <3> QED
      BY <1>4, <2>1, <3>1 DEF RefusedOnlyWhenBusy
  <2>2. CASE i = n + 1
    <3> DEFINE K == (first + 1)..(n + 1)
               L == {j \in 1..i : log'[j].at + Window > log'[i].at}
    <3>1. row.count > Limit /\ t = now /\ ~resets
      BY <1>2, <1>3, <1>4, <2>2
    <3>2. K \subseteq L
      <4> SUFFICES ASSUME NEW j \in K PROVE j \in L
        OBVIOUS
      <4>1. j \in 1..(n + 1) /\ ~(j <= first)
        BY <1>1, <1>6
      <4>2. log'[j].at >= row.start /\ log'[j].at \in Nat
        BY <1>1, <1>3, <1>4, <1>5, <1>8, <4>1
      <4> QED
        BY <1>1, <1>2, <1>3, <1>4, <2>2, <3>1, <4>1, <4>2
    <3>3. IsFiniteSet(1..i) /\ L \subseteq 1..i
      BY <1>1, FS_Interval
    <3>4. Cardinality(K) = row.count
      <4>1. first + 1 \in Int /\ n + 1 \in Int /\ first \in Int /\ row.count \in Nat /\ row.count > 0
        BY <1>1, <1>2, <1>a, <1>6
      <4>2. n + 1 - (first + 1) + 1 = row.count /\ ~(first + 1 > n + 1)
        BY <1>1, <1>b, <4>1, SMTT(30)
      <4> DEFINE x == first + 1
                 y == n + 1
      <4>3. x \in Int /\ y \in Int /\ K = x..y /\ ~(x > y) /\ y - x + 1 = row.count
        BY <4>1, <4>2
      <4> HIDE DEF x, y, K
      <4> QED
        BY <4>3, FS_Interval
    <3> HIDE DEF K, L
    <3>5. IsFiniteSet(L) /\ Cardinality(K) <= Cardinality(L) /\ Cardinality(L) \in Nat
      BY <3>2, <3>3, FS_Subset, FS_CardinalityType
    <3> QED
      BY <1>2, <3>1, <3>4, <3>5 DEF L
  <2> QED
    BY <2>1, <2>2
<1> QED
  BY <1>7, <1>10, <1>11, <1>12

LEMMA RateStepInv == RateInv /\ [RateNext]_rateVars => RateInv'
<1> SUFFICES ASSUME RateInv, [RateNext]_rateVars PROVE RateInv'
  OBVIOUS
<1> USE RateAssumption DEF RateInv
<1>1. ASSUME UNCHANGED <<counter, log>>, RateTypeOK', now' >= now, \A c \in Callers : callers'[c] # Absent => callers'[c] <= now'
      PROVE  RateInv'
  <2>1. BurstsBounded' /\ RefusedOnlyWhenBusy'
    BY <1>1 DEF BurstsBounded, RefusedOnlyWhenBusy, Within
  <2>2. \A i \in DOMAIN log : log[i].at \in Nat
    <3>1. \A i \in DOMAIN log : log[i] \in LogRows
      BY DEF RateTypeOK
    <3> QED
      BY <3>1 DEF LogRows
  <2>3. RowTellsLog'
    <3>1. /\ \A i \in DOMAIN log' : log'[i].at <= now'
          /\ counter' # NoRow => counter'.start <= now'
      BY <1>1, <2>2 DEF RowTellsLog, RateTypeOK
    <3>2. NoRow' = NoRow /\ Absent' = Absent /\ Earlier' = Earlier /\ \A i : Counts(i)' = Counts(i)
      BY <1>1 DEF NoRow, Absent, Earlier, Counts
    <3> QED
      BY <1>1, <3>1, <3>2 DEF RowTellsLog
  <2> QED
    BY <1>1, <2>1, <2>3
<1>2. CASE Tick
  BY <1>1, <1>2 DEF Tick, RateTypeOK, RowTellsLog
<1>3. ASSUME NEW c \in Callers, BeginCheck(c) PROVE RateInv'
  BY <1>1, <1>3 DEF BeginCheck, RateTypeOK, RowTellsLog, Absent
<1>4. ASSUME NEW c \in Callers, FailOpen(c) PROVE RateInv'
  BY <1>1, <1>4 DEF FailOpen, RateTypeOK, RowTellsLog, Absent
<1>5. CASE UNCHANGED rateVars
  BY <1>1, <1>5 DEF rateVars, RateTypeOK, RowTellsLog, Absent
<1> HIDE DEF RateInv
<1> QED
  BY <1>2, <1>3, <1>4, <1>5, UpsertStep DEF RateNext

\* The row, the callers and the record of the checks keep to their types, and the row tells what
\* was counted in its window: no window is shorter than Window and none lets more than Limit
\* punctual checks through (rate-limit.ts:20-40).
THEOREM RateInvariant == RateSpec => []RateInv
<1> QED
  BY RateInitInv, RateStepInv, PTL DEF RateSpec

\* No interval as long as a window lets more than twice the limit through, and nobody is refused
\* but when the last window was full; for every limit, window and number of checks that overlap
\* (rate-limit.ts:20-40).
THEOREM WindowsHold == RateSpec => []WindowHolds
<1>1. RateInv => WindowHolds
  BY DEF RateInv, WindowHolds
<1> QED
  BY <1>1, RateInvariant, PTL

-----------------------------------------------------------------------------
(***************************************************************************)
(* App passwords: every number of users, mailboxes and requests.           *)
(***************************************************************************)
PasswordsTypeOK ==
    /\ minted \in Nat
    /\ passwords \in [DOMAIN passwords -> [user : Holders, mailbox : Boxes]]
    /\ DOMAIN passwords \subseteq 1..minted
    /\ minters \in [Minters -> {Unused} \cup [pc : {"insert"}, user : Holders, mailbox : Boxes]]
    /\ logins \in [refused : BOOLEAN, raced : BOOLEAN, crowded : BOOLEAN]

\* Until two mints pass the count together nobody has more than PerUser, and a request that passed
\* it leaves room for its row.
RoomForEach ==
    ~logins.raced => \A u \in Holders :
       /\ Cardinality(OwnedBy(u)) <= PerUser
       /\ (\E r \in Minters : Minting(r, u)) => Cardinality(OwnedBy(u)) < PerUser

PasswordsInv == PasswordsTypeOK /\ RoomForEach /\ HolderIsTried

LEMMA OwnedFinite ==
    ASSUME PasswordsTypeOK, NEW S, S \subseteq DOMAIN passwords
    PROVE  IsFiniteSet(S) /\ Cardinality(S) \in Nat
<1>1. IsFiniteSet(1..minted)
  BY FS_Interval DEF PasswordsTypeOK
<1> QED
  BY <1>1, FS_Subset, FS_CardinalityType DEF PasswordsTypeOK

LEMMA PasswordsInitInv == PasswordsInit => PasswordsInv
<1> SUFFICES ASSUME PasswordsInit PROVE PasswordsInv
  OBVIOUS
<1>1. DOMAIN passwords = {}
  BY DEF PasswordsInit
<1>2. passwords \in [DOMAIN passwords -> [user : Holders, mailbox : Boxes]]
  <2>1. passwords = [i \in {} |-> i]
    BY DEF PasswordsInit
  <2> QED
    BY <2>1
<1>3. PasswordsTypeOK /\ HolderIsTried
  BY <1>1, <1>2 DEF PasswordsInit, PasswordsTypeOK, HolderIsTried, Unused
<1>4. RoomForEach
  <2>1. \A u \in Holders : OwnedBy(u) = {}
    BY <1>1 DEF OwnedBy
  <2> QED
    BY <2>1, FS_EmptySet, AppPasswordsAssumption DEF RoomForEach
<1> QED
  BY <1>3, <1>4 DEF PasswordsInv

LEMMA CheckMintStep ==
    ASSUME PasswordsInv, NEW r \in Minters, NEW u \in Holders, NEW m \in Boxes, CheckMint(r, u, m)
    PROVE  PasswordsInv'
<1> USE DEF PasswordsInv
<1>1. /\ minters' = [minters EXCEPT ![r] = [pc |-> "insert", user |-> u, mailbox |-> m]]
      /\ UNCHANGED <<passwords, minted, logins>> /\ Cardinality(OwnedBy(u)) < PerUser
  BY DEF CheckMint, MayMint
<1>2. PasswordsTypeOK'
  <2> DEFINE e == [pc |-> "insert", user |-> u, mailbox |-> m]
  <2>1. e \in [pc : {"insert"}, user : Holders, mailbox : Boxes]
    OBVIOUS
  <2>2. minters' = [minters EXCEPT ![r] = e]
    BY <1>1
  <2>3. Unused' = Unused
    BY DEF Unused
  <2> HIDE DEF e
  <2>4. minters' \in [Minters -> {Unused} \cup [pc : {"insert"}, user : Holders, mailbox : Boxes]]
    BY <2>1, <2>2 DEF PasswordsTypeOK
  <2> QED
    BY <1>1, <2>3, <2>4 DEF PasswordsTypeOK
<1>3. \A v : OwnedBy(v)' = OwnedBy(v)
  BY <1>1 DEF OwnedBy
<1>4. \A v \in Holders : (\E q \in Minters : Minting(q, v)') => v = u \/ \E q \in Minters : Minting(q, v)
  <2> SUFFICES ASSUME NEW v \in Holders, NEW q \in Minters, Minting(q, v)'
               PROVE  v = u \/ \E p \in Minters : Minting(p, v)
    OBVIOUS
  <2>1. CASE q = r
    <3>1. minters'[q] = [pc |-> "insert", user |-> u, mailbox |-> m]
      BY <1>1, <2>1 DEF PasswordsTypeOK
    <3>2. minters'[q].user = u
      BY <3>1
    <3> QED
      BY <3>2 DEF Minting
  <2>2. CASE q # r
    BY <1>1, <2>2 DEF Minting, PasswordsTypeOK, Unused
  <2> QED
    BY <2>1, <2>2
<1>5. RoomForEach'
  BY <1>1, <1>3, <1>4 DEF RoomForEach
<1> QED
  BY <1>1, <1>2, <1>5 DEF HolderIsTried

LEMMA InsertPasswordStep ==
    ASSUME PasswordsInv, NEW r \in Minters, InsertPassword(r)
    PROVE  PasswordsInv'
<1> USE AppPasswordsAssumption DEF PasswordsInv
<1> DEFINE me == minters[r]
           row == [user |-> me.user, mailbox |-> me.mailbox]
           race == logins.raced \/ \E q \in Minters \ {r} : Minting(q, me.user)
           i == minted + 1
<1>1. /\ me \in [pc : {"insert"}, user : Holders, mailbox : Boxes] /\ me # Unused
      /\ minted' = i /\ minters' = [minters EXCEPT ![r] = Unused]
      /\ passwords' = [j \in DOMAIN passwords \cup {i} |-> IF j = i THEN row ELSE passwords[j]]
      /\ logins' = [refused |-> logins.refused, crowded |-> logins.crowded, raced |-> race]
  BY DEF InsertPassword, PasswordsTypeOK, Unused
<1>2. me.user \in Holders /\ row \in [user : Holders, mailbox : Boxes] /\ row.user = me.user
  BY <1>1
<1>3. race \in BOOLEAN
  BY DEF PasswordsTypeOK
<1>b. PICK holder \in Holders : holder = me.user
  BY <1>2
<1>a. race <=> (logins.raced \/ \E q \in Minters \ {r} : Minting(q, holder))
  BY <1>b
<1> HIDE DEF row, race
<1>4. logins'.refused = logins.refused /\ logins'.crowded = logins.crowded /\ logins'.raced = race
  BY <1>1
<1>5. PasswordsTypeOK'
  <2>1. logins' \in [refused : BOOLEAN, raced : BOOLEAN, crowded : BOOLEAN]
    BY <1>1, <1>3 DEF PasswordsTypeOK
  <2>2. /\ DOMAIN passwords' = DOMAIN passwords \cup {i}
        /\ passwords' \in [DOMAIN passwords' -> [user : Holders, mailbox : Boxes]]
    BY <1>1, <1>2 DEF PasswordsTypeOK
  <2>3. minted' \in Nat /\ DOMAIN passwords' \subseteq 1..minted'
    BY <1>1, <2>2 DEF PasswordsTypeOK
  <2>4. minters' \in [Minters -> {Unused} \cup [pc : {"insert"}, user : Holders, mailbox : Boxes]] /\ Unused' = Unused
    BY <1>1 DEF PasswordsTypeOK, Unused
  <2> QED
    BY <2>1, <2>2, <2>3, <2>4 DEF PasswordsTypeOK
<1>6. /\ i \notin DOMAIN passwords
      /\ OwnedBy(holder)' = OwnedBy(holder) \cup {i}
      /\ \A u \in Holders : u # holder => OwnedBy(u)' = OwnedBy(u)
  <2>1. i \notin DOMAIN passwords
    BY DEF PasswordsTypeOK
  <2> HIDE DEF i
  <2> QED
    BY <1>1, <1>2, <1>b, <2>1 DEF OwnedBy
<1>7. \A u \in Holders, q \in Minters : Minting(q, u)' => q # r /\ Minting(q, u)
  BY <1>1 DEF Minting, PasswordsTypeOK, Unused
<1>8. RoomForEach'
  <2> SUFFICES ASSUME ~race, NEW u \in Holders
               PROVE  /\ Cardinality(OwnedBy(u)') <= PerUser
                      /\ (\E q \in Minters : Minting(q, u)') => Cardinality(OwnedBy(u)') < PerUser
    BY <1>4 DEF RoomForEach
  <2>1. /\ Cardinality(OwnedBy(u)) <= PerUser
        /\ (\E q \in Minters : Minting(q, u)) => Cardinality(OwnedBy(u)) < PerUser
    BY <1>a DEF RoomForEach
  <2>2. CASE u = holder
    <3>1. Minting(r, u)
      BY <1>1, <1>b, <2>2 DEF Minting
    <3>2. IsFiniteSet(OwnedBy(u)) /\ Cardinality(OwnedBy(u)) \in Nat
      BY OwnedFinite DEF OwnedBy
    <3>3. Cardinality(OwnedBy(u) \cup {i}) = Cardinality(OwnedBy(u)) + 1
      <4>1. i \notin OwnedBy(u)
        BY <1>6 DEF OwnedBy
      <4> QED
        BY <3>2, <4>1, FS_AddElement
    <3>4. ~\E q \in Minters : Minting(q, u)'
      BY <1>7, <1>a, <2>2
    <3> QED
      BY <1>6, <2>1, <2>2, <3>1, <3>2, <3>3, <3>4
  <2>3. CASE u # holder
    BY <1>6, <1>7, <2>1, <2>3
  <2> QED
    BY <2>2, <2>3
<1>9. HolderIsTried'
  BY <1>4, <1>a DEF HolderIsTried
<1> QED
  BY <1>5, <1>8, <1>9

LEMMA DeletePasswordStep ==
    ASSUME PasswordsInv, NEW u \in Holders, NEW i \in OwnedBy(u), DeletePassword(u, i)
    PROVE  PasswordsInv'
<1> USE AppPasswordsAssumption DEF PasswordsInv
<1>1. /\ passwords' = [j \in DOMAIN passwords \ {i} |-> passwords[j]]
      /\ UNCHANGED <<minted, minters, logins>>
  BY DEF DeletePassword
<1>2. PasswordsTypeOK'
  <2>1. DOMAIN passwords' = DOMAIN passwords \ {i} /\ passwords' \in [DOMAIN passwords' -> [user : Holders, mailbox : Boxes]]
    BY <1>1 DEF PasswordsTypeOK
  <2>2. Unused' = Unused
    BY DEF Unused
  <2> QED
    BY <1>1, <2>1, <2>2 DEF PasswordsTypeOK
<1>3. \A v \in Holders : /\ Cardinality(OwnedBy(v)') <= Cardinality(OwnedBy(v))
                         /\ Cardinality(OwnedBy(v)') \in Nat /\ Cardinality(OwnedBy(v)) \in Nat
  <2> SUFFICES ASSUME NEW v \in Holders
               PROVE  /\ Cardinality(OwnedBy(v)') <= Cardinality(OwnedBy(v))
                      /\ Cardinality(OwnedBy(v)') \in Nat /\ Cardinality(OwnedBy(v)) \in Nat
    OBVIOUS
  <2>1. OwnedBy(v)' \subseteq OwnedBy(v)
    BY <1>1 DEF OwnedBy
  <2>2. IsFiniteSet(OwnedBy(v)) /\ Cardinality(OwnedBy(v)) \in Nat
    BY OwnedFinite DEF OwnedBy
  <2> QED
    BY <2>1, <2>2, FS_Subset, FS_CardinalityType
<1>4. \A q, v : Minting(q, v)' = Minting(q, v)
  BY <1>1 DEF Minting, Unused
<1>5. RoomForEach'
  BY <1>1, <1>3, <1>4 DEF RoomForEach
<1> QED
  BY <1>1, <1>2, <1>5 DEF HolderIsTried

\* A password is left out only when its holder has more than PerUser, or others share the name.
LEMMA LoginStep ==
    ASSUME PasswordsInv, NEW i \in DOMAIN passwords, NEW name, Login(i, name)
    PROVE  PasswordsInv'
<1> USE AppPasswordsAssumption DEF PasswordsInv
<1>1. PICK C \in Candidates(name) :
         logins' = [refused |-> logins.refused \/ i \notin C, raced |-> logins.raced,
                    crowded |-> logins.crowded \/ \E j \in Matches(name) : passwords[j].user # passwords[i].user]
  BY DEF Login
<1> DEFINE refused == logins.refused \/ i \notin C
           crowded == logins.crowded \/ \E j \in Matches(name) : passwords[j].user # passwords[i].user
<1>2. refused \in BOOLEAN /\ crowded \in BOOLEAN
  BY DEF PasswordsTypeOK
<1>3. logins' = [refused |-> refused, raced |-> logins.raced, crowded |-> crowded]
  BY <1>1
<1>4. i \in Matches(name) /\ UNCHANGED <<passwords, minted, minters>>
  BY DEF Login
<1>5. refused => crowded \/ logins.raced
  <2> SUFFICES ASSUME i \notin C, ~crowded, ~logins.raced PROVE FALSE
    BY DEF HolderIsTried
  <2> DEFINE u == passwords[i].user
  <2>1. u \in Holders
    BY DEF PasswordsTypeOK
  <2>2. Matches(name) \subseteq OwnedBy(u)
    BY DEF Matches, OwnedBy
  <2>3. C \subseteq Matches(name) /\ C # Matches(name) /\ Cardinality(C) = PerUser
    BY <1>4 DEF Candidates
  <2>4. Cardinality(OwnedBy(u)) <= PerUser
    BY <2>1 DEF RoomForEach
  <2>5. /\ IsFiniteSet(Matches(name)) /\ Cardinality(Matches(name)) \in Nat
        /\ IsFiniteSet(OwnedBy(u)) /\ Cardinality(OwnedBy(u)) \in Nat
    <3>1. Matches(name) \subseteq DOMAIN passwords /\ OwnedBy(u) \subseteq DOMAIN passwords
      BY DEF Matches, OwnedBy
    <3> QED
      BY <3>1, OwnedFinite
  <2> HIDE DEF u
  <2>6. Cardinality(C) < Cardinality(Matches(name))
    BY <2>3, <2>5, FS_Subset
  <2>7. Cardinality(Matches(name)) <= Cardinality(OwnedBy(u))
    BY <2>2, <2>5, FS_Subset
  <2> QED
    BY <2>3, <2>4, <2>5, <2>6, <2>7
<1> HIDE DEF refused, crowded
<1>6. logins'.refused = refused /\ logins'.raced = logins.raced /\ logins'.crowded = crowded
  BY <1>3
<1>7. PasswordsTypeOK'
  <2>1. logins' \in [refused : BOOLEAN, raced : BOOLEAN, crowded : BOOLEAN]
    BY <1>2, <1>3 DEF PasswordsTypeOK
  <2>2. Unused' = Unused
    BY DEF Unused
  <2> QED
    BY <1>4, <2>1, <2>2 DEF PasswordsTypeOK
<1>8. RoomForEach'
  <2>1. (\A q, v : Minting(q, v)' = Minting(q, v)) /\ \A v : OwnedBy(v)' = OwnedBy(v)
    BY <1>4 DEF Minting, Unused, OwnedBy
  <2> QED
    BY <1>6, <2>1 DEF RoomForEach
<1> QED
  BY <1>5, <1>6, <1>7, <1>8 DEF HolderIsTried

LEMMA PasswordsStepInv == PasswordsInv /\ [PasswordsNext]_passwordVars => PasswordsInv'
<1> SUFFICES ASSUME PasswordsInv, [PasswordsNext]_passwordVars PROVE PasswordsInv'
  OBVIOUS
<1>1. ASSUME UNCHANGED <<passwords, minted, minters, logins>> PROVE PasswordsInv'
  BY <1>1 DEF PasswordsInv, PasswordsTypeOK, RoomForEach, HolderIsTried, Minting, OwnedBy, Unused
<1>2. CASE UNCHANGED passwordVars
  BY <1>1, <1>2 DEF passwordVars
<1>3. ASSUME NEW u \in Holders, NEW m \in Boxes, Revoke(u, m) \/ Regrant(u, m) PROVE PasswordsInv'
  BY <1>1, <1>3 DEF Revoke, Regrant
<1> QED
  BY <1>2, <1>3, CheckMintStep, InsertPasswordStep, DeletePasswordStep, LoginStep DEF PasswordsNext

\* Until two mints pass the count together nobody holds more than PerUser passwords (api/
\* app-passwords.ts:57-94).
THEOREM PasswordsInvariant == PasswordsSpec => []PasswordsInv
<1> QED
  BY PasswordsInitInv, PasswordsStepInv, PTL DEF PasswordsSpec

\* The login tries every password that is presented under a name of its holder's, unless several
\* users share the name or mints raced; for every number of users, mailboxes and requests
\* (app-passwords.ts:78-96).
THEOREM HoldersAreTried == PasswordsSpec => []HolderIsTried
<1>1. PasswordsInv => HolderIsTried
  BY DEF PasswordsInv
<1> QED
  BY <1>1, PasswordsInvariant, PTL

-----------------------------------------------------------------------------
(***************************************************************************)
(* Rule sends: every number of mailboxes and runs, every cap and window.   *)
(***************************************************************************)
Sends == sent.all
OfBox(box) == {s \in Sends : s.box = box}
Recent(box) == {s \in Sends : s.box = box /\ s.at + Hour > moment}
Active(r, box) == runs[r] # Quiet /\ runs[r].box = box

RuleSendsTypeOK ==
    /\ moment \in Nat
    /\ \A m \in inbox : m.to \in RuleBoxes
    /\ sent = [all |-> Sends, loose |-> sent.loose]
    /\ IsFiniteSet(Sends) /\ IsFiniteSet(sendLog)
    /\ \A s \in Sends : s.box \in RuleBoxes /\ s.at \in 0..moment /\ s.n \in 0..(Cardinality(Sends) - 1)
    /\ \A l \in sendLog : l.at \in Nat
    /\ DOMAIN runs = Runs
    /\ \A r \in Runs : runs[r] = Quiet \/ /\ runs[r].pc \in {"send", "log"}
                                          /\ runs[r].box \in RuleBoxes /\ runs[r].budget \in Nat

OneOfEach == \A s, q \in Sends : s.n = q.n => s = q

Logged(s) ==
    \E l \in sendLog : l.n = s.n /\ l.box = s.box /\ l.kind = s.kind /\ l.to = s.to /\ l.at >= s.at

\* A run about to log is about to log a send.
LogsASend == \A r \in Runs : runs[r].pc = "log" => runs[r].send \in Sends /\ runs[r].send.box = runs[r].box

\* Of a mailbox whose runs never overlapped and whose sends were all logged: every send is in the
\* log or about to be, and the one run has counted what the last hour saw.
Accounted(box) ==
    /\ \A r, q \in Runs : Active(r, box) /\ Active(q, box) => r = q
    /\ \A s \in OfBox(box) : Logged(s) \/ \E r \in Runs : runs[r].pc = "log" /\ runs[r].send = s
    /\ \A r \in Runs : Active(r, box) => Cardinality(Recent(box)) + runs[r].budget <= Cap

RulesInv ==
    /\ RuleSendsTypeOK /\ OneOfEach /\ LogsASend
    /\ \A box \in RuleBoxes \ sent.loose : Accounted(box)
    /\ HourlyCapHolds /\ OneReplyPerSender

LEMMA RulesInitInv == RuleSendsInit => RulesInv
<1> SUFFICES ASSUME RuleSendsInit PROVE RulesInv
  OBVIOUS
<1>1. Sends = {} /\ IsFiniteSet({}) /\ Cardinality({}) = 0
  BY FS_EmptySet DEF RuleSendsInit, Sends
<1>2. \A r \in Runs : runs[r] = Quiet /\ runs[r].pc # "log"
  BY DEF RuleSendsInit, Quiet
<1>3. RuleSendsTypeOK
  BY <1>1, <1>2 DEF RuleSendsInit, RuleSendsTypeOK, Sends
<1>4. OneOfEach /\ LogsASend /\ OneReplyPerSender
  BY <1>1, <1>2 DEF OneOfEach, LogsASend, OneReplyPerSender, Sends
<1>5. \A box \in RuleBoxes : Accounted(box)
  BY <1>1, <1>2 DEF Accounted, Active, OfBox
<1>6. HourlyCapHolds
  <2>1. \A box, t : {s \in sent.all : s.box = box /\ s.at >= t /\ s.at < t + Hour} = {}
    BY <1>1 DEF Sends
  <2> QED
    BY <1>1, <2>1, RuleSendsAssumption DEF HourlyCapHolds
<1> QED
  BY <1>3, <1>4, <1>5, <1>6 DEF RulesInv

\* What a mailbox sent in the last hour is a finite set.
LEMMA RecentFinite ==
    ASSUME RuleSendsTypeOK, NEW S, S \subseteq Sends
    PROVE  IsFiniteSet(S) /\ Cardinality(S) \in Nat
BY FS_Subset, FS_CardinalityType DEF RuleSendsTypeOK

\* When every send of a mailbox is logged, the log of the hour counts at least as many.
LEMMA LogCounts ==
    ASSUME RulesInv, NEW box, \A s \in OfBox(box) : Logged(s)
    PROVE  /\ Cardinality(InTheHour(box)) \in Nat
           /\ Cardinality(Recent(box)) <= Cardinality(InTheHour(box))
<1> USE RuleSendsAssumption DEF RulesInv
<1> DEFINE row(s) == CHOOSE l \in sendLog : l.n = s.n /\ l.box = s.box /\ l.kind = s.kind /\ l.to = s.to /\ l.at >= s.at
           f == [s \in Recent(box) |-> row(s)]
<1>1. ASSUME NEW s \in Recent(box) PROVE row(s) \in InTheHour(box) /\ row(s).n = s.n
  <2>1. Logged(s) /\ s.box = box /\ s \in Sends /\ s.at + Hour > moment
    BY DEF Recent, OfBox
  <2>2. row(s) \in sendLog /\ row(s).n = s.n /\ row(s).box = s.box /\ row(s).at >= s.at
    BY <2>1 DEF Logged
  <2> HIDE DEF row
  <2>3. row(s).at \in Nat /\ s.at \in Nat /\ moment \in Nat
    BY <2>1, <2>2 DEF RuleSendsTypeOK
  <2> QED
    BY <2>1, <2>2, <2>3 DEF InTheHour
<1> HIDE DEF row
<1>2. IsFiniteSet(InTheHour(box)) /\ Cardinality(InTheHour(box)) \in Nat
  BY FS_Subset, FS_CardinalityType DEF InTheHour, RuleSendsTypeOK
<1>3. f \in Injection(Recent(box), InTheHour(box))
  <2>1. f \in [Recent(box) -> InTheHour(box)]
    BY <1>1
  <2>2. ASSUME NEW s \in Recent(box), NEW q \in Recent(box), f[s] = f[q] PROVE s = q
    <3>1. s.n = q.n
      BY <1>1, <2>2
    <3> QED
      BY <3>1 DEF Recent, OneOfEach
  <2> QED
    BY <2>1, <2>2 DEF Injection, IsInjective
<1> QED
  BY <1>2, <1>3, FS_Injection

\* A step that changes neither the sends nor the log, and whose runs go on with as much to spend.
LEMMA RunGoesOn ==
    ASSUME RulesInv, UNCHANGED <<moment, sendLog>>, NEW loose, NEW r \in Runs, NEW step,
           sent' = [all |-> Sends, loose |-> loose], sent.loose \subseteq loose,
           \A m \in inbox' : m.to \in RuleBoxes,
           runs' = [runs EXCEPT ![r] = step],
           \/ step = Quiet
           \/ /\ step.pc = "send" /\ step.box \in RuleBoxes /\ step.budget \in Nat
              /\ step.box \notin loose =>
                   \/ runs[r] # Quiet /\ step.box = runs[r].box /\ step.budget = runs[r].budget
                   \/ /\ \A q \in Runs : ~Active(q, step.box)
                      /\ Cardinality(Recent(step.box)) + step.budget <= Cap,
           runs[r].pc = "log" => runs[r].box \in loose
    PROVE  RulesInv'
<1> USE RuleSendsAssumption DEF RulesInv
<1>1. Sends' = Sends /\ sent.all' = sent.all /\ sent.loose' = loose /\ Quiet' = Quiet
  BY DEF Sends, Quiet
<1>2. DOMAIN runs' = Runs /\ \A q \in Runs : runs'[q] = IF q = r THEN step ELSE runs[q]
  BY DEF RuleSendsTypeOK
<1>3. step.pc # "log"
  BY DEF Quiet
<1>4. RuleSendsTypeOK'
  BY <1>1, <1>2 DEF RuleSendsTypeOK
<1>5. OneOfEach' /\ LogsASend'
  BY <1>1, <1>2, <1>3 DEF OneOfEach, LogsASend
<1>6. HourlyCapHolds' /\ OneReplyPerSender'
  BY <1>1 DEF HourlyCapHolds, OneReplyPerSender, RuleSendsTypeOK
<1>7. ASSUME NEW box \in RuleBoxes \ loose PROVE Accounted(box)'
  <2>1. Accounted(box)
    OBVIOUS
  <2>2. OfBox(box)' = OfBox(box) /\ Recent(box)' = Recent(box) /\ \A s : Logged(s)' = Logged(s)
    BY <1>1 DEF OfBox, Recent, Logged
  <2>3. \A q \in Runs : Active(q, box)' <=> IF q = r THEN step # Quiet /\ step.box = box ELSE Active(q, box)
    BY <1>1, <1>2 DEF Active
  <2>4. step # Quiet /\ step.box = box =>
          \/ Active(r, box) /\ step.budget = runs[r].budget
          \/ (\A q \in Runs : ~Active(q, box)) /\ Cardinality(Recent(box)) + step.budget <= Cap
    BY DEF Active
  <2>5. \A q, p \in Runs : Active(q, box)' /\ Active(p, box)' => q = p
    BY <2>1, <2>3, <2>4 DEF Accounted
  <2>6. \A s \in OfBox(box) : Logged(s) \/ \E q \in Runs : runs'[q].pc = "log" /\ runs'[q].send = s
    <3> SUFFICES ASSUME NEW s \in OfBox(box), ~Logged(s)
                 PROVE  \E q \in Runs : runs'[q].pc = "log" /\ runs'[q].send = s
      OBVIOUS
    <3>1. PICK q \in Runs : runs[q].pc = "log" /\ runs[q].send = s
      BY <2>1 DEF Accounted
    <3>2. runs[q].box = box
      BY <3>1 DEF LogsASend, OfBox
    <3>3. q # r
      BY <3>1, <3>2
    <3> QED
      BY <1>2, <3>1, <3>3
  <2>7. \A q \in Runs : Active(q, box)' => Cardinality(Recent(box)) + runs'[q].budget <= Cap
    BY <1>2, <2>1, <2>3, <2>4 DEF Accounted
  <2> QED
    BY <2>2, <2>5, <2>6, <2>7 DEF Accounted
<1> QED
  BY <1>1, <1>4, <1>5, <1>6, <1>7

\* A step of neither the sends, the log nor the runs.
LEMMA NothingSent ==
    ASSUME RulesInv, UNCHANGED <<moment, runs, sendLog, sent>>, \A m \in inbox' : m.to \in RuleBoxes
    PROVE  RulesInv'
<1>1. /\ Sends' = Sends /\ Quiet' = Quiet
      /\ \A box : OfBox(box)' = OfBox(box) /\ Recent(box)' = Recent(box) /\ \A r : Active(r, box)' = Active(r, box)
      /\ \A s : Logged(s)' = Logged(s)
  BY DEF Sends, Quiet, OfBox, Recent, Active, Logged
<1>2. RuleSendsTypeOK' /\ OneOfEach' /\ LogsASend'
  BY <1>1 DEF RulesInv, RuleSendsTypeOK, OneOfEach, LogsASend
<1>3. HourlyCapHolds' /\ OneReplyPerSender'
  BY DEF RulesInv, HourlyCapHolds, OneReplyPerSender
<1>4. \A box \in RuleBoxes \ sent.loose : Accounted(box)'
  BY <1>1 DEF RulesInv, Accounted
<1> QED
  BY <1>2, <1>3, <1>4 DEF RulesInv

\* A run that goes on without sending is quiet, or where it was.
LEMMA RestGoesOn ==
    ASSUME RulesInv, NEW r \in Runs, runs[r] # Quiet
    PROVE  \/ Rest(r) = Quiet
           \/ /\ Rest(r).pc = "send" /\ Rest(r).box = runs[r].box /\ Rest(r).budget = runs[r].budget
              /\ runs[r].box \in RuleBoxes /\ runs[r].budget \in Nat
BY DEF RulesInv, RuleSendsTypeOK, Rest

LEMMA SkipStep ==
    ASSUME RulesInv, NEW r \in Runs, Skip(r)
    PROVE  RulesInv'
<1> DEFINE step == Rest(r)
<1>1. runs[r].pc = "send" /\ runs[r] # Quiet
  BY DEF Skip, Quiet
<1>2. \/ step = Quiet
      \/ /\ step.pc = "send" /\ step.box \in RuleBoxes /\ step.budget \in Nat
         /\ step.box = runs[r].box /\ step.budget = runs[r].budget
  BY <1>1, RestGoesOn
<1> HIDE DEF step
<1>3. sent' = [all |-> Sends, loose |-> sent.loose]
  BY DEF RulesInv, RuleSendsTypeOK, Skip
<1>4. UNCHANGED <<moment, inbox, sendLog>> /\ runs' = [runs EXCEPT ![r] = step]
  BY DEF Skip, Continue, step
<1>5. \A m \in inbox' : m.to \in RuleBoxes
  BY <1>4 DEF RulesInv, RuleSendsTypeOK
<1> QED
  BY <1>1, <1>2, <1>3, <1>4, <1>5, RunGoesOn

LEMMA FailStep ==
    ASSUME RulesInv, NEW r \in Runs, Fail(r)
    PROVE  RulesInv'
<1>1. PICK step \in {Rest(r), Quiet} : runs' = [runs EXCEPT ![r] = step]
  BY DEF Fail, Continue
<1>2. \/ step = Quiet
      \/ /\ step.pc = "send" /\ step.box \in RuleBoxes /\ step.budget \in Nat
         /\ runs[r] # Quiet /\ step.box = runs[r].box /\ step.budget = runs[r].budget
  BY RestGoesOn DEF Fail
<1> DEFINE loose == IF runs[r].pc = "log" THEN sent.loose \cup {runs[r].box} ELSE sent.loose
<1>3. sent' = [all |-> Sends, loose |-> loose]
  <2>1. sent = [all |-> Sends, loose |-> sent.loose]
    BY DEF RulesInv, RuleSendsTypeOK
  <2>2. CASE runs[r].pc = "log"
    <3>1. sent' = [sent EXCEPT !.loose = @ \cup {runs[r].box}] /\ loose = sent.loose \cup {runs[r].box}
      BY <2>2 DEF Fail
    <3> HIDE DEF loose
    <3> QED
      BY <2>1, <3>1
  <2>3. CASE runs[r].pc # "log"
    BY <2>1, <2>3 DEF Fail
  <2> QED
    BY <2>2, <2>3
<1>4. UNCHANGED <<moment, inbox, sendLog>>
  BY DEF Fail
<1>5. \A m \in inbox' : m.to \in RuleBoxes
  BY <1>4 DEF RulesInv, RuleSendsTypeOK
<1>6. sent.loose \subseteq loose /\ (runs[r].pc = "log" => runs[r].box \in loose)
  OBVIOUS
<1> HIDE DEF loose
<1> QED
  BY <1>1, <1>2, <1>3, <1>4, <1>5, <1>6, RunGoesOn

LEMMA BeginStep ==
    ASSUME RulesInv, NEW r \in Runs, NEW m \in inbox, Begin(r, m)
    PROVE  RulesInv'
<1> USE RuleSendsAssumption
<1> DEFINE box == m.to
           todo == SelectSeq(Actions(m), LAMBDA a : a.to # box)
           counted == Cardinality(InTheHour(box))
           overlaps == \E q \in Runs : runs[q] # Quiet /\ runs[q].box = box
           loose == IF overlaps THEN sent.loose \cup {box} ELSE sent.loose
           step == [pc |-> "send", box |-> box, todo |-> todo, budget |-> Cap - counted]
<1>1. /\ runs[r] = Quiet /\ UNCHANGED <<moment, sendLog>> /\ box \in RuleBoxes
      /\ \A i \in inbox' : i.to \in RuleBoxes
  BY DEF Begin, RulesInv, RuleSendsTypeOK
<1>2. \/ UNCHANGED <<runs, sent>>
      \/ /\ counted < Cap /\ runs' = [runs EXCEPT ![r] = step]
         /\ sent' = [all |-> Sends, loose |-> loose]
  <2>1. \/ UNCHANGED <<runs, sent>>
        \/ /\ ~(counted >= Cap) /\ runs' = [runs EXCEPT ![r] = step]
           /\ sent' = IF overlaps THEN [sent EXCEPT !.loose = @ \cup {box}] ELSE sent
    BY DEF Begin, Continue
  <2>2. sent = [all |-> Sends, loose |-> sent.loose]
    BY DEF RulesInv, RuleSendsTypeOK
  <2>3. counted \in Nat
    BY FS_CardinalityType, FS_Subset DEF RulesInv, RuleSendsTypeOK, InTheHour
  <2>4. overlaps => [sent EXCEPT !.loose = @ \cup {box}] = [all |-> Sends, loose |-> sent.loose \cup {box}]
    <3> HIDE DEF overlaps, box
    <3> QED
      BY <2>2, SMTT(30)
  <2> HIDE DEF overlaps, box, step, counted
  <2> QED
    BY <2>1, <2>2, <2>3, <2>4
<1>3. CASE UNCHANGED <<runs, sent>>
  BY <1>1, <1>3, NothingSent
<1>4. CASE counted < Cap /\ runs' = [runs EXCEPT ![r] = step] /\ sent' = [all |-> Sends, loose |-> loose]
  <2>1. box \notin loose => \A q \in Runs : ~Active(q, box)
    BY DEF Active
  <2>2. box \notin loose => Cardinality(Recent(box)) <= counted /\ Cardinality(Recent(box)) \in Nat
    <3> SUFFICES ASSUME box \notin loose PROVE Cardinality(Recent(box)) <= counted /\ Cardinality(Recent(box)) \in Nat
      OBVIOUS
    <3>1. \A s \in OfBox(box) : Logged(s)
      <4> SUFFICES ASSUME NEW s \in OfBox(box), ~Logged(s) PROVE FALSE
        OBVIOUS
      <4>1. Accounted(box)
        BY <1>1 DEF RulesInv
      <4>2. PICK q \in Runs : runs[q].pc = "log" /\ runs[q].send = s
        BY <4>1 DEF Accounted
      <4>3. runs[q] # Quiet /\ runs[q].box = box
        BY <4>2 DEF RulesInv, LogsASend, OfBox, Quiet
      <4> QED
        BY <2>1, <4>3 DEF Active
    <3> QED
      BY <3>1, LogCounts, RecentFinite DEF RulesInv, Recent
  <2>3. counted \in Nat
    BY FS_CardinalityType, FS_Subset DEF RulesInv, RuleSendsTypeOK, InTheHour
  <2>4. sent.loose \subseteq loose /\ runs[r].pc # "log"
    BY <1>1 DEF Quiet
  <2> HIDE DEF todo, loose, counted
  <2>5. /\ step.pc = "send" /\ step.box = box /\ step.box \in RuleBoxes
        /\ step.budget = Cap - counted /\ step.budget \in Nat
    BY <1>1, <1>4, <2>3
  <2> HIDE DEF step, box
  <2>6. step.box \notin loose => /\ \A q \in Runs : ~Active(q, step.box)
                                 /\ Cardinality(Recent(step.box)) + step.budget <= Cap
    BY <2>1, <2>2, <2>3, <2>5
  <2> QED
    BY <1>1, <1>4, <2>4, <2>5, <2>6, RunGoesOn
<1> QED
  BY <1>2, <1>3, <1>4

\* A send takes one from the budget, and the one run that may send has found no reply in the log.
LEMMA SendStep ==
    ASSUME RulesInv, NEW r \in Runs, Send(r)
    PROVE  RulesInv'
<1> USE RuleSendsAssumption
<1> DEFINE me == runs[r]
           a == Head(me.todo)
           n == Cardinality(Sends)
           x == [box |-> me.box, kind |-> a.kind, to |-> a.to, at |-> moment, n |-> n]
           step == [pc |-> "log", box |-> me.box, todo |-> me.todo, budget |-> Spent(me.budget), send |-> x]
<1>1. /\ me.pc = "send" /\ me # Quiet /\ me.budget \in Nat /\ me.budget > 0 /\ me.box \in RuleBoxes
      /\ moment \in Nat /\ n \in Nat /\ IsFiniteSet(Sends)
      /\ UNCHANGED <<moment, sendLog>> /\ ~Skips(me.box, a)
      /\ DOMAIN runs = Runs /\ runs' = [runs EXCEPT ![r] = step]
      /\ sent' = [sent EXCEPT !.all = @ \cup {x}]
  BY FS_CardinalityType DEF Send, Continue, RulesInv, RuleSendsTypeOK, Quiet, Sends
<1>a. \A m \in inbox' : m.to \in RuleBoxes
  <2>1. inbox' = IF a.to \in RuleBoxes THEN inbox \cup {[to |-> a.to, from |-> me.box, auto |-> TRUE]} ELSE inbox
    BY DEF Send
  <2>2. \A m \in inbox : m.to \in RuleBoxes
    BY DEF RulesInv, RuleSendsTypeOK
  <2>3. [to |-> a.to, from |-> me.box, auto |-> TRUE].to = a.to
    OBVIOUS
  <2> QED
    BY <2>1, <2>2, <2>3
<1>2. /\ x.box = me.box /\ x.kind = a.kind /\ x.to = a.to /\ x.at = moment /\ x.n = n
      /\ step.pc = "log" /\ step.box = me.box /\ step.budget = me.budget - 1 /\ step.send = x
      /\ step.budget \in Nat /\ step # Quiet
  BY <1>1 DEF Spent, Quiet
<1>3. PICK box \in RuleBoxes : box = me.box
  BY <1>1
<1> HIDE DEF x, step
<1>4. sent' = [all |-> Sends \cup {x}, loose |-> sent.loose]
  <2>1. sent = [all |-> Sends, loose |-> sent.loose]
    BY DEF RulesInv, RuleSendsTypeOK
  <2> QED
    BY <1>1, <2>1
<1>5. Sends' = Sends \cup {x} /\ sent.all' = Sends \cup {x} /\ sent.loose' = sent.loose /\ Quiet' = Quiet
  BY <1>4 DEF Sends, Quiet
<1>6. x \notin Sends /\ Cardinality(Sends') = n + 1 /\ IsFiniteSet(Sends')
  <2>1. \A s \in Sends : s.n \in 0..(n - 1)
    BY DEF RulesInv, RuleSendsTypeOK
  <2>2. x \notin Sends
    BY <1>1, <1>2, <2>1
  <2>3. Cardinality(Sends \cup {x}) = n + 1 /\ IsFiniteSet(Sends \cup {x})
    BY <1>1, <2>2, FS_AddElement
  <2> QED
    BY <1>5, <2>2, <2>3
<1>7. \A q \in Runs : runs'[q] = IF q = r THEN step ELSE runs[q]
  BY <1>1
<1> HIDE DEF n
<1>8. RuleSendsTypeOK'
  <2>1. \A s \in Sends' : s.box \in RuleBoxes /\ s.at \in 0..moment /\ s.n \in 0..((n + 1) - 1)
    <3>1. \A s \in Sends : s.box \in RuleBoxes /\ s.at \in 0..moment /\ s.n \in 0..(n - 1)
      BY DEF RulesInv, RuleSendsTypeOK, n
    <3> QED
      BY <1>1, <1>2, <1>3, <1>5, <3>1
  <2>2. \A l \in sendLog : l.at \in Nat
    BY DEF RulesInv, RuleSendsTypeOK
  <2>3. IsFiniteSet(sendLog)
    BY DEF RulesInv, RuleSendsTypeOK
  <2>4. \A q \in Runs : runs'[q] = Quiet \/ /\ runs'[q].pc \in {"send", "log"}
                                            /\ runs'[q].box \in RuleBoxes /\ runs'[q].budget \in Nat
    BY <1>1, <1>2, <1>7 DEF RulesInv, RuleSendsTypeOK
  <2>5. sent' = [all |-> Sends', loose |-> sent'.loose]
    BY <1>4, <1>5
  <2>6. DOMAIN runs' = Runs /\ moment' = moment /\ sendLog' = sendLog
    BY <1>1
  <2> QED
    BY <1>1, <1>a, <1>5, <1>6, <2>1, <2>2, <2>3, <2>4, <2>5, <2>6 DEF RuleSendsTypeOK
<1>9. OneOfEach'
  <2>1. \A s \in Sends : s.n \in 0..(n - 1)
    BY DEF RulesInv, RuleSendsTypeOK, n
  <2>2. \A s \in Sends : s.n # x.n
    BY <1>1, <1>2, <2>1
  <2> QED
    BY <1>5, <2>2 DEF RulesInv, OneOfEach
<1>10. LogsASend'
  BY <1>2, <1>5, <1>7 DEF RulesInv, LogsASend
\* Of its own mailbox.
<1>11. ASSUME box \notin sent.loose
       PROVE  /\ \A q \in Runs : runs[q].pc = "log" => runs[q].box # box
              /\ \A s \in OfBox(box) : Logged(s)
              /\ Recent(box)' = Recent(box) \cup {x}
              /\ Cardinality(Recent(box)') \in Nat /\ Cardinality(Recent(box)') + step.budget <= Cap
  <2>1. Accounted(box)
    BY <1>11 DEF RulesInv
  <2>2. Active(r, box)
    BY <1>1, <1>3 DEF Active
  <2>3. \A q \in Runs : runs[q].pc = "log" => runs[q].box # box
    <3> SUFFICES ASSUME NEW q \in Runs, runs[q].pc = "log", runs[q].box = box PROVE FALSE
      OBVIOUS
    <3>1. Active(q, box) /\ q # r
      BY <1>1 DEF Active, Quiet
    <3> QED
      BY <2>1, <2>2, <3>1 DEF Accounted
  <2>4. \A s \in OfBox(box) : Logged(s)
    <3> SUFFICES ASSUME NEW s \in OfBox(box), ~Logged(s) PROVE FALSE
      OBVIOUS
    <3>1. PICK q \in Runs : runs[q].pc = "log" /\ runs[q].send = s
      BY <2>1 DEF Accounted
    <3> QED
      BY <2>3, <3>1 DEF RulesInv, LogsASend, OfBox
  <2>5. Recent(box)' = Recent(box) \cup {x}
    <3>1. x.at + Hour > moment
      BY <1>1, <1>2
    <3> QED
      BY <1>1, <1>2, <1>3, <1>5, <3>1 DEF Recent
  <2>6. IsFiniteSet(Recent(box)) /\ Cardinality(Recent(box)) \in Nat
    BY RecentFinite DEF RulesInv, Recent
  <2>7. Cardinality(Recent(box)') = Cardinality(Recent(box)) + 1
    <3>1. x \notin Recent(box)
      BY <1>6 DEF Recent
    <3> QED
      BY <2>5, <2>6, <3>1, FS_AddElement
  <2>8. Cardinality(Recent(box)) + me.budget <= Cap
    BY <2>1, <2>2 DEF Accounted
  <2> QED
    BY <1>1, <1>2, <2>3, <2>4, <2>5, <2>6, <2>7, <2>8
<1>12. ASSUME NEW b \in RuleBoxes \ sent.loose PROVE Accounted(b)'
  <2>1. Accounted(b)
    BY DEF RulesInv
  <2>2. \A q \in Runs : Active(q, b)' <=> Active(q, b)
    BY <1>1, <1>2, <1>5, <1>7 DEF Active
  <2>3. \A s : Logged(s)' = Logged(s)
    BY <1>1 DEF Logged
  <2>4. \A s \in OfBox(b)' : Logged(s) \/ \E q \in Runs : runs'[q].pc = "log" /\ runs'[q].send = s
    <3> SUFFICES ASSUME NEW s \in OfBox(b)', ~Logged(s)
                 PROVE  \E q \in Runs : runs'[q].pc = "log" /\ runs'[q].send = s
      OBVIOUS
    <3>1. CASE s = x
      BY <1>2, <1>7, <3>1
    <3>2. CASE s # x
      <4>1. s \in OfBox(b)
        BY <1>5, <3>2 DEF OfBox
      <4>2. PICK q \in Runs : runs[q].pc = "log" /\ runs[q].send = s
        BY <2>1, <4>1 DEF Accounted
      <4>3. q # r
        BY <1>1, <4>2
      <4> QED
        BY <1>7, <4>2, <4>3
    <3> QED
      BY <3>1, <3>2
  <2>5. \A q \in Runs : Active(q, b) => Cardinality(Recent(b)') + runs'[q].budget <= Cap
    <3> SUFFICES ASSUME NEW q \in Runs, Active(q, b) PROVE Cardinality(Recent(b)') + runs'[q].budget <= Cap
      OBVIOUS
    <3>1. CASE b = box
      <4>1. q = r
        BY <1>1, <1>3, <2>1, <3>1 DEF Accounted, Active
      <4> QED
        BY <1>7, <1>11, <3>1, <4>1
    <3>2. CASE b # box
      <4>1. Recent(b)' = Recent(b) /\ q # r
        BY <1>1, <1>2, <1>3, <1>5, <3>2 DEF Recent, Active
      <4> QED
        BY <1>7, <2>1, <4>1 DEF Accounted
    <3> QED
      BY <3>1, <3>2
  <2>6. \A q, p \in Runs : Active(q, b) /\ Active(p, b) => q = p
    BY <2>1 DEF Accounted
  <2> QED
    BY <2>2, <2>3, <2>4, <2>5, <2>6 DEF Accounted
<1>13. HourlyCapHolds'
  <2> SUFFICES ASSUME NEW b \in RuleBoxes \ sent.loose, NEW t \in 0..moment
               PROVE  Cardinality({s \in Sends \cup {x} : s.box = b /\ s.at >= t /\ s.at < t + Hour}) <= Cap
    BY <1>1, <1>5 DEF HourlyCapHolds
  <2> DEFINE S == {s \in Sends : s.box = b /\ s.at >= t /\ s.at < t + Hour}
             T == {s \in Sends \cup {x} : s.box = b /\ s.at >= t /\ s.at < t + Hour}
  <2>1. CASE b = box /\ moment < t + Hour
    <3>1. T \subseteq Recent(box)'
      <4>1. \A s \in Sends : s.at \in 0..moment
        BY DEF RulesInv, RuleSendsTypeOK
      <4>2. \A s \in T : s.at \in Nat /\ s.at >= t
        BY <1>1, <1>2, <4>1
      <4> QED
        BY <1>1, <1>5, <2>1, <4>2 DEF Recent
    <3>2. IsFiniteSet(Recent(box)')
      BY <1>5, <1>6, FS_Subset DEF Recent
    <3>3. Cardinality(Recent(box)') \in Nat /\ Cardinality(Recent(box)') + step.budget <= Cap
      BY <1>11, <2>1
    <3> HIDE DEF T
    <3>4. Cardinality(T) <= Cardinality(Recent(box)') /\ Cardinality(T) \in Nat
      BY <3>1, <3>2, FS_Subset, FS_CardinalityType
    <3> QED
      BY <1>2, <3>3, <3>4 DEF T
  <2>2. CASE ~(b = box /\ moment < t + Hour)
    <3>1. T = S
      BY <1>1, <1>2, <1>3, <2>2
    <3>2. Cardinality(S) <= Cap
      BY DEF RulesInv, HourlyCapHolds, Sends
    <3> QED
      BY <3>1, <3>2
  <2> QED
    BY <2>1, <2>2
<1>14. OneReplyPerSender'
  <2>1. \A s \in Sends : s.at \in 0..moment
    BY DEF RulesInv, RuleSendsTypeOK
  <2>2. ASSUME NEW s \in Sends, x.kind = "autoReply", s.kind = "autoReply", s.box = x.box, s.to = x.to, box \notin sent.loose
        PROVE  s.at + Away <= moment
    <3>1. s \in OfBox(box)
      BY <1>2, <1>3, <2>2 DEF OfBox
    <3>2. PICK l \in sendLog : l.n = s.n /\ l.box = s.box /\ l.kind = s.kind /\ l.to = s.to /\ l.at >= s.at
      BY <1>11, <2>2, <3>1 DEF Logged
    <3>3. ~(l.at + Away > moment)
      BY <1>1, <1>2, <2>2, <3>2 DEF Skips, RepliedRecently
    <3>4. l.at \in Nat /\ s.at \in Nat
      BY <2>1 DEF RulesInv, RuleSendsTypeOK
    <3> QED
      BY <1>1, <3>2, <3>3, <3>4
  <2>3. \A s, q \in Sends :
           \/ s = q \/ s.kind # "autoReply" \/ q.kind # "autoReply"
           \/ s.box # q.box \/ s.to # q.to \/ s.at > q.at \/ s.at + Away <= q.at
           \/ s.box \in sent.loose
    BY DEF RulesInv, OneReplyPerSender, Sends
  <2>4. ASSUME NEW q \in Sends, x.kind = "autoReply", q.kind = "autoReply", q.box = x.box, q.to = x.to, box \notin sent.loose,
               ~(x.at > q.at)
        PROVE  x.at + Away <= q.at
    BY <1>1, <1>2, <2>1, <2>2, <2>4
  <2>5. ASSUME NEW s \in Sends \cup {x}, NEW q \in Sends \cup {x}
        PROVE  \/ s = q \/ s.kind # "autoReply" \/ q.kind # "autoReply"
               \/ s.box # q.box \/ s.to # q.to \/ s.at > q.at \/ s.at + Away <= q.at
               \/ s.box \in sent.loose
    <3>1. CASE s \in Sends /\ q \in Sends
      BY <2>3, <3>1
    <3>2. CASE s \in Sends /\ q = x
      BY <1>2, <1>3, <2>2, <3>2
    <3>3. CASE s = x /\ q \in Sends
      BY <1>2, <1>3, <2>4, <3>3
    <3> QED
      BY <3>1, <3>2, <3>3
  <2> QED
    BY <1>5, <2>5 DEF OneReplyPerSender
<1> QED
  BY <1>5, <1>8, <1>9, <1>10, <1>12, <1>13, <1>14 DEF RulesInv

LEMMA LogStep ==
    ASSUME RulesInv, NEW r \in Runs, Log(r)
    PROVE  RulesInv'
<1> USE RuleSendsAssumption
<1> DEFINE x == runs[r].send
           row == Row(x)
           step == Rest(r)
<1>1. /\ runs[r].pc = "log" /\ runs[r] # Quiet /\ x \in Sends /\ x.box = runs[r].box
      /\ x.at \in 0..moment /\ moment \in Nat
      /\ sendLog' = sendLog \cup {row} /\ runs' = [runs EXCEPT ![r] = step]
      /\ UNCHANGED <<moment, inbox, sent>>
      /\ DOMAIN runs = Runs
  BY DEF Log, Continue, RulesInv, RuleSendsTypeOK, LogsASend, Quiet
<1>2. row.n = x.n /\ row.box = x.box /\ row.kind = x.kind /\ row.to = x.to /\ row.at = moment
  BY DEF Row
<1>3. \/ step = Quiet
      \/ /\ step.pc = "send" /\ step.box = runs[r].box /\ step.budget = runs[r].budget
         /\ runs[r].box \in RuleBoxes /\ runs[r].budget \in Nat
  BY <1>1, RestGoesOn
<1> HIDE DEF row, step
<1>4. \A q \in Runs : runs'[q] = IF q = r THEN step ELSE runs[q]
  BY <1>1
<1>5. Sends' = Sends /\ sent' = sent /\ Quiet' = Quiet /\ inbox' = inbox
  BY <1>1 DEF Sends, Quiet
<1>6. RuleSendsTypeOK'
  <2>1. IsFiniteSet(sendLog')
    BY <1>1, FS_AddElement DEF RulesInv, RuleSendsTypeOK
  <2>2. \A l \in sendLog' : l.at \in Nat
    BY <1>1, <1>2 DEF RulesInv, RuleSendsTypeOK
  <2> QED
    BY <1>1, <1>3, <1>4, <1>5, <2>1, <2>2 DEF RulesInv, RuleSendsTypeOK
<1>7. OneOfEach' /\ LogsASend'
  BY <1>3, <1>4, <1>5 DEF RulesInv, OneOfEach, LogsASend, Quiet
<1>8. HourlyCapHolds' /\ OneReplyPerSender'
  BY <1>1 DEF RulesInv, HourlyCapHolds, OneReplyPerSender
<1>9. /\ \A s : Logged(s) => Logged(s)'
      /\ \A s \in Sends : s = x => Logged(s)'
  <2>1. \A s \in Sends : s = x => /\ row \in sendLog' /\ row.n = s.n /\ row.box = s.box /\ row.kind = s.kind
                                 /\ row.to = s.to /\ row.at >= s.at
    BY <1>1, <1>2
  <2> QED
    BY <1>1, <2>1 DEF Logged
<1>10. ASSUME NEW box \in RuleBoxes \ sent.loose PROVE Accounted(box)'
  <2>1. Accounted(box)
    BY DEF RulesInv
  <2>2. OfBox(box)' = OfBox(box) /\ Recent(box)' = Recent(box)
    BY <1>1, <1>5 DEF OfBox, Recent
  <2>3. \A q \in Runs : Active(q, box)' => Active(q, box) /\ runs'[q].budget = runs[q].budget
    BY <1>1, <1>3, <1>4, <1>5 DEF Active
  <2>4. \A s \in OfBox(box) : Logged(s)' \/ \E q \in Runs : runs'[q].pc = "log" /\ runs'[q].send = s
    <3> SUFFICES ASSUME NEW s \in OfBox(box), ~Logged(s)'
                 PROVE  \E q \in Runs : runs'[q].pc = "log" /\ runs'[q].send = s
      OBVIOUS
    <3>1. ~Logged(s) /\ s # x
      BY <1>9 DEF OfBox
    <3>2. PICK q \in Runs : runs[q].pc = "log" /\ runs[q].send = s
      BY <2>1, <3>1 DEF Accounted
    <3> QED
      BY <1>4, <3>1, <3>2
  <2>5. \A q, p \in Runs : Active(q, box)' /\ Active(p, box)' => q = p
    BY <2>1, <2>3 DEF Accounted
  <2>6. \A q \in Runs : Active(q, box)' => Cardinality(Recent(box)) + runs'[q].budget <= Cap
    BY <2>1, <2>3 DEF Accounted
  <2> QED
    BY <2>2, <2>4, <2>5, <2>6 DEF Accounted
<1> QED
  BY <1>5, <1>6, <1>7, <1>8, <1>10 DEF RulesInv

LEMMA LaterStep ==
    ASSUME RulesInv, Later
    PROVE  RulesInv'
<1> USE RuleSendsAssumption
<1>1. moment \in Nat /\ moment' = moment + 1 /\ UNCHANGED <<inbox, runs, sendLog, sent>>
  BY DEF Later, RulesInv, RuleSendsTypeOK
<1>2. Sends' = Sends /\ Quiet' = Quiet /\ \A s \in Sends : s.at \in 0..moment
  BY <1>1 DEF Sends, Quiet, RulesInv, RuleSendsTypeOK
<1>3. RuleSendsTypeOK'
  BY <1>1, <1>2 DEF RulesInv, RuleSendsTypeOK
<1>4. OneOfEach' /\ LogsASend' /\ OneReplyPerSender'
  BY <1>1, <1>2 DEF RulesInv, OneOfEach, LogsASend, OneReplyPerSender
<1>5. ASSUME NEW box \in RuleBoxes \ sent.loose PROVE Accounted(box)'
  <2>1. Accounted(box)
    BY DEF RulesInv
  <2>2. OfBox(box)' = OfBox(box) /\ (\A s : Logged(s)' = Logged(s)) /\ \A q : Active(q, box)' = Active(q, box)
    BY <1>1, <1>2 DEF OfBox, Logged, Active
  <2>3. Recent(box)' \subseteq Recent(box)
    BY <1>1, <1>2 DEF Recent
  <2>4. IsFiniteSet(Recent(box)) /\ Cardinality(Recent(box)) \in Nat
    BY RecentFinite DEF RulesInv, Recent
  <2>5. Cardinality(Recent(box)') <= Cardinality(Recent(box)) /\ Cardinality(Recent(box)') \in Nat
    BY <2>3, <2>4, FS_Subset, FS_CardinalityType
  <2>6. ASSUME NEW q \in Runs, Active(q, box) PROVE Cardinality(Recent(box)') + runs[q].budget <= Cap
    <3>1. runs[q].budget \in Nat /\ Cardinality(Recent(box)) + runs[q].budget <= Cap
      BY <2>1, <2>6 DEF Accounted, RulesInv, RuleSendsTypeOK, Active
    <3> QED
      BY <2>4, <2>5, <3>1
  <2> QED
    BY <1>1, <2>1, <2>2, <2>6 DEF Accounted
<1>6. HourlyCapHolds'
  <2> SUFFICES ASSUME NEW box \in RuleBoxes \ sent.loose, NEW t \in 0..(moment + 1)
               PROVE  Cardinality({s \in Sends : s.box = box /\ s.at >= t /\ s.at < t + Hour}) <= Cap
    BY <1>1 DEF HourlyCapHolds, Sends
  <2>1. CASE t \in 0..moment
    BY <2>1 DEF RulesInv, HourlyCapHolds, Sends
  <2>2. CASE t = moment + 1
    <3>1. {s \in Sends : s.box = box /\ s.at >= t /\ s.at < t + Hour} = {}
      BY <1>1, <1>2, <2>2
    <3> QED
      BY <3>1, FS_EmptySet
  <2> QED
    BY <1>1, <2>1, <2>2
<1> QED
  BY <1>1, <1>3, <1>4, <1>5, <1>6 DEF RulesInv

LEMMA RulesStepInv == RulesInv /\ [RuleSendsNext]_ruleVars => RulesInv'
<1> SUFFICES ASSUME RulesInv, [RuleSendsNext]_ruleVars PROVE RulesInv'
  OBVIOUS
<1>1. ASSUME NEW box \in RuleBoxes, Deliver(box) PROVE RulesInv'
  <2>1. \A m \in inbox' : m.to \in RuleBoxes
    BY <1>1 DEF Deliver, RulesInv, RuleSendsTypeOK
  <2> QED
    BY <1>1, <2>1, NothingSent DEF Deliver
<1>2. CASE UNCHANGED ruleVars
  <2>1. \A m \in inbox' : m.to \in RuleBoxes
    BY <1>2 DEF ruleVars, RulesInv, RuleSendsTypeOK
  <2> QED
    BY <1>2, <2>1, NothingSent DEF ruleVars
<1> QED
  BY <1>1, <1>2, LaterStep, SkipStep, SendStep, LogStep, FailStep, BeginStep DEF RuleSendsNext

\* Of a mailbox whose runs never overlapped and whose sends were all logged, the log accounts for
\* every send and the one run has counted the last hour's (rule-sends.ts:29-78, 128-145).
THEOREM RulesInvariant == RuleSendsSpec => []RulesInv
<1> QED
  BY RulesInitInv, RulesStepInv, PTL DEF RuleSendsSpec

\* No hour sees more rule sends of a mailbox than the cap, and no sender gets two vacation replies
\* within the window, for every number of mailboxes that forward to each other and every length
\* of their rules, with the provisos of the two parts (rule-sends.ts:12-14, 66-77, 103-117).
THEOREM RulesKeepTheirLimits == RuleSendsSpec => []SendLimitsHold
<1>1. RulesInv => SendLimitsHold
  BY DEF RulesInv, SendLimitsHold
<1> QED
  BY <1>1, RulesInvariant, PTL

-----------------------------------------------------------------------------
(***************************************************************************)
(* Metered calls: every number of calls, every cap and every cost.         *)
(***************************************************************************)
Threads == SUBSET Nat
CallRows == [pc : {"none", "gather", "check", "run", "charge", "save"}, feature : Features, asked : Nat,
             count : Nat, of : Threads, thinned : BOOLEAN]
SummaryRows == [of : Threads, count : Nat, thinned : BOOLEAN]
Spending == [Pools -> [0..LastMonth -> Nat]]
Months == SUBSET (Pools \X (0..LastMonth))

AiTypeOK ==
    /\ month \in 0..LastMonth
    /\ meter \in [Pools -> [period : 0..LastMonth, tokens : Nat]]
    /\ calls \in [Calls -> CallRows]
    /\ \A c \in Calls : calls[c].asked <= month
    /\ messages = [ever |-> messages.ever, now |-> messages.now]
    /\ messages.ever \in Nat /\ messages.now \in Threads /\ IsFiniteSet(messages.now)
    /\ told = [spent |-> told.spent, refused |-> told.refused, stale |-> told.stale, raced |-> told.raced]
    /\ told.spent \in Spending /\ told.raced \in Months

InFlight(c) == calls[c].pc \in {"run", "charge"}
Pool(c) == PoolOf(calls[c].feature)
\* The month a call is going to be charged in.
Period(c) == IF Pool(c) = "spam" THEN calls[c].asked ELSE month
Raced(p, m) == <<p, m>> \in told.raced

\* No meter counts what was not charged, and no month to come was charged.
MetersTell ==
    /\ RefusedOnlyAtCap
    /\ \A p \in Pools : meter[p].tokens <= told.spent[p][meter[p].period] /\ meter[p].period <= month
    /\ \A p \in Pools, m \in 0..LastMonth : m > month => told.spent[p][m] = 0

\* A month in which no calls overlapped: its meter is exact, no two calls are in flight, and the
\* one that is found tokens left.
OverlapsNoted == \A c, d \in Calls : c # d /\ InFlight(c) /\ InFlight(d) /\ Pool(c) = Pool(d) =>
    \A m \in 0..LastMonth : m >= Period(c) /\ m >= Period(d) => Raced(Pool(c), m)
MeterExact == \A p \in Pools : ~Raced(p, month) =>
    told.spent[p][month] = (IF meter[p].period = month THEN meter[p].tokens ELSE 0)
OldCallsFirst == \A c \in Calls : InFlight(c) /\ Period(c) < month /\ ~Raced(Pool(c), month) =>
    told.spent[Pool(c)][month] = 0
RoomWasLeft == \A c \in Calls : InFlight(c) /\ ~Raced(Pool(c), Period(c)) =>
    told.spent[Pool(c)][Period(c)] < TokenCap

\* What was gathered since the messages were counted has as many of them, and is of the thread
\* as long as none was removed.
GatheredIsThere ==
    /\ ~told.stale
    /\ summary \subseteq SummaryRows /\ \A s, t \in summary : s = t
    /\ \A s \in summary : ~s.thinned => s.of \subseteq messages.now /\ s.count <= Cardinality(s.of)
    /\ \A c \in Calls : calls[c].pc \in {"gather", "save"} => calls[c].feature = "summary"
    /\ \A c \in Calls : calls[c].feature = "summary" /\ ~calls[c].thinned =>
          IF calls[c].pc = "gather" THEN calls[c].count <= Cardinality(messages.now)
          ELSE calls[c].of \subseteq messages.now /\ calls[c].count <= Cardinality(calls[c].of)

MeterInv == MetersTell /\ OverlapsNoted /\ MeterExact /\ OldCallsFirst /\ RoomWasLeft /\ MonthWithinCap
AiInv == AiTypeOK /\ MeterInv /\ GatheredIsThere

LEMMA AiInitInv == AiInit => AiInv
<1> SUFFICES ASSUME AiInit PROVE AiInv
  OBVIOUS
<1> USE AiFeaturesAssumption
<1>1. AiTypeOK
  <2>1. /\ month \in 0..LastMonth /\ meter \in [Pools -> [period : 0..LastMonth, tokens : Nat]]
        /\ messages = [ever |-> messages.ever, now |-> messages.now]
        /\ messages.ever \in Nat /\ messages.now = {1}
        /\ told = [spent |-> told.spent, refused |-> told.refused, stale |-> told.stale, raced |-> told.raced]
        /\ told.spent = [p \in Pools |-> [m \in 0..LastMonth |-> 0]] /\ told.raced = {}
    BY DEF AiInit
  <2>2. NoCall \in CallRows /\ NoCall.asked = 0
    BY DEF NoCall, Fresh, CallRows, Features, Threads
  <2>3. calls \in [Calls -> CallRows] /\ \A c \in Calls : calls[c].asked <= month
    BY <2>2 DEF AiInit
  <2>4. messages.now \in Threads /\ IsFiniteSet(messages.now)
    <3>1. IsFiniteSet({1})
      BY FS_Singleton, Zenon
    <3> QED
      BY <2>1, <3>1 DEF Threads
  <2>5. told.spent \in Spending /\ told.raced \in Months
    BY <2>1 DEF Spending, Months
  <2> QED
    BY <2>1, <2>3, <2>4, <2>5 DEF AiTypeOK
<1>2. MeterInv
  <2>1. Max(Costs) \in Nat
    BY GreatestOf
  <2>2. \A c \in Calls : ~InFlight(c)
    BY DEF AiInit, InFlight, NoCall, Fresh
  <2>3. /\ \A p \in Pools : meter[p].period = 0 /\ meter[p].tokens = 0
        /\ \A p \in Pools, m \in 0..LastMonth : told.spent[p][m] = 0
        /\ month = 0 /\ told.refused = FALSE
    BY DEF AiInit
  <2> QED
    BY <2>1, <2>2, <2>3 DEF MeterInv, MetersTell, OverlapsNoted, MeterExact, OldCallsFirst, RoomWasLeft,
       MonthWithinCap, RefusedOnlyAtCap
<1>3. GatheredIsThere
  BY DEF AiInit, GatheredIsThere, NoCall, Fresh
<1> QED
  BY <1>1, <1>2, <1>3 DEF AiInv

\* What is charged matters to the meters, and which calls are going to be.
LEMMA MetersUntouched ==
    ASSUME AiTypeOK, MeterInv, UNCHANGED <<month, meter>>,
           told'.spent = told.spent /\ told'.raced = told.raced /\ (told'.refused => told.refused),
           \A d \in Calls : InFlight(d)' => /\ InFlight(d) /\ calls'[d].feature = calls[d].feature
                                           /\ calls'[d].asked = calls[d].asked
    PROVE  MeterInv'
<1>1. \A d \in Calls : InFlight(d)' => InFlight(d) /\ Pool(d)' = Pool(d) /\ Period(d)' = Period(d)
  BY DEF Pool, Period
<1> USE DEF MeterInv, Raced
<1>2. MetersTell'
  BY DEF MetersTell, RefusedOnlyAtCap
<1>3. OverlapsNoted'
  BY <1>1 DEF OverlapsNoted
<1>4. MeterExact'
  BY DEF MeterExact
<1>5. OldCallsFirst'
  BY <1>1 DEF OldCallsFirst
<1>6. RoomWasLeft'
  BY <1>1 DEF RoomWasLeft
<1>7. MonthWithinCap'
  BY DEF MonthWithinCap
<1> QED
  BY <1>2, <1>3, <1>4, <1>5, <1>6, <1>7

\* And to the summaries, what was gathered of a thread that stays.
LEMMA SummariesUntouched ==
    ASSUME GatheredIsThere, UNCHANGED <<messages, summary>>, (told'.stale => told.stale),
           \A d \in Calls : \/ calls'[d] = calls[d]
                            \/ calls'[d].feature # "summary" /\ calls'[d].pc \notin {"gather", "save"}
                            \/ /\ calls[d].pc # "gather" /\ calls'[d].pc # "gather"
                               /\ calls[d].feature = "summary" /\ calls'[d].feature = "summary"
                               /\ calls'[d].count = calls[d].count /\ calls'[d].of = calls[d].of
                               /\ calls'[d].thinned = calls[d].thinned
    PROVE  GatheredIsThere'
  BY DEF GatheredIsThere

LEMMA CallIsTyped ==
    ASSUME NEW x \in CallRows
    PROVE  /\ x.pc \in {"none", "gather", "check", "run", "charge", "save"} /\ x.feature \in Features
           /\ x.asked \in Nat /\ x.count \in Nat /\ x.of \in Threads /\ x.thinned \in BOOLEAN
           /\ x = [pc |-> x.pc, feature |-> x.feature, asked |-> x.asked, count |-> x.count, of |-> x.of, thinned |-> x.thinned]
  BY DEF CallRows

LEMMA NoCallIsTyped == NoCall \in CallRows /\ NoCall.asked = 0 /\ NoCall.pc = "none" /\ NoCall.feature = "insight"
  BY DEF NoCall, Fresh, CallRows, Features, Threads

\* A call that takes a step keeps the types.
LEMMA CallsKeepTypes ==
    ASSUME AiTypeOK, NEW c \in Calls, NEW x \in CallRows, x.asked <= month, calls' = [calls EXCEPT ![c] = x],
           UNCHANGED <<month, meter, messages>>,
           told' = [told EXCEPT !.stale = told'.stale, !.raced = told'.raced, !.refused = told'.refused], told'.raced \in Months
    PROVE  AiTypeOK' /\ told'.spent = told.spent
<1>1. calls' \in [Calls -> CallRows] /\ \A d \in Calls : calls'[d].asked <= month
  BY DEF AiTypeOK
<1>2. /\ told'.spent = told.spent
      /\ told' = [spent |-> told'.spent, refused |-> told'.refused, stale |-> told'.stale, raced |-> told'.raced]
  BY DEF AiTypeOK
<1> QED
  BY <1>1, <1>2 DEF AiTypeOK

LEMMA MeteredStep ==
    ASSUME AiInv, NEW c \in Calls, NEW call \in CallRows, Metered(c, call), call.pc = "check", call.asked <= month,
           calls[c].pc \in {"none", "check"},
           call.feature = "summary" =>
               /\ calls[c] = call
               /\ ~call.thinned => call.of \subseteq messages.now /\ call.count <= Cardinality(call.of)
    PROVE  AiInv'
<1> USE AiFeaturesAssumption
<1> DEFINE pool == PoolOf(call.feature)
           asked == IF pool = "spam" THEN month ELSE 0
           run == [call EXCEPT !.pc = "run", !.asked = asked]
           others == {d \in Calls \ {c} : calls[d].pc \in {"run", "charge"} /\ PoolOf(calls[d].feature) = pool}
<1>0. pool \in Pools /\ UNCHANGED <<month, meter, messages, summary>> /\ month \in Nat /\ ~InFlight(c)
  BY DEF PoolOf, Pools, Metered, AiInv, AiTypeOK, InFlight
<1>1. CASE Exhausted(pool)
  <2>1. calls' = [calls EXCEPT ![c] = NoCall] /\ NoCall \in CallRows
    BY <1>1, NoCallIsTyped DEF Metered, Become
  <2>2. told' = [told EXCEPT !.refused = @ \/ told.spent[pool][month] < TokenCap] /\ ~(told.spent[pool][month] < TokenCap)
    BY <1>0, <1>1 DEF Metered, Exhausted, AiInv, AiTypeOK, MeterInv, MetersTell, Spending
  <2>3. /\ told'.raced = told.raced /\ told'.stale = told.stale
        /\ told'.refused = (told.refused \/ told.spent[pool][month] < TokenCap)
        /\ told' = [told EXCEPT !.stale = told'.stale, !.raced = told'.raced, !.refused = told'.refused]
    BY <2>2 DEF AiInv, AiTypeOK
  <2>4. told'.refused => told.refused
    BY <2>2, <2>3
  <2>5. AiTypeOK' /\ told'.spent = told.spent
    <3>1. AiTypeOK /\ NoCall \in CallRows /\ NoCall.asked <= month /\ told'.raced \in Months
      BY <1>0, <2>3, NoCallIsTyped DEF AiInv, AiTypeOK
    <3> QED
      BY <1>0, <2>1, <2>3, <3>1, CallsKeepTypes
  <2>6. MeterInv'
    <3>1. \A d \in Calls : InFlight(d)' => d # c /\ calls'[d] = calls[d]
      BY <2>1, NoCallIsTyped DEF InFlight, AiInv, AiTypeOK
    <3> QED
      BY <1>0, <2>3, <2>4, <2>5, <3>1, MetersUntouched DEF AiInv, InFlight
  <2>7. GatheredIsThere'
    <3>1. \A d \in Calls : calls'[d] = calls[d] \/ (calls'[d].feature # "summary" /\ calls'[d].pc = "none")
      BY <2>1, NoCallIsTyped DEF AiInv, AiTypeOK
    <3> QED
      BY <1>0, <2>3, <3>1, SummariesUntouched DEF AiInv
  <2> QED
    BY <2>5, <2>6, <2>7 DEF AiInv
<1>2. CASE ~Exhausted(pool)
  <2>1. /\ calls' = [calls EXCEPT ![c] = run]
        /\ told' = [told EXCEPT !.raced = @ \cup {<<pool, m>> : m \in IF others = {} THEN {} ELSE month..LastMonth}]
    BY <1>2 DEF Metered, Become
  <2>2. /\ run \in CallRows /\ run.asked = asked /\ run.pc = "run" /\ run.feature = call.feature /\ run.asked <= month
        /\ run.count = call.count /\ run.of = call.of /\ run.thinned = call.thinned
    <3>1. asked \in Nat /\ asked <= month
      BY <1>0
    <3> HIDE DEF asked
    <3> DEFINE mid == [call EXCEPT !.pc = "run"]
    <3>a. mid = [pc |-> "run", feature |-> call.feature, asked |-> call.asked, count |-> call.count,
                 of |-> call.of, thinned |-> call.thinned]
      BY CallIsTyped
    <3>b. run = [mid EXCEPT !.asked = asked]
      OBVIOUS
    <3> HIDE DEF mid, run
    <3>2. run = [pc |-> "run", feature |-> call.feature, asked |-> asked, count |-> call.count,
                 of |-> call.of, thinned |-> call.thinned]
      BY <3>a, <3>b
    <3> QED
      BY <3>1, <3>2, CallIsTyped DEF CallRows
  <2>3. /\ told'.spent = told.spent /\ told'.stale = told.stale /\ told'.refused = told.refused
        /\ told'.raced = told.raced \cup {<<pool, m>> : m \in IF others = {} THEN {} ELSE month..LastMonth}
        /\ told' = [spent |-> told'.spent, refused |-> told'.refused, stale |-> told'.stale, raced |-> told'.raced]
    BY <2>1 DEF AiInv, AiTypeOK
  <2> HIDE DEF run
  <2>4. AiTypeOK'
    <3>1. told'.raced \in Months
      BY <1>0, <2>3 DEF AiInv, AiTypeOK, Months
    <3> HIDE DEF others
    <3> QED
      BY <1>0, <2>1, <2>2, <2>3, <3>1 DEF AiInv, AiTypeOK
  <2>5. /\ calls'[c] = run /\ \A d \in Calls \ {c} : calls'[d] = calls[d]
        /\ \A d \in Calls \ {c} : InFlight(d)' = InFlight(d) /\ Pool(d)' = Pool(d) /\ Period(d)' = Period(d)
        /\ InFlight(c)' /\ Pool(c)' = pool /\ Period(c)' = month
    BY <1>0, <2>1, <2>2 DEF AiInv, AiTypeOK, InFlight, Pool, Period
  <2>6. /\ \A p \in Pools, m \in 0..LastMonth : Raced(p, m) => Raced(p, m)'
        /\ \A d \in Calls \ {c} : InFlight(d) /\ Pool(d) = pool => \A m \in 0..LastMonth : m >= month => Raced(pool, m)'
        /\ \A d \in Calls : Period(d) <= month /\ Pool(d) \in Pools
    <3>1. \A d \in Calls \ {c} : InFlight(d) /\ Pool(d) = pool => d \in others
      BY DEF InFlight, Pool
    <3>2. others # {} => \A m \in 0..LastMonth : m >= month => Raced(pool, m)'
      BY <1>0, <2>3 DEF Raced
    <3>3. \A d \in Calls : Period(d) <= month /\ Pool(d) \in Pools
      BY <1>0 DEF Period, Pool, PoolOf, Pools, AiInv, AiTypeOK
    <3> QED
      BY <2>3, <3>1, <3>2, <3>3 DEF Raced
  <2>7. MetersTell'
    BY <1>0, <2>3 DEF AiInv, MeterInv, MetersTell, RefusedOnlyAtCap
  <2>8. OverlapsNoted'
    BY <1>0, <2>5, <2>6 DEF AiInv, AiTypeOK, MeterInv, OverlapsNoted
  <2>9. MeterExact'
    BY <1>0, <2>3, <2>6 DEF AiInv, AiTypeOK, MeterInv, MeterExact
  <2>10. OldCallsFirst'
    BY <1>0, <2>3, <2>5, <2>6 DEF AiInv, AiTypeOK, MeterInv, OldCallsFirst
  <2>11. RoomWasLeft'
    <3>1. ~Raced(pool, month) => told.spent[pool][month] < TokenCap
      BY <1>0, <1>2 DEF Exhausted, AiInv, AiTypeOK, MeterInv, MeterExact
    <3>2. \A d \in Calls \ {c} : InFlight(d)' /\ ~Raced(Pool(d), Period(d))' => told'.spent[Pool(d)'][Period(d)'] < TokenCap
      BY <1>0, <2>3, <2>5, <2>6 DEF AiInv, AiTypeOK, MeterInv, RoomWasLeft, Raced
    <3> QED
      BY <1>0, <2>3, <2>5, <2>6, <3>1, <3>2 DEF RoomWasLeft, Raced, AiInv, AiTypeOK
  <2>12. MonthWithinCap'
    BY <2>3 DEF AiInv, MeterInv, MonthWithinCap
  <2>13. GatheredIsThere'
    BY <1>0, <2>2, <2>3, <2>5, CallIsTyped, SummariesUntouched DEF AiInv
  <2> QED
    BY <2>4, <2>7, <2>8, <2>9, <2>10, <2>11, <2>12, <2>13 DEF AiInv, MeterInv
<1> QED
  BY <1>1, <1>2

\* Money is charged in one month of one meter.
LEMMA ChargeStep ==
    ASSUME AiInv, NEW c \in Calls, NEW cost \in Costs, Charge(c, cost)
    PROVE  AiInv'
<1> USE AiFeaturesAssumption
<1> DEFINE pool == PoolOf(calls[c].feature)
           period == IF pool = "spam" THEN calls[c].asked ELSE month
           next == IF calls[c].feature = "summary" THEN [calls[c] EXCEPT !.pc = "save"] ELSE NoCall
<1>0. /\ pool \in Pools /\ period \in 0..LastMonth /\ period <= month /\ cost \in Nat
      /\ UNCHANGED <<month, messages, summary>> /\ InFlight(c) /\ Pool(c) = pool /\ Period(c) = period
      /\ month \in Nat /\ cost <= Max(Costs) /\ Max(Costs) \in Nat
  BY GreatestOf DEF PoolOf, Pools, Charge, AiInv, AiTypeOK, InFlight, Pool, Period, CallRows
<1>1. /\ calls' = [calls EXCEPT ![c] = next]
      /\ next \in CallRows /\ next.pc \in {"none", "save"} /\ next.asked <= month
      /\ \/ next.feature # "summary" /\ next.pc = "none"
         \/ /\ calls[c].feature = "summary" /\ next.feature = "summary" /\ next.count = calls[c].count /\ next.of = calls[c].of
            /\ next.thinned = calls[c].thinned
  <2>1. CASE calls[c].feature = "summary"
    <3>1. next = [pc |-> "save", feature |-> calls[c].feature, asked |-> calls[c].asked, count |-> calls[c].count,
                  of |-> calls[c].of, thinned |-> calls[c].thinned]
      BY <2>1, CallIsTyped DEF AiInv, AiTypeOK
    <3>2. calls' = [calls EXCEPT ![c] = next]
      BY <2>1 DEF Charge
    <3> HIDE DEF next
    <3> QED
      BY <2>1, <3>1, <3>2, CallIsTyped DEF AiInv, AiTypeOK, CallRows
  <2>2. CASE calls[c].feature # "summary"
    BY <1>0, <2>2, NoCallIsTyped DEF Charge
  <2> QED
    BY <2>1, <2>2
<1> HIDE DEF next
<1>2. /\ told'.raced = told.raced /\ told'.refused = told.refused /\ told'.stale = told.stale
      /\ told'.spent = [told.spent EXCEPT ![pool][period] = @ + cost]
      /\ told' = [spent |-> told'.spent, refused |-> told'.refused, stale |-> told'.stale, raced |-> told'.raced]
  BY DEF Charge, AiInv, AiTypeOK
<1>3. /\ \A p \in Pools, m \in 0..LastMonth : told.spent[p][m] \in Nat
      /\ told'.spent \in Spending
      /\ told'.spent[pool][period] = told.spent[pool][period] + cost
      /\ \A p \in Pools, m \in 0..LastMonth : <<p, m>> # <<pool, period>> => told'.spent[p][m] = told.spent[p][m]
  <2> DEFINE row == [told.spent[pool] EXCEPT ![period] = told.spent[pool][period] + cost]
  <2>1. told.spent \in [Pools -> [0..LastMonth -> Nat]] /\ told.spent[pool] \in [0..LastMonth -> Nat]
    BY <1>0 DEF AiInv, AiTypeOK, Spending
  <2>2. told'.spent = [told.spent EXCEPT ![pool] = row]
    BY <1>2
  <2> HIDE DEF pool, period
  <2>3. /\ row \in [0..LastMonth -> Nat] /\ row[period] = told.spent[pool][period] + cost
        /\ \A m \in 0..LastMonth : m # period => row[m] = told.spent[pool][m]
    BY <1>0, <2>1, SMTT(30)
  <2> HIDE DEF row
  <2>4. told'.spent \in Spending /\ told'.spent[pool] = row /\ \A p \in Pools : p # pool => told'.spent[p] = told.spent[p]
    BY <1>0, <2>1, <2>2, <2>3 DEF Spending
  <2> QED
    BY <1>0, <2>1, <2>3, <2>4
<1>4. /\ meter' \in [Pools -> [period : 0..LastMonth, tokens : Nat]]
      /\ meter'[pool].period = period
      /\ meter'[pool].tokens = IF meter[pool].period = period THEN meter[pool].tokens + cost ELSE cost
      /\ \A p \in Pools : p # pool => meter'[p] = meter[p]
  <2>1. meter' = [meter EXCEPT ![pool] = Charged(meter[pool], period, cost)]
    BY DEF Charge
  <2>2. Charged(meter[pool], period, cost) \in [period : 0..LastMonth, tokens : Nat]
    BY <1>0 DEF Charged, AiInv, AiTypeOK
  <2> QED
    BY <1>0, <2>1, <2>2 DEF Charged, AiInv, AiTypeOK
<1>5. /\ calls'[c] = next /\ \A d \in Calls \ {c} : calls'[d] = calls[d]
      /\ ~InFlight(c)'
      /\ \A d \in Calls \ {c} : InFlight(d)' = InFlight(d) /\ Pool(d)' = Pool(d) /\ Period(d)' = Period(d)
  BY <1>0, <1>1 DEF AiInv, AiTypeOK, InFlight, Pool, Period
<1>6. \A p \in Pools, m \in 0..LastMonth : Raced(p, m)' = Raced(p, m)
  BY <1>2 DEF Raced
<1>7. \A d \in Calls : Period(d) \in 0..LastMonth /\ Period(d) <= month /\ Pool(d) \in Pools
  BY <1>0 DEF Period, Pool, PoolOf, Pools, AiInv, AiTypeOK, CallRows
<1> HIDE DEF pool, period
<1>8. AiTypeOK'
  <2>1. calls' \in [Calls -> CallRows] /\ \A d \in Calls : calls'[d].asked <= month
    BY <1>1 DEF AiInv, AiTypeOK
  <2> QED
    BY <1>0, <1>2, <1>3, <1>4, <2>1 DEF AiInv, AiTypeOK
<1>9. MetersTell'
  <2>1. \A p \in Pools : meter'[p].tokens <= told'.spent[p][meter'[p].period] /\ meter'[p].period <= month
    BY <1>0, <1>3, <1>4 DEF AiInv, AiTypeOK, MeterInv, MetersTell
  <2>2. \A p \in Pools, m \in 0..LastMonth : m > month => told'.spent[p][m] = 0
    BY <1>0, <1>3 DEF AiInv, MeterInv, MetersTell
  <2> QED
    BY <1>0, <1>2, <2>1, <2>2 DEF AiInv, MeterInv, MetersTell, RefusedOnlyAtCap
<1>10. OverlapsNoted'
  BY <1>5, <1>6, <1>7 DEF AiInv, MeterInv, OverlapsNoted
\* The charge is for this month, or the month has seen none yet.
<1>11. MeterExact'
  <2> SUFFICES ASSUME NEW p \in Pools, ~Raced(p, month)
               PROVE  told'.spent[p][month] = (IF meter'[p].period = month THEN meter'[p].tokens ELSE 0)
    BY <1>0, <1>6 DEF MeterExact, AiInv, AiTypeOK
  <2>1. told.spent[p][month] = (IF meter[p].period = month THEN meter[p].tokens ELSE 0)
    BY DEF AiInv, MeterInv, MeterExact
  <2>2. CASE p # pool
    BY <1>0, <1>3, <1>4, <2>1, <2>2 DEF AiInv, AiTypeOK
  <2>3. CASE p = pool /\ period = month
    BY <1>0, <1>3, <1>4, <2>1, <2>3 DEF AiInv, AiTypeOK
  <2>4. CASE p = pool /\ period < month
    BY <1>0, <1>3, <1>4, <2>4 DEF AiInv, AiTypeOK, MeterInv, OldCallsFirst
  <2> QED
    BY <1>0, <2>2, <2>3, <2>4
\* Were another call of the pool in flight, they would have overlapped.
<1>12. ASSUME NEW d \in Calls, InFlight(d)', Pool(d)' = pool, NEW m \in 0..LastMonth, m >= Period(d), m >= period
       PROVE  Raced(pool, m)
  BY <1>0, <1>5, <1>7, <1>12 DEF AiInv, MeterInv, OverlapsNoted
<1>13. OldCallsFirst'
  <2> SUFFICES ASSUME NEW d \in Calls, InFlight(d)', Period(d)' < month, ~Raced(Pool(d), month)'
               PROVE  told'.spent[Pool(d)'][month] = 0
    BY <1>0 DEF OldCallsFirst
  <2>1. d # c /\ InFlight(d) /\ Period(d)' = Period(d) /\ Pool(d)' = Pool(d) /\ ~Raced(Pool(d), month)
    BY <1>5, <1>6, <1>7, <1>0 DEF AiInv, AiTypeOK, Raced
  <2>2. told.spent[Pool(d)][month] = 0
    BY <1>0, <2>1 DEF AiInv, MeterInv, OldCallsFirst
  <2>3. CASE Pool(d) = pool
    BY <1>0, <1>7, <1>12, <2>1, <2>3 DEF AiInv, AiTypeOK
  <2>4. CASE Pool(d) # pool
    BY <1>0, <1>3, <1>7, <2>1, <2>2, <2>4 DEF AiInv, AiTypeOK
  <2> QED
    BY <2>3, <2>4
<1>14. RoomWasLeft'
  <2> SUFFICES ASSUME NEW d \in Calls, InFlight(d)', ~Raced(Pool(d), Period(d))'
               PROVE  told'.spent[Pool(d)'][Period(d)'] < TokenCap
    BY DEF RoomWasLeft
  <2>1. d # c /\ InFlight(d) /\ Period(d)' = Period(d) /\ Pool(d)' = Pool(d) /\ ~Raced(Pool(d), Period(d))
    BY <1>2, <1>5 DEF Raced
  <2>2. told.spent[Pool(d)][Period(d)] < TokenCap
    BY <2>1 DEF AiInv, MeterInv, RoomWasLeft
  <2>3. CASE <<Pool(d), Period(d)>> = <<pool, period>>
    BY <1>0, <1>7, <1>12, <2>1, <2>3
  <2>4. CASE <<Pool(d), Period(d)>> # <<pool, period>>
    BY <1>3, <1>7, <2>1, <2>2, <2>4
  <2> QED
    BY <2>3, <2>4
<1>15. MonthWithinCap'
  <2> SUFFICES ASSUME NEW p \in Pools, NEW m \in 0..LastMonth, ~Raced(p, m)
               PROVE  told'.spent[p][m] < TokenCap + Max(Costs)
    BY <1>2 DEF MonthWithinCap, Raced
  <2>1. CASE <<p, m>> = <<pool, period>>
    <3>1. told.spent[pool][period] < TokenCap
      BY <1>0, <2>1 DEF AiInv, MeterInv, RoomWasLeft
    <3> QED
      BY <1>0, <1>3, <2>1, <3>1
  <2>2. CASE <<p, m>> # <<pool, period>>
    BY <1>3, <2>2 DEF AiInv, MeterInv, MonthWithinCap, Raced
  <2> QED
    BY <2>1, <2>2
<1>16. GatheredIsThere'
  <2>1. calls[c].pc = "charge"
    BY DEF Charge
  <2> QED
    BY <1>0, <1>1, <1>2, <1>5, <2>1, SummariesUntouched DEF AiInv
<1> QED
  BY <1>8, <1>9, <1>10, <1>11, <1>13, <1>14, <1>15, <1>16 DEF AiInv, MeterInv

LEMMA AiStepInv == AiInv /\ [AiNext]_aiVars => AiInv'
<1> SUFFICES ASSUME AiInv, [AiNext]_aiVars PROVE AiInv'
  OBVIOUS
<1> USE AiFeaturesAssumption
<1>1. CASE MonthTurns
  <2>0. /\ month' = month + 1 /\ month < LastMonth /\ month \in Nat /\ UNCHANGED <<meter, calls, messages, summary, told>>
        /\ \A d \in Calls : /\ InFlight(d)' = InFlight(d) /\ Pool(d)' = Pool(d) /\ Pool(d) \in Pools
                            /\ Period(d)' = IF Pool(d) = "spam" THEN Period(d) ELSE month + 1
                            /\ Period(d) <= month /\ Period(d) \in Nat
        /\ \A p, m : Raced(p, m)' = Raced(p, m)
    BY <1>1 DEF MonthTurns, AiInv, AiTypeOK, CallRows, InFlight, Pool, Period, Raced, PoolOf, Pools
  <2>1. AiTypeOK'
    <3>1. month' \in 0..LastMonth /\ \A d \in Calls : calls[d].asked <= month + 1
      BY <2>0 DEF AiInv, AiTypeOK, CallRows
    <3> QED
      BY <2>0, <3>1 DEF AiInv, AiTypeOK
  <2>2. MetersTell'
    BY <2>0 DEF AiInv, AiTypeOK, MeterInv, MetersTell, RefusedOnlyAtCap
  <2>3. OverlapsNoted'
    BY <2>0 DEF AiInv, AiTypeOK, MeterInv, OverlapsNoted
  <2>4. MeterExact'
    <3>1. \A p \in Pools : told.spent[p][month + 1] = 0 /\ meter[p].period # month + 1
      BY <2>0 DEF AiInv, AiTypeOK, MeterInv, MetersTell
    <3> QED
      BY <2>0, <3>1 DEF MeterExact
  <2>5. OldCallsFirst'
    <3>1. \A p \in Pools : told.spent[p][month + 1] = 0
      BY <2>0 DEF AiInv, MeterInv, MetersTell
    <3> QED
      BY <2>0, <3>1 DEF OldCallsFirst
  <2>6. RoomWasLeft'
    <3> SUFFICES ASSUME NEW d \in Calls, InFlight(d), ~Raced(Pool(d), Period(d)')
                 PROVE  told.spent[Pool(d)][Period(d)'] < TokenCap
      BY <2>0 DEF RoomWasLeft
    <3>1. CASE Pool(d) = "spam"
      BY <2>0, <3>1 DEF AiInv, MeterInv, RoomWasLeft
    <3>2. CASE Pool(d) # "spam"
      BY <2>0, <3>2 DEF AiInv, MeterInv, MetersTell
    <3> QED
      BY <3>1, <3>2
  <2>7. MonthWithinCap'
    BY <2>0 DEF AiInv, MeterInv, MonthWithinCap
  <2>8. GatheredIsThere'
    BY <2>0 DEF AiInv, GatheredIsThere
  <2> QED
    BY <2>1, <2>2, <2>3, <2>4, <2>5, <2>6, <2>7, <2>8 DEF AiInv, MeterInv
<1>2. ASSUME NEW c \in Calls, NEW x \in CallRows, x.asked <= month, calls' = [calls EXCEPT ![c] = x],
             x.pc \in {"run", "charge"} => InFlight(c) /\ x.feature = calls[c].feature /\ x.asked = calls[c].asked,
             UNCHANGED <<month, meter, messages>>,
             told' = [told EXCEPT !.stale = told'.stale, !.raced = told.raced, !.refused = told.refused]
      PROVE  AiTypeOK' /\ MeterInv'
  <2>1. told'.raced = told.raced /\ told'.refused = told.refused /\ told.raced \in Months /\ AiTypeOK
    BY <1>2 DEF AiInv, AiTypeOK
  <2>2. AiTypeOK' /\ told'.spent = told.spent
    BY <1>2, <2>1, CallsKeepTypes
  <2>3. \A d \in Calls : InFlight(d)' => /\ InFlight(d) /\ calls'[d].feature = calls[d].feature
                                        /\ calls'[d].asked = calls[d].asked
    BY <1>2 DEF InFlight, AiInv, AiTypeOK
  <2> QED
    BY <1>2, <2>1, <2>2, <2>3, MetersUntouched DEF AiInv
<1>3. ASSUME NEW c \in Calls, Answer(c) PROVE AiInv'
  <2> DEFINE x == [calls[c] EXCEPT !.pc = "charge"]
  <2>1. x = [pc |-> "charge", feature |-> calls[c].feature, asked |-> calls[c].asked, count |-> calls[c].count,
             of |-> calls[c].of, thinned |-> calls[c].thinned]
    BY CallIsTyped DEF AiInv, AiTypeOK
  <2>2. x \in CallRows
    BY <2>1, CallIsTyped DEF AiInv, AiTypeOK, CallRows
  <2>3. /\ calls' = [calls EXCEPT ![c] = x] /\ calls[c].pc = "run" /\ InFlight(c) /\ calls[c].asked <= month
        /\ UNCHANGED <<month, meter, messages, summary, told>>
    BY <1>3 DEF Answer, InFlight, AiInv, AiTypeOK
  <2>4. told' = [told EXCEPT !.stale = told'.stale, !.raced = told.raced, !.refused = told.refused]
    BY <2>3 DEF AiInv, AiTypeOK
  <2> HIDE DEF x
  <2>5. AiTypeOK' /\ MeterInv'
    BY <1>2, <2>1, <2>2, <2>3, <2>4
  <2>6. GatheredIsThere'
    <3>1. calls'[c] = x /\ \A d \in Calls \ {c} : calls'[d] = calls[d]
      BY <2>3 DEF AiInv, AiTypeOK
    <3> QED
      BY <2>1, <2>3, <3>1, SummariesUntouched DEF AiInv
  <2> QED
    BY <2>5, <2>6 DEF AiInv
<1>4. ASSUME NEW c \in Calls, GiveUp(c) \/ Save(c) PROVE AiInv'
  <2>1. /\ calls' = [calls EXCEPT ![c] = NoCall] /\ UNCHANGED <<month, meter, messages, told>> /\ month \in Nat
        /\ \/ UNCHANGED summary
           \/ /\ calls[c].pc = "save"
              /\ summary' = {[of |-> calls[c].of, count |-> calls[c].count, thinned |-> calls[c].thinned]}
    BY <1>4 DEF GiveUp, Save, Become, AiInv, AiTypeOK
  <2>2. told' = [told EXCEPT !.stale = told'.stale, !.raced = told.raced, !.refused = told.refused]
    BY <2>1 DEF AiInv, AiTypeOK
  <2>3. AiTypeOK' /\ MeterInv'
    <3>1. NoCall \in CallRows /\ NoCall.asked <= month /\ NoCall.pc \notin {"run", "charge"}
      BY <2>1, NoCallIsTyped
    <3> QED
      BY <1>2, <2>1, <2>2, <3>1
  <2>4. \A d \in Calls : calls'[d] = calls[d] \/ (calls'[d].feature # "summary" /\ calls'[d].pc = "none")
    BY <2>1, NoCallIsTyped DEF AiInv, AiTypeOK
  <2>5. GatheredIsThere'
    <3>1. CASE UNCHANGED summary
      BY <2>1, <2>4, <3>1, SummariesUntouched DEF AiInv
    <3>2. CASE /\ calls[c].pc = "save"
               /\ summary' = {[of |-> calls[c].of, count |-> calls[c].count, thinned |-> calls[c].thinned]}
      <4>1. calls[c].feature = "summary"
        BY <3>2 DEF AiInv, GatheredIsThere
      <4>2. /\ summary' \subseteq SummaryRows
            /\ \A s \in summary' : ~s.thinned => s.of \subseteq messages.now /\ s.count <= Cardinality(s.of)
        BY <3>2, <4>1, CallIsTyped DEF AiInv, AiTypeOK, GatheredIsThere, SummaryRows
      <4> QED
        BY <2>1, <2>4, <4>2 DEF AiInv, GatheredIsThere
    <3> QED
      BY <2>1, <3>1, <3>2
  <2> QED
    BY <2>3, <2>5 DEF AiInv
<1>5. CASE Arrives
  <2> DEFINE new == messages.ever + 1
  <2>1. /\ messages' = [ever |-> new, now |-> messages.now \cup {new}]
        /\ UNCHANGED <<month, meter, calls, summary, told>> /\ new \in Nat
    BY <1>5 DEF Arrives, AiInv, AiTypeOK
  <2>2. /\ messages.now \cup {new} \in Threads /\ IsFiniteSet(messages.now \cup {new})
        /\ Cardinality(messages.now) <= Cardinality(messages.now \cup {new})
    <3>1. IsFiniteSet(messages.now) /\ messages.now \in SUBSET Nat /\ Cardinality(messages.now) \in Nat
      BY FS_CardinalityType DEF AiInv, AiTypeOK, Threads
    <3>2. /\ IsFiniteSet(messages.now \cup {new})
          /\ Cardinality(messages.now \cup {new}) = IF new \in messages.now THEN Cardinality(messages.now)
                                                    ELSE Cardinality(messages.now) + 1
      BY <3>1, FS_AddElement
    <3> QED
      BY <2>1, <3>1, <3>2 DEF Threads
  <2> HIDE DEF new
  <2>3. AiTypeOK'
    BY <2>1, <2>2 DEF AiInv, AiTypeOK
  <2>4. MeterInv'
    BY <2>1, MetersUntouched DEF AiInv, InFlight
  <2>5. GatheredIsThere'
    <3>1. Cardinality(messages.now) \in Nat /\ Cardinality(messages.now \cup {new}) \in Nat
      BY <2>2, FS_CardinalityType DEF AiInv, AiTypeOK
    <3>2. \A d \in Calls : calls[d].count \in Nat
      BY CallIsTyped DEF AiInv, AiTypeOK
    <3> QED
      BY <2>1, <2>2, <3>1, <3>2 DEF AiInv, GatheredIsThere
  <2> QED
    BY <2>3, <2>4, <2>5 DEF AiInv
<1>6. ASSUME NEW i \in messages.now, Removed(i) PROVE AiInv'
  <2>1. /\ messages' = [messages EXCEPT !.now = @ \ {i}] /\ UNCHANGED <<month, meter, told>>
        /\ summary' = {[s EXCEPT !.thinned = TRUE] : s \in summary}
        /\ calls' = [d \in Calls |-> IF calls[d].feature = "summary" THEN [calls[d] EXCEPT !.thinned = TRUE] ELSE calls[d]]
    BY <1>6 DEF Removed
  <2>2. \A d \in Calls : /\ calls'[d] \in CallRows
                         /\ calls'[d].pc = calls[d].pc /\ calls'[d].feature = calls[d].feature
                         /\ calls'[d].asked = calls[d].asked
                         /\ calls'[d].feature = "summary" => calls'[d].thinned
    <3> SUFFICES ASSUME NEW d \in Calls
                 PROVE  /\ calls'[d] \in CallRows
                        /\ calls'[d].pc = calls[d].pc /\ calls'[d].feature = calls[d].feature
                        /\ calls'[d].asked = calls[d].asked
                        /\ calls'[d].feature = "summary" => calls'[d].thinned
      OBVIOUS
    <3>1. calls[d] \in CallRows
      BY DEF AiInv, AiTypeOK
    <3>2. CASE calls[d].feature = "summary"
      <4>1. calls'[d] = [pc |-> calls[d].pc, feature |-> calls[d].feature, asked |-> calls[d].asked,
                         count |-> calls[d].count, of |-> calls[d].of, thinned |-> TRUE]
        <5>1. calls'[d] = [calls[d] EXCEPT !.thinned = TRUE]
          BY <2>1, <3>2
        <5> QED
          BY <3>1, <5>1, CallIsTyped
      <4> QED
        BY <3>1, <4>1, CallIsTyped DEF CallRows
    <3> QED
      BY <2>1, <3>1, <3>2
  <2>3. AiTypeOK'
    <3>1. calls' \in [Calls -> CallRows] /\ \A d \in Calls : calls'[d].asked <= month
      BY <2>1, <2>2 DEF AiInv, AiTypeOK
    <3>2. /\ messages' = [ever |-> messages'.ever, now |-> messages'.now] /\ messages'.ever = messages.ever
          /\ messages'.now = messages.now \ {i}
      BY <2>1 DEF AiInv, AiTypeOK
    <3>3. messages.now \ {i} \in Threads /\ IsFiniteSet(messages.now \ {i})
      BY FS_RemoveElement DEF AiInv, AiTypeOK, Threads
    <3> QED
      BY <2>1, <3>1, <3>2, <3>3 DEF AiInv, AiTypeOK
  <2>4. MeterInv'
    BY <2>1, <2>2, MetersUntouched DEF AiInv, InFlight
  <2>5. GatheredIsThere'
    <3>1. summary' \subseteq SummaryRows /\ \A s \in summary' : s.thinned
      <4>1. \A s \in SummaryRows : [s EXCEPT !.thinned = TRUE] \in SummaryRows /\ [s EXCEPT !.thinned = TRUE].thinned
        BY DEF SummaryRows
      <4> QED
        BY <2>1, <4>1 DEF AiInv, GatheredIsThere
    <3>2. \A s, t \in summary' : s = t
      BY <2>1 DEF AiInv, GatheredIsThere
    <3>3. \A d \in Calls : calls'[d].pc \in {"gather", "save"} => calls'[d].feature = "summary"
      BY <2>2 DEF AiInv, GatheredIsThere
    <3>4. told'.stale = told.stale
      BY <2>1
    <3>5. ~told'.stale
      BY <3>4 DEF AiInv, GatheredIsThere
    <3> QED
      BY <2>2, <3>1, <3>2, <3>3, <3>5 DEF GatheredIsThere
  <2> QED
    BY <2>3, <2>4, <2>5 DEF AiInv
<1>7. ASSUME NEW c \in Calls, OpenSummary(c) PROVE AiInv'
  <2>0. UNCHANGED <<month, meter, messages, summary>> /\ month \in Nat
    BY <1>7 DEF OpenSummary, AiInv, AiTypeOK
  <2>1. CASE \E s \in summary : Reusable(s)
    <3>1. told' = [told EXCEPT !.stale = @ \/ \E s \in summary : ~s.thinned /\ s.of # messages.now] /\ UNCHANGED calls
      BY <1>7, <2>1 DEF OpenSummary
    <3>2. ~\E s \in summary : ~s.thinned /\ s.of # messages.now
      <4>1. PICK r \in summary : Reusable(r)
        BY <2>1
      <4>2. \A s \in summary : s = r
        BY DEF AiInv, GatheredIsThere
      <4>3. r \in SummaryRows
        BY DEF AiInv, GatheredIsThere
      <4>4. ~r.thinned => r.of = messages.now
        <5> SUFFICES ASSUME ~r.thinned PROVE r.of = messages.now
          OBVIOUS
        <5>1. r.of \in SUBSET messages.now /\ r.count <= Cardinality(r.of) /\ r.count = Cardinality(messages.now)
          BY <4>1 DEF Reusable, AiInv, GatheredIsThere
        <5>2. IsFiniteSet(messages.now)
          BY DEF AiInv, AiTypeOK
        <5>3. /\ IsFiniteSet(r.of) /\ Cardinality(r.of) <= Cardinality(messages.now)
              /\ Cardinality(messages.now) = Cardinality(r.of) => messages.now = r.of
          BY <5>1, <5>2, FS_Subset
        <5>4. Cardinality(r.of) \in Nat /\ Cardinality(messages.now) \in Nat
          BY <5>2, <5>3, FS_CardinalityType
        <5> QED
          BY <5>1, <5>3, <5>4
      <4> QED
        BY <4>2, <4>4
    <3>3. /\ told'.spent = told.spent /\ told'.raced = told.raced /\ told'.refused = told.refused
          /\ told'.stale = (told.stale \/ \E s \in summary : ~s.thinned /\ s.of # messages.now)
          /\ told' = [spent |-> told'.spent, refused |-> told'.refused, stale |-> told'.stale, raced |-> told'.raced]
      BY <3>1 DEF AiInv, AiTypeOK
    <3>4. told'.stale => told.stale
      BY <3>2, <3>3
    <3>5. AiTypeOK'
      BY <2>0, <3>1, <3>3 DEF AiInv, AiTypeOK
    <3>6. MeterInv'
      BY <2>0, <3>1, <3>3, MetersUntouched DEF AiInv, InFlight
    <3>7. GatheredIsThere'
      BY <2>0, <3>1, <3>4, SummariesUntouched DEF AiInv
    <3> QED
      BY <3>5, <3>6, <3>7 DEF AiInv
  <2>2. CASE ~\E s \in summary : Reusable(s)
    <3> DEFINE x == Fresh("gather", "summary", Cardinality(messages.now))
    <3>1. calls' = [calls EXCEPT ![c] = x] /\ UNCHANGED told
      BY <1>7, <2>2 DEF OpenSummary, Become
    <3>2. Cardinality(messages.now) \in Nat
      BY FS_CardinalityType DEF AiInv, AiTypeOK
    <3>3. /\ x \in CallRows /\ x.pc = "gather" /\ x.asked = 0 /\ x.feature = "summary"
          /\ x.count = Cardinality(messages.now)
      BY <3>2 DEF Fresh, CallRows, Features, Threads
    <3> HIDE DEF x
    <3>4. told' = [told EXCEPT !.stale = told'.stale, !.raced = told.raced, !.refused = told.refused]
      BY <3>1 DEF AiInv, AiTypeOK
    <3>5. AiTypeOK' /\ MeterInv'
      <4>1. x.asked <= month /\ x.pc \notin {"run", "charge"}
        BY <2>0, <3>3
      <4> QED
        BY <1>2, <2>0, <3>1, <3>3, <3>4, <4>1
    <3>6. GatheredIsThere'
      <4>1. calls'[c] = x /\ \A d \in Calls \ {c} : calls'[d] = calls[d]
        BY <3>1 DEF AiInv, AiTypeOK
      <4> QED
        BY <2>0, <3>1, <3>2, <3>3, <4>1 DEF AiInv, GatheredIsThere
    <3> QED
      BY <3>5, <3>6 DEF AiInv
  <2> QED
    BY <2>1, <2>2
<1>8. ASSUME NEW c \in Calls, Gather(c) PROVE AiInv'
  <2> DEFINE x == [calls[c] EXCEPT !.pc = "check", !.of = messages.now]
             mid == [calls[c] EXCEPT !.pc = "check"]
  <2>1. /\ calls' = [calls EXCEPT ![c] = x] /\ UNCHANGED <<month, meter, messages, summary, told>>
        /\ calls[c].pc = "gather" /\ month \in Nat /\ calls[c].asked <= month /\ calls[c] \in CallRows
    BY <1>8 DEF Gather, Become, AiInv, AiTypeOK
  <2>2. mid = [pc |-> "check", feature |-> calls[c].feature, asked |-> calls[c].asked, count |-> calls[c].count,
               of |-> calls[c].of, thinned |-> calls[c].thinned]
    BY <2>1, CallIsTyped
  <2>3. x = [mid EXCEPT !.of = messages.now]
    OBVIOUS
  <2> HIDE DEF x, mid
  <2>4. x = [pc |-> "check", feature |-> calls[c].feature, asked |-> calls[c].asked, count |-> calls[c].count,
             of |-> messages.now, thinned |-> calls[c].thinned]
    BY <2>2, <2>3
  <2>5. x \in CallRows
    BY <2>1, <2>4, CallIsTyped DEF CallRows, AiInv, AiTypeOK
  <2>6. told' = [told EXCEPT !.stale = told'.stale, !.raced = told.raced, !.refused = told.refused]
    BY <2>1 DEF AiInv, AiTypeOK
  <2>7. AiTypeOK' /\ MeterInv'
    <3>1. x.asked <= month /\ x.pc \notin {"run", "charge"}
      BY <2>1, <2>4
    <3> QED
      BY <1>2, <2>1, <2>5, <2>6, <3>1
  <2>8. GatheredIsThere'
    <3>1. calls'[c] = x /\ \A d \in Calls \ {c} : calls'[d] = calls[d]
      BY <2>1 DEF AiInv, AiTypeOK
    <3> QED
      BY <2>1, <2>4, <3>1 DEF AiInv, GatheredIsThere
  <2> QED
    BY <2>7, <2>8 DEF AiInv
<1>9. ASSUME NEW c \in Calls, NEW feature \in Features, Ask(c, feature) PROVE AiInv'
  <2> DEFINE call == Fresh("check", feature, 0)
  <2>1. call = [pc |-> "check", feature |-> feature, asked |-> 0, count |-> 0, of |-> {}, thinned |-> FALSE]
    BY DEF Fresh
  <2>2. Metered(c, call) /\ calls[c].pc = "none" /\ feature # "summary" /\ month \in Nat
    BY <1>9, NoCallIsTyped DEF Ask, AiInv, AiTypeOK
  <2> HIDE DEF call
  <2>3. call \in CallRows
    BY <2>1 DEF CallRows, Threads
  <2> QED
    BY <2>1, <2>2, <2>3, MeteredStep
<1>10. ASSUME NEW c \in Calls, AskSummary(c) PROVE AiInv'
  <2>1. calls[c].pc = "check" /\ calls[c] \in CallRows /\ calls[c].asked <= month /\ Metered(c, calls[c])
    BY <1>10 DEF AskSummary, AiInv, AiTypeOK
  <2> QED
    BY <2>1, MeteredStep DEF AiInv, GatheredIsThere
<1>11. CASE UNCHANGED aiVars
  <2>1. UNCHANGED <<month, meter, calls, messages, summary, told>>
    BY <1>11 DEF aiVars
  <2>2. AiTypeOK' /\ GatheredIsThere'
    BY <2>1 DEF AiInv, AiTypeOK, GatheredIsThere
  <2>3. MeterInv'
    BY <2>1, MetersUntouched DEF AiInv, InFlight
  <2> QED
    BY <2>2, <2>3 DEF AiInv
<1> QED
  BY <1>1, <1>3, <1>4, <1>5, <1>6, <1>7, <1>8, <1>9, <1>10, <1>11, ChargeStep DEF AiNext, MeterNext, SummaryNext

\* The calls, the meters, the thread and its summary keep to their types, and each meter tells the
\* calls that were charged (mail/ai.ts:42-53, mail/spam.ts:706-750, api/threads.ts:243-302).
THEOREM AiInvariant == AiSpec => []AiInv
<1> QED
  BY AiInitInv, AiStepInv, PTL DEF AiSpec

\* A stored summary is served only for the messages it was made of, for every number of messages
\* and calls, but where messages were removed and as many came (api/threads.ts:243-302).
THEOREM ServedSummariesAreCurrent == AiSpec => []SummaryIsCurrent
<1>1. AiInv => SummaryIsCurrent
  BY DEF AiInv, GatheredIsThere, SummaryIsCurrent
<1> QED
  BY <1>1, AiInvariant, PTL

\* No month's charges exceed its cap by more than the last call, and a call is refused only at
\* the cap, for every number of calls, cap and cost, unless calls overlapped (mail/ai.ts:40-53,
\* mail/spam.ts:706-750).
THEOREM CapsAreKept == AiSpec => []MeterHolds
<1>1. AiInv => MeterHolds
  BY DEF AiInv, MeterInv, MetersTell, MeterHolds
<1> QED
  BY <1>1, AiInvariant, PTL

-----------------------------------------------------------------------------
(***************************************************************************)
(* All limits, in the composition.                                         *)
(***************************************************************************)
LimitsInv == RateInv /\ PasswordsInv /\ RulesInv /\ AiInv

LEMMA LimitsInitInv == MCInit => LimitsInv
BY RateInitInv, PasswordsInitInv, RulesInitInv, AiInitInv DEF MCInit, LimitsInv

LEMMA LimitsStepInv == LimitsInv /\ [MCNext]_MCVars => LimitsInv'
<1> SUFFICES ASSUME LimitsInv, [MCNext]_MCVars PROVE LimitsInv'
  OBVIOUS
<1>1. [RateNext]_rateVars /\ [PasswordsNext]_passwordVars /\ [RuleSendsNext]_ruleVars
  BY DEF MCNext, MCVars
<1>2. [AiNext]_aiVars
  BY DEF MCNext, MCVars, AiNext
<1> QED
  BY <1>1, <1>2, RateStepInv, PasswordsStepInv, RulesStepInv, AiStepInv DEF LimitsInv

\* No limit of the worker is exceeded and none keeps out who is below it, whichever of the parts
\* moves: for every value of the limits, windows and caps, with the provisos the parts name
\* (rate-limit.ts:20-40, app-passwords.ts:78-96, mail/rule-sends.ts:12-14, mail/ai.ts:40-53).
THEOREM LimitsAlwaysHold == MCSpec => []LimitsHold
<1>1. LimitsInv => LimitsHold
  BY DEF LimitsInv, LimitsHold, RateInv, WindowHolds, PasswordsInv, RulesInv, SendLimitsHold, AiInv, MeterInv, MetersTell, MeterHolds
<1> QED
  BY <1>1, LimitsInitInv, LimitsStepInv, PTL DEF MCSpec
=============================================================================
