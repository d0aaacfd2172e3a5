------------------------ MODULE StatusPages_proofs ------------------------
(***************************************************************************)
(* Theorems of StatusPages, for any pages, monitors, requests, views and   *)
(* scopes, any width of the order and any limit.                           *)
(***************************************************************************)
EXTENDS StatusPages, FiniteSetTheorems, SequenceTheorems, WellFoundedInduction, TLAPS

-----------------------------------------------------------------------------
(* The order of a link.                                                    *)

\* An order that fits is written as it is.
LEMMA WrapFits ==
  ASSUME NEW x \in Orders
  PROVE  Wrap(x) = x
<1> DEFINE M == MaxOrder + 1
<1>1. MaxOrder \in Nat /\ M \in Nat /\ 2 * M > 0 /\ x + M \in 0..2 * M - 1
  BY StatusPagesAssumption DEF Orders
<1>2. (x + M) % (2 * M) = x + M
  BY <1>1
<1> QED
  BY <1>1, <1>2 DEF Wrap, Orders

\* What does not fit wraps to one that does.
LEMMA WrapOrder ==
  ASSUME NEW x \in Int
  PROVE  Wrap(x) \in Orders
<1> DEFINE M == MaxOrder + 1
<1>1. MaxOrder \in Nat /\ M \in Nat /\ 2 * M > 0 /\ x + M \in Int
  BY StatusPagesAssumption
<1>2. (x + M) % (2 * M) \in 0..2 * M - 1
  BY <1>1
<1> QED
  BY <1>1, <1>2 DEF Wrap, Orders

-----------------------------------------------------------------------------
(* The rows of a page.                                                     *)

MonitorsOf(rows) == {rows[i].monitor : i \in DOMAIN rows}
RowOf(rows, m) == CHOOSE i \in DOMAIN rows : rows[i].monitor = m
Unique(rows) == \A i, j \in DOMAIN rows : rows[i].monitor = rows[j].monitor => i = j

LEMMA RowFacts ==
  ASSUME NEW rows \in Seq(Link)
  PROVE  /\ Len(rows) \in Nat /\ DOMAIN rows = 1..Len(rows)
         /\ \A i \in DOMAIN rows :
              /\ rows[i] \in Link
              /\ rows[i].monitor \in Monitors
              /\ rows[i].order \in Int /\ rows[i].order \in Orders
<1>1. Orders \subseteq Int
  BY StatusPagesAssumption DEF Orders
<1>2. \A link \in Link : link.monitor \in Monitors /\ link.order \in Orders
  BY DEF Link
<1>3. Len(rows) \in Nat /\ DOMAIN rows = 1..Len(rows)
  OBVIOUS
<1>4. \A i \in 1..Len(rows) : rows[i] \in Link
  BY ElementOfSeq
<1> QED
  BY <1>1, <1>2, <1>3, <1>4

LEMMA RowOfFact ==
  ASSUME NEW rows, NEW m \in MonitorsOf(rows)
  PROVE  RowOf(rows, m) \in DOMAIN rows /\ rows[RowOf(rows, m)].monitor = m
BY DEF MonitorsOf, RowOf

LEMMA RowOfIs ==
  ASSUME NEW rows, Unique(rows), NEW i \in DOMAIN rows
  PROVE  RowOf(rows, rows[i].monitor) = i
BY DEF RowOf, Unique

\* A page has as many monitors as rows.
LEMMA UniqueIsCounted ==
  ASSUME NEW rows \in Seq(Link), Unique(rows)
  PROVE  Cardinality(MonitorsOf(rows)) = Len(rows)
<1> DEFINE f == [i \in 1..Len(rows) |-> rows[i].monitor]
<1>1. f \in Bijection(1..Len(rows), MonitorsOf(rows))
  BY RowFacts DEF Bijection, Injection, Surjection, IsInjective, MonitorsOf, Unique
<1>2. ExistsBijection(1..Len(rows), MonitorsOf(rows))
  BY <1>1 DEF ExistsBijection
<1>3. IsFiniteSet(1..Len(rows)) /\ Cardinality(1..Len(rows)) = Len(rows)
  BY FS_Interval, RowFacts
<1> QED
  BY <1>2, <1>3, FS_Bijection

LEMMA AppendRow ==
  ASSUME NEW rows \in Seq(Link), Unique(rows), NEW link \in Link,
         link.monitor \notin MonitorsOf(rows)
  PROVE  /\ Append(rows, link) \in Seq(Link)
         /\ Unique(Append(rows, link))
         /\ MonitorsOf(Append(rows, link)) = MonitorsOf(rows) \cup {link.monitor}
<1> DEFINE new == Append(rows, link)
           n == Len(rows)
<1>1. new \in Seq(Link) /\ Len(new) = n + 1 /\ n \in Nat
  BY RowFacts, AppendProperties
<1>2. DOMAIN rows = 1..n /\ DOMAIN new = 1..n + 1
  BY <1>1, RowFacts
<1>3. /\ \A i \in 1..n : new[i] = rows[i]
      /\ new[n + 1] = link
  BY <1>1, AppendProperties
<1> HIDE DEF new
<1>4. \A i \in 1..n : rows[i].monitor # link.monitor
  BY <1>2 DEF MonitorsOf
<1>5. 1..n + 1 = 1..n \cup {n + 1} /\ n + 1 \notin 1..n
  BY <1>1
<1>6. Unique(new)
  BY <1>2, <1>3, <1>4, <1>5 DEF Unique
<1>7. MonitorsOf(new) = MonitorsOf(rows) \cup {link.monitor}
  BY <1>2, <1>3, <1>5 DEF MonitorsOf
<1> QED
  BY <1>1, <1>6, <1>7 DEF new

LEMMA ReplaceRow ==
  ASSUME NEW rows \in Seq(Link), Unique(rows), NEW link \in Link,
         link.monitor \in MonitorsOf(rows)
  PROVE  LET r == RowOf(rows, link.monitor)
             new == [rows EXCEPT ![r] = link]
         IN  /\ new \in Seq(Link)
             /\ Len(new) = Len(rows)
             /\ Unique(new)
             /\ MonitorsOf(new) = MonitorsOf(rows)
             /\ \A m \in MonitorsOf(rows) : RowOf(new, m) = RowOf(rows, m)
             /\ new[r] = link
             /\ \A m \in MonitorsOf(rows) \ {link.monitor} :
                  new[RowOf(rows, m)] = rows[RowOf(rows, m)]
<1> DEFINE r == RowOf(rows, link.monitor)
           new == [rows EXCEPT ![r] = link]
           n == Len(rows)
<1>1. DOMAIN rows = 1..n /\ n \in Nat /\ \A i \in 1..n : rows[i] \in Link
  BY RowFacts
<1>2. r \in 1..n /\ rows[r].monitor = link.monitor
  BY <1>1, RowOfFact
<1> HIDE DEF r
<1>3. DOMAIN new = 1..n /\ new[r] = link /\ \A i \in 1..n : i # r => new[i] = rows[i]
  BY <1>1, <1>2
<1>4. new \in Seq(Link) /\ Len(new) = n
  BY <1>1, <1>2
<1> HIDE DEF new
<1>5. \A i \in 1..n : new[i].monitor = rows[i].monitor
  BY <1>2, <1>3
<1>6. Unique(new) /\ MonitorsOf(new) = MonitorsOf(rows)
  BY <1>1, <1>3, <1>5 DEF Unique, MonitorsOf
<1>7. ASSUME NEW m \in MonitorsOf(rows)
      PROVE  RowOf(new, m) = RowOf(rows, m)
  <2>1. RowOf(rows, m) \in 1..n /\ rows[RowOf(rows, m)].monitor = m
    BY <1>1, RowOfFact
  <2>2. RowOf(new, new[RowOf(rows, m)].monitor) = RowOf(rows, m)
    BY <1>3, <1>6, <2>1, RowOfIs
  <2> QED
    BY <1>5, <2>1, <2>2
<1>8. ASSUME NEW m \in MonitorsOf(rows) \ {link.monitor}
      PROVE  new[RowOf(rows, m)] = rows[RowOf(rows, m)]
  <2>1. RowOf(rows, m) \in 1..n /\ rows[RowOf(rows, m)].monitor = m
    BY <1>1, RowOfFact
  <2> QED
    BY <1>2, <1>3, <2>1
<1> QED
  BY <1>3, <1>4, <1>6, <1>7, <1>8 DEF new, r

\* Deleting the row of a monitor keeps the others.
LEMMA WithoutRow ==
  ASSUME NEW rows \in Seq(Link), Unique(rows), NEW m
  PROVE  /\ Without(rows, m) \in Seq(Link)
         /\ Unique(Without(rows, m))
         /\ MonitorsOf(Without(rows, m)) \subseteq MonitorsOf(rows) \ {m}
         /\ rows = <<>> => Without(rows, m) = <<>>
<1> DEFINE found == {i \in DOMAIN rows : rows[i].monitor = m}
           n == Len(rows)
<1>1. DOMAIN rows = 1..n /\ n \in Nat /\ \A i \in 1..n : rows[i] \in Link
  BY RowFacts
<1>2. CASE found = {}
  <2>1. Without(rows, m) = rows
    BY <1>2 DEF Without
  <2> QED
    BY <1>2, <2>1 DEF MonitorsOf
<1>3. CASE found # {}
  <2>1. PICK i \in found : Without(rows, m) = RemoveAt(rows, i)
    BY <1>3 DEF Without
  <2>2. i \in 1..n /\ rows[i].monitor = m
    BY <1>1, <2>1
  <2> DEFINE front == SubSeq(rows, 1, i - 1)
             back == SubSeq(rows, i + 1, n)
             new == front \o back
  <2>3. front \in Seq(Link) /\ Len(front) = i - 1 /\ \A j \in 1..i - 1 : front[j] = rows[j]
    BY <1>1, <2>2, SubSeqProperties
  <2>4. back \in Seq(Link) /\ Len(back) = n - i /\ \A j \in 1..n - i : back[j] = rows[j + i]
    BY <1>1, <2>2, SubSeqProperties
  <2> HIDE DEF front, back
  <2>a. /\ new \in Seq(Link) /\ Len(new) = Len(front) + Len(back)
        /\ \A j \in 1..Len(front) + Len(back) :
             new[j] = IF j <= Len(front) THEN front[j] ELSE back[j - Len(front)]
    BY <2>3, <2>4, ConcatProperties
  <2> HIDE DEF new
  <2>b. Len(front) + Len(back) = n - 1 /\ DOMAIN new = 1..n - 1
    BY <1>1, <2>2, <2>3, <2>4, <2>a, RowFacts
  <2>c. ASSUME NEW j \in 1..n - 1
        PROVE  new[j] = IF j < i THEN rows[j] ELSE rows[j + 1]
    <3>1. CASE j < i
      BY <1>1, <2>2, <2>3, <2>a, <2>b, <3>1
    <3>2. CASE ~(j < i)
      <4>1. new[j] = back[j - (i - 1)] /\ j - (i - 1) \in 1..n - i
        BY <1>1, <2>2, <2>3, <2>a, <2>b, <3>2
      <4>2. back[j - (i - 1)] = rows[j - (i - 1) + i]
        BY <2>4, <4>1
      <4>3. j - (i - 1) + i = j + 1
        BY <1>1, <2>2
      <4> QED
        BY <3>2, <4>1, <4>2, <4>3
    <3> QED
      BY <3>1, <3>2
  <2>5. /\ new \in Seq(Link) /\ DOMAIN new = 1..n - 1
        /\ \A j \in 1..n - 1 : new[j] = IF j < i THEN rows[j] ELSE rows[j + 1]
    BY <2>a, <2>b, <2>c
  <2>6. Without(rows, m) = new
    BY <2>1 DEF RemoveAt, new, front, back
  <2> DEFINE old(j) == IF j < i THEN j ELSE j + 1
  <2>d. /\ \A j \in 1..n - 1 : old(j) \in 1..n /\ old(j) # i /\ new[j] = rows[old(j)]
        /\ \A j, k \in 1..n - 1 : old(j) = old(k) => j = k
    BY <1>1, <2>2, <2>5
  <2> HIDE DEF old
  <2>7. Unique(new)
    BY <1>1, <2>5, <2>d DEF Unique
  <2>8. MonitorsOf(new) \subseteq MonitorsOf(rows) \ {m}
    BY <1>1, <2>2, <2>5, <2>d DEF MonitorsOf, Unique
  <2>9. rows # <<>>
    BY <1>1, <2>2
  <2> QED
    BY <2>5, <2>6, <2>7, <2>8, <2>9
<1> QED
  BY <1>2, <1>3

-----------------------------------------------------------------------------
(* The places of the rows: no two share one, and none is empty.            *)

EarlierThan(rows, i) == {j \in DOMAIN rows : Earlier(rows, j, i)}

LEMMA EarlierIsTotal ==
  ASSUME NEW rows \in Seq(Link), NEW i \in DOMAIN rows, NEW j \in DOMAIN rows
  PROVE  /\ ~Earlier(rows, i, i)
         /\ i # j => Earlier(rows, i, j) \/ Earlier(rows, j, i)
         /\ Earlier(rows, i, j) => EarlierThan(rows, i) \subseteq EarlierThan(rows, j) \ {i}
<1>1. DOMAIN rows \subseteq Int /\ \A k \in DOMAIN rows : rows[k].order \in Int
  BY RowFacts
<1> QED
  BY <1>1 DEF Earlier, EarlierThan

LEMMA EarlierIsFinite ==
  ASSUME NEW rows \in Seq(Link), NEW i \in DOMAIN rows
  PROVE  /\ IsFiniteSet(DOMAIN rows) /\ Cardinality(DOMAIN rows) = Len(rows)
         /\ IsFiniteSet(EarlierThan(rows, i)) /\ Cardinality(EarlierThan(rows, i)) \in Nat
         /\ Place(rows, i) = Cardinality(EarlierThan(rows, i)) + 1
         /\ Place(rows, i) \in 1..Len(rows)
<1>1. /\ IsFiniteSet(DOMAIN rows) /\ Cardinality(DOMAIN rows) = Len(rows)
      /\ Len(rows) \in Nat
  BY RowFacts, FS_Interval
<1>2. IsFiniteSet(DOMAIN rows \ {i}) /\ Cardinality(DOMAIN rows \ {i}) = Len(rows) - 1
  BY <1>1, FS_RemoveElement
<1>3. EarlierThan(rows, i) \in SUBSET (DOMAIN rows \ {i})
  BY EarlierIsTotal DEF EarlierThan
<1>4. /\ IsFiniteSet(EarlierThan(rows, i))
      /\ Cardinality(EarlierThan(rows, i)) <= Len(rows) - 1
  BY <1>2, <1>3, FS_Subset
<1>5. Cardinality(EarlierThan(rows, i)) \in Nat
  BY <1>4, FS_CardinalityType
<1>6. Place(rows, i) = Cardinality(EarlierThan(rows, i)) + 1
  BY DEF Place, EarlierThan
<1> QED
  BY <1>1, <1>4, <1>5, <1>6

\* An earlier row has a lower place.
LEMMA PlaceGrows ==
  ASSUME NEW rows \in Seq(Link), NEW i \in DOMAIN rows, NEW j \in DOMAIN rows,
         Earlier(rows, i, j)
  PROVE  Place(rows, i) < Place(rows, j)
<1> DEFINE A == EarlierThan(rows, i)
           B == EarlierThan(rows, j)
<1>1. A \in SUBSET (B \ {i}) /\ i \in B
  BY EarlierIsTotal DEF EarlierThan
<1>2. IsFiniteSet(B) /\ Cardinality(B) \in Nat /\ Cardinality(A) \in Nat
  BY EarlierIsFinite
<1>3. Cardinality(A) <= Cardinality(B \ {i}) /\ Cardinality(B \ {i}) = Cardinality(B) - 1
  <2>1. IsFiniteSet(B \ {i}) /\ Cardinality(B \ {i}) = Cardinality(B) - 1
    BY <1>1, <1>2, FS_RemoveElement
  <2> HIDE DEF A, B
  <2> QED
    BY <1>1, <2>1, FS_Subset
<1>4. Place(rows, i) = Cardinality(A) + 1 /\ Place(rows, j) = Cardinality(B) + 1
  BY EarlierIsFinite
<1> HIDE DEF A, B
<1> QED
  BY <1>2, <1>3, <1>4

LEMMA PlaceIsOneToOne ==
  ASSUME NEW rows \in Seq(Link), NEW i \in DOMAIN rows, NEW j \in DOMAIN rows,
         Place(rows, i) = Place(rows, j)
  PROVE  i = j
<1>1. Place(rows, i) \in Int /\ Place(rows, j) \in Int
  BY EarlierIsFinite
<1> QED
  BY <1>1, EarlierIsTotal, PlaceGrows

LEMMA PlaceIsOnto ==
  ASSUME NEW rows \in Seq(Link), NEW k \in DOMAIN rows
  PROVE  \E i \in DOMAIN rows : Place(rows, i) = k
<1> DEFINE D == DOMAIN rows
           f == [i \in D |-> Place(rows, i)]
<1>1. D = 1..Len(rows) /\ IsFiniteSet(D)
  BY RowFacts, EarlierIsFinite
<1>2. f \in Injection(D, D)
  BY <1>1, EarlierIsFinite, PlaceIsOneToOne DEF Injection, IsInjective
<1>3. f \in Surjection(D, D)
  BY <1>1, <1>2, FS_Injection
<1> QED
  BY <1>3 DEF Surjection

\* The row at the place k.
RowAt(rows, k) == CHOOSE i \in DOMAIN rows : Place(rows, i) = k

LEMMA RowAtFact ==
  ASSUME NEW rows \in Seq(Link), NEW k \in DOMAIN rows
  PROVE  /\ RowAt(rows, k) \in DOMAIN rows
         /\ Place(rows, RowAt(rows, k)) = k
         /\ \A i \in DOMAIN rows : Place(rows, i) = k => i = RowAt(rows, k)
BY PlaceIsOnto, PlaceIsOneToOne DEF RowAt

\* The row at the last place has the largest order.
LargestOf(rows) ==
  CHOOSE max \in {rows[i].order : i \in DOMAIN rows} :
    \A i \in DOMAIN rows : rows[i].order <= max

LEMMA LargestFact ==
  ASSUME NEW rows \in Seq(Link), rows # <<>>
  PROVE  /\ LargestOf(rows) \in Orders
         /\ \A i \in DOMAIN rows : rows[i].order <= LargestOf(rows)
<1> DEFINE n == Len(rows)
<1>1. n \in Nat \ {0} /\ DOMAIN rows = 1..n /\ n \in DOMAIN rows
  BY RowFacts, EmptySeq
<1>2. PICK last \in DOMAIN rows : Place(rows, last) = n
  BY <1>1, PlaceIsOnto
<1>3. ASSUME NEW i \in DOMAIN rows
      PROVE  rows[i].order <= rows[last].order
  <2>1. Place(rows, i) \in 1..n
    BY EarlierIsFinite
  <2>2. ~Earlier(rows, last, i)
    BY <1>1, <1>2, <2>1, PlaceGrows
  <2> QED
    BY <2>2, RowFacts DEF Earlier
<1>4. /\ LargestOf(rows) \in {rows[i].order : i \in DOMAIN rows}
      /\ \A i \in DOMAIN rows : rows[i].order <= LargestOf(rows)
  BY <1>3 DEF LargestOf
<1> QED
  BY <1>4, RowFacts

MonitorsInOrder(rows) == [k \in DOMAIN rows |-> rows[RowAt(rows, k)].monitor]

LEMMA MonitorsInOrderType ==
  ASSUME NEW rows \in Seq(Link)
  PROVE  MonitorsInOrder(rows) \in Seq(Monitors)
<1>1. \A k \in DOMAIN rows : rows[RowAt(rows, k)].monitor \in Monitors
  BY RowAtFact, RowFacts
<1>2. DOMAIN rows = 1..Len(rows) /\ Len(rows) \in Nat
  BY RowFacts
<1> QED
  BY <1>1, <1>2 DEF MonitorsInOrder

\* A row whose order is above all others is shown after them.
LEMMA AppendedIsLast ==
  ASSUME NEW rows \in Seq(Link), NEW link \in Link,
         \A i \in DOMAIN rows : rows[i].order < link.order
  PROVE  MonitorsInOrder(Append(rows, link)) = Append(MonitorsInOrder(rows), link.monitor)
<1> DEFINE n == Len(rows)
           new == Append(rows, link)
           shown == MonitorsInOrder(rows)
<1>1. /\ DOMAIN rows = 1..n /\ n \in Nat /\ n + 1 \notin 1..n
      /\ 1..n + 1 = 1..n \cup {n + 1}
  BY RowFacts
<1>2. /\ new \in Seq(Link) /\ DOMAIN new = 1..n + 1
      /\ \A i \in 1..n : new[i] = rows[i]
      /\ new[n + 1] = link
  BY <1>1, AppendProperties, RowFacts
<1> HIDE DEF new
<1>3. /\ \A i \in DOMAIN rows : rows[i].order \in Int
      /\ link.order \in Int
  BY <1>2, RowFacts
<1>4. ASSUME NEW i \in 1..n
      PROVE  Place(new, i) = Place(rows, i)
  <2>1. EarlierThan(new, i) = EarlierThan(rows, i)
    BY <1>1, <1>2, <1>3 DEF EarlierThan, Earlier
  <2> QED
    BY <1>1, <1>2, <2>1, EarlierIsFinite
<1>5. Place(new, n + 1) = n + 1
  <2>1. EarlierThan(new, n + 1) = 1..n
    BY <1>1, <1>2, <1>3 DEF EarlierThan, Earlier
  <2>2. Cardinality(1..n) = n
    BY RowFacts, FS_Interval
  <2> QED
    BY <1>1, <1>2, <2>1, <2>2, EarlierIsFinite
<1>6. /\ shown \in Seq(Monitors) /\ Len(shown) = n
      /\ \A k \in 1..n : shown[k] = rows[RowAt(rows, k)].monitor
      /\ link.monitor \in Monitors
  <2>1. shown \in Seq(Monitors)
    BY MonitorsInOrderType
  <2>2. DOMAIN shown = 1..n /\ \A k \in 1..n : shown[k] = rows[RowAt(rows, k)].monitor
    BY <1>1 DEF MonitorsInOrder
  <2>3. Len(shown) = n
    BY <1>1, <2>1, <2>2, LenProperties
  <2> QED
    BY <2>1, <2>2, <2>3 DEF Link
<1>7. ASSUME NEW k \in 1..n
      PROVE  new[RowAt(new, k)].monitor = shown[k]
  <2>1. RowAt(rows, k) \in 1..n /\ Place(rows, RowAt(rows, k)) = k
    BY <1>1, RowAtFact
  <2>2. RowAt(new, k) = RowAt(rows, k)
    BY <1>1, <1>2, <1>4, <2>1, RowAtFact
  <2> QED
    BY <1>2, <1>6, <2>1, <2>2
<1>8. new[RowAt(new, n + 1)].monitor = link.monitor
  <2>1. RowAt(new, n + 1) = n + 1
    BY <1>1, <1>2, <1>5, RowAtFact
  <2> QED
    BY <1>2, <2>1
<1> HIDE DEF shown
<1>9. /\ Append(shown, link.monitor) = [k \in 1..n + 1 |-> IF k = n + 1 THEN link.monitor
                                                          ELSE shown[k]]
  BY <1>1, <1>6
<1> QED
  BY <1>1, <1>2, <1>7, <1>8, <1>9 DEF MonitorsInOrder, new, shown

-----------------------------------------------------------------------------
(* The aggregate: the loop over the statuses, by induction.                *)

FlagSet == [down : BOOLEAN, degraded : BOOLEAN, allUp : BOOLEAN]

\* What the flags say of the first n statuses.
FlagsAre(statuses, n, flags) ==
  /\ flags \in FlagSet
  /\ flags.down <=> \E i \in 1..n : statuses[i] = "down"
  /\ flags.degraded <=> \E i \in 1..n : statuses[i] \in {"degraded", "unknown"}
  /\ flags.allUp <=> \A i \in 1..n : statuses[i] = "up"

NoFlags == [down |-> FALSE, degraded |-> FALSE, allUp |-> TRUE]

LEMMA FlagsStart ==
  ASSUME NEW statuses
  PROVE  FlagsAre(statuses, 0, NoFlags)
BY DEF FlagsAre, NoFlags, FlagSet

LEMMA FlagsStep ==
  ASSUME NEW statuses, NEW n \in Nat \ {0}, NEW flags, FlagsAre(statuses, n - 1, flags)
  PROVE  FlagsAre(statuses, n, Flags(flags, statuses[n]))
<1> DEFINE s == statuses[n]
           new == Flags(flags, s)
<1>1. 1..n = 1..n - 1 \cup {n} /\ n \notin 1..n - 1
  OBVIOUS
<1>2. flags \in FlagSet
  BY DEF FlagsAre
<1>3. /\ new \in FlagSet
      /\ new.down <=> flags.down \/ s = "down"
      /\ new.degraded <=> flags.degraded \/ s \in {"degraded", "unknown"}
      /\ new.allUp <=> flags.allUp /\ s = "up"
  <2> HIDE DEF s
  <2>1. CASE s = "down"
    BY <1>2, <2>1 DEF Flags, FlagSet
  <2>2. CASE s \in {"degraded", "unknown"}
    BY <1>2, <2>2 DEF Flags, FlagSet
  <2>3. CASE s = "up"
    BY <1>2, <2>3 DEF Flags, FlagSet
  <2>4. CASE s \notin {"down", "degraded", "unknown", "up"}
    BY <1>2, <2>4 DEF Flags, FlagSet
  <2> QED
    BY <2>1, <2>2, <2>3, <2>4
<1>4. /\ new.down <=> \E i \in 1..n : statuses[i] = "down"
      /\ new.degraded <=> \E i \in 1..n : statuses[i] \in {"degraded", "unknown"}
      /\ new.allUp <=> \A i \in 1..n : statuses[i] = "up"
  <2> HIDE DEF new
  <2> QED
    BY <1>1, <1>3 DEF FlagsAre
<1> QED
  BY <1>3, <1>4 DEF FlagsAre

LEMMA FlagsAreOne ==
  ASSUME NEW statuses, NEW n, NEW a, NEW b, FlagsAre(statuses, n, a), FlagsAre(statuses, n, b)
  PROVE  a = b
<1>1. a \in FlagSet /\ b \in FlagSet
  BY DEF FlagsAre
<1>2. (a.down <=> b.down) /\ (a.degraded <=> b.degraded) /\ (a.allUp <=> b.allUp)
  BY DEF FlagsAre
<1> QED
  BY <1>1, <1>2 DEF FlagSet

\* A function that follows the loop.
Loops(f, statuses) ==
  f = [n \in 0..Len(statuses) |-> IF n = 0 THEN NoFlags ELSE Flags(f[n - 1], statuses[n])]

LEMMA LoopFlags ==
  ASSUME NEW statuses, Len(statuses) \in Nat, NEW f, Loops(f, statuses)
  PROVE  \A n \in 0..Len(statuses) : FlagsAre(statuses, n, f[n])
<1> DEFINE T == {n \in 0..Len(statuses) : ~FlagsAre(statuses, n, f[n])}
           R == OpToRel(<, Nat)
<1> SUFFICES ASSUME T # {}
             PROVE  FALSE
  OBVIOUS
<1>1. T \subseteq Nat
  OBVIOUS
<1>2. IsWellFoundedOn(R, Nat)
  BY NatLessThanWellFounded
<1>3. PICK n \in T : \A k \in T : ~(<<k, n>> \in R)
  <2> HIDE DEF R, T
  <2> QED
    BY <1>1, <1>2, WFMin
<1>4. \A k \in T : ~(k < n)
  BY <1>1, <1>3 DEF OpToRel
<1>5. f[n] = IF n = 0 THEN NoFlags ELSE Flags(f[n - 1], statuses[n])
  BY DEF Loops
<1>6. n # 0
  BY <1>5, FlagsStart
<1>7. n \in Nat \ {0} /\ FlagsAre(statuses, n - 1, f[n - 1])
  BY <1>4, <1>6
<1> QED
  BY <1>5, <1>6, <1>7, FlagsStep

LEMMA LoopExists ==
  ASSUME NEW statuses, Len(statuses) \in Nat
  PROVE  \E f : Loops(f, statuses)
<1> DEFINE F(n) == CHOOSE flags : FlagsAre(statuses, n, flags)
           f == [n \in 0..Len(statuses) |-> F(n)]
<1>1. \A n \in Nat : \E flags : FlagsAre(statuses, n, flags)
  <2> TAKE n \in Nat
  <2>1. PICK d \in BOOLEAN : d <=> \E i \in 1..n : statuses[i] = "down"
    OBVIOUS
  <2>2. PICK g \in BOOLEAN : g <=> \E i \in 1..n : statuses[i] \in {"degraded", "unknown"}
    OBVIOUS
  <2>3. PICK u \in BOOLEAN : u <=> \A i \in 1..n : statuses[i] = "up"
    OBVIOUS
  <2> QED
    BY <2>1, <2>2, <2>3, FlagsAre(statuses, n, [down |-> d, degraded |-> g, allUp |-> u])
       DEF FlagsAre, FlagSet
<1>2. \A n \in Nat : FlagsAre(statuses, n, F(n))
  BY <1>1
<1> HIDE DEF F
<1>3. F(0) = NoFlags
  BY <1>2, FlagsStart, FlagsAreOne
<1>4. \A n \in Nat \ {0} : F(n) = Flags(F(n - 1), statuses[n])
  <2> TAKE n \in Nat \ {0}
  <2>1. FlagsAre(statuses, n, F(n)) /\ FlagsAre(statuses, n - 1, F(n - 1))
    BY <1>2
  <2> QED
    BY <2>1, FlagsStep, FlagsAreOne
<1>5. Loops(f, statuses)
  BY <1>3, <1>4 DEF Loops
<1> QED
  BY <1>5

LEMMA FlagsAfterLoop ==
  ASSUME NEW statuses, Len(statuses) \in Nat
  PROVE  FlagsAre(statuses, Len(statuses), FlagsAfter(statuses)[Len(statuses)])
<1>1. FlagsAfter(statuses) = CHOOSE f : Loops(f, statuses)
  BY DEF FlagsAfter, Loops, NoFlags
<1>2. Loops(FlagsAfter(statuses), statuses)
  BY <1>1, LoopExists
<1> QED
  BY <1>2, LoopFlags

\* The loop finds the documented aggregate of the statuses.
LEMMA AggregateOfStatuses ==
  ASSUME NEW statuses \in Seq(Statuses)
  PROVE  ComputeAggregateStatus(statuses)
           = DocumentedAggregate({statuses[i] : i \in DOMAIN statuses})
<1> DEFINE n == Len(statuses)
           end == FlagsAfter(statuses)[n]
           all == {statuses[i] : i \in DOMAIN statuses}
<1>1. n \in Nat /\ DOMAIN statuses = 1..n
  OBVIOUS
<1>2. FlagsAre(statuses, n, end)
  BY <1>1, FlagsAfterLoop
<1>3. ComputeAggregateStatus(statuses) =
        IF statuses = <<>> THEN "empty"
        ELSE IF end.down THEN "down"
        ELSE IF end.degraded THEN "degraded"
        ELSE IF end.allUp THEN "up" ELSE "degraded"
  BY DEF ComputeAggregateStatus
<1> HIDE DEF end
<1>4. CASE statuses = <<>>
  <2>1. all = {}
    BY <1>4
  <2>2. ComputeAggregateStatus(statuses) = "empty"
    BY <1>3, <1>4
  <2> HIDE DEF all
  <2>3. DocumentedAggregate(all) = "empty"
    BY <2>1 DEF DocumentedAggregate
  <2> QED
    BY <2>2, <2>3 DEF all
<1>5. CASE statuses # <<>>
  <2>1. n # 0 /\ 1 \in DOMAIN statuses
    BY <1>1, <1>5, EmptySeq
  <2>2. end.down <=> "down" \in all
    BY <1>1, <1>2 DEF FlagsAre
  <2>3. end.allUp <=> all = {"up"}
    BY <1>1, <1>2, <2>1 DEF FlagsAre
  <2>4. all # {}
    BY <2>1
  <2>5. end.degraded => ~end.allUp
    BY <1>2 DEF FlagsAre
  <2> HIDE DEF all
  <2>6. DocumentedAggregate(all) = IF "down" \in all THEN "down"
                                   ELSE IF all = {"up"} THEN "up" ELSE "degraded"
    BY <2>4 DEF DocumentedAggregate
  <2>7. ComputeAggregateStatus(statuses) = DocumentedAggregate(all)
    BY <1>3, <1>5, <2>2, <2>3, <2>5, <2>6
  <2> QED
    BY <2>7 DEF all
<1> QED
  BY <1>4, <1>5

-----------------------------------------------------------------------------
(* Type correctness, by what a step writes.                                *)

PageCall ==
  [at : {"idle", "update", "attach", "edit", "check", "write", "reordered", "rejected"},
   page : Pages \cup {Nothing}, monitor : Monitors \cup {Nothing},
   copy : Page \cup Link \cup {Nothing}, body : PageBody \cup LinkBody \cup {Nothing},
   list : Seq(Monitors), next : Nat, before : Seq(Link)]

\* What a request has read before each of its statements.
CallOK(pc) ==
  /\ pc \in PageCall
  /\ pc.next \in 0..Len(pc.list) + 1
  /\ pc.at # "idle" => pc.page \in Pages
  /\ pc.at = "update" => pc.copy \in Page /\ pc.body \in PageBody
  /\ pc.at \in {"attach", "edit"} => pc.copy \in Link /\ pc.body \in LinkBody
  /\ pc.at = "attach" => pc.copy.monitor = pc.monitor
  /\ pc.at \in {"check", "write"} => pc.next # 0
  /\ pc.at = "check" => pc.copy = Nothing
  /\ pc.at = "write" /\ pc.copy # Nothing =>
       pc.next <= Len(pc.list) /\ pc.copy \in Link /\ pc.copy.monitor = pc.list[pc.next]

ViewFields == {"at", "page", "incidents", "todo", "shown", "aggregate", "listed"}

\* What a public request has read; its aggregate is that of what it shows.
ViewOK(r) ==
  /\ DOMAIN r = ViewFields
  /\ r.at \in {"idle", "page", "links", "answered"}
  /\ r.at = "page" => r.page \in Pages
  /\ r.todo \in Seq(Monitors)
  /\ r.shown \in Seq(Monitors \X Statuses)
  /\ r.at = "answered" =>
       r.aggregate = DocumentedAggregate({r.shown[i][2] : i \in DOMAIN r.shown})

TablesOK ==
  /\ pageScope \in PageScopes
  /\ pages \in [Pages -> Page \cup {NoPage}]
  /\ links \in [Pages -> Seq(Link)]
  /\ status \in [Monitors -> Statuses \cup {"gone"}]
  /\ \A p, q \in Pages : pages[p].slug = pages[q].slug /\ pages[p] # NoPage => p = q
  /\ \A p \in Pages :
       /\ Unique(links[p])
       /\ pages[p] = NoPage => links[p] = <<>>
       /\ \A m \in MonitorsOf(links[p]) : status[m] # "gone"

CallsOK == pageCall \in [PageCalls -> PageCall] /\ \A c \in PageCalls : CallOK(pageCall[c])
ViewsOK == DOMAIN view = Views /\ \A v \in Views : ViewOK(view[v])

PageInv == TablesOK /\ CallsOK /\ ViewsOK

\* The bounds of a behaviour are inputs of the program.
LEMMA ScopeFacts ==
  ASSUME TablesOK
  PROVE  /\ pageScope.ids \subseteq Pages
         /\ pageScope.bodies \subseteq PageBody
         /\ pageScope.linkBodies \subseteq LinkBody
         /\ pageScope.lists \subseteq Seq(Monitors)
         /\ pageScope.statuses \subseteq Statuses
         /\ pageScope.serial \in BOOLEAN
BY StatusPagesAssumption DEF TablesOK

\* The model's reads, by the rows of the page.
LEMMA RowsOfPage ==
  ASSUME NEW p
  PROVE  /\ Linked(p) = MonitorsOf(links[p])
         /\ \A m : LinkOf(p, m) = RowOf(links[p], m)
         /\ ListStatusPageMonitors(p) = MonitorsInOrder(links[p])
         /\ MaxStatusPageMonitorOrder(p) = IF links[p] = <<>> THEN 0 ELSE LargestOf(links[p])
BY DEF Linked, MonitorsOf, LinkOf, RowOf, ListStatusPageMonitors, MonitorsInOrder, RowAt,
       MaxStatusPageMonitorOrder, LargestOf

LEMMA MaxFact ==
  ASSUME TablesOK, NEW p \in Pages
  PROVE  /\ MaxStatusPageMonitorOrder(p) \in Orders
         /\ \A i \in DOMAIN links[p] : links[p][i].order <= MaxStatusPageMonitorOrder(p)
<1>1. links[p] \in Seq(Link)
  BY DEF TablesOK
<1>2. CASE links[p] = <<>>
  BY <1>2, RowsOfPage, StatusPagesAssumption DEF Orders
<1>3. CASE links[p] # <<>>
  BY <1>1, <1>3, RowsOfPage, LargestFact
<1> QED
  BY <1>2, <1>3

\* A request keeps what it has read, and the tables and the views are as they were.
LEMMA CallsStep ==
  ASSUME CallsOK, NEW c \in PageCalls, NEW r, CallOK(r),
         pageCall' = [pageCall EXCEPT ![c] = r]
  PROVE  CallsOK'
BY DEF CallsOK, CallOK

LEMMA NoCallOK == CallOK(NoPageCall)
<1>1. <<>> \in Seq(Monitors) /\ <<>> \in Seq(Link) /\ Len(<<>>) = 0
  OBVIOUS
<1> QED
  BY <1>1 DEF CallOK, NoPageCall, PageCall

LEMMA ViewsStep ==
  ASSUME ViewsOK, NEW v \in Views, NEW r, ViewOK(r), view' = [view EXCEPT ![v] = r]
  PROVE  ViewsOK'
BY DEF ViewsOK

LEMMA TablesKept ==
  ASSUME TablesOK, UNCHANGED <<pageScope, pages, links, status>>
  PROVE  TablesOK'
BY DEF TablesOK

LEMMA PageWritten ==
  ASSUME TablesOK, NEW p \in Pages, NEW row \in Page, ~SlugTaken(row.slug, p),
         pages' = [pages EXCEPT ![p] = row], UNCHANGED <<pageScope, links, status>>
  PROVE  TablesOK'
<1>1. row # NoPage
  BY StatusPagesAssumption DEF Page, NoPage
<1>2. \A q, o \in Pages : pages'[q].slug = pages'[o].slug /\ pages'[q] # NoPage => q = o
  BY <1>1 DEF TablesOK, SlugTaken
<1>3. \A q \in Pages : pages'[q] = NoPage => pages[q] = NoPage
  BY <1>1 DEF TablesOK
<1> QED
  BY <1>2, <1>3 DEF TablesOK

LEMMA PageDeleted ==
  ASSUME TablesOK, NEW p \in Pages, DeletePageRow(p), UNCHANGED <<pageScope, status>>
  PROVE  TablesOK'
<1>1. \A q \in Pages : pages'[q] = IF q = p THEN NoPage ELSE pages[q]
  BY DEF TablesOK, DeletePageRow
<1>2. \A q \in Pages : links'[q] = IF q = p THEN <<>> ELSE links[q]
  BY DEF TablesOK, DeletePageRow
<1>3. \A q, o \in Pages : pages'[q].slug = pages'[o].slug /\ pages'[q] # NoPage => q = o
  <2> SUFFICES ASSUME NEW q \in Pages, NEW o \in Pages,
                      pages'[q].slug = pages'[o].slug, pages'[q] # NoPage
               PROVE  q = o
    OBVIOUS
  <2>1. q # p /\ pages[q] \in Page /\ pages[q].slug \in Slugs
    BY <1>1 DEF TablesOK, Page
  <2>2. o # p
    BY <1>1, <2>1, StatusPagesAssumption DEF NoPage
  <2> QED
    BY <1>1, <2>1, <2>2 DEF TablesOK
<1>4. /\ pages' \in [Pages -> Page \cup {NoPage}]
      /\ links' \in [Pages -> Seq(Link)]
  BY DEF TablesOK, DeletePageRow
<1>5. Unique(<<>>) /\ MonitorsOf(<<>>) = {}
  BY DEF Unique, MonitorsOf
<1>6. ASSUME NEW q \in Pages
      PROVE  /\ Unique(links'[q])
             /\ pages'[q] = NoPage => links'[q] = <<>>
             /\ \A m \in MonitorsOf(links'[q]) : status'[m] # "gone"
  BY <1>1, <1>2, <1>5 DEF TablesOK
<1> QED
  BY <1>3, <1>4, <1>6 DEF TablesOK

LEMMA RowsWritten ==
  ASSUME TablesOK, NEW p \in Pages, NEW rows \in Seq(Link), Unique(rows),
         pages[p] = NoPage => rows = <<>>,
         \A m \in MonitorsOf(rows) : status[m] # "gone",
         links' = [links EXCEPT ![p] = rows], UNCHANGED <<pageScope, pages, status>>
  PROVE  TablesOK'
<1>1. links' \in [Pages -> Seq(Link)]
  BY DEF TablesOK
<1>2. \A q \in Pages : links'[q] = IF q = p THEN rows ELSE links[q]
  BY DEF TablesOK
<1>3. ASSUME NEW q \in Pages
      PROVE  /\ Unique(links'[q])
             /\ pages'[q] = NoPage => links'[q] = <<>>
             /\ \A m \in MonitorsOf(links'[q]) : status'[m] # "gone"
  BY <1>2 DEF TablesOK
<1> QED
  BY <1>1, <1>3 DEF TablesOK

\* INSERT of a link: it is the last row.
LEMMA LinkInserted ==
  ASSUME TablesOK, NEW p \in Pages, NEW link \in Link, InsertLink(p, link),
         UNCHANGED <<pageScope, status>>
  PROVE  /\ TablesOK'
         /\ links' = [links EXCEPT ![p] = Append(links[p], link)]
<1> DEFINE rows == Append(links[p], link)
<1>1. links[p] \in Seq(Link) /\ Unique(links[p]) /\ link.monitor \notin MonitorsOf(links[p])
  BY RowsOfPage DEF TablesOK, InsertLink
<1>2. /\ rows \in Seq(Link) /\ Unique(rows)
      /\ MonitorsOf(rows) = MonitorsOf(links[p]) \cup {link.monitor}
  BY <1>1, AppendRow
<1>3. links' = [links EXCEPT ![p] = rows]
  BY DEF InsertLink
<1> HIDE DEF rows
<1>4. /\ pages[p] # NoPage /\ UNCHANGED pages
      /\ \A m \in MonitorsOf(rows) : status[m] # "gone"
  BY <1>2 DEF InsertLink, TablesOK
<1>5. TablesOK'
  BY <1>2, <1>3, <1>4, RowsWritten
<1> QED
  BY <1>3, <1>5 DEF rows

\* UPDATE of a link: no other row changes.
LEMMA LinkUpdated ==
  ASSUME TablesOK, NEW p \in Pages, NEW link \in Link, UpdateLinkRow(p, link),
         UNCHANGED <<pageScope, status>>
  PROVE  /\ TablesOK'
         /\ link.monitor \in MonitorsOf(links[p])
         /\ links' = [links EXCEPT ![p] =
                        [links[p] EXCEPT ![RowOf(links[p], link.monitor)] = link]]
<1> DEFINE rows == [links[p] EXCEPT ![RowOf(links[p], link.monitor)] = link]
<1>1. links[p] \in Seq(Link) /\ Unique(links[p]) /\ link.monitor \in MonitorsOf(links[p])
  BY RowsOfPage DEF TablesOK, UpdateLinkRow
<1>2. /\ rows \in Seq(Link) /\ Unique(rows)
      /\ MonitorsOf(rows) = MonitorsOf(links[p])
  BY <1>1, ReplaceRow
<1>3. links' = [links EXCEPT ![p] = rows]
  BY RowsOfPage DEF UpdateLinkRow
<1> HIDE DEF rows
<1>4. pages[p] # NoPage
  BY <1>1 DEF TablesOK, MonitorsOf
<1>5. /\ UNCHANGED pages
      /\ \A m \in MonitorsOf(rows) : status[m] # "gone"
  BY <1>2 DEF UpdateLinkRow, TablesOK
<1>6. TablesOK'
  BY <1>2, <1>3, <1>4, <1>5, RowsWritten
<1> QED
  BY <1>1, <1>3, <1>6 DEF rows

LEMMA LinkDeleted ==
  ASSUME TablesOK, NEW p \in Pages, NEW m, DeleteLinkRow(p, m), UNCHANGED <<pageScope, status>>
  PROVE  TablesOK'
<1>1. PICK rows : rows = Without(links[p], m)
  OBVIOUS
<1>2. /\ rows \in Seq(Link) /\ Unique(rows)
      /\ MonitorsOf(rows) \subseteq MonitorsOf(links[p])
      /\ links[p] = <<>> => rows = <<>>
  BY <1>1, WithoutRow DEF TablesOK
<1>3. links' = [links EXCEPT ![p] = rows] /\ UNCHANGED pages
  BY <1>1 DEF DeleteLinkRow
<1>4. \A n \in MonitorsOf(rows) : status[n] # "gone"
  BY <1>2 DEF TablesOK
<1>5. pages[p] = NoPage => rows = <<>>
  BY <1>2 DEF TablesOK
<1> QED
  BY <1>2, <1>3, <1>4, <1>5, RowsWritten

LEMMA MonitorGone ==
  ASSUME TablesOK, NEW m \in Monitors, MonitorDeleted(m)
  PROVE  TablesOK'
<1>1. \A p \in Pages : links'[p] = Without(links[p], m)
  BY DEF MonitorDeleted
<1>2. \A p \in Pages : /\ links'[p] \in Seq(Link) /\ Unique(links'[p])
                       /\ MonitorsOf(links'[p]) \subseteq MonitorsOf(links[p]) \ {m}
                       /\ links[p] = <<>> => links'[p] = <<>>
  BY <1>1, WithoutRow DEF TablesOK
<1>3. links' \in [Pages -> Seq(Link)]
  BY <1>2 DEF MonitorDeleted
<1>4. /\ status' \in [Monitors -> Statuses \cup {"gone"}]
      /\ \A n \in Monitors : n # m => status'[n] = status[n]
  BY DEF MonitorDeleted, TablesOK
<1>5. \A p \in Pages : MonitorsOf(links'[p]) \subseteq Monitors
  BY <1>2, RowFacts DEF MonitorsOf
<1>6. \A p \in Pages : \A n \in MonitorsOf(links'[p]) : status'[n] # "gone"
  BY <1>2, <1>4, <1>5 DEF TablesOK
<1> QED
  BY <1>2, <1>3, <1>4, <1>6 DEF TablesOK, MonitorDeleted

LEMMA StatusChanged ==
  ASSUME TablesOK, NEW m \in Monitors, NEW s \in Statuses, MonitorChanges(m, s)
  PROVE  TablesOK'
<1>1. /\ status' \in [Monitors -> Statuses \cup {"gone"}]
      /\ \A n \in Monitors : status'[n] = IF n = m THEN s ELSE status[n]
  BY DEF MonitorChanges, TablesOK
<1>2. \A p \in Pages : MonitorsOf(links[p]) \subseteq Monitors
  BY RowFacts DEF MonitorsOf, TablesOK
<1>3. \A p \in Pages : \A n \in MonitorsOf(links[p]) : status'[n] # "gone"
  BY <1>1, <1>2 DEF TablesOK, Statuses
<1> QED
  BY <1>1, <1>3 DEF TablesOK, MonitorChanges

-----------------------------------------------------------------------------
(* Type correctness, step by step.                                         *)

\* What a step of a request reads again from its record.
LEMMA CallFacts ==
  ASSUME CallsOK, NEW c \in PageCalls
  PROVE  CallOK(pageCall[c]) /\ pageCall[c] \in PageCall /\ pageCall \in [PageCalls -> PageCall]
BY DEF CallsOK

\* A request that has read nothing.
LEMMA FreshFacts ==
  /\ NoPageCall \in PageCall
  /\ NoPageCall.at = "idle" /\ NoPageCall.list = <<>> /\ Len(NoPageCall.list) = 0
  /\ NoPageCall.next = 0 /\ NoPageCall.copy = Nothing
<1>1. Len(<<>>) = 0
  OBVIOUS
<1>2. NoPageCall.list = <<>>
  BY DEF NoPageCall
<1> QED
  BY <1>1, <1>2, NoCallOK DEF NoPageCall, CallOK

LEMMA WantedPageType ==
  ASSUME NEW copy \in Page, NEW body \in PageBody
  PROVE  WantedPage(copy, body) \in Page
<1>1. \A field \in {"keep", "yes", "no"}, default \in BOOLEAN : Flag(field, default) \in BOOLEAN
  BY DEF Flag
<1>2. /\ copy.slug \in Slugs /\ copy.public \in BOOLEAN /\ copy.incidents \in BOOLEAN
      /\ body.slug \in Slugs \cup {"keep"}
      /\ body.public \in {"keep", "yes", "no"} /\ body.incidents \in {"keep", "yes", "no"}
  BY DEF Page, PageBody
<1>3. PICK slug, public, incidents :
         /\ WantedPage(copy, body) = [slug |-> slug, public |-> public, incidents |-> incidents]
         /\ slug = IF body.slug = "keep" THEN copy.slug ELSE body.slug
         /\ public = Flag(body.public, copy.public)
         /\ incidents = Flag(body.incidents, copy.incidents)
  BY DEF WantedPage
<1>4. slug \in Slugs /\ public \in BOOLEAN /\ incidents \in BOOLEAN
  BY <1>1, <1>2, <1>3
<1> QED
  BY <1>3, <1>4 DEF Page

LEMMA CreatedType ==
  ASSUME NEW body \in PageBody, body.slug # "keep"
  PROVE  [slug |-> body.slug, public |-> Flag(body.public, FALSE),
          incidents |-> Flag(body.incidents, TRUE)] \in Page
<1>1. \A field, default \in BOOLEAN : Flag(field, default) \in BOOLEAN
  BY DEF Flag
<1>2. PICK public, incidents : public = Flag(body.public, FALSE)
                               /\ incidents = Flag(body.incidents, TRUE)
  OBVIOUS
<1>3. public \in BOOLEAN /\ incidents \in BOOLEAN
  BY <1>2 DEF PageBody, Flag
<1>4. [slug |-> body.slug, public |-> public, incidents |-> incidents] \in Page
  BY <1>3 DEF Page, PageBody
<1> QED
  BY <1>2, <1>4

\* The order a body asks for, and what else may stand for it.
LEMMA OrderOfBody ==
  ASSUME NEW body \in LinkBody
  PROVE  /\ body.order # {} => (CHOOSE o \in body.order : TRUE) \in Orders
         /\ body.label \in {"keep", "own", "given"}
<1>1. body.order \in {{}} \cup {{o} : o \in Orders} /\ body.label \in {"keep", "own", "given"}
  BY DEF LinkBody
<1> QED
  BY <1>1

LEMMA WantedLinkType ==
  ASSUME NEW copy \in Link, NEW body \in LinkBody
  PROVE  WantedLink(copy, body) \in Link /\ WantedLink(copy, body).monitor = copy.monitor
<1>1. PICK order : order = IF body.order = {} THEN copy.order ELSE CHOOSE o \in body.order : TRUE
  OBVIOUS
<1>2. PICK label : label = IF body.label = "keep" THEN copy.label ELSE body.label
  OBVIOUS
<1>3. order \in Orders /\ label \in {"own", "given"} /\ copy.monitor \in Monitors
  BY <1>1, <1>2, OrderOfBody DEF Link
<1>4. WantedLink(copy, body) = [copy EXCEPT !.order = order, !.label = label]
  BY <1>1, <1>2 DEF WantedLink
<1> QED
  BY <1>3, <1>4 DEF Link

LEMMA UpdateReadsType ==
  ASSUME PageInv, NEW c \in PageCalls, NEW p \in Pages, NEW body \in PageBody,
         UpdateReads(c, p, body)
  PROVE  PageInv'
<1> DEFINE r == [NoPageCall EXCEPT !.at = "update", !.page = p, !.copy = pages[p], !.body = body]
<1>1. pages[p] \in Page /\ pageCall' = [pageCall EXCEPT ![c] = r]
  BY DEF UpdateReads, PageInv, TablesOK
<1>2. r \in PageCall
  BY <1>1, FreshFacts DEF PageCall
<1>3. /\ r.at = "update" /\ r.page = p /\ r.copy = pages[p] /\ r.body = body
      /\ r.list = NoPageCall.list /\ r.next = 0
  BY FreshFacts DEF PageCall
<1> HIDE DEF r
<1>4. CallOK(r)
  BY <1>1, <1>2, <1>3, FreshFacts DEF CallOK
<1>5. CallsOK'
  BY <1>1, <1>4, CallsStep DEF PageInv
<1> QED
  BY <1>5, TablesKept DEF PageInv, ViewsOK, UpdateReads

LEMMA PageStepType ==
  ASSUME PageInv, NEW c \in PageCalls, PageStep(c)
  PROVE  PageInv'
<1>1. PICK p \in Pages :
        \/ \E body \in pageScope.bodies : CreateStatusPage(c, p, body) \/ UpdateReads(c, p, body)
        \/ DeleteStatusPage(c, p)
  BY DEF PageStep
<1>2. ASSUME NEW body \in pageScope.bodies, CreateStatusPage(c, p, body)
      PROVE  PageInv'
  <2>1. PICK row : row = [slug |-> body.slug, public |-> Flag(body.public, FALSE),
                          incidents |-> Flag(body.incidents, TRUE)]
    OBVIOUS
  <2>2. row \in Page
    <3>1. body \in PageBody /\ body.slug # "keep"
      BY <1>2, ScopeFacts DEF PageInv, CreateStatusPage
    <3> QED
      BY <2>1, <3>1, CreatedType
  <2>3. /\ ~SlugTaken(row.slug, p) /\ pages' = [pages EXCEPT ![p] = row]
        /\ UNCHANGED <<links, pageScope, status, pageCall, view>>
    BY <1>2, <2>1 DEF CreateStatusPage, InsertPage
  <2>4. TablesOK'
    BY <2>2, <2>3, PageWritten DEF PageInv
  <2> QED
    BY <2>3, <2>4 DEF PageInv, CallsOK, ViewsOK
<1>3. ASSUME NEW body \in pageScope.bodies, UpdateReads(c, p, body)
      PROVE  PageInv'
  <2>1. body \in PageBody
    BY ScopeFacts DEF PageInv
  <2> QED
    BY <1>3, <2>1, UpdateReadsType
<1>4. ASSUME DeleteStatusPage(c, p)
      PROVE  PageInv'
  <2>1. TablesOK'
    BY <1>4, PageDeleted DEF PageInv, DeleteStatusPage
  <2> QED
    BY <1>4, <2>1 DEF PageInv, CallsOK, ViewsOK, DeleteStatusPage
<1> QED
  BY <1>1, <1>2, <1>3, <1>4

\* The link that an attachment without an order is going to insert.
LEMMA AttachReadsType ==
  ASSUME PageInv, NEW c \in PageCalls, NEW p \in Pages, NEW m \in Monitors, NEW body \in LinkBody,
         AttachReads(c, p, m, body)
  PROVE  /\ PageInv'
         /\ pageCall'[c].at = "attach" /\ pageCall'[c].page = p /\ pageCall'[c].body = body
         /\ body.order = {} =>
              pageCall'[c].copy.order = Wrap(MaxStatusPageMonitorOrder(p) + 10)
<1>1. PICK order : order = IF body.order = {} THEN Wrap(MaxStatusPageMonitorOrder(p) + 10)
                           ELSE CHOOSE o \in body.order : TRUE
  OBVIOUS
<1>2. PICK label : label = IF body.label = "given" THEN "given" ELSE "own"
  OBVIOUS
<1>3. order \in Orders
  <2>1. MaxStatusPageMonitorOrder(p) \in Int
    BY MaxFact, StatusPagesAssumption DEF PageInv, Orders
  <2> QED
    BY <1>1, <2>1, WrapOrder, OrderOfBody
<1> DEFINE copy == [monitor |-> m, order |-> order, label |-> label]
           r == [NoPageCall EXCEPT !.at = "attach", !.page = p, !.monitor = m, !.body = body,
                                   !.copy = copy]
<1>4. pageCall' = [pageCall EXCEPT ![c] = r]
  BY <1>1, <1>2 DEF AttachReads
<1>5. copy \in Link /\ copy.order = order /\ copy.monitor = m
  BY <1>2, <1>3 DEF Link
<1> HIDE DEF copy
<1>6. r \in PageCall
  BY <1>5, FreshFacts DEF PageCall
<1>7. /\ r.at = "attach" /\ r.page = p /\ r.monitor = m /\ r.copy = copy /\ r.body = body
      /\ r.list = NoPageCall.list /\ r.next = 0
  BY FreshFacts DEF PageCall
<1> HIDE DEF r
<1>8. CallOK(r)
  BY <1>5, <1>6, <1>7, FreshFacts DEF CallOK
<1>9. CallsOK'
  BY <1>4, <1>8, CallsStep DEF PageInv
<1>10. PageInv'
  BY <1>9, TablesKept DEF PageInv, ViewsOK, AttachReads
<1>11. pageCall'[c] = r
  BY <1>4 DEF PageInv, CallsOK
<1> QED
  BY <1>1, <1>5, <1>7, <1>10, <1>11

LEMMA EditReadsType ==
  ASSUME PageInv, NEW c \in PageCalls, NEW p \in Pages, NEW m \in Monitors, NEW body \in LinkBody,
         EditReads(c, p, m, body)
  PROVE  PageInv'
<1>1. PICK copy : copy = links[p][LinkOf(p, m)]
  OBVIOUS
<1>2. copy \in Link
  <2>1. m \in MonitorsOf(links[p]) /\ links[p] \in Seq(Link)
    BY RowsOfPage DEF EditReads, PageInv, TablesOK
  <2> QED
    BY <1>1, <2>1, RowsOfPage, RowOfFact, RowFacts
<1> DEFINE r == [NoPageCall EXCEPT !.at = "edit", !.page = p, !.monitor = m, !.body = body,
                                   !.copy = copy]
<1>3. pageCall' = [pageCall EXCEPT ![c] = r]
  BY <1>1 DEF EditReads
<1>4. r \in PageCall
  BY <1>2, FreshFacts DEF PageCall
<1>5. /\ r.at = "edit" /\ r.page = p /\ r.copy = copy /\ r.body = body
      /\ r.list = NoPageCall.list /\ r.next = 0
  BY FreshFacts DEF PageCall
<1> HIDE DEF r
<1>6. CallOK(r)
  BY <1>2, <1>4, <1>5, FreshFacts DEF CallOK
<1>7. CallsOK'
  BY <1>3, <1>6, CallsStep DEF PageInv
<1> QED
  BY <1>7, TablesKept DEF PageInv, ViewsOK, EditReads

LEMMA StartReorderType ==
  ASSUME PageInv, NEW c \in PageCalls, NEW p \in Pages, NEW list \in Seq(Monitors),
         StartReorder(c, p, list)
  PROVE  /\ PageInv'
         /\ pageCall'[c].at = "check" /\ pageCall'[c].page = p
         /\ pageCall'[c].next = 1 /\ pageCall'[c].before = links[p]
<1> DEFINE r == [NoPageCall EXCEPT !.at = "check", !.page = p, !.list = list, !.next = 1,
                                   !.before = links[p]]
<1>1. pageCall' = [pageCall EXCEPT ![c] = r] /\ links[p] \in Seq(Link)
  BY DEF StartReorder, PageInv, TablesOK
<1>2. r \in PageCall
  BY <1>1, FreshFacts DEF PageCall
<1>3. /\ r.at = "check" /\ r.page = p /\ r.copy = Nothing /\ r.list = list /\ r.next = 1
      /\ r.before = links[p] /\ Len(list) \in Nat
  BY FreshFacts DEF PageCall
<1> HIDE DEF r
<1>4. CallOK(r)
  BY <1>1, <1>2, <1>3 DEF CallOK
<1>5. CallsOK'
  BY <1>1, <1>4, CallsStep DEF PageInv
<1>6. pageCall'[c] = r
  BY <1>1 DEF PageInv, CallsOK
<1> QED
  BY <1>3, <1>5, <1>6, TablesKept DEF PageInv, ViewsOK, StartReorder

LEMMA LinkStepType ==
  ASSUME PageInv, NEW c \in PageCalls, LinkStep(c)
  PROVE  PageInv'
<1>1. PICK p \in Pages :
        \/ \E m \in Monitors, body \in pageScope.linkBodies :
             AttachReads(c, p, m, body) \/ EditReads(c, p, m, body)
        \/ \E m \in Monitors : RemoveMonitor(c, p, m)
        \/ \E list \in pageScope.lists : StartReorder(c, p, list)
  BY DEF LinkStep
<1>2. pageScope.linkBodies \subseteq LinkBody /\ pageScope.lists \subseteq Seq(Monitors)
  BY ScopeFacts DEF PageInv
<1>3. ASSUME NEW m \in Monitors, RemoveMonitor(c, p, m)
      PROVE  PageInv'
  <2>1. TablesOK'
    BY <1>3, LinkDeleted DEF PageInv, RemoveMonitor
  <2> QED
    BY <1>3, <2>1 DEF PageInv, CallsOK, ViewsOK, RemoveMonitor
<1> QED
  BY <1>1, <1>2, <1>3, AttachReadsType, EditReadsType, StartReorderType

\* A step that writes a request's record and no table.
LEMMA CallMoves ==
  ASSUME PageInv, NEW c \in PageCalls, NEW r, CallOK(r), pageCall' = [pageCall EXCEPT ![c] = r],
         UNCHANGED <<pageScope, pages, links, status, view>>
  PROVE  PageInv'
BY CallsStep, TablesKept DEF PageInv, ViewsOK

LEMMA UpdateStatusPageType ==
  ASSUME PageInv, NEW c \in PageCalls, UpdateStatusPage(c)
  PROVE  PageInv'
<1> DEFINE pc == pageCall[c]
<1>1. pc.page \in Pages /\ pc.copy \in Page /\ pc.body \in PageBody
  BY CallFacts DEF PageInv, CallOK, UpdateStatusPage
<1>2. PICK row : row = WantedPage(pc.copy, pc.body)
  OBVIOUS
<1>3. row \in Page
  BY <1>1, <1>2, WantedPageType
<1>4. /\ ~SlugTaken(row.slug, pc.page) /\ pages' = [pages EXCEPT ![pc.page] = row]
      /\ UNCHANGED <<pageScope, links, status, view>>
      /\ pageCall' = [pageCall EXCEPT ![c] = NoPageCall]
  BY <1>2 DEF UpdateStatusPage, UpdatePageRow
<1>5. TablesOK'
  BY <1>1, <1>3, <1>4, PageWritten DEF PageInv
<1>6. CallsOK'
  BY <1>4, NoCallOK, CallsStep DEF PageInv
<1> QED
  BY <1>4, <1>5, <1>6 DEF PageInv, ViewsOK

LEMMA AttachMonitorType ==
  ASSUME PageInv, NEW c \in PageCalls, AttachMonitor(c)
  PROVE  /\ PageInv'
         /\ pageCall[c].page \in Pages /\ pageCall[c].copy \in Link
         /\ links' = [links EXCEPT ![pageCall[c].page] =
                        Append(links[pageCall[c].page], pageCall[c].copy)]
<1> DEFINE pc == pageCall[c]
<1>1. pc.page \in Pages /\ pc.copy \in Link
  BY CallFacts DEF PageInv, CallOK, AttachMonitor
<1>2. /\ InsertLink(pc.page, pc.copy)
      /\ UNCHANGED <<pageScope, status, view>>
      /\ pageCall' = [pageCall EXCEPT ![c] = NoPageCall]
  BY DEF AttachMonitor
<1>3. TablesOK' /\ links' = [links EXCEPT ![pc.page] = Append(links[pc.page], pc.copy)]
  BY <1>1, <1>2, LinkInserted DEF PageInv
<1>4. CallsOK'
  BY <1>2, NoCallOK, CallsStep DEF PageInv
<1> QED
  BY <1>1, <1>2, <1>3, <1>4 DEF PageInv, ViewsOK

LEMMA UpdateAttachedMonitorType ==
  ASSUME PageInv, NEW c \in PageCalls, UpdateAttachedMonitor(c)
  PROVE  PageInv'
<1> DEFINE pc == pageCall[c]
<1>1. pc.page \in Pages /\ pc.copy \in Link /\ pc.body \in LinkBody
  BY CallFacts DEF PageInv, CallOK, UpdateAttachedMonitor
<1>2. PICK link : link = WantedLink(pc.copy, pc.body)
  OBVIOUS
<1>3. link \in Link
  BY <1>1, <1>2, WantedLinkType
<1>4. /\ UpdateLinkRow(pc.page, link)
      /\ UNCHANGED <<pageScope, status, view>>
      /\ pageCall' = [pageCall EXCEPT ![c] = NoPageCall]
  BY <1>2 DEF UpdateAttachedMonitor
<1>5. TablesOK'
  BY <1>1, <1>3, <1>4, LinkUpdated DEF PageInv
<1>6. CallsOK'
  BY <1>4, NoCallOK, CallsStep DEF PageInv
<1> QED
  BY <1>4, <1>5, <1>6 DEF PageInv, ViewsOK

LEMMA CheckListedType ==
  ASSUME PageInv, NEW c \in PageCalls, CheckListed(c)
  PROVE  /\ PageInv'
         /\ pageCall'[c] = [pageCall[c] EXCEPT
              !.at = IF pageCall[c].list[pageCall[c].next] \in Linked(pageCall[c].page)
                     THEN "check" ELSE "rejected",
              !.next = pageCall[c].next + 1]
<1> DEFINE pc == pageCall[c]
<1>1. PICK at \in {"check", "rejected"} :
        at = IF pc.list[pc.next] \in Linked(pc.page) THEN "check" ELSE "rejected"
  OBVIOUS
<1> DEFINE r == [pc EXCEPT !.at = at, !.next = pc.next + 1]
<1>2. pageCall' = [pageCall EXCEPT ![c] = r] /\ pc.at = "check" /\ pc.next <= Len(pc.list)
  BY <1>1 DEF CheckListed
<1>3. CallOK(pc) /\ pc \in PageCall /\ pageCall'[c] = r
  BY <1>2, CallFacts DEF PageInv
<1>4. CallOK(r)
  <2> HIDE DEF pc
  <2>1. Len(pc.list) \in Nat /\ pc.next \in Nat
    BY <1>3 DEF PageCall
  <2>2. PICK next \in Nat : next = pc.next + 1
    BY <2>1
  <2>3. r = [pc EXCEPT !.at = at, !.next = next]
    BY <2>2
  <2> HIDE DEF r
  <2>4. /\ r \in PageCall /\ r.at = at /\ r.next = next
        /\ r.page = pc.page /\ r.list = pc.list /\ r.copy = pc.copy
    BY <1>3, <2>3 DEF PageCall
  <2> QED
    BY <1>2, <1>3, <2>1, <2>2, <2>4 DEF CallOK
<1>5. PageInv'
  BY <1>2, <1>4, CallMoves DEF CheckListed
<1> QED
  BY <1>1, <1>3, <1>5

LEMMA ChecksPassType ==
  ASSUME PageInv, NEW c \in PageCalls, ChecksPass(c)
  PROVE  /\ PageInv'
         /\ pageCall'[c] = [pageCall[c] EXCEPT !.at = "write", !.next = 1]
<1> DEFINE pc == pageCall[c]
           r == [pc EXCEPT !.at = "write", !.next = 1]
<1>1. pageCall' = [pageCall EXCEPT ![c] = r] /\ pc.at = "check"
  BY DEF ChecksPass
<1>2. CallOK(pc) /\ pc \in PageCall /\ pageCall'[c] = r
  BY <1>1, CallFacts DEF PageInv
<1>3. CallOK(r)
  <2> HIDE DEF pc
  <2>1. /\ r \in PageCall /\ r.at = "write" /\ r.next = 1
        /\ r.page = pc.page /\ r.list = pc.list /\ r.copy = pc.copy
    BY <1>2 DEF PageCall
  <2>2. Len(pc.list) \in Nat
    BY <1>2 DEF PageCall
  <2> HIDE DEF r
  <2> QED
    BY <1>1, <1>2, <2>1, <2>2 DEF CallOK
<1>4. PageInv'
  BY <1>1, <1>3, CallMoves DEF ChecksPass
<1> QED
  BY <1>2, <1>4

LEMMA ReadListedType ==
  ASSUME PageInv, NEW c \in PageCalls, ReadListed(c)
  PROVE  /\ PageInv'
         /\ pageCall'[c] = [pageCall[c] EXCEPT
              !.copy = links[pageCall[c].page][LinkOf(pageCall[c].page,
                                                       pageCall[c].list[pageCall[c].next])]]
<1> DEFINE pc == pageCall[c]
           m == pc.list[pc.next]
<1>1. PICK copy : copy = links[pc.page][LinkOf(pc.page, m)]
  OBVIOUS
<1> DEFINE r == [pc EXCEPT !.copy = copy]
<1>2. /\ pageCall' = [pageCall EXCEPT ![c] = r] /\ pc.at = "write" /\ pc.next <= Len(pc.list)
      /\ m \in Linked(pc.page)
  BY <1>1 DEF ReadListed
<1>3. CallOK(pc) /\ pc \in PageCall /\ pageCall'[c] = r
  BY <1>2, CallFacts DEF PageInv
<1>4. copy \in Link /\ copy.monitor = m
  <2>1. pc.page \in Pages
    BY <1>2, <1>3 DEF CallOK
  <2>2. m \in MonitorsOf(links[pc.page]) /\ links[pc.page] \in Seq(Link)
    BY <1>2, <2>1, RowsOfPage DEF PageInv, TablesOK
  <2> HIDE DEF m
  <2> QED
    BY <1>1, <2>2, RowsOfPage, RowOfFact, RowFacts
<1>5. CallOK(r)
  <2>1. m = pc.list[pc.next]
    OBVIOUS
  <2> HIDE DEF pc, m
  <2>2. /\ r \in PageCall /\ r.at = pc.at /\ r.next = pc.next
        /\ r.page = pc.page /\ r.list = pc.list /\ r.copy = copy
    BY <1>3, <1>4 DEF PageCall
  <2> HIDE DEF r
  <2> QED
    BY <1>2, <1>3, <1>4, <2>1, <2>2 DEF CallOK
<1>6. PageInv'
  BY <1>2, <1>5, CallMoves DEF ReadListed
<1> QED
  BY <1>1, <1>3, <1>6

\* A step that only says where the request ends.
LEMMA CallEnds ==
  ASSUME PageInv, NEW c \in PageCalls, NEW at \in {"rejected", "reordered"},
         pageCall[c].at = "write", pageCall' = [pageCall EXCEPT ![c].at = at],
         UNCHANGED <<pageScope, pages, links, status, view>>
  PROVE  PageInv' /\ pageCall'[c] = [pageCall[c] EXCEPT !.at = at]
<1> DEFINE pc == pageCall[c]
           r == [pc EXCEPT !.at = at]
<1>1. pageCall' = [pageCall EXCEPT ![c] = r]
  OBVIOUS
<1>2. CallOK(pc) /\ pc \in PageCall /\ pageCall'[c] = r /\ pc.at = "write"
  BY <1>1, CallFacts DEF PageInv
<1>3. CallOK(r)
  <2> HIDE DEF pc
  <2>1. /\ r \in PageCall /\ r.at = at /\ r.next = pc.next
        /\ r.page = pc.page /\ r.list = pc.list /\ r.copy = pc.copy
    BY <1>2 DEF PageCall
  <2> HIDE DEF r
  <2> QED
    BY <1>2, <2>1 DEF CallOK
<1>4. PageInv'
  BY <1>1, <1>3, CallMoves
<1> QED
  BY <1>2, <1>4

\* What a write of the reordering does to the rows of the page.
LEMMA WriteListedType ==
  ASSUME PageInv, NEW c \in PageCalls, WriteListed(c)
  PROVE  LET pc == pageCall[c]
             link == [pc.copy EXCEPT !.order = NewPlace(pc.next)]
             rows == links[pc.page]
         IN  /\ PageInv'
             /\ pageCall'[c] = [pc EXCEPT !.copy = Nothing, !.next = pc.next + 1]
             /\ pc.page \in Pages /\ pc.next \in 1..Len(pc.list)
             /\ link \in Link /\ link.order = NewPlace(pc.next)
             /\ link.monitor = pc.list[pc.next] /\ link.monitor \in MonitorsOf(rows)
             /\ links' = [links EXCEPT ![pc.page] =
                            [rows EXCEPT ![RowOf(rows, link.monitor)] = link]]
<1> DEFINE pc == pageCall[c]
<1>1. PICK link : link = [pc.copy EXCEPT !.order = NewPlace(pc.next)]
  OBVIOUS
<1> DEFINE r == [pc EXCEPT !.copy = Nothing, !.next = pc.next + 1]
<1>2. /\ pageCall' = [pageCall EXCEPT ![c] = r] /\ pc.at = "write" /\ pc.copy # Nothing
      /\ UpdateLinkRow(pc.page, link) /\ UNCHANGED <<pageScope, status, view>>
  BY <1>1 DEF WriteListed
<1>3. CallOK(pc) /\ pc \in PageCall /\ pageCall'[c] = r
  BY <1>2, CallFacts DEF PageInv
<1>4. /\ pc.page \in Pages /\ pc.copy \in Link /\ pc.copy.monitor = pc.list[pc.next]
      /\ pc.next \in Nat /\ Len(pc.list) \in Nat /\ pc.next \in 1..Len(pc.list)
  <2> HIDE DEF pc
  <2>1. pc.next \in Nat /\ Len(pc.list) \in Nat
    BY <1>3 DEF PageCall
  <2> QED
    BY <1>2, <1>3, <2>1 DEF CallOK
<1>5. link \in Link /\ link.order = NewPlace(pc.next) /\ link.monitor = pc.copy.monitor
  <2>1. NewPlace(pc.next) \in Orders
    BY <1>4, WrapOrder DEF NewPlace
  <2> QED
    BY <1>1, <1>4, <2>1 DEF Link
<1>6. CallOK(r)
  <2> HIDE DEF pc
  <2>1. PICK next \in Nat : next = pc.next + 1
    BY <1>4
  <2>2. r = [pc EXCEPT !.copy = Nothing, !.next = next]
    BY <2>1
  <2> HIDE DEF r
  <2>3. /\ r \in PageCall /\ r.at = pc.at /\ r.next = next
        /\ r.page = pc.page /\ r.list = pc.list /\ r.copy = Nothing
    BY <1>3, <2>2 DEF PageCall
  <2> QED
    BY <1>2, <1>3, <1>4, <2>1, <2>3 DEF CallOK
<1>7. /\ TablesOK' /\ link.monitor \in MonitorsOf(links[pc.page])
      /\ links' = [links EXCEPT ![pc.page] =
                     [links[pc.page] EXCEPT ![RowOf(links[pc.page], link.monitor)] = link]]
  BY <1>2, <1>4, <1>5, LinkUpdated DEF PageInv
<1>8. CallsOK'
  BY <1>2, <1>6, CallsStep DEF PageInv
<1>9. PageInv'
  BY <1>2, <1>7, <1>8 DEF PageInv, ViewsOK
<1> QED
  BY <1>1, <1>3, <1>4, <1>5, <1>7, <1>9

LEMMA CallStepType ==
  ASSUME PageInv, NEW c \in PageCalls, CallStep(c)
  PROVE  PageInv'
<1>1. CASE ListedIsGone(c)
  BY <1>1, CallEnds DEF ListedIsGone
<1>2. CASE ReorderDone(c)
  BY <1>2, CallEnds DEF ReorderDone
<1>3. CASE PageCallEnds(c)
  BY <1>3, NoCallOK, CallMoves DEF PageCallEnds
<1> QED
  BY <1>1, <1>2, <1>3, UpdateStatusPageType, AttachMonitorType, UpdateAttachedMonitorType,
     CheckListedType, ChecksPassType, ReadListedType, WriteListedType DEF CallStep

\* A step of a public request, which writes its record only.
LEMMA ViewMoves ==
  ASSUME PageInv, NEW v \in Views, NEW r, ViewOK(r), view' = [view EXCEPT ![v] = r],
         UNCHANGED <<pageScope, pages, links, status, pageCall>>
  PROVE  PageInv'
BY ViewsStep, TablesKept DEF PageInv, CallsOK

LEMMA NoViewOK == ViewOK(NoView)
<1>1. <<>> \in Seq(Monitors) /\ <<>> \in Seq(Monitors \X Statuses)
  OBVIOUS
<1> QED
  BY <1>1 DEF ViewOK, ViewFields, NoView

\* The fields a step of a public request leaves alone.
LEMMA ViewFacts ==
  ASSUME PageInv, NEW v \in Views
  PROVE  ViewOK(view[v])
BY DEF PageInv, ViewsOK

LEMMA ViewPageType ==
  ASSUME PageInv, NEW v \in Views, NEW p \in Pages, ViewPage(v, p)
  PROVE  PageInv'
<1> DEFINE old == view[v]
<1>1. PICK incidents : incidents = pages[p].incidents
  OBVIOUS
<1> DEFINE r == [old EXCEPT !.at = "page", !.page = p, !.incidents = incidents]
<1>2. view' = [view EXCEPT ![v] = r]
  BY <1>1 DEF ViewPage
<1>3. ViewOK(old)
  BY ViewFacts
<1> HIDE DEF old
<1>4. ViewOK(r)
  <2>1. /\ DOMAIN r = ViewFields
        /\ r.at = "page" /\ r.page = p /\ r.todo = old.todo /\ r.shown = old.shown
    BY <1>3 DEF ViewOK, ViewFields
  <2> HIDE DEF r
  <2> QED
    BY <1>3, <2>1 DEF ViewOK
<1> QED
  BY <1>2, <1>4, ViewMoves DEF ViewPage

LEMMA ViewLinksType ==
  ASSUME PageInv, NEW v \in Views, ViewLinks(v)
  PROVE  PageInv'
<1> DEFINE old == view[v]
<1>1. PICK todo : todo = ListStatusPageMonitors(old.page)
  OBVIOUS
<1> DEFINE r == [old EXCEPT !.at = "links", !.todo = todo]
<1>2. view' = [view EXCEPT ![v] = r] /\ old.at = "page"
  BY <1>1 DEF ViewLinks
<1>3. ViewOK(old)
  BY ViewFacts
<1>4. todo \in Seq(Monitors)
  <2>1. old.page \in Pages
    BY <1>2, <1>3 DEF ViewOK
  <2>2. links[old.page] \in Seq(Link)
    BY <2>1 DEF PageInv, TablesOK
  <2> QED
    BY <1>1, <2>2, RowsOfPage, MonitorsInOrderType
<1> HIDE DEF old
<1>5. ViewOK(r)
  <2>1. /\ DOMAIN r = ViewFields
        /\ r.at = "links" /\ r.todo = todo /\ r.shown = old.shown
    BY <1>3 DEF ViewOK, ViewFields
  <2> HIDE DEF r
  <2> QED
    BY <1>3, <1>4, <2>1 DEF ViewOK
<1> QED
  BY <1>2, <1>5, ViewMoves DEF ViewLinks

LEMMA ViewMonitorType ==
  ASSUME PageInv, NEW v \in Views, ViewMonitor(v)
  PROVE  PageInv'
<1> DEFINE old == view[v]
           m == Head(old.todo)
<1>1. PICK todo, shown :
        /\ todo = Tail(old.todo)
        /\ shown = IF status[m] = "gone" THEN old.shown ELSE Append(old.shown, <<m, status[m]>>)
  OBVIOUS
<1> DEFINE r == [old EXCEPT !.todo = todo, !.shown = shown]
<1>2. view' = [view EXCEPT ![v] = r] /\ old.at = "links" /\ old.todo # <<>>
  BY <1>1 DEF ViewMonitor
<1>3. ViewOK(old)
  BY ViewFacts
<1>4. todo \in Seq(Monitors) /\ m \in Monitors
  BY <1>1, <1>2, <1>3, HeadTailProperties DEF ViewOK
<1>5. shown \in Seq(Monitors \X Statuses)
  <2>1. old.shown \in Seq(Monitors \X Statuses)
    BY <1>3 DEF ViewOK
  <2>2. CASE status[m] = "gone"
    BY <1>1, <2>1, <2>2
  <2>3. CASE status[m] # "gone"
    <3> DEFINE pair == <<m, status[m]>>
    <3>1. pair \in Monitors \X Statuses
      BY <1>4, <2>3 DEF PageInv, TablesOK
    <3>2. shown = Append(old.shown, pair)
      BY <1>1, <2>3
    <3> HIDE DEF pair
    <3> QED
      BY <2>1, <3>1, <3>2, AppendProperties
  <2> QED
    BY <2>2, <2>3
<1> HIDE DEF old
<1>6. ViewOK(r)
  <2>1. /\ DOMAIN r = ViewFields
        /\ r.at = old.at /\ r.todo = todo /\ r.shown = shown
    BY <1>3 DEF ViewOK, ViewFields
  <2> HIDE DEF r
  <2> QED
    BY <1>2, <1>3, <1>4, <1>5, <2>1 DEF ViewOK
<1> QED
  BY <1>2, <1>6, ViewMoves DEF ViewMonitor

\* The statuses of what an answer shows are those that are aggregated.
LEMMA AggregateOfShown ==
  ASSUME NEW shown \in Seq(Monitors \X Statuses)
  PROVE  ComputeAggregateStatus([i \in DOMAIN shown |-> shown[i][2]])
           = DocumentedAggregate({shown[i][2] : i \in DOMAIN shown})
<1> DEFINE statuses == [i \in DOMAIN shown |-> shown[i][2]]
<1>1. DOMAIN shown = 1..Len(shown) /\ Len(shown) \in Nat
  BY LenProperties
<1>2. \A i \in DOMAIN shown : shown[i] \in Monitors \X Statuses
  BY <1>1, ElementOfSeq
<1>3. \A i \in DOMAIN shown : shown[i][2] \in Statuses
  BY <1>2
<1>4. statuses \in Seq(Statuses) /\ DOMAIN statuses = DOMAIN shown
  BY <1>1, <1>3
<1>5. {statuses[i] : i \in DOMAIN statuses} = {shown[i][2] : i \in DOMAIN shown}
  BY <1>4
<1> HIDE DEF statuses
<1>6. ComputeAggregateStatus(statuses)
        = DocumentedAggregate({statuses[i] : i \in DOMAIN statuses})
  BY <1>4, AggregateOfStatuses
<1> QED
  BY <1>5, <1>6 DEF statuses

LEMMA ViewAnswersType ==
  ASSUME PageInv, NEW v \in Views, ViewAnswers(v)
  PROVE  PageInv'
<1> DEFINE old == view[v]
<1>1. PICK aggregate, listed :
        /\ aggregate = ComputeAggregateStatus([i \in DOMAIN old.shown |-> old.shown[i][2]])
        /\ listed = IF old.incidents
                    THEN ListIncidentsForMonitorsSince(
                           {old.shown[i][1] : i \in DOMAIN old.shown})
                    ELSE <<>>
  OBVIOUS
<1> DEFINE r == [old EXCEPT !.at = "answered", !.aggregate = aggregate, !.listed = listed]
<1>2. view' = [view EXCEPT ![v] = r]
  BY <1>1 DEF ViewAnswers
<1>3. ViewOK(old)
  BY ViewFacts
<1>4. aggregate = DocumentedAggregate({old.shown[i][2] : i \in DOMAIN old.shown})
  BY <1>1, <1>3, AggregateOfShown DEF ViewOK
<1> HIDE DEF old
<1>5. ViewOK(r)
  <2>1. /\ DOMAIN r = ViewFields
        /\ r.at = "answered" /\ r.todo = old.todo /\ r.shown = old.shown
        /\ r.aggregate = aggregate
    BY <1>3 DEF ViewOK, ViewFields
  <2> HIDE DEF r
  <2> QED
    BY <1>3, <1>4, <2>1 DEF ViewOK
<1> QED
  BY <1>2, <1>5, ViewMoves DEF ViewAnswers

LEMMA ViewStepType ==
  ASSUME PageInv, NEW v \in Views, ViewStep(v)
  PROVE  PageInv'
<1>1. CASE ViewEnds(v)
  BY <1>1, NoViewOK, ViewMoves DEF ViewEnds
<1> QED
  BY <1>1, ViewPageType, ViewLinksType, ViewMonitorType, ViewAnswersType DEF ViewStep

LEMMA PageInvInit ==
  ASSUME StatusPagesInit
  PROVE  PageInv
<1>1. Unique(<<>>) /\ MonitorsOf(<<>>) = {} /\ <<>> \in Seq(Link)
  BY DEF Unique, MonitorsOf
<1>2. \A p \in Pages : pages[p] = NoPage /\ links[p] = <<>>
  BY DEF StatusPagesInit
<1>3. TablesOK
  BY <1>1, <1>2 DEF TablesOK, StatusPagesInit, Statuses
<1>4. CallsOK
  BY NoCallOK, FreshFacts DEF CallsOK, StatusPagesInit
<1>5. ViewsOK
  BY NoViewOK DEF ViewsOK, StatusPagesInit
<1> QED
  BY <1>3, <1>4, <1>5 DEF PageInv

LEMMA PageInvStep ==
  ASSUME PageInv, [StatusPagesNext]_pageVars
  PROVE  PageInv'
<1>1. ASSUME NEW c \in PageCalls, PageStep(c) \/ LinkStep(c) \/ CallStep(c)
      PROVE  PageInv'
  BY <1>1, PageStepType, LinkStepType, CallStepType
<1>2. ASSUME NEW m \in Monitors, NEW s \in Statuses, MonitorChanges(m, s)
      PROVE  PageInv'
  BY <1>2, StatusChanged DEF PageInv, CallsOK, ViewsOK, MonitorChanges
<1>3. ASSUME NEW m \in Monitors, MonitorDeleted(m)
      PROVE  PageInv'
  BY <1>3, MonitorGone DEF PageInv, CallsOK, ViewsOK, MonitorDeleted
<1>4. ASSUME NEW v \in Views, ViewStep(v)
      PROVE  PageInv'
  BY <1>4, ViewStepType
<1>5. CASE UNCHANGED pageVars
  BY <1>5, TablesKept DEF PageInv, CallsOK, ViewsOK, pageVars
<1> QED
  BY <1>1, <1>2, <1>3, <1>4, <1>5 DEF StatusPagesNext

LEMMA PageInvMeans ==
  ASSUME PageInv
  PROVE  StatusPagesTypeOK /\ AggregateIsDocumented
<1>1. \A p \in Pages : /\ Cardinality(Linked(p)) = Len(links[p])
                       /\ pages[p] = NoPage => links[p] = <<>>
                       /\ \A m \in Linked(p) : status[m] # "gone"
  BY RowsOfPage, UniqueIsCounted DEF PageInv, TablesOK
<1>2. \A c \in PageCalls :
        /\ pageCall[c].at \in {"idle", "update", "attach", "edit", "check", "write", "reordered",
                               "rejected"}
        /\ pageCall[c].page \in Pages \cup {Nothing}
        /\ pageCall[c].monitor \in Monitors \cup {Nothing}
        /\ pageCall[c].list \in Seq(Monitors)
        /\ pageCall[c].next \in 0..Len(pageCall[c].list) + 1
  BY DEF PageInv, CallsOK, CallOK, PageCall
<1>3. StatusPagesTypeOK
  BY <1>1, <1>2 DEF StatusPagesTypeOK, PageInv, TablesOK, ViewsOK, ViewOK
<1>4. AggregateIsDocumented
  BY DEF AggregateIsDocumented, PageInv, ViewsOK, ViewOK
<1> QED
  BY <1>3, <1>4

\* Type correctness: slugs stay unique, a monitor is on a page once, and only
\* while both are there, whatever requests race, fail or stop halfway.
THEOREM StatusPagesTypeCorrect == StatusPagesSpec => []StatusPagesTypeOK
<1>1. StatusPagesInit => PageInv
  BY PageInvInit
<1>2. PageInv /\ [StatusPagesNext]_pageVars => PageInv'
  BY PageInvStep
<1>3. PageInv => StatusPagesTypeOK
  BY PageInvMeans
<1> QED
  BY <1>1, <1>2, <1>3, PTL DEF StatusPagesSpec

\* The one pass over the statuses finds the documented aggregate of what the
\* answer shows, however the monitors change while they are read.
THEOREM AggregateDocumented == StatusPagesSpec => []AggregateIsDocumented
<1>1. StatusPagesInit => PageInv
  BY PageInvInit
<1>2. PageInv /\ [StatusPagesNext]_pageVars => PageInv'
  BY PageInvStep
<1>3. PageInv => AggregateIsDocumented
  BY PageInvMeans
<1> QED
  BY <1>1, <1>2, <1>3, PTL DEF StatusPagesSpec

-----------------------------------------------------------------------------
(* Requests that do not overlap: what one has read still holds.            *)

MaxOf(rows) == IF rows = <<>> THEN 0 ELSE LargestOf(rows)

\* The first n monitors of the list are at their new places.
Placed(rows, list, n) ==
  Distinct(list) => \A i \in 1..n : rows[RowOf(rows, list[i])].order = NewPlace(i)

\* What a request knows of the rows of its page.
SerialCall(pc, rows) ==
  /\ pc.at = "attach" /\ pc.body.order = {} => pc.copy.order = Wrap(MaxOf(rows) + 10)
  /\ pc.at \in {"check", "rejected"} => rows = pc.before
  /\ pc.at = "check" => \A i \in 1..pc.next - 1 : pc.list[i] \in MonitorsOf(rows)
  /\ pc.at \in {"write", "reordered"} =>
       /\ Len(rows) = Len(pc.before)
       /\ \A i \in DOMAIN pc.list : pc.list[i] \in MonitorsOf(rows)
  /\ pc.at = "write" => Placed(rows, pc.list, pc.next - 1)
  /\ pc.at = "reordered" => Placed(rows, pc.list, Len(pc.list))

Alone(c) == \A d \in PageCalls : d # c => pageCall[d] = NoPageCall

SerialInv ==
  pageScope.serial =>
    \A c \in PageCalls :
      /\ pageCall[c] # NoPageCall => Alone(c)
      /\ pageCall[c].at # "idle" => SerialCall(pageCall[c], links[pageCall[c].page])

LEMMA MaxOfPage ==
  ASSUME NEW p
  PROVE  MaxStatusPageMonitorOrder(p) = MaxOf(links[p])
BY RowsOfPage DEF MaxOf

\* A request that begins is alone, and so is one that is under way.
LEMMA AloneFacts ==
  ASSUME SerialInv, pageScope.serial, NEW c \in PageCalls,
         Begins(c) \/ pageCall[c] # NoPageCall
  PROVE  Alone(c)
BY DEF SerialInv, Begins, Alone

\* A step of the only request.
LEMMA SerialMoves ==
  ASSUME CallsOK, NEW c \in PageCalls, Alone(c), NEW r, pageCall' = [pageCall EXCEPT ![c] = r],
         r.at # "idle" => SerialCall(r, links'[r.page])
  PROVE  SerialInv'
<1>1. \A d \in PageCalls : pageCall'[d] = IF d = c THEN r ELSE NoPageCall
  BY DEF CallsOK, Alone
<1>2. NoPageCall.at = "idle"
  BY FreshFacts
<1>3. \A d \in PageCalls : pageCall'[d] # NoPageCall => d = c
  BY <1>1
<1> QED
  BY <1>1, <1>2, <1>3 DEF SerialInv, Alone

\* A step that no request is there to notice.
LEMMA SerialIdle ==
  ASSUME pageScope.serial => \A c \in PageCalls : pageCall[c] = NoPageCall,
         UNCHANGED <<pageScope, pageCall>>
  PROVE  SerialInv'
BY FreshFacts DEF SerialInv

\* A step that changes neither rows nor requests.
LEMMA SerialKept ==
  ASSUME SerialInv, UNCHANGED <<pageScope, links, pageCall>>
  PROVE  SerialInv'
BY DEF SerialInv, Alone

\* A request that is over knows nothing.
LEMMA SerialEnds ==
  ASSUME CallsOK, NEW c \in PageCalls, Alone(c),
         pageCall' = [pageCall EXCEPT ![c] = NoPageCall]
  PROVE  SerialInv'
BY SerialMoves, FreshFacts

LEMMA PageStepSerial ==
  ASSUME PageInv, SerialInv, NEW c \in PageCalls, PageStep(c)
  PROVE  SerialInv'
<1>1. PICK p \in Pages :
        \/ \E body \in pageScope.bodies : CreateStatusPage(c, p, body) \/ UpdateReads(c, p, body)
        \/ DeleteStatusPage(c, p)
  BY DEF PageStep
<1>2. ASSUME NEW body \in pageScope.bodies, CreateStatusPage(c, p, body)
      PROVE  SerialInv'
  BY <1>2, SerialIdle DEF CreateStatusPage, Begins
<1>3. ASSUME NEW body \in pageScope.bodies, UpdateReads(c, p, body)
      PROVE  SerialInv'
  <2> SUFFICES ASSUME pageScope.serial
               PROVE  SerialInv'
    BY <1>3 DEF SerialInv, UpdateReads
  <2> DEFINE r == [NoPageCall EXCEPT !.at = "update", !.page = p, !.copy = pages[p],
                                     !.body = body]
  <2>1. Alone(c)
    BY <1>3, AloneFacts DEF UpdateReads
  <2>2. pageCall' = [pageCall EXCEPT ![c] = r]
    BY <1>3 DEF UpdateReads
  <2>3. r.at = "update"
    BY FreshFacts DEF PageCall
  <2> HIDE DEF r
  <2> QED
    BY <2>1, <2>2, <2>3, SerialMoves DEF PageInv, SerialCall
<1>4. ASSUME DeleteStatusPage(c, p)
      PROVE  SerialInv'
  BY <1>4, SerialIdle DEF DeleteStatusPage, Begins
<1> QED
  BY <1>1, <1>2, <1>3, <1>4

LEMMA LinkStepSerial ==
  ASSUME PageInv, SerialInv, NEW c \in PageCalls, LinkStep(c)
  PROVE  SerialInv'
<1>1. PICK p \in Pages :
        \/ \E m \in Monitors, body \in pageScope.linkBodies :
             AttachReads(c, p, m, body) \/ EditReads(c, p, m, body)
        \/ \E m \in Monitors : RemoveMonitor(c, p, m)
        \/ \E list \in pageScope.lists : StartReorder(c, p, list)
  BY DEF LinkStep
<1>2. pageScope.linkBodies \subseteq LinkBody /\ pageScope.lists \subseteq Seq(Monitors)
  BY ScopeFacts DEF PageInv
<1>3. ASSUME NEW m \in Monitors, NEW body \in pageScope.linkBodies, AttachReads(c, p, m, body)
      PROVE  SerialInv'
  <2> SUFFICES ASSUME pageScope.serial
               PROVE  SerialInv'
    BY <1>3 DEF SerialInv, AttachReads
  <2>1. Alone(c) /\ UNCHANGED links
    BY <1>3, AloneFacts DEF AttachReads
  <2>2. PICK r : pageCall' = [pageCall EXCEPT ![c] = r]
    BY <1>3 DEF AttachReads
  <2>3. pageCall'[c] = r
    BY <2>2 DEF PageInv, CallsOK
  <2>4. /\ r.at = "attach" /\ r.page = p /\ r.body = body
        /\ body.order = {} => r.copy.order = Wrap(MaxOf(links[p]) + 10)
    BY <1>2, <1>3, <2>3, AttachReadsType, MaxOfPage
  <2>5. SerialCall(r, links'[r.page])
    BY <2>1, <2>4 DEF SerialCall
  <2> QED
    BY <2>1, <2>2, <2>5, SerialMoves DEF PageInv
<1>4. ASSUME NEW m \in Monitors, NEW body \in pageScope.linkBodies, EditReads(c, p, m, body)
      PROVE  SerialInv'
  <2> SUFFICES ASSUME pageScope.serial
               PROVE  SerialInv'
    BY <1>4 DEF SerialInv, EditReads
  <2> DEFINE r == [NoPageCall EXCEPT !.at = "edit", !.page = p, !.monitor = m, !.body = body,
                                     !.copy = links[p][LinkOf(p, m)]]
  <2>1. Alone(c)
    BY <1>4, AloneFacts DEF EditReads
  <2>2. pageCall' = [pageCall EXCEPT ![c] = r]
    BY <1>4 DEF EditReads
  <2>3. r.at = "edit"
    BY FreshFacts DEF PageCall
  <2> HIDE DEF r
  <2> QED
    BY <2>1, <2>2, <2>3, SerialMoves DEF PageInv, SerialCall
<1>5. ASSUME NEW m \in Monitors, RemoveMonitor(c, p, m)
      PROVE  SerialInv'
  BY <1>5, SerialIdle DEF RemoveMonitor, Begins
<1>6. ASSUME NEW list \in pageScope.lists, StartReorder(c, p, list)
      PROVE  SerialInv'
  <2> SUFFICES ASSUME pageScope.serial
               PROVE  SerialInv'
    BY <1>6 DEF SerialInv, StartReorder
  <2>1. Alone(c) /\ UNCHANGED links
    BY <1>6, AloneFacts DEF StartReorder
  <2>2. PICK r : pageCall' = [pageCall EXCEPT ![c] = r]
    BY <1>6 DEF StartReorder
  <2>3. pageCall'[c] = r
    BY <2>2 DEF PageInv, CallsOK
  <2>4. r.at = "check" /\ r.page = p /\ r.next = 1 /\ r.before = links[p]
    BY <1>2, <1>6, <2>3, StartReorderType
  <2>5. SerialCall(r, links'[r.page])
    BY <2>1, <2>4 DEF SerialCall
  <2> QED
    BY <2>1, <2>2, <2>5, SerialMoves DEF PageInv
<1> QED
  BY <1>1, <1>3, <1>4, <1>5, <1>6

\* The look-ups: what is found stays there, and what is refused was not touched.
LEMMA CheckListedSerial ==
  ASSUME PageInv, SerialInv, pageScope.serial, NEW c \in PageCalls, CheckListed(c)
  PROVE  SerialInv'
<1>1. PICK pc, rows : pc = pageCall[c] /\ rows = links[pc.page]
  OBVIOUS
<1>2. /\ pc.at = "check" /\ pc.next <= Len(pc.list) /\ UNCHANGED links
      /\ pc.at # "idle" /\ pageCall[c] # NoPageCall
  BY <1>1, FreshFacts DEF CheckListed
<1>3. PICK at : at = IF pc.list[pc.next] \in Linked(pc.page) THEN "check" ELSE "rejected"
  OBVIOUS
<1>4. pageCall' = [pageCall EXCEPT ![c] = [pc EXCEPT !.at = at, !.next = pc.next + 1]]
  BY <1>1, <1>3 DEF CheckListed
<1>5. pc \in PageCall /\ CallOK(pc) /\ SerialCall(pc, rows) /\ Alone(c)
  BY <1>1, <1>2, CallFacts, AloneFacts DEF PageInv, SerialInv
<1> DEFINE r == [pc EXCEPT !.at = at, !.next = pc.next + 1]
<1>6. /\ r.at = at /\ r.page = pc.page /\ r.next = pc.next + 1
      /\ r.list = pc.list /\ r.before = pc.before
  BY <1>5 DEF PageCall
<1>7. pageCall' = [pageCall EXCEPT ![c] = r] /\ links'[r.page] = rows
  BY <1>1, <1>2, <1>4, <1>6
<1> HIDE DEF r
<1>8. pc.next \in Nat
  BY <1>5 DEF PageCall
<1>9. SerialCall(r, rows)
  <2>1. CASE at = "check"
    <3>1. pc.list[pc.next] \in MonitorsOf(rows)
      BY <1>1, <1>3, <2>1, RowsOfPage
    <3>2. \A i \in 1..pc.next : i = pc.next \/ i \in 1..pc.next - 1
      BY <1>8
    <3>3. \A i \in 1..pc.next : pc.list[i] \in MonitorsOf(rows)
      BY <1>2, <1>5, <3>1, <3>2 DEF SerialCall
    <3>4. r.next - 1 = pc.next
      BY <1>6, <1>8
    <3> QED
      BY <1>2, <1>5, <1>6, <2>1, <3>3, <3>4 DEF SerialCall
  <2>2. CASE at = "rejected"
    BY <1>2, <1>5, <1>6, <2>2 DEF SerialCall
  <2> QED
    BY <1>3, <2>1, <2>2
<1> QED
  BY <1>5, <1>7, <1>9, SerialMoves DEF PageInv

LEMMA ChecksPassSerial ==
  ASSUME PageInv, SerialInv, pageScope.serial, NEW c \in PageCalls, ChecksPass(c)
  PROVE  SerialInv'
<1>1. PICK pc, rows : pc = pageCall[c] /\ rows = links[pc.page]
  OBVIOUS
<1> DEFINE r == [pc EXCEPT !.at = "write", !.next = 1]
<1>2. /\ pc.at = "check" /\ pc.next > Len(pc.list) /\ UNCHANGED links
      /\ pageCall[c] # NoPageCall /\ pageCall' = [pageCall EXCEPT ![c] = r]
  BY <1>1, FreshFacts DEF ChecksPass
<1>3. pc \in PageCall /\ CallOK(pc) /\ SerialCall(pc, rows) /\ Alone(c)
  BY <1>1, <1>2, CallFacts, AloneFacts DEF PageInv, SerialInv
<1>4. r.at = "write" /\ r.page = pc.page /\ r.next = 1 /\ r.list = pc.list /\ r.before = pc.before
  BY <1>3 DEF PageCall
<1> HIDE DEF r
<1>5. DOMAIN pc.list = 1..Len(pc.list) /\ Len(pc.list) \in Nat /\ pc.next \in Nat
  BY <1>3 DEF PageCall
<1>6. \A i \in DOMAIN pc.list : pc.list[i] \in MonitorsOf(rows)
  BY <1>2, <1>3, <1>5 DEF SerialCall
<1>7. SerialCall(r, rows)
  BY <1>2, <1>3, <1>4, <1>6 DEF SerialCall, Placed
<1> QED
  BY <1>1, <1>2, <1>3, <1>4, <1>7, SerialMoves DEF PageInv

LEMMA ReadListedSerial ==
  ASSUME PageInv, SerialInv, pageScope.serial, NEW c \in PageCalls, ReadListed(c)
  PROVE  SerialInv'
<1>1. PICK pc, rows : pc = pageCall[c] /\ rows = links[pc.page]
  OBVIOUS
<1>2. PICK copy : copy = links[pc.page][LinkOf(pc.page, pc.list[pc.next])]
  OBVIOUS
<1> DEFINE r == [pc EXCEPT !.copy = copy]
<1>3. /\ pc.at = "write" /\ UNCHANGED links /\ pageCall[c] # NoPageCall
      /\ pageCall' = [pageCall EXCEPT ![c] = r]
  BY <1>1, <1>2, FreshFacts DEF ReadListed
<1>4. pc \in PageCall /\ SerialCall(pc, rows) /\ Alone(c)
  BY <1>1, <1>3, CallFacts, AloneFacts DEF PageInv, SerialInv
<1>5. /\ r.at = "write" /\ r.page = pc.page /\ r.next = pc.next
      /\ r.list = pc.list /\ r.before = pc.before
  BY <1>3, <1>4 DEF PageCall
<1> HIDE DEF r
<1>6. SerialCall(r, rows)
  BY <1>3, <1>4, <1>5 DEF SerialCall
<1> QED
  BY <1>1, <1>3, <1>4, <1>5, <1>6, SerialMoves DEF PageInv

\* The write puts one row at its new place and leaves those written before.
LEMMA WriteListedSerial ==
  ASSUME PageInv, SerialInv, pageScope.serial, NEW c \in PageCalls, WriteListed(c)
  PROVE  SerialInv'
<1>1. PICK pc, rows, link : /\ pc = pageCall[c] /\ rows = links[pc.page]
                            /\ link = [pc.copy EXCEPT !.order = NewPlace(pc.next)]
  OBVIOUS
<1> DEFINE r == [pc EXCEPT !.copy = Nothing, !.next = pc.next + 1]
           new == [rows EXCEPT ![RowOf(rows, link.monitor)] = link]
<1>2. pc.at = "write" /\ pageCall[c] # NoPageCall /\ pageCall' = [pageCall EXCEPT ![c] = r]
  BY <1>1, FreshFacts DEF WriteListed
<1>3. pc \in PageCall /\ SerialCall(pc, rows) /\ Alone(c)
  BY <1>1, <1>2, CallFacts, AloneFacts DEF PageInv, SerialInv
<1>4. /\ pc.page \in Pages /\ pc.next \in 1..Len(pc.list)
      /\ link \in Link /\ link.order = NewPlace(pc.next)
      /\ link.monitor = pc.list[pc.next] /\ link.monitor \in MonitorsOf(rows)
      /\ links' = [links EXCEPT ![pc.page] = new]
  BY <1>1, WriteListedType
<1>5. rows \in Seq(Link) /\ Unique(rows)
  BY <1>1, <1>4 DEF PageInv, TablesOK
<1>6. /\ Len(new) = Len(rows) /\ MonitorsOf(new) = MonitorsOf(rows)
      /\ \A m \in MonitorsOf(rows) : RowOf(new, m) = RowOf(rows, m)
      /\ new[RowOf(rows, link.monitor)] = link
      /\ \A m \in MonitorsOf(rows) \ {link.monitor} :
           new[RowOf(rows, m)] = rows[RowOf(rows, m)]
  BY <1>4, <1>5, ReplaceRow
<1>7. links'[pc.page] = new
  BY <1>4 DEF PageInv, TablesOK
<1>8. /\ r.at = "write" /\ r.page = pc.page /\ r.next = pc.next + 1
      /\ r.list = pc.list /\ r.before = pc.before
  BY <1>2, <1>3 DEF PageCall
<1>9. DOMAIN pc.list = 1..Len(pc.list) /\ Len(pc.list) \in Nat /\ pc.next \in Nat
  BY <1>3 DEF PageCall
<1> HIDE DEF r, new
<1>10. \A i \in DOMAIN pc.list : pc.list[i] \in MonitorsOf(rows)
  BY <1>2, <1>3 DEF SerialCall
<1>11. Placed(new, pc.list, pc.next)
  <2> SUFFICES ASSUME Distinct(pc.list), NEW i \in 1..pc.next
               PROVE  new[RowOf(new, pc.list[i])].order = NewPlace(i)
    BY DEF Placed
  <2>1. i \in DOMAIN pc.list /\ pc.next \in DOMAIN pc.list
    BY <1>4, <1>9
  <2>2. RowOf(new, pc.list[i]) = RowOf(rows, pc.list[i])
    BY <1>6, <1>10, <2>1
  <2>3. CASE i = pc.next
    BY <1>4, <1>6, <2>2, <2>3
  <2>4. CASE i # pc.next
    <3>1. pc.list[i] # link.monitor
      BY <1>4, <2>1, <2>4 DEF Distinct
    <3>2. new[RowOf(rows, pc.list[i])] = rows[RowOf(rows, pc.list[i])]
      BY <1>6, <1>10, <2>1, <3>1
    <3>3. i \in 1..pc.next - 1
      BY <1>9, <2>4
    <3>4. rows[RowOf(rows, pc.list[i])].order = NewPlace(i)
      BY <1>2, <1>3, <3>3 DEF SerialCall, Placed
    <3> QED
      BY <2>2, <3>2, <3>4
  <2> QED
    BY <2>3, <2>4
<1>12. r.next - 1 = pc.next
  BY <1>8, <1>9
<1>13. SerialCall(r, new)
  BY <1>2, <1>3, <1>6, <1>8, <1>10, <1>11, <1>12 DEF SerialCall
<1> QED
  BY <1>2, <1>3, <1>7, <1>8, <1>13, SerialMoves DEF PageInv

LEMMA ReorderDoneSerial ==
  ASSUME PageInv, SerialInv, pageScope.serial, NEW c \in PageCalls, ReorderDone(c)
  PROVE  SerialInv'
<1>1. PICK pc, rows : pc = pageCall[c] /\ rows = links[pc.page]
  OBVIOUS
<1> DEFINE r == [pc EXCEPT !.at = "reordered"]
<1>2. /\ pc.at = "write" /\ pc.next > Len(pc.list) /\ UNCHANGED links
      /\ pageCall[c] # NoPageCall /\ pageCall' = [pageCall EXCEPT ![c] = r]
  BY <1>1, FreshFacts DEF ReorderDone
<1>3. pc \in PageCall /\ CallOK(pc) /\ SerialCall(pc, rows) /\ Alone(c)
  BY <1>1, <1>2, CallFacts, AloneFacts DEF PageInv, SerialInv
<1>4. /\ r.at = "reordered" /\ r.page = pc.page /\ r.next = pc.next
      /\ r.list = pc.list /\ r.before = pc.before
  BY <1>3 DEF PageCall
<1> HIDE DEF r
<1>5. Len(pc.list) \in Nat /\ pc.next \in 0..Len(pc.list) + 1
  BY <1>3 DEF PageCall, CallOK
<1>6. pc.next - 1 = Len(pc.list)
  BY <1>2, <1>5
<1>7. SerialCall(r, rows)
  BY <1>2, <1>3, <1>4, <1>6 DEF SerialCall
<1> QED
  BY <1>1, <1>2, <1>3, <1>4, <1>7, SerialMoves DEF PageInv

\* What was looked up is not gone.
LEMMA ListedIsThere ==
  ASSUME PageInv, SerialInv, pageScope.serial, NEW c \in PageCalls
  PROVE  ~ListedIsGone(c)
<1> SUFFICES ASSUME ListedIsGone(c)
             PROVE  FALSE
  OBVIOUS
<1>1. PICK pc, rows : pc = pageCall[c] /\ rows = links[pc.page]
  OBVIOUS
<1>2. /\ pc.at = "write" /\ pc.next <= Len(pc.list)
      /\ pc.list[pc.next] \notin MonitorsOf(rows)
  BY <1>1, RowsOfPage DEF ListedIsGone
<1>3. pc \in PageCall /\ CallOK(pc) /\ SerialCall(pc, rows)
  BY <1>1, <1>2, CallFacts DEF PageInv, SerialInv
<1>4. DOMAIN pc.list = 1..Len(pc.list) /\ Len(pc.list) \in Nat /\ pc.next \in Nat \ {0}
  BY <1>2, <1>3 DEF PageCall, CallOK
<1> QED
  BY <1>2, <1>3, <1>4 DEF SerialCall

LEMMA CallStepSerial ==
  ASSUME PageInv, SerialInv, NEW c \in PageCalls, CallStep(c)
  PROVE  SerialInv'
<1>1. UNCHANGED pageScope
  BY DEF CallStep, UpdateStatusPage, AttachMonitor, UpdateAttachedMonitor, CheckListed,
         ChecksPass, ReadListed, ListedIsGone, WriteListed, ReorderDone, PageCallEnds
<1> SUFFICES ASSUME pageScope.serial
             PROVE  SerialInv'
  BY <1>1 DEF SerialInv
<1>2. CASE UpdateStatusPage(c)
  BY <1>2, FreshFacts, AloneFacts, SerialEnds DEF UpdateStatusPage, PageInv
<1>3. CASE AttachMonitor(c)
  BY <1>3, FreshFacts, AloneFacts, SerialEnds DEF AttachMonitor, PageInv
<1>4. CASE UpdateAttachedMonitor(c)
  BY <1>4, FreshFacts, AloneFacts, SerialEnds DEF UpdateAttachedMonitor, PageInv
<1>5. CASE PageCallEnds(c)
  BY <1>5, AloneFacts, SerialEnds DEF PageCallEnds, PageInv
<1> QED
  BY <1>2, <1>3, <1>4, <1>5, CheckListedSerial, ChecksPassSerial, ReadListedSerial,
     ListedIsThere, WriteListedSerial, ReorderDoneSerial DEF CallStep

LEMMA SerialInvInit ==
  ASSUME StatusPagesInit
  PROVE  SerialInv
BY FreshFacts DEF StatusPagesInit, SerialInv

LEMMA SerialInvStep ==
  ASSUME PageInv, SerialInv, [StatusPagesNext]_pageVars
  PROVE  SerialInv'
<1>1. ASSUME NEW c \in PageCalls, PageStep(c) \/ LinkStep(c) \/ CallStep(c)
      PROVE  SerialInv'
  BY <1>1, PageStepSerial, LinkStepSerial, CallStepSerial
<1>2. ASSUME NEW m \in Monitors, NEW s \in Statuses, MonitorChanges(m, s)
      PROVE  SerialInv'
  BY <1>2, SerialKept DEF MonitorChanges
<1>3. ASSUME NEW m \in Monitors, MonitorDeleted(m)
      PROVE  SerialInv'
  BY <1>3, SerialIdle DEF MonitorDeleted
<1>4. ASSUME NEW v \in Views, ViewStep(v)
      PROVE  SerialInv'
  BY <1>4, SerialKept DEF ViewStep, ViewPage, ViewLinks, ViewMonitor, ViewAnswers, ViewEnds
<1>5. CASE UNCHANGED pageVars
  BY <1>5, SerialKept DEF pageVars
<1> QED
  BY <1>1, <1>2, <1>3, <1>4, <1>5 DEF StatusPagesNext

-----------------------------------------------------------------------------
(* Where monitors are put.                                                 *)

LEMMA ReorderFollows ==
  ASSUME PageInv, SerialInv
  PROVE  ReorderIsWhole
<1> SUFFICES ASSUME pageScope.serial, NEW c \in PageCalls,
                    pageCall[c].at \in {"rejected", "reordered"}
             PROVE  LET pc == pageCall[c]
                        p == pc.page
                    IN  /\ pc.at = "rejected" => links[p] = pc.before
                        /\ pc.at = "reordered" /\ Distinct(pc.list)
                             /\ 10 * Len(pc.list) <= MaxOrder =>
                             /\ Len(links[p]) = Len(pc.before)
                             /\ \A i \in DOMAIN pc.list :
                                  links[p][LinkOf(p, pc.list[i])].order = 10 * i
  BY DEF ReorderIsWhole
<1>1. PICK pc, rows : pc = pageCall[c] /\ rows = links[pc.page]
  OBVIOUS
<1>2. pc \in PageCall /\ SerialCall(pc, rows)
  BY <1>1, CallFacts DEF PageInv, SerialInv
<1>3. DOMAIN pc.list = 1..Len(pc.list) /\ Len(pc.list) \in Nat
  BY <1>2 DEF PageCall
<1>4. ASSUME 10 * Len(pc.list) <= MaxOrder, NEW i \in DOMAIN pc.list
      PROVE  NewPlace(i) = 10 * i
  <2>1. 10 * i \in Orders
    BY <1>3, <1>4, StatusPagesAssumption DEF Orders
  <2> QED
    BY <2>1, WrapFits DEF NewPlace
<1>5. ASSUME pc.at = "reordered", Distinct(pc.list), 10 * Len(pc.list) <= MaxOrder
      PROVE  /\ Len(rows) = Len(pc.before)
             /\ \A i \in DOMAIN pc.list : rows[RowOf(rows, pc.list[i])].order = 10 * i
  BY <1>2, <1>3, <1>4, <1>5 DEF SerialCall, Placed
<1>6. pc.at = "rejected" => rows = pc.before
  BY <1>2 DEF SerialCall
<1>7. \A m : LinkOf(pc.page, m) = RowOf(rows, m)
  BY <1>1, RowsOfPage
<1> QED
  BY <1>1, <1>5, <1>6, <1>7

\* While c is about to insert, only that insertion changes the links.
LEMMA AttachIsTheStep ==
  ASSUME PageInv, SerialInv, pageScope.serial, StatusPagesNext, NEW c \in PageCalls,
         pageCall[c].at = "attach", links' # links
  PROVE  AttachMonitor(c)
<1>1. pageCall[c] # NoPageCall /\ Alone(c)
  BY FreshFacts, AloneFacts
<1>2. \A d \in PageCalls : ~Begins(d)
  BY <1>1 DEF Begins
<1>3. ASSUME NEW d \in PageCalls, PageStep(d) \/ LinkStep(d)
      PROVE  FALSE
  BY <1>2, <1>3 DEF PageStep, LinkStep, CreateStatusPage, UpdateReads, DeleteStatusPage,
                    AttachReads, EditReads, RemoveMonitor, StartReorder
<1>4. ASSUME NEW d \in PageCalls, CallStep(d)
      PROVE  AttachMonitor(c)
  <2>1. d # c => pageCall[d] = NoPageCall /\ pageCall[d].at = "idle"
    BY <1>1, FreshFacts DEF Alone
  <2>2. d = c
    BY <1>4, <2>1 DEF CallStep, UpdateStatusPage, AttachMonitor, UpdateAttachedMonitor,
         CheckListed, ChecksPass, ReadListed, ListedIsGone, WriteListed, ReorderDone, PageCallEnds
  <2> QED
    BY <1>4, <2>2 DEF CallStep, UpdateStatusPage, UpdateAttachedMonitor,
         CheckListed, ChecksPass, ReadListed, ListedIsGone, WriteListed, ReorderDone, PageCallEnds
<1>5. ASSUME NEW m \in Monitors, NEW s \in Statuses, MonitorChanges(m, s)
      PROVE  FALSE
  BY <1>5 DEF MonitorChanges
<1>6. ASSUME NEW m \in Monitors, MonitorDeleted(m)
      PROVE  FALSE
  BY <1>1, <1>6 DEF MonitorDeleted
<1>7. ASSUME NEW v \in Views, ViewStep(v)
      PROVE  FALSE
  BY <1>7 DEF ViewStep, ViewPage, ViewLinks, ViewMonitor, ViewAnswers, ViewEnds
<1> QED
  BY <1>3, <1>4, <1>5, <1>6, <1>7 DEF StatusPagesNext

LEMMA AttachedLast ==
  ASSUME PageInv, SerialInv, pageScope.serial, StatusPagesNext,
         NEW c \in PageCalls, NEW p \in Pages,
         pageCall[c].at = "attach", pageCall[c].page = p, links' # links,
         pageCall[c].body.order = {}, MaxStatusPageMonitorOrder(p) + 10 <= MaxOrder
  PROVE  ListStatusPageMonitors(p)' = Append(ListStatusPageMonitors(p), pageCall[c].monitor)
<1>1. PICK rows, link, max : /\ rows = links[p] /\ link = pageCall[c].copy
                             /\ max = MaxStatusPageMonitorOrder(p)
  OBVIOUS
<1>2. /\ link \in Link /\ links' = [links EXCEPT ![p] = Append(rows, link)]
      /\ rows \in Seq(Link)
  BY <1>1, AttachIsTheStep, AttachMonitorType DEF PageInv, TablesOK
<1>3. link.order = Wrap(max + 10) /\ link.monitor = pageCall[c].monitor
  <2>1. SerialCall(pageCall[c], links[p]) /\ CallOK(pageCall[c])
    BY CallFacts DEF SerialInv, PageInv
  <2> QED
    BY <1>1, <2>1, MaxOfPage DEF SerialCall, CallOK
<1>4. max \in Orders /\ \A i \in DOMAIN rows : rows[i].order <= max
  BY <1>1, MaxFact DEF PageInv
<1>5. max \in Int /\ max + 10 \in Orders
  BY <1>1, <1>4, StatusPagesAssumption DEF Orders
<1>6. link.order = max + 10
  BY <1>3, <1>5, WrapFits
<1>7. \A i \in DOMAIN rows : rows[i].order < link.order
  BY <1>2, <1>4, <1>5, <1>6, RowFacts
<1>8. MonitorsInOrder(Append(rows, link)) = Append(MonitorsInOrder(rows), link.monitor)
  BY <1>2, <1>7, AppendedIsLast
<1>9. links'[p] = Append(rows, link)
  BY <1>2 DEF PageInv, TablesOK
<1>10. ListStatusPageMonitors(p)' = MonitorsInOrder(links'[p])
  BY DEF ListStatusPageMonitors, MonitorsInOrder, RowAt
<1>11. ListStatusPageMonitors(p) = MonitorsInOrder(rows)
  BY <1>1, RowsOfPage
<1> QED
  BY <1>3, <1>8, <1>9, <1>10, <1>11

\* Where requests do not overlap, a refused reordering has changed nothing, and
\* a finished one has put the monitors at 10, 20, 30, as long as these fit.
THEOREM ReorderWhole == StatusPagesSpec => []ReorderIsWhole
<1>1. StatusPagesInit => PageInv /\ SerialInv
  BY PageInvInit, SerialInvInit
<1>2. PageInv /\ SerialInv /\ [StatusPagesNext]_pageVars => PageInv' /\ SerialInv'
  BY PageInvStep, SerialInvStep
<1>3. PageInv /\ SerialInv => ReorderIsWhole
  BY ReorderFollows
<1> QED
  BY <1>1, <1>2, <1>3, PTL DEF StatusPagesSpec

\* Where requests do not overlap, a monitor attached without an order is shown
\* last, unless max + 10 does not fit.
THEOREM AttachedGoesLast == StatusPagesSpec => AttachGoesLast
<1> DEFINE GoesLast ==
      pageScope.serial =>
        \A c \in PageCalls, p \in Pages :
          LET pc == pageCall[c] IN
          pc.at = "attach" /\ pc.page = p /\ links' # links /\ pc.body.order = {}
            /\ MaxStatusPageMonitorOrder(p) + 10 <= MaxOrder =>
          ListStatusPageMonitors(p)' = Append(ListStatusPageMonitors(p), pc.monitor)
<1>1. StatusPagesInit => PageInv /\ SerialInv
  BY PageInvInit, SerialInvInit
<1>2. PageInv /\ SerialInv /\ [StatusPagesNext]_pageVars => PageInv' /\ SerialInv'
  BY PageInvStep, SerialInvStep
<1>3. PageInv /\ SerialInv /\ StatusPagesNext => GoesLast
  BY AttachedLast
<1>4. UNCHANGED pageVars => UNCHANGED links
  BY DEF pageVars
<1>5. PageInv /\ SerialInv /\ [StatusPagesNext]_pageVars => [GoesLast]_pageVars
  BY <1>3
<1>6. AttachGoesLast <=> [][GoesLast]_pageVars
  BY DEF AttachGoesLast
<1> HIDE DEF GoesLast
<1> QED
  BY <1>1, <1>2, <1>5, <1>6, PTL DEF StatusPagesSpec

=============================================================================
