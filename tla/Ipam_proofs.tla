---------------------------- MODULE Ipam_proofs ----------------------------
(***************************************************************************)
(* Theorems of Ipam, for any widths of addresses and of int, any prefixes  *)
(* and any rows: the search for a free address, the utilization and the    *)
(* list of a scan go by the same hosts.                                    *)
(***************************************************************************)
EXTENDS Ipam, FiniteSetTheorems, SequenceTheorems, WellFoundedInduction, TLAPS

-----------------------------------------------------------------------------
(* Arithmetic.                                                             *)

\* A set of naturals has a least member.
LEMMA LeastMember ==
  ASSUME NEW T \in SUBSET Nat, T # {}
  PROVE  \E n \in T : \A k \in T : n <= k
<1> DEFINE R == OpToRel(<, Nat)
<1>1. IsWellFoundedOn(R, Nat)
  BY NatLessThanWellFounded
<1>2. PICK n \in T : \A k \in T : ~(<<k, n>> \in R)
  <2> HIDE DEF R
  <2> QED
    BY <1>1, WFMin
<1>3. \A k \in T : ~(k < n)
  BY <1>2 DEF OpToRel
<1> QED
  BY <1>3

LEMMA Division ==
  ASSUME NEW a \in Int, NEW d \in Nat \ {0}
  PROVE  /\ a \div d \in Int /\ a % d \in 0..(d - 1)
         /\ a = d * (a \div d) + (a % d)
OBVIOUS

LEMMA NextMultiple ==
  ASSUME NEW d \in Nat \ {0}, NEW x \in Int, NEW y \in Int, x < y
  PROVE  d * x + d <= d * y
OBVIOUS

\* The numbers with one quotient are the d numbers from its multiple on.
LEMMA QuotientIs ==
  ASSUME NEW d \in Nat \ {0}, NEW x \in Int, NEW a \in Int
  PROVE  a \div d = x <=> a \in (d * x)..(d * x + d - 1)
<1>1. /\ a \div d \in Int /\ a % d \in 0..(d - 1)
      /\ a = d * (a \div d) + (a % d)
  BY Division
<1>2. a \div d < x => d * (a \div d) + d <= d * x
  BY <1>1, NextMultiple
<1>3. x < a \div d => d * x + d <= d * (a \div d)
  BY <1>1, NextMultiple
<1> QED
  BY <1>1, <1>2, <1>3

\* A set with one member more has twice as many subsets.
LEMMA SubsetsDouble ==
  ASSUME NEW S, NEW x, IsFiniteSet(S), x \notin S
  PROVE  Cardinality(SUBSET (S \cup {x})) = 2 * Cardinality(SUBSET S)
<1> DEFINE T == {B \cup {x} : B \in SUBSET S}
           with == [B \in SUBSET S |-> B \cup {x}]
<1>1. SUBSET (S \cup {x}) = (SUBSET S) \cup T
  <2>1. ASSUME NEW B \in SUBSET (S \cup {x}), x \in B
        PROVE  B \in T
    <3>1. B \ {x} \in SUBSET S /\ B = (B \ {x}) \cup {x}
      BY <2>1
    <3> QED
      BY <3>1
  <2>2. T \subseteq SUBSET (S \cup {x})
    OBVIOUS
  <2>3. ASSUME NEW B \in SUBSET (S \cup {x}), x \notin B
        PROVE  B \in SUBSET S
    BY <2>3
  <2> HIDE DEF T
  <2> QED
    BY <2>1, <2>2, <2>3
<1>2. (SUBSET S) \cap T = {}
  OBVIOUS
<1>3. with \in Bijection(SUBSET S, T)
  <2>1. \A B, C \in SUBSET S : B \cup {x} = C \cup {x} => B = C
    OBVIOUS
  <2>2. with \in [SUBSET S -> T]
    OBVIOUS
  <2>3. \A B, C \in SUBSET S : with[B] = with[C] => B = C
    BY <2>1
  <2>4. \A C \in T : \E B \in SUBSET S : with[B] = C
    OBVIOUS
  <2> HIDE DEF T, with
  <2> QED
    BY <2>2, <2>3, <2>4 DEF Bijection, Injection, Surjection, IsInjective
<1>4. IsFiniteSet(SUBSET S)
  BY FS_SUBSET
<1>5. IsFiniteSet(T) /\ Cardinality(T) = Cardinality(SUBSET S)
  <2>1. ExistsBijection(SUBSET S, T)
    BY <1>3 DEF ExistsBijection
  <2> HIDE DEF T
  <2> QED
    BY <2>1, <1>4, FS_Bijection
<1> HIDE DEF T
<1>6. Cardinality((SUBSET S) \cup T)
        = Cardinality(SUBSET S) + Cardinality(T) - Cardinality((SUBSET S) \cap T)
  BY <1>4, <1>5, FS_Union
<1>7. Cardinality((SUBSET S) \cap T) = 0
  BY <1>2, FS_EmptySet
<1>8. Cardinality(SUBSET S) \in Nat
  BY <1>4, FS_CardinalityType
<1>9. PICK c \in Nat : c = Cardinality(SUBSET S)
  BY <1>8
<1>10. Cardinality((SUBSET S) \cup T) = c + c - 0
  BY <1>5, <1>6, <1>7, <1>9
<1>11. c + c - 0 = 2 * c
  OBVIOUS
<1> QED
  BY <1>1, <1>9, <1>10, <1>11

\* The recursion of Pow2, which the numbers of subsets follow.
Doubles(f) == f = [n \in Nat |-> IF n = 0 THEN 1 ELSE 2 * f[n - 1]]

LEMMA DoublesExists == \E f : Doubles(f)
<1> DEFINE F(n) == Cardinality(SUBSET (1..n))
           f == [n \in Nat |-> F(n)]
<1>1. F(0) = 1
  <2>1. SUBSET (1..0) = {{}}
    OBVIOUS
  <2> QED
    BY <2>1, FS_Singleton
<1>2. \A n \in Nat \ {0} : F(n) = 2 * F(n - 1)
  <2> TAKE n \in Nat \ {0}
  <2>1. PICK m \in Nat : m = n - 1
    OBVIOUS
  <2>2. 1..n = (1..m) \cup {n} /\ n \notin 1..m
    BY <2>1
  <2>3. IsFiniteSet(1..m)
    BY FS_Interval
  <2>4. Cardinality(SUBSET ((1..m) \cup {n})) = 2 * Cardinality(SUBSET (1..m))
    BY <2>2, <2>3, SubsetsDouble
  <2> QED
    BY <2>1, <2>2, <2>4
<1> HIDE DEF F
<1>3. Doubles(f)
  BY <1>1, <1>2 DEF Doubles
<1> QED
  BY <1>3

LEMMA PowerDoubles == Doubles(Pow2)
<1>1. Pow2 = CHOOSE f : Doubles(f)
  BY DEF Pow2, Doubles
<1> QED
  BY <1>1, DoublesExists

LEMMA PowerOfZero == Pow2[0] = 1
BY PowerDoubles DEF Doubles

LEMMA PowerOfNext ==
  ASSUME NEW n \in Nat
  PROVE  Pow2[n + 1] = 2 * Pow2[n]
<1>1. PICK m \in Nat : m = n + 1
  OBVIOUS
<1>2. Pow2[m] = IF m = 0 THEN 1 ELSE 2 * Pow2[m - 1]
  BY PowerDoubles DEF Doubles
<1> QED
  BY <1>1, <1>2

LEMMA PowerPositive ==
  \A n \in Nat : Pow2[n] \in Nat \ {0}
<1> DEFINE T == {n \in Nat : Pow2[n] \notin Nat \ {0}}
<1> SUFFICES ASSUME T # {} PROVE FALSE
  OBVIOUS
<1>1. PICK n \in T : \A k \in T : n <= k
  <2>1. T \subseteq Nat
    OBVIOUS
  <2> HIDE DEF T
  <2> QED
    BY <2>1, LeastMember
<1>2. n \in Nat /\ Pow2[n] \notin Nat \ {0}
  OBVIOUS
<1>3. n # 0
  BY <1>2, PowerOfZero
<1>4. PICK m \in Nat : m + 1 = n
  <2>1. n - 1 \in Nat /\ (n - 1) + 1 = n
    BY <1>2, <1>3
  <2> QED
    BY <2>1
<1>5. Pow2[m] \in Nat \ {0}
  BY <1>1, <1>4
<1> QED
  BY <1>2, <1>4, <1>5, PowerOfNext

LEMMA SmallPowers == Pow2[0] = 1 /\ Pow2[1] = 2 /\ Pow2[2] = 4
<1>1. Pow2[0 + 1] = 2 * Pow2[0] /\ Pow2[1 + 1] = 2 * Pow2[1]
  BY PowerOfNext
<1>2. 0 + 1 = 1 /\ 1 + 1 = 2
  OBVIOUS
<1> QED
  BY <1>1, <1>2, PowerOfZero

\* Powers divide the ones above them, and grow.
LEMMA PowerOfSum ==
  ASSUME NEW n \in Nat
  PROVE  \A k \in Nat : Pow2[n + k] = Pow2[n] * Pow2[k]
<1> DEFINE T == {k \in Nat : Pow2[n + k] # Pow2[n] * Pow2[k]}
<1> SUFFICES ASSUME T # {} PROVE FALSE
  OBVIOUS
<1>1. PICK k \in T : \A j \in T : k <= j
  <2>1. T \subseteq Nat
    OBVIOUS
  <2> HIDE DEF T
  <2> QED
    BY <2>1, LeastMember
<1>2. k # 0
  <2>1. n + 0 = n /\ Pow2[n] * 1 = Pow2[n]
    BY PowerPositive
  <2> QED
    BY <2>1, SmallPowers
<1>3. k - 1 \in Nat /\ Pow2[n + (k - 1)] = Pow2[n] * Pow2[k - 1]
  BY <1>1, <1>2
<1>4. Pow2[k] = 2 * Pow2[k - 1]
  <2>1. PICK j \in Nat : j = k - 1
    BY <1>3
  <2> QED
    BY <2>1, PowerOfNext
<1>5. Pow2[n + k] = 2 * Pow2[n + (k - 1)]
  <2>1. PICK j \in Nat : j = n + (k - 1)
    BY <1>3
  <2>2. j + 1 = n + k
    BY <2>1
  <2> QED
    BY <2>1, <2>2, PowerOfNext
<1>6. PICK a \in Int, b \in Int : a = Pow2[n] /\ b = Pow2[k - 1]
  BY <1>3, PowerPositive
<1>7. 2 * (a * b) = a * (2 * b)
  OBVIOUS
<1> QED
  BY <1>3, <1>4, <1>5, <1>6, <1>7

LEMMA PowerGrows ==
  ASSUME NEW m \in Nat, NEW n \in Nat, m < n
  PROVE  2 * Pow2[m] <= Pow2[n]
<1>1. PICK k \in Nat : n = (m + 1) + k
  <2>1. n - (m + 1) \in Nat /\ n = (m + 1) + (n - (m + 1))
    OBVIOUS
  <2> QED
    BY <2>1
<1>2. Pow2[n] = Pow2[m + 1] * Pow2[k]
  BY <1>1, PowerOfSum
<1>3. PICK a \in Nat, b \in Nat : a = Pow2[m + 1] /\ b = Pow2[k] /\ b >= 1
  BY PowerPositive
<1>4. a <= a * b
  BY <1>3
<1> QED
  BY <1>2, <1>3, <1>4, PowerOfNext
-----------------------------------------------------------------------------
(* The block of a prefix.                                                  *)

\* The first and the last address of a block, and of its hosts.
Base(p) == p.addr - (p.addr % Pow2[HostBits(p)])
Top(p) == Base(p) + Pow2[HostBits(p)] - 1
Lo(p) == IF LeavesEnds(p) THEN Base(p) + 1 ELSE Base(p)
Hi(p) == IF LeavesEnds(p) THEN Top(p) - 1 ELSE Top(p)

LEMMA CIDRFields ==
  ASSUME NEW p \in CIDR
  PROVE  /\ p.family \in Families
         /\ p = [family |-> p.family, addr |-> p.addr, bits |-> p.bits]
         /\ AddressBits[p.family] \in Nat /\ p.bits \in 0..AddressBits[p.family]
         /\ HostBits(p) \in 0..AddressBits[p.family]
         /\ p.addr \in Nat /\ p.addr < Pow2[AddressBits[p.family]]
<1>1. PICK f \in Families :
        p \in [family : {f}, addr : 0..(Pow2[AddressBits[f]] - 1), bits : 0..AddressBits[f]]
  BY DEF CIDR
<1>2. p.family = f /\ p.addr \in 0..(Pow2[AddressBits[f]] - 1) /\ p.bits \in 0..AddressBits[f]
  BY <1>1
<1>3. AddressBits[f] \in Nat
  BY IpamAssumption
<1>4. Pow2[AddressBits[f]] \in Int
  BY <1>3, PowerPositive
<1>5. p = [family |-> p.family, addr |-> p.addr, bits |-> p.bits]
  BY <1>1
<1> QED
  BY <1>2, <1>3, <1>4, <1>5 DEF HostBits

\* A block is an interval of 2^HostBits addresses within the family.
LEMMA BlockFacts ==
  ASSUME NEW p \in CIDR
  PROVE  /\ Pow2[HostBits(p)] \in Nat \ {0}
         /\ Pow2[AddressBits[p.family]] \in Nat \ {0}
         /\ Base(p) \in Nat /\ Top(p) \in Nat
         /\ Base(p) <= p.addr /\ p.addr <= Top(p)
         /\ Top(p) < Pow2[AddressBits[p.family]]
         /\ Base(p) % Pow2[HostBits(p)] = 0
         /\ Top(p) = Base(p) + Pow2[HostBits(p)] - 1
         /\ \A a \in Int : a # NoAddr => (ContainsAddr(p, a) <=> a \in Base(p)..Top(p))
<1> DEFINE size == Pow2[HostBits(p)]
           all == Pow2[AddressBits[p.family]]
           blocks == Pow2[p.bits]
           x == p.addr \div size
<1>1. /\ HostBits(p) \in Nat /\ p.bits \in Nat /\ AddressBits[p.family] \in Nat
      /\ p.addr \in Nat /\ p.addr < all
      /\ HostBits(p) + p.bits = AddressBits[p.family]
  BY CIDRFields DEF HostBits
<1>2. size \in Nat \ {0} /\ all \in Nat \ {0} /\ blocks \in Nat \ {0}
  BY <1>1, PowerPositive
<1>3. all = size * blocks
  BY <1>1, PowerOfSum
<1>4. Base(p) = p.addr - (p.addr % size) /\ Top(p) = Base(p) + size - 1
  BY DEF Base, Top
<1>5. \A a : ContainsAddr(p, a) <=> a # NoAddr /\ a \div size = x
  BY DEF ContainsAddr
<1> HIDE DEF size, all, blocks, x
<1>6. /\ x \in Int /\ p.addr % size \in 0..(size - 1)
      /\ p.addr = size * x + (p.addr % size)
  <2>1. PICK a \in Nat : a = p.addr
    BY <1>1
  <2>2. /\ a \div size \in Int /\ a % size \in 0..(size - 1)
        /\ a = size * (a \div size) + (a % size)
    BY <1>2, Division
  <2> QED
    BY <2>1, <2>2 DEF x
<1>7. Base(p) = size * x
  BY <1>1, <1>2, <1>4, <1>6
<1>8. x >= 0
  <2>1. x < 0 => size * x + size <= size * 0
    BY <1>2, <1>6, NextMultiple
  <2> QED
    BY <2>1, <1>1, <1>2, <1>6
<1>9. x < blocks
  <2>1. blocks < x => size * blocks + size <= size * x
    BY <1>2, <1>6, NextMultiple
  <2> QED
    BY <2>1, <1>1, <1>2, <1>3, <1>6
<1>10. size * x + size <= all
  BY <1>2, <1>3, <1>6, <1>9, NextMultiple
<1>11. size * x \in Nat
  BY <1>2, <1>6, <1>8
<1>12. \A a \in Int : a \div size = x <=> a \in (size * x)..(size * x + size - 1)
  BY <1>2, <1>6, QuotientIs
<1>13. PICK base \in Nat : base = size * x
  BY <1>11
<1>14. base % size = 0
  <2>1. /\ base \div size \in Int /\ base % size \in 0..(size - 1)
        /\ base = size * (base \div size) + (base % size)
    BY <1>2, Division
  <2>2. base \div size = x
    BY <1>2, <1>12, <1>13
  <2> QED
    BY <2>1, <2>2, <1>13
<1>15. Base(p) = base /\ Top(p) = base + size - 1
  BY <1>4, <1>7, <1>13
<1>16. \A a \in Int : a # NoAddr => (ContainsAddr(p, a) <=> a \in Base(p)..Top(p))
  BY <1>5, <1>12, <1>13, <1>15
<1> QED
  BY <1>1, <1>2, <1>6, <1>10, <1>13, <1>14, <1>15, <1>16 DEF size, all

\* More than two addresses, and so two that are no hosts, from two host bits on.
LEMMA HostFacts ==
  ASSUME NEW p \in CIDR
  PROVE  /\ HostBits(p) > 1 <=> Pow2[HostBits(p)] > 2
         /\ Lo(p) \in Nat /\ Hi(p) \in Nat /\ Lo(p) <= Hi(p)
         /\ Base(p) <= Lo(p) /\ Hi(p) <= Top(p)
<1>1. HostBits(p) \in Nat
  BY CIDRFields
<1>2. HostBits(p) > 1 => 4 <= Pow2[HostBits(p)]
  <2>1. HostBits(p) > 1 => 2 * Pow2[1] <= Pow2[HostBits(p)]
    BY <1>1, PowerGrows
  <2> QED
    BY <2>1, SmallPowers
<1>3. ~(HostBits(p) > 1) => Pow2[HostBits(p)] \in {1, 2}
  <2>1. ~(HostBits(p) > 1) => HostBits(p) = 0 \/ HostBits(p) = 1
    BY <1>1
  <2> QED
    BY <2>1, SmallPowers
<1>4. Pow2[HostBits(p)] \in Nat \ {0} /\ Base(p) \in Nat /\ Top(p) = Base(p) + Pow2[HostBits(p)] - 1
  BY BlockFacts
<1>5. HostBits(p) > 1 <=> Pow2[HostBits(p)] > 2
  BY <1>2, <1>3, <1>4
<1>6. LeavesEnds(p) => HostBits(p) > 1
  BY DEF LeavesEnds
<1> QED
  BY <1>2, <1>4, <1>5, <1>6 DEF Lo, Hi

\* The documented hosts are an interval as well.
LEMMA HostsAre ==
  ASSUME NEW p \in CIDR
  PROVE  /\ HostsOf(p) = Lo(p)..Hi(p)
         /\ IsFiniteSet(HostsOf(p))
         /\ Cardinality(HostsOf(p)) = Hi(p) - Lo(p) + 1
<1> DEFINE block == {a \in 0..(Pow2[AddressBits[p.family]] - 1) : ContainsAddr(p, a)}
<1>1. block = Base(p)..Top(p)
  BY BlockFacts DEF NoAddr
<1>2. Base(p) \in Nat /\ Top(p) \in Nat /\ Top(p) = Base(p) + Pow2[HostBits(p)] - 1
      /\ Pow2[HostBits(p)] \in Nat \ {0}
  BY BlockFacts
<1>3. Cardinality(Base(p)..Top(p)) = Pow2[HostBits(p)]
  <2>1. PICK a \in Int, b \in Int : a = Base(p) /\ b = Top(p)
    BY <1>2
  <2>2. Cardinality(a..b) = IF a > b THEN 0 ELSE b - a + 1
    BY FS_Interval
  <2> QED
    BY <2>1, <2>2, <1>2
<1>4. HostsOf(p) = IF p.family = "v4" /\ Cardinality(block) > 2
                   THEN {a \in block : \E b, c \in block : b < a /\ a < c}
                   ELSE block
  BY DEF HostsOf
<1> HIDE DEF block
<1>5. HostsOf(p) = IF LeavesEnds(p) THEN {a \in block : \E b, c \in block : b < a /\ a < c}
                   ELSE block
  BY <1>1, <1>3, <1>4, HostFacts DEF LeavesEnds
<1>6. {a \in block : \E b, c \in block : b < a /\ a < c} = (Base(p) + 1)..(Top(p) - 1)
  BY <1>1, <1>2
<1>7. HostsOf(p) = Lo(p)..Hi(p)
  BY <1>1, <1>5, <1>6 DEF Lo, Hi
<1>8. PICK a \in Int, b \in Int : a = Lo(p) /\ b = Hi(p) /\ a <= b
  BY HostFacts
<1>9. IsFiniteSet(a..b) /\ Cardinality(a..b) = IF a > b THEN 0 ELSE b - a + 1
  BY FS_Interval
<1> QED
  BY <1>7, <1>8, <1>9

\* The first address of a block names the same block.
LEMMA MaskedFacts ==
  ASSUME NEW p \in CIDR
  PROVE  /\ Masked(p) \in CIDR
         /\ Masked(p).family = p.family /\ Masked(p).addr = Base(p)
         /\ HostBits(Masked(p)) = HostBits(p)
         /\ Base(Masked(p)) = Base(p) /\ Top(Masked(p)) = Top(p)
         /\ Lo(Masked(p)) = Lo(p) /\ Hi(Masked(p)) = Hi(p)
<1>1. Masked(p) = [family |-> p.family, addr |-> Base(p), bits |-> p.bits]
  BY CIDRFields DEF Masked, Base
<1>2. /\ Masked(p).family = p.family /\ Masked(p).addr = Base(p)
      /\ HostBits(Masked(p)) = HostBits(p)
  BY <1>1 DEF HostBits
<1>3. Base(p) \in Nat /\ Base(p) <= p.addr /\ Base(p) % Pow2[HostBits(p)] = 0
  BY BlockFacts
<1>4. Masked(p) \in CIDR
  <2>1. /\ p.family \in Families /\ p.bits \in 0..AddressBits[p.family]
        /\ Base(p) \in 0..(Pow2[AddressBits[p.family]] - 1)
    BY <1>3, CIDRFields, PowerPositive
  <2> QED
    BY <1>1, <2>1 DEF CIDR
<1>5. Base(Masked(p)) = Base(p)
  BY <1>2, <1>3 DEF Base
<1>6. Top(Masked(p)) = Top(p)
  BY <1>2, <1>5 DEF Top
<1>7. LeavesEnds(Masked(p)) <=> LeavesEnds(p)
  BY <1>2 DEF LeavesEnds
<1> QED
  BY <1>2, <1>4, <1>5, <1>6, <1>7 DEF Lo, Hi

-----------------------------------------------------------------------------
(* The loop of the search and of the list.                                 *)

\* A function that follows the loop.
Walks(f, p) ==
  f = [a \in NoAddr..(Pow2[AddressBits[p.family]] - 1) |->
         IF ~ContainsAddr(p, a) \/ a = Broadcast(p) THEN <<>>
         ELSE <<a>> \o f[NextAddr(p.family, a)]]

\* The numbers from a to b, in order.
Interval(a, b) == [i \in 1..(b - a + 1) |-> a + i - 1]

\* What the loop comes to from a on.
Rest(p, a) == IF a \in Base(p)..Hi(p) THEN Interval(a, Hi(p)) ELSE <<>>

LEMMA IntervalSeq ==
  ASSUME NEW a \in Int, NEW b \in Int, a <= b
  PROVE  /\ Interval(a, b) \in Seq(Int)
         /\ Len(Interval(a, b)) = b - a + 1
         /\ \A i \in 1..(b - a + 1) : Interval(a, b)[i] = a + i - 1
         /\ {Interval(a, b)[i] : i \in DOMAIN Interval(a, b)} = a..b
<1> DEFINE n == b - a + 1
<1>1. n \in Nat \ {0}
  OBVIOUS
<1>2. Interval(a, b) \in [1..n -> Int]
  BY DEF Interval
<1>3. Interval(a, b) \in Seq(Int) /\ Len(Interval(a, b)) = n /\ DOMAIN Interval(a, b) = 1..n
  <2> HIDE DEF n
  <2> QED
    BY <1>1, <1>2, LenProperties
<1>4. \A i \in 1..n : Interval(a, b)[i] = a + i - 1
  BY DEF Interval
<1>5. \A x \in a..b : x - a + 1 \in 1..n /\ x = a + (x - a + 1) - 1
  OBVIOUS
<1>6. \A i \in 1..n : a + i - 1 \in a..b
  OBVIOUS
<1>7. \A x \in a..b : \E i \in 1..n : Interval(a, b)[i] = x
  BY <1>4, <1>5
<1>8. {Interval(a, b)[i] : i \in DOMAIN Interval(a, b)} = a..b
  <2> DEFINE s == Interval(a, b)
  <2>1. DOMAIN s = 1..n /\ (\A i \in 1..n : s[i] \in a..b)
        /\ \A x \in a..b : \E i \in 1..n : s[i] = x
    BY <1>3, <1>4, <1>6, <1>7
  <2> HIDE DEF n, s
  <2>2. {s[i] : i \in DOMAIN s} = a..b
    BY <2>1
  <2> QED
    BY <2>2 DEF s
<1> QED
  BY <1>3, <1>4, <1>8

LEMMA IntervalHead ==
  ASSUME NEW a \in Int, NEW b \in Int, a <= b
  PROVE  /\ a + 1 <= b => Interval(a, b) = <<a>> \o Interval(a + 1, b)
         /\ a = b => Interval(a, b) = <<a>> \o <<>>
<1>1. CASE a + 1 <= b
  <2>1. PICK c \in Int : c = a + 1
    OBVIOUS
  <2> DEFINE s == Interval(a, b)
             t == Interval(c, b)
             u == <<a>> \o t
  <2>2. s \in Seq(Int) /\ Len(s) = b - a + 1 /\ \A i \in 1..(b - a + 1) : s[i] = a + i - 1
    BY IntervalSeq
  <2>3. t \in Seq(Int) /\ Len(t) = b - a /\ \A i \in 1..(b - a) : t[i] = a + i
    <3>1. t \in Seq(Int) /\ Len(t) = b - c + 1 /\ \A i \in 1..(b - c + 1) : t[i] = c + i - 1
      BY <1>1, <2>1, IntervalSeq
    <3>2. b - c + 1 = b - a /\ \A i \in Int : c + i - 1 = a + i
      BY <2>1
    <3> HIDE DEF t
    <3> QED
      BY <3>1, <3>2
  <2> HIDE DEF s, t
  <2>4. u \in Seq(Int) /\ Len(u) = b - a + 1
    BY <1>1, <2>3
  <2>5. u[1] = a /\ \A i \in 2..(b - a + 1) : u[i] = t[i - 1]
    BY <1>1, <2>3
  <2>6. \A i \in 1..(b - a + 1) : u[i] = s[i]
    <3> TAKE i \in 1..(b - a + 1)
    <3>1. CASE i = 1
      BY <3>1, <2>2, <2>5
    <3>2. CASE i # 1
      <4>1. i \in 2..(b - a + 1) /\ i - 1 \in 1..(b - a)
        BY <3>2
      <4>2. t[i - 1] = a + (i - 1)
        BY <4>1, <2>3
      <4> QED
        BY <4>1, <4>2, <2>2, <2>5
    <3> QED
      BY <3>1, <3>2
  <2> HIDE DEF u
  <2>7. s = u
    BY <2>2, <2>4, <2>6, SeqEqual
  <2> QED
    BY <1>1, <2>1, <2>7 DEF s, t, u
<1>2. CASE a = b
  <2> DEFINE s == Interval(a, b)
  <2>1. s \in Seq(Int) /\ Len(s) = b - a + 1 /\ \A i \in 1..(b - a + 1) : s[i] = a + i - 1
    BY IntervalSeq
  <2> HIDE DEF s
  <2>2. Len(s) = 1 /\ s[1] = a
    BY <1>2, <2>1
  <2>3. s = <<a>>
    BY <2>1, <2>2
  <2>4. ~(a + 1 <= b)
    BY <1>2
  <2> QED
    BY <2>3, <2>4 DEF s
<1> QED
  BY <1>1, <1>2

\* The loop ends outside the block and at the broadcast address.
LEMMA WalkEnds ==
  ASSUME NEW p \in CIDR, NEW a \in NoAddr..(Pow2[AddressBits[p.family]] - 1)
  PROVE  a \in Base(p)..Hi(p) <=> ~(~ContainsAddr(p, a) \/ a = Broadcast(p))
<1>1. a \in Int /\ NoAddr = -1
  BY BlockFacts DEF NoAddr
<1>2. a = NoAddr => ~ContainsAddr(p, a) /\ a \notin Base(p)..Hi(p)
  BY <1>1, BlockFacts DEF ContainsAddr
<1>3. a # NoAddr => (ContainsAddr(p, a) <=> a \in Base(p)..Top(p))
  BY <1>1, BlockFacts
<1>4. Broadcast(p) = IF LeavesEnds(p) THEN Top(p) ELSE NoAddr
  BY MaskedFacts DEF Broadcast, Top
<1>5. Base(p) \in Nat /\ Top(p) \in Nat /\ Hi(p) = IF LeavesEnds(p) THEN Top(p) - 1 ELSE Top(p)
  BY BlockFacts DEF Hi
<1> QED
  BY <1>1, <1>2, <1>3, <1>4, <1>5

LEMMA RestGoesOn ==
  ASSUME NEW p \in CIDR, NEW a \in Base(p)..Hi(p)
  PROVE  /\ NextAddr(p.family, a) \in NoAddr..(Pow2[AddressBits[p.family]] - 1)
         /\ NextAddr(p.family, a) \in Base(p)..Hi(p) =>
              NextAddr(p.family, a) \in (a + 1)..Hi(p)
         /\ Rest(p, a) = <<a>> \o Rest(p, NextAddr(p.family, a))
<1> DEFINE next == NextAddr(p.family, a)
<1>1. /\ Base(p) \in Nat /\ Top(p) \in Nat /\ Top(p) < Pow2[AddressBits[p.family]]
      /\ Hi(p) \in Nat /\ Hi(p) <= Top(p) /\ Pow2[AddressBits[p.family]] \in Nat /\ a \in Nat
  BY BlockFacts, HostFacts
<1>2. next = IF a + 1 = Pow2[AddressBits[p.family]] THEN -1 ELSE a + 1
  BY DEF NextAddr, NoAddr
<1>3. next \in NoAddr..(Pow2[AddressBits[p.family]] - 1)
  BY <1>1, <1>2 DEF NoAddr
<1>4. a # Hi(p) => next = a + 1 /\ next \in Base(p)..Hi(p)
  BY <1>1, <1>2
<1>5. a = Hi(p) => next \notin Base(p)..Hi(p)
  BY <1>1, <1>2
<1>6. Rest(p, a) = <<a>> \o Rest(p, next)
  <2>1. CASE a = Hi(p)
    <3>1. Interval(a, Hi(p)) = <<a>> \o <<>>
      <4>1. PICK b \in Int : b = Hi(p)
        BY <1>1
      <4>2. a \in Int /\ a <= b /\ a = b
        BY <1>1, <2>1, <4>1
      <4>3. Interval(a, b) = <<a>> \o <<>>
        BY <4>2, IntervalHead
      <4> QED
        BY <4>1, <4>3
    <3> QED
      BY <1>1, <1>5, <2>1, <3>1 DEF Rest
  <2>2. CASE a # Hi(p)
    <3>1. a + 1 <= Hi(p)
      BY <1>1, <2>2
    <3>2. Interval(a, Hi(p)) = <<a>> \o Interval(a + 1, Hi(p))
      <4>1. PICK b \in Int : b = Hi(p)
        BY <1>1
      <4> QED
        BY <1>1, <3>1, <4>1, IntervalHead
    <3> QED
      BY <1>4, <2>2, <3>2 DEF Rest
  <2> QED
    BY <2>1, <2>2
<1> QED
  BY <1>1, <1>2, <1>3, <1>4, <1>5, <1>6

LEMMA WalkExists ==
  ASSUME NEW p \in CIDR
  PROVE  \E f : Walks(f, p)
<1> DEFINE all == NoAddr..(Pow2[AddressBits[p.family]] - 1)
           f == [a \in all |-> Rest(p, a)]
<1>1. ASSUME NEW a \in all
      PROVE  f[a] = IF ~ContainsAddr(p, a) \/ a = Broadcast(p) THEN <<>>
                    ELSE <<a>> \o f[NextAddr(p.family, a)]
  <2>1. CASE a \in Base(p)..Hi(p)
    <3>1. /\ NextAddr(p.family, a) \in all
          /\ Rest(p, a) = <<a>> \o Rest(p, NextAddr(p.family, a))
      BY <2>1, RestGoesOn
    <3> QED
      BY <2>1, <3>1, WalkEnds
  <2>2. CASE a \notin Base(p)..Hi(p)
    BY <2>2, WalkEnds DEF Rest
  <2> QED
    BY <2>1, <2>2
<1>2. Walks(f, p)
  <2> HIDE DEF f
  <2>1. f = [a \in all |-> f[a]]
    BY DEF f
  <2> QED
    BY <1>1, <2>1 DEF Walks
<1> QED
  BY <1>2

\* From the largest address for which it were wrong, the loop goes on to one for
\* which it is right.
LEMMA WalkIsRest ==
  ASSUME NEW p \in CIDR, NEW f, Walks(f, p)
  PROVE  \A a \in NoAddr..(Pow2[AddressBits[p.family]] - 1) : f[a] = Rest(p, a)
<1> DEFINE all == NoAddr..(Pow2[AddressBits[p.family]] - 1)
           T == {k \in Nat : \E a \in all : f[a] # Rest(p, a) /\ k = Pow2[AddressBits[p.family]] - a}
<1>1. \A a \in all : f[a] = IF ~ContainsAddr(p, a) \/ a = Broadcast(p) THEN <<>>
                            ELSE <<a>> \o f[NextAddr(p.family, a)]
  BY DEF Walks
<1>2. Pow2[AddressBits[p.family]] \in Nat
  BY BlockFacts
<1> SUFFICES ASSUME NEW b \in all, f[b] # Rest(p, b)
             PROVE  FALSE
  OBVIOUS
<1>3. Pow2[AddressBits[p.family]] - b \in T
  BY <1>2 DEF NoAddr
<1>4. PICK n \in T : \A k \in T : n <= k
  <2>1. T \subseteq Nat /\ T # {}
    BY <1>3
  <2> HIDE DEF T
  <2> QED
    BY <2>1, LeastMember
<1>5. PICK a \in all : f[a] # Rest(p, a) /\ n = Pow2[AddressBits[p.family]] - a
  OBVIOUS
<1>6. a \in Base(p)..Hi(p)
  <2> SUFFICES ASSUME a \notin Base(p)..Hi(p)
               PROVE  FALSE
    OBVIOUS
  <2>1. f[a] = <<>>
    BY <1>1, WalkEnds
  <2> QED
    BY <1>5, <2>1 DEF Rest
<1>7. /\ NextAddr(p.family, a) \in all
      /\ NextAddr(p.family, a) \in Base(p)..Hi(p) => NextAddr(p.family, a) \in (a + 1)..Hi(p)
      /\ Rest(p, a) = <<a>> \o Rest(p, NextAddr(p.family, a))
  BY <1>6, RestGoesOn
<1>8. PICK c \in all : c = NextAddr(p.family, a)
  BY <1>7
<1>9. f[c] # Rest(p, c)
  <2>1. f[a] = <<a>> \o f[c]
    BY <1>1, <1>6, <1>8, WalkEnds
  <2> QED
    BY <1>5, <1>7, <1>8, <2>1
<1>10. CASE c \in Base(p)..Hi(p)
  <2>1. c > a /\ c \in Nat /\ a \in Nat
    <3>1. Base(p) \in Nat /\ Hi(p) \in Nat
      BY BlockFacts, HostFacts
    <3>2. c \in (a + 1)..Hi(p)
      BY <1>7, <1>8, <1>10
    <3> QED
      BY <1>6, <1>10, <3>1, <3>2
  <2>2. c < Pow2[AddressBits[p.family]]
    BY <1>2 DEF NoAddr
  <2>3. Pow2[AddressBits[p.family]] - c \in T
    BY <1>2, <1>9, <2>1, <2>2
  <2> HIDE DEF T
  <2>4. n <= Pow2[AddressBits[p.family]] - c
    BY <1>4, <2>3
  <2> QED
    BY <1>2, <1>5, <2>1, <2>4
<1>11. CASE c \notin Base(p)..Hi(p)
  <2>1. f[c] = <<>>
    BY <1>1, <1>11, WalkEnds
  <2> QED
    BY <1>9, <1>11, <2>1 DEF Rest
<1> QED
  BY <1>10, <1>11

\* Of a prefix written with the first address of its block, the loop comes to the
\* hosts, each once and in order.
LEMMA VisitedIs ==
  ASSUME NEW p \in CIDR, p.addr = Base(p)
  PROVE  Visited(p) = Interval(Lo(p), Hi(p))
<1> DEFINE f == CHOOSE g : Walks(g, p)
<1>1. Visited(p) = f[FirstAddr(p)]
  BY DEF Visited, Walks
<1>2. Walks(f, p)
  BY WalkExists
<1> HIDE DEF f
<1>3. \A a \in NoAddr..(Pow2[AddressBits[p.family]] - 1) : f[a] = Rest(p, a)
  BY <1>2, WalkIsRest
<1>4. /\ Lo(p) \in Nat /\ Hi(p) \in Nat /\ Lo(p) <= Hi(p) /\ Base(p) <= Lo(p) /\ Hi(p) <= Top(p)
      /\ Base(p) \in Nat /\ Top(p) \in Nat /\ Top(p) < Pow2[AddressBits[p.family]]
      /\ Pow2[AddressBits[p.family]] \in Nat
  BY BlockFacts, HostFacts
<1>5. FirstAddr(p) = Lo(p)
  <2>1. LeavesEnds(p) => Lo(p) = Base(p) + 1
    BY DEF Lo
  <2>2. LeavesEnds(p) => Base(p) + 1 # Pow2[AddressBits[p.family]]
    BY <1>4, <2>1
  <2> QED
    BY <2>1, <2>2 DEF FirstAddr, NextAddr, Lo
<1>6. Lo(p) \in NoAddr..(Pow2[AddressBits[p.family]] - 1) /\ Lo(p) \in Base(p)..Hi(p)
  BY <1>4 DEF NoAddr
<1> QED
  BY <1>1, <1>3, <1>5, <1>6 DEF Rest

-----------------------------------------------------------------------------
(* What the three computations return.                                     *)

\* The search: the lowest number that is not taken, if there is one.
LEMMA FirstFreeOfInterval ==
  ASSUME NEW a \in Nat, NEW b \in Nat, a <= b, NEW taken
  PROVE  LET free == (a..b) \ taken
             first == FirstFree(Interval(a, b), taken)
         IN  /\ first \in free \cup {NoAddr}
             /\ \A x \in free : first # NoAddr /\ first <= x
<1> DEFINE s == Interval(a, b)
           n == b - a + 1
           first == FirstFree(s, taken)
           IsFirst(i) == s[i] \notin taken /\ \A j \in 1..(i - 1) : s[j] \in taken
<1>1. /\ s \in Seq(Int) /\ Len(s) = n /\ n \in Nat
      /\ \A i \in 1..n : s[i] = a + i - 1
  <2>1. n \in Nat
    OBVIOUS
  <2>2. /\ s \in Seq(Int) /\ Len(s) = b - a + 1
        /\ \A i \in 1..(b - a + 1) : s[i] = a + i - 1
    <3> HIDE DEF first
    <3> QED
      BY IntervalSeq
  <2> QED
    BY <2>1, <2>2
<1>2. DOMAIN s = 1..n
  BY <1>1, LenProperties
<1>3. first = IF \A i \in DOMAIN s : s[i] \in taken THEN NoAddr
              ELSE s[CHOOSE i \in DOMAIN s : IsFirst(i)]
  BY DEF FirstFree
<1> HIDE DEF s, n, first
<1>4. \A x \in (a..b) : x - a + 1 \in 1..n /\ s[x - a + 1] = x
  BY <1>1 DEF n
<1>5. CASE \A i \in DOMAIN s : s[i] \in taken
  <2>1. (a..b) \ taken = {}
    BY <1>2, <1>4, <1>5
  <2>2. first = NoAddr
    BY <1>3, <1>5
  <2> QED
    BY <2>1, <2>2 DEF s, first
<1>6. CASE \E i \in DOMAIN s : s[i] \notin taken
  <2> DEFINE T == {i \in 1..n : s[i] \notin taken}
  <2>1. PICK k \in T : \A j \in T : k <= j
    <3>1. T \subseteq Nat /\ T # {}
      BY <1>2, <1>6
    <3> HIDE DEF T
    <3> QED
      BY <3>1, LeastMember
  <2>2. k \in DOMAIN s /\ IsFirst(k)
    <3>1. \A j \in 1..(k - 1) : j \in 1..n /\ ~(k <= j)
      BY <1>1
    <3> QED
      BY <1>2, <2>1, <3>1
  <2>3. PICK i \in 1..n : i = (CHOOSE j \in DOMAIN s : IsFirst(j)) /\ IsFirst(i)
    BY <1>2, <2>2
  <2>4. first = s[i] /\ first = a + i - 1 /\ first \in a..b /\ first \notin taken
    <3>1. first = s[i]
      BY <1>3, <1>6, <2>3
    <3>2. n = b - a + 1
      BY DEF n
    <3>3. a + i - 1 \in a..b /\ s[i] = a + i - 1 /\ s[i] \notin taken
      <4>1. s[i] \notin taken
        BY <2>3
      <4>2. s[i] = a + i - 1
        BY <1>1
      <4>3. a + i - 1 \in a..b
        BY <3>2
      <4> QED
        BY <4>1, <4>2, <4>3
    <3> QED
      BY <3>1, <3>3
  <2>5. \A x \in (a..b) \ taken : first <= x
    <3> TAKE x \in (a..b) \ taken
    <3>1. x - a + 1 \in 1..n /\ s[x - a + 1] = x
      BY <1>4
    <3>2. ~(x - a + 1 \in 1..(i - 1))
      BY <2>3, <3>1
    <3> QED
      BY <1>1, <2>4, <3>1, <3>2
  <2>6. first # NoAddr
    BY <2>4 DEF NoAddr
  <2> QED
    BY <2>4, <2>5, <2>6 DEF s, first
<1> QED
  BY <1>5, <1>6

LEMMA SearchFindsFirst ==
  ASSUME NEW p \in CIDR, NEW taken
  PROVE  LET free == HostsOf(p) \ taken
             offer == GetNextAvailableIP(p, taken)
         IN  /\ offer \in free \cup {NoAddr}
             /\ \A x \in free : offer # NoAddr /\ offer <= x
<1>1. /\ Masked(p) \in CIDR /\ Masked(p).addr = Base(Masked(p))
      /\ Lo(Masked(p)) = Lo(p) /\ Hi(Masked(p)) = Hi(p)
  BY MaskedFacts
<1>2. Visited(Masked(p)) = Interval(Lo(p), Hi(p))
  BY <1>1, VisitedIs
<1>3. PICK a \in Nat, b \in Nat : a = Lo(p) /\ b = Hi(p) /\ a <= b
  BY HostFacts
<1>4. HostsOf(p) = a..b
  BY <1>3, HostsAre
<1>5. GetNextAvailableIP(p, taken) = FirstFree(Interval(a, b), taken)
  BY <1>2, <1>3 DEF GetNextAvailableIP
<1> QED
  BY <1>3, <1>4, <1>5, FirstFreeOfInterval

\* The list: every host once, where the prefix names the first address.
LEMMA ListHasHosts ==
  ASSUME NEW p \in CIDR, p = Masked(p)
  PROVE  LET work == EnumerateIPv4Hosts(p)
             listed == {work[i] : i \in DOMAIN work}
         IN  listed = HostsOf(p) /\ Len(work) = Cardinality(listed)
<1>1. p.addr = Base(p)
  BY MaskedFacts
<1>2. PICK a \in Int, b \in Int : a = Lo(p) /\ b = Hi(p) /\ a <= b
  BY HostFacts
<1>3. EnumerateIPv4Hosts(p) = Interval(a, b)
  BY <1>1, <1>2, VisitedIs DEF EnumerateIPv4Hosts
<1>4. /\ Len(Interval(a, b)) = b - a + 1
      /\ {Interval(a, b)[i] : i \in DOMAIN Interval(a, b)} = a..b
  BY <1>2, IntervalSeq
<1>5. HostsOf(p) = a..b /\ Cardinality(a..b) = b - a + 1
  BY <1>2, HostsAre
<1> QED
  BY <1>3, <1>4, <1>5

\* The count: an int that holds the number of addresses holds that of the hosts.
LEMMA IntHolds ==
  ASSUME NEW n \in Nat, n < Pow2[IntBits - 1]
  PROVE  IntOf(n) = n
<1> DEFINE half == Pow2[IntBits - 1]
<1>1. IntBits - 1 \in Nat
  <2>1. AddressBits["v4"] \in Nat /\ IntBits \in Nat /\ AddressBits["v4"] + 1 < IntBits
    BY IpamAssumption DEF Families
  <2> QED
    BY <2>1
<1>2. half \in Nat \ {0}
  BY <1>1, PowerPositive
<1>3. Pow2[IntBits] = 2 * half
  <2>1. PICK k \in Nat : k = IntBits - 1
    BY <1>1
  <2>2. k + 1 = IntBits
    BY <2>1, IpamAssumption
  <2> QED
    BY <2>1, <2>2, PowerOfNext
<1>4. IntOf(n) = ((n + half) % (2 * half)) - half
  BY <1>3 DEF IntOf
<1> HIDE DEF half
<1>5. n < half
  BY DEF half
<1>6. (n + half) % (2 * half) = n + half
  <2>1. PICK m \in Nat, d \in Nat \ {0} : m = n + half /\ d = 2 * half
    BY <1>2
  <2>2. m < d
    BY <1>2, <1>5, <2>1
  <2>3. m \div d \in Int /\ m % d \in 0..(d - 1) /\ m = d * (m \div d) + (m % d)
    BY Division
  <2>4. m \div d = 0
    <3>1. m \in (d * 0)..(d * 0 + d - 1)
      BY <2>2
    <3> QED
      BY <3>1, QuotientIs
  <2> QED
    BY <2>1, <2>3, <2>4
<1> QED
  BY <1>2, <1>4, <1>6

LEMMA TotalIsHosts ==
  ASSUME NEW p \in CIDR, HostBits(p) < IntBits - 1
  PROVE  TotalHosts(p) = Cardinality(HostsOf(p))
<1>1. HostBits(p) \in Nat /\ IntBits - 1 \in Nat
  BY CIDRFields, IpamAssumption
<1>2. Pow2[HostBits(p)] \in Nat \ {0} /\ Base(p) \in Nat /\ Top(p) = Base(p) + Pow2[HostBits(p)] - 1
  BY BlockFacts
<1>3. Pow2[HostBits(p)] < Pow2[IntBits - 1]
  <2>1. PICK k \in Nat : k = IntBits - 1
    BY <1>1
  <2>2. 2 * Pow2[HostBits(p)] <= Pow2[k]
    BY <1>1, <2>1, PowerGrows
  <2>3. Pow2[k] \in Int
    BY PowerPositive
  <2> QED
    BY <1>2, <2>1, <2>2, <2>3
<1>4. IntOf(Pow2[HostBits(p)]) = Pow2[HostBits(p)]
  BY <1>2, <1>3, IntHolds
<1>5. Cardinality(HostsOf(p)) = Hi(p) - Lo(p) + 1
  BY HostsAre
<1>6. Hi(p) - Lo(p) + 1 = Pow2[HostBits(p)] - (IF LeavesEnds(p) THEN 2 ELSE 0)
  BY <1>2 DEF Hi, Lo
<1> QED
  BY <1>4, <1>5, <1>6 DEF TotalHosts

LEMMA FreeIsHosts ==
  ASSUME NEW p \in CIDR, NEW assigned \in SUBSET (Families \X Nat),
         \A a \in assigned : a[1] = p.family /\ a[2] \in HostsOf(p)
  PROVE  Free(Cardinality(HostsOf(p)), Cardinality(assigned))
           = Cardinality({h \in HostsOf(p) : <<p.family, h>> \notin assigned})
<1> DEFINE hosts == HostsOf(p)
           taken == {h \in hosts : <<p.family, h>> \in assigned}
           address == [h \in taken |-> <<p.family, h>>]
<1>1. IsFiniteSet(hosts)
  BY HostsAre
<1>2. IsFiniteSet(taken) /\ Cardinality(taken) <= Cardinality(hosts)
  <2>1. taken \subseteq hosts
    OBVIOUS
  <2> HIDE DEF taken, hosts
  <2> QED
    BY <1>1, <2>1, FS_Subset
<1>3. address \in Bijection(taken, assigned)
  <2>1. \A a \in assigned : a = <<p.family, a[2]>>
    <3> TAKE a \in assigned
    <3>1. a \in Families \X Nat /\ a[1] = p.family
      OBVIOUS
    <3> QED
      BY <3>1
  <2>2. address \in [taken -> assigned]
    OBVIOUS
  <2>3. \A g, h \in taken : address[g] = address[h] => g = h
    OBVIOUS
  <2>4. \A a \in assigned : \E h \in taken : address[h] = a
    <3> TAKE a \in assigned
    <3>1. a[2] \in taken
      BY <2>1
    <3>2. address[a[2]] = a
      BY <2>1, <3>1
    <3> QED
      BY <3>1, <3>2
  <2> HIDE DEF taken, address
  <2> QED
    BY <2>2, <2>3, <2>4 DEF Bijection, Injection, Surjection, IsInjective
<1>4. Cardinality(assigned) = Cardinality(taken)
  <2>1. ExistsBijection(taken, assigned)
    BY <1>3 DEF ExistsBijection
  <2> HIDE DEF taken
  <2> QED
    BY <1>2, <2>1, FS_Bijection
<1>5. Cardinality(hosts \ taken) = Cardinality(hosts) - Cardinality(taken)
  <2>1. hosts \cap taken = taken
    OBVIOUS
  <2> HIDE DEF hosts, taken
  <2>2. Cardinality(hosts \ taken) = Cardinality(hosts) - Cardinality(hosts \cap taken)
    BY <1>1, FS_Difference
  <2> QED
    BY <2>1, <2>2
<1>6. {h \in hosts : <<p.family, h>> \notin assigned} = hosts \ taken
  OBVIOUS
<1>7. Cardinality(hosts) \in Nat /\ Cardinality(taken) \in Nat
  BY <1>1, <1>2, FS_CardinalityType
<1>8. Free(Cardinality(hosts), Cardinality(assigned)) = Cardinality(hosts) - Cardinality(taken)
  BY <1>2, <1>4, <1>7 DEF Free
<1> HIDE DEF hosts, taken
<1> QED
  BY <1>5, <1>6, <1>8 DEF hosts

-----------------------------------------------------------------------------
(* The tables and the requests.                                            *)

Row == [prefix : Ids, status : RowStatuses]

AskOK(a) ==
  /\ DOMAIN a = {"at", "id", "prefix", "offer", "total", "free"}
  /\ a.at \in {"next", "utilization"} => a.id \in Ids /\ a.prefix \in CIDR

ScanOK(s) == DOMAIN s = {"at", "work"}

\* Whatever is edited meanwhile, a request computes with a prefix that has been
\* in the table.
IpamInv ==
  /\ prefixes \in [Ids -> CIDR \cup {NoPrefix}]
  /\ rows \in [Addresses -> Row \cup {NoRow}]
  /\ scan = [id \in Ids |-> scan[id]] /\ \A id \in Ids : ScanOK(scan[id])
  /\ ask = [r \in Requests |-> ask[r]] /\ \A r \in Requests : AskOK(ask[r])

LEMMA IpamInvInit == IpamInit => IpamInv
BY DEF IpamInit, IpamInv, AskOK, ScanOK, NoAsk, NoScan

LEMMA NotACIDR ==
  /\ NoPrefix \notin CIDR /\ NoPrefix.family # "v4"
  /\ NoRow \notin Row
  /\ "none" \notin Ids /\ CIDRs \subseteq CIDR
<1>1. NoPrefix.family = "none"
  BY DEF NoPrefix
<1>2. NoPrefix \notin CIDR
  BY <1>1, CIDRFields DEF Families
<1> QED
  BY <1>1, <1>2, IpamAssumption DEF NoRow, Row

LEMMA IpamInvStep == IpamInv /\ [IpamNext]_ipamVars => IpamInv'
<1> SUFFICES ASSUME IpamInv, [IpamNext]_ipamVars PROVE IpamInv'
  OBVIOUS
<1> USE NotACIDR
<1>1. ASSUME NEW id \in Ids, NEW p \in CIDRs, CreatePrefix(id, p)
      PROVE  IpamInv'
  BY <1>1 DEF IpamInv, CreatePrefix
<1>2. ASSUME NEW id \in Ids, NEW p \in CIDRs, UpdatePrefix(id, p)
      PROVE  IpamInv'
  BY <1>2 DEF IpamInv, UpdatePrefix
<1>3. ASSUME NEW id \in Ids, DeletePrefix(id)
      PROVE  IpamInv'
  <2>1. scan' = [scan EXCEPT ![id] = NoScan] /\ ScanOK(NoScan)
    BY <1>3 DEF DeletePrefix, ScanOK, NoScan
  <2> QED
    BY <1>3, <2>1 DEF IpamInv, DeletePrefix
<1>4. ASSUME NEW id \in Ids, StartManualScan(id) \/ RunScan(id) \/ ScanEnds(id)
      PROVE  IpamInv'
  <2>1. PICK s : scan' = [scan EXCEPT ![id] = s] /\ ScanOK(s)
    <3>1. CASE StartManualScan(id)
      <4>1. scan' = [scan EXCEPT ![id] = [scan[id] EXCEPT !.at = "queued"]]
        BY <3>1 DEF StartManualScan
      <4>2. ScanOK([scan[id] EXCEPT !.at = "queued"])
        BY DEF IpamInv, ScanOK
      <4> QED
        BY <4>1, <4>2
    <3>2. CASE RunScan(id)
      <4>1. ScanOK(NoScan) /\ \A w : ScanOK([at |-> "probing", work |-> w])
        BY DEF ScanOK, NoScan
      <4> QED
        BY <3>2, <4>1 DEF RunScan
    <3>3. CASE ScanEnds(id)
      <4>1. ScanOK(NoScan)
        BY DEF ScanOK, NoScan
      <4> QED
        BY <3>3, <4>1 DEF ScanEnds
    <3> QED
      BY <1>4, <3>1, <3>2, <3>3
  <2>2. UNCHANGED <<prefixes, rows, ask>>
    BY <1>4 DEF StartManualScan, RunScan, ScanEnds
  <2> QED
    BY <2>1, <2>2 DEF IpamInv
<1>5. ASSUME NEW a \in Addresses, NEW status \in RowStatuses, SetStatus(a, status)
      PROVE  IpamInv'
  <2>1. rows[a] \in Row
    BY <1>5 DEF IpamInv, SetStatus
  <2>2. [rows[a] EXCEPT !.status = status] \in Row
    BY <2>1 DEF Row
  <2>3. rows' = [rows EXCEPT ![a] = [rows[a] EXCEPT !.status = status]]
    BY <1>5 DEF SetStatus
  <2> QED
    BY <1>5, <2>2, <2>3 DEF IpamInv, SetStatus
<1>6. ASSUME NEW a \in Addresses, NEW id \in Ids, NEW status \in RowStatuses,
             CreateIPAddress(a, id, status)
      PROVE  IpamInv'
  <2>1. [prefix |-> id, status |-> status] \in Row
    BY DEF Row
  <2> QED
    BY <1>6, <2>1 DEF IpamInv, CreateIPAddress
<1>7. ASSUME NEW a \in Addresses, NEW b \in Addresses, NEW id \in Ids,
             NEW status \in RowStatuses, UpdateIPAddress(a, b, id, status)
      PROVE  IpamInv'
  <2>1. [prefix |-> id, status |-> status] \in Row
    BY DEF Row
  <2> QED
    BY <1>7, <2>1 DEF IpamInv, UpdateIPAddress
<1>8. ASSUME NEW a \in Addresses, DeleteIPAddress(a)
      PROVE  IpamInv'
  BY <1>8 DEF IpamInv, DeleteIPAddress
<1>9. ASSUME NEW r \in Requests, NEW op \in {"next", "utilization"}, NEW id \in Ids,
             GetPrefix(r, op, id)
      PROVE  IpamInv'
  <2> DEFINE a == [NoAsk EXCEPT !.at = op, !.id = id, !.prefix = prefixes[id]]
  <2>1. prefixes[id] \in CIDR
    BY <1>9 DEF IpamInv, GetPrefix
  <2>2. AskOK(a)
    BY <2>1 DEF AskOK, NoAsk
  <2>3. ask' = [ask EXCEPT ![r] = a] /\ UNCHANGED <<prefixes, rows, scan>>
    BY <1>9 DEF GetPrefix
  <2> HIDE DEF a
  <2> QED
    BY <2>2, <2>3 DEF IpamInv
<1>10. ASSUME NEW r \in Requests, NextAvailableIP(r) \/ Utilization(r) \/ Reply(r)
       PROVE  IpamInv'
  <2>1. PICK a : ask' = [ask EXCEPT ![r] = a] /\ AskOK(a)
    <3>1. CASE NextAvailableIP(r)
      <4> DEFINE offer == GetNextAvailableIP(ask[r].prefix, TakenOf(ask[r].id, ask[r].prefix))
                 a == [ask[r] EXCEPT !.at = "replied", !.offer = offer]
      <4>1. ask' = [ask EXCEPT ![r] = a]
        BY <3>1 DEF NextAvailableIP
      <4> HIDE DEF offer
      <4>2. AskOK(a)
        BY DEF IpamInv, AskOK
      <4> HIDE DEF a
      <4> QED
        BY <4>1, <4>2
    <3>2. CASE Utilization(r)
      <4> DEFINE total == TotalHosts(ask[r].prefix)
                 allocated == {x \in RowsOf(ask[r].id) : rows[x].status # "available"}
                 free == Free(total, Cardinality(allocated))
                 a == [ask[r] EXCEPT !.at = "replied", !.total = total, !.free = free]
      <4>1. ask' = [ask EXCEPT ![r] = a]
        BY <3>2 DEF Utilization
      <4> HIDE DEF total, free
      <4>2. AskOK(a)
        BY DEF IpamInv, AskOK
      <4> HIDE DEF a
      <4> QED
        BY <4>1, <4>2
    <3>3. CASE Reply(r)
      <4>1. AskOK(NoAsk)
        BY DEF AskOK, NoAsk
      <4> QED
        BY <3>3, <4>1 DEF Reply
    <3> QED
      BY <1>10, <3>1, <3>2, <3>3
  <2>2. UNCHANGED <<prefixes, rows, scan>>
    BY <1>10 DEF NextAvailableIP, Utilization, Reply
  <2> QED
    BY <2>1, <2>2 DEF IpamInv
<1>11. CASE UNCHANGED ipamVars
  BY <1>11 DEF ipamVars, IpamInv
<1> QED
  BY <1>1, <1>2, <1>3, <1>4, <1>5, <1>6, <1>7, <1>8, <1>9, <1>10, <1>11 DEF IpamNext

-----------------------------------------------------------------------------
(* The theorem.                                                            *)

\* Whose step it is that a request is answered, and that a scan gets its list.
LEMMA OnlyAnswers ==
  ASSUME IpamInv, IpamNext, NEW r \in Requests, ask'[r].at = "replied"
  PROVE  /\ ask[r].at = "next" => NextAvailableIP(r)
         /\ ask[r].at = "utilization" => Utilization(r)
<1> SUFFICES ASSUME ask[r].at \in {"next", "utilization"}
             PROVE  /\ ask[r].at = "next" => NextAvailableIP(r)
                    /\ ask[r].at = "utilization" => Utilization(r)
  OBVIOUS
<1>1. ask = [q \in Requests |-> ask[q]]
  BY DEF IpamInv
<1>2. ask' # ask
  OBVIOUS
<1>3. \E q \in Requests :
        \/ \E op \in {"next", "utilization"}, id \in Ids : GetPrefix(q, op, id)
        \/ NextAvailableIP(q) \/ Utilization(q) \/ Reply(q)
  BY <1>2 DEF IpamNext, CreatePrefix, UpdatePrefix, DeletePrefix, CreateIPAddress,
              UpdateIPAddress, SetStatus, DeleteIPAddress, StartManualScan, RunScan, ScanEnds
<1>4. PICK q \in Requests :
        \/ \E op \in {"next", "utilization"}, id \in Ids : GetPrefix(q, op, id)
        \/ NextAvailableIP(q) \/ Utilization(q) \/ Reply(q)
  BY <1>3
<1>5. q = r
  <2>1. \A x : [ask EXCEPT ![q] = x][r] # ask[r] => q = r
    BY <1>1
  <2>2. \E x : ask' = [ask EXCEPT ![q] = x]
    BY <1>4 DEF GetPrefix, NextAvailableIP, Utilization, Reply
  <2> QED
    BY <2>1, <2>2
<1>6. \A op \in {"next", "utilization"}, id \in Ids : ~GetPrefix(r, op, id)
  BY DEF GetPrefix, NoAsk
<1>7. ~Reply(r)
  BY DEF Reply
<1> QED
  BY <1>4, <1>5, <1>6, <1>7 DEF NextAvailableIP, Utilization

LEMMA OnlyLists ==
  ASSUME IpamInv, IpamNext, NEW id \in Ids, scan[id].at = "queued", scan'[id].at = "probing"
  PROVE  RunScan(id)
<1>1. scan = [q \in Ids |-> scan[q]]
  BY DEF IpamInv
<1>2. scan' # scan
  OBVIOUS
<1>3. PICK q \in Ids : DeletePrefix(q) \/ StartManualScan(q) \/ RunScan(q) \/ ScanEnds(q)
  BY <1>2 DEF IpamNext, CreatePrefix, UpdatePrefix, CreateIPAddress, UpdateIPAddress, SetStatus,
              DeleteIPAddress, GetPrefix, NextAvailableIP, Utilization, Reply
<1>4. q = id
  <2>1. \A x : [scan EXCEPT ![q] = x][id] # scan[id] => q = id
    BY <1>1
  <2>2. \E x : scan' = [scan EXCEPT ![q] = x]
    BY <1>3 DEF DeletePrefix, StartManualScan, RunScan, ScanEnds
  <2> QED
    BY <2>1, <2>2
<1>5. ~DeletePrefix(id)
  BY <1>1 DEF DeletePrefix, NoScan
<1>6. ~StartManualScan(id)
  BY DEF StartManualScan, NoScan
<1>7. ~ScanEnds(id)
  BY DEF ScanEnds
<1> QED
  BY <1>3, <1>4, <1>5, <1>6, <1>7

LEMMA OfferStep ==
  ASSUME IpamInv, IpamNext, NEW r \in Requests
  PROVE  OffersFirstFree(r)
<1> SUFFICES ASSUME ask[r].at = "next", ask'[r].at = "replied"
             PROVE  LET free == HostsOf(ask[r].prefix) \ TakenOf(ask[r].id, ask[r].prefix)
                        offer == ask'[r].offer
                    IN  /\ offer \in free \cup {NoAddr}
                        /\ \A a \in free : offer # NoAddr /\ offer <= a
  BY DEF OffersFirstFree
<1>1. AskOK(ask[r]) /\ ask = [q \in Requests |-> ask[q]]
  BY DEF IpamInv
<1>2. NextAvailableIP(r)
  BY <1>1, OnlyAnswers
<1>3. ask'[r].offer = GetNextAvailableIP(ask[r].prefix, TakenOf(ask[r].id, ask[r].prefix))
  BY <1>1, <1>2 DEF NextAvailableIP, AskOK
<1>4. ask[r].prefix \in CIDR
  BY <1>1 DEF AskOK
<1> QED
  BY <1>3, <1>4, SearchFindsFirst

LEMMA CountStep ==
  ASSUME IpamInv, IpamNext, NEW r \in Requests
  PROVE  CountsHosts(r)
<1> DEFINE p == ask[r].prefix
           hosts == HostsOf(p)
           own == RowsOf(ask[r].id)
           assigned == {a \in own : rows[a].status = "assigned"}
           allocated == {a \in own : rows[a].status # "available"}
<1> SUFFICES ASSUME ask[r].at = "utilization", ask'[r].at = "replied",
                    HostBits(p) < IntBits - 1
             PROVE  /\ ask'[r].total = Cardinality(hosts)
                    /\ (\A a \in own : a[1] = p.family /\ a[2] \in hosts) =>
                         ask'[r].free = Cardinality({h \in hosts : <<p.family, h>> \notin assigned})
  BY DEF CountsHosts
<1>1. AskOK(ask[r]) /\ ask = [q \in Requests |-> ask[q]]
  BY DEF IpamInv
<1>2. Utilization(r)
  BY <1>1, OnlyAnswers
<1>3. p \in CIDR /\ ask[r].id \in Ids
  BY <1>1 DEF AskOK
<1>4. TotalHosts(p) = Cardinality(hosts)
  BY <1>3, TotalIsHosts
<1>5. /\ ask'[r].total = TotalHosts(p)
      /\ ask'[r].free = Free(TotalHosts(p), Cardinality(allocated))
  <2> DEFINE total == TotalHosts(ask[r].prefix)
             free == Free(total, Cardinality(allocated))
  <2>1. ask' = [ask EXCEPT ![r].at = "replied", ![r].total = total, ![r].free = free]
    BY <1>2 DEF Utilization
  <2> HIDE DEF total, free
  <2>2. ask'[r].total = total /\ ask'[r].free = free
    BY <1>1, <2>1 DEF AskOK
  <2> QED
    BY <2>2 DEF total, free
<1>6. allocated = assigned
  <2>1. \A a \in own : rows[a] \in Row
    BY <1>3, NotACIDR DEF IpamInv, RowsOf, NoRow
  <2> QED
    BY <2>1 DEF Row, RowStatuses
<1>7. own \subseteq Families \X Nat
  BY IpamAssumption DEF RowsOf
<1>8. assigned \in SUBSET (Families \X Nat) /\ \A a \in assigned : a \in own
  BY <1>7
<1> HIDE DEF p, hosts, own, assigned, allocated
<1>9. (\A a \in own : a[1] = p.family /\ a[2] \in hosts) =>
        Free(Cardinality(hosts), Cardinality(assigned))
          = Cardinality({h \in hosts : <<p.family, h>> \notin assigned})
  BY <1>3, <1>8, FreeIsHosts DEF hosts
<1> QED
  BY <1>4, <1>5, <1>6, <1>9

LEMMA ListStep ==
  ASSUME IpamInv, IpamNext, NEW id \in Ids
  PROVE  ListsHosts(id)
<1> SUFFICES ASSUME scan[id].at = "queued", scan'[id].at = "probing",
                    prefixes[id] = Masked(prefixes[id])
             PROVE  LET work == scan'[id].work
                        listed == {work[i] : i \in DOMAIN work}
                    IN  listed = HostsOf(prefixes[id]) /\ Len(work) = Cardinality(listed)
  BY DEF ListsHosts
<1>1. ScanOK(scan[id]) /\ scan = [q \in Ids |-> scan[q]]
  BY DEF IpamInv
<1>2. RunScan(id)
  BY <1>1, OnlyLists
<1>3. scan'[id] = IF prefixes[id].family = "v4"
                  THEN [at |-> "probing", work |-> EnumerateIPv4Hosts(prefixes[id])]
                  ELSE NoScan
  BY <1>1, <1>2 DEF RunScan
<1>4. /\ prefixes[id].family = "v4"
      /\ scan'[id].work = EnumerateIPv4Hosts(prefixes[id])
  BY <1>3 DEF NoScan
<1>5. prefixes[id] \in CIDR
  BY <1>4, NotACIDR DEF IpamInv
<1> QED
  BY <1>4, <1>5, ListHasHosts

\* The lowest free address is offered, a utilization counts the hosts where an int
\* holds their number, and a scan lists every host once where its prefix names the
\* first address of its block: for any widths, prefixes, rows, requests and scans.
THEOREM SameHosts == IpamSpec => HostsAgree
<1> DEFINE Agree == /\ \A r \in Requests : OffersFirstFree(r) /\ CountsHosts(r)
                    /\ \A id \in Ids : ListsHosts(id)
<1>1. IpamInv /\ IpamNext => Agree
  BY OfferStep, CountStep, ListStep
<1>2. IpamInv /\ [IpamNext]_ipamVars => [Agree]_ipamVars
  BY <1>1
<1>3. HostsAgree <=> [][Agree]_ipamVars
  BY DEF HostsAgree
<1> HIDE DEF Agree
<1> QED
  BY <1>2, <1>3, IpamInvInit, IpamInvStep, PTL DEF IpamSpec
=============================================================================
