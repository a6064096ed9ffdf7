----------------------------- MODULE Hash_proofs -----------------------------
(***************************************************************************)
(* Proofs about the table of finalizers, for every set of keys, hash and   *)
(* capacities: its probes end, and it is a map as long as each object is   *)
(* registered once.                                                        *)
(***************************************************************************)
EXTENDS Hash, FiniteSetTheorems, FunctionTheorems, WellFoundedInduction, TLAPS
-----------------------------------------------------------------------------
(* Numbers and probes                                                      *)

\* A set of numbers that is not empty has a least one.
LEMMA LeastNatural ==
    ASSUME NEW S \in SUBSET Nat, S # {}
    PROVE  \E n \in S : \A m \in S : n <= m
<1> DEFINE less == {p \in Nat \X Nat : p[1] < p[2]}
<1>1. less = OpToRel(<, Nat)
  BY DEF OpToRel
<1>2. IsWellFoundedOn(less, Nat)
  BY <1>1, NatLessThanWellFounded
<1>3. PICK n \in S : \A m \in S : <<m, n>> \notin less
  <2> HIDE DEF less
  <2> QED  BY <1>2, WFMin
<1>4. ASSUME NEW m \in S
      PROVE  n <= m
  <2>1. n \in Nat /\ m \in Nat /\ ~ (<<m, n>>[1] < <<m, n>>[2])
    BY <1>3
  <2> QED  BY <2>1
<1> QED  BY <1>4

\* A set that has 0, and the successor of each number it has, has every
\* number.
LEMMA Induction ==
    ASSUME NEW S, 0 \in S, \A n \in Nat : n \in S => n + 1 \in S
    PROVE  Nat \subseteq S
<1> SUFFICES ASSUME Nat \ S # {}
             PROVE  FALSE
  OBVIOUS
<1>1. PICK n \in Nat \ S : \A m \in Nat \ S : n <= m
  BY LeastNatural
<1>2. n - 1 \in Nat /\ n - 1 \in S /\ (n - 1) + 1 = n
  BY <1>1
<1> QED  BY <1>1, <1>2

\* What parity says.
LEMMA Halved ==
    ASSUME NEW n \in Int
    PROVE  /\ n % 2 = 0 => \E q \in Int : n = 2 * q
           /\ n % 2 # 0 => \E q \in Int : n = 2 * q + 1
OBVIOUS

\* A common factor cancels out.
LEMMA Cancel ==
    ASSUME NEW c \in Nat \ {0}, NEW x \in Int, NEW y \in Int, c * x = c * y
    PROVE  x = y
<1>1. c * (x - y) = 0 /\ x - y \in Int
  OBVIOUS
<1> QED  BY <1>1

\* A product, kept from the provers' arithmetic.
Times(x, y) == x * y

\* Products commute, and
LEMMA Product ==
    ASSUME NEW x \in Int, NEW y \in Int
    PROVE  Times(x, y) \in Int /\ Times(x, y) = Times(y, x)
BY DEF Times

\* associate.
LEMMA Associate ==
    ASSUME NEW x \in Int, NEW y \in Int, NEW z \in Int
    PROVE  Times(x, Times(y, z)) = Times(Times(x, y), z)
BY DEF Times

\* A number that divides a product with an odd factor only if it divides the
\* other factor.
OddFree(n) ==
    \A a, b, q \in Int :
       a % 2 = 1 /\ Times(a, b) = Times(n, q) => \E s \in Int : b = Times(n, s)

\* 2 is one.
LEMMA EvenFactor == OddFree(2)
<1> SUFFICES ASSUME NEW a \in Int, NEW b \in Int, NEW q \in Int,
                    a % 2 = 1, Times(a, b) = Times(2, q)
             PROVE  \E s \in Int : b = Times(2, s)
  BY DEF OddFree
<1>1. PICK x \in Int : a = 2 * x + 1
  BY Halved
<1>2. a * b = 2 * (x * b) + b /\ x * b \in Int
  BY <1>1
<1>3. a * b = 2 * q
  BY DEF Times
<1>4. b = 2 * (q - x * b) /\ q - x * b \in Int
  BY <1>2, <1>3
<1> QED  BY <1>4 DEF Times

\* Quotient and remainder.
LEMMA Remainder ==
    ASSUME NEW c \in Nat \ {0}, NEW x \in Int
    PROVE  \E q \in Int : \E r \in 0 .. c - 1 :
              q = x \div c /\ r = x % c /\ x = c * q + r
<1>1. x \div c \in Int
  OBVIOUS
<1>2. x % c \in 0 .. c - 1
  OBVIOUS
<1>3. \A q, r \in Int : q = x \div c /\ r = x % c => x = c * q + r
  OBVIOUS
<1> QED  BY <1>1, <1>2, <1>3

\* Numbers with one remainder differ by a multiple.
LEMMA SameRemainder ==
    ASSUME NEW c \in Nat \ {0}, NEW h \in Int, NEW x \in Int, NEW y \in Int,
           (h + x) % c = (h + y) % c
    PROVE  \E q \in Int : x - y = c * q
<1>1. h + x \in Int /\ h + y \in Int
  OBVIOUS
<1>2. PICK p \in Int, d \in 0 .. c - 1 : d = (h + x) % c /\ h + x = c * p + d
  BY <1>1, Remainder
<1>3. PICK r \in Int, e \in 0 .. c - 1 : e = (h + y) % c /\ h + y = c * r + e
  BY <1>1, Remainder
<1>4. h + x = c * p + d /\ h + y = c * r + d
  BY <1>2, <1>3
<1>5. x - y = c * (p - r) /\ p - r \in Int
  BY <1>4
<1> QED  BY <1>5

\* A multiple leaves no remainder.
LEMMA Multiple ==
    ASSUME NEW c \in Nat \ {0}, NEW q \in Int
    PROVE  (c * q) % c = 0
OBVIOUS

\* No multiple lies between 0 and the number itself.
LEMMA SmallMultiple ==
    ASSUME NEW c \in Nat \ {0}, NEW q \in Int, NEW x \in Int, x = c * q, 0 < x, x < c
    PROVE  FALSE
<1>1. CASE q <= 0
  BY <1>1
<1>2. CASE q >= 1
  <2>1. c * (q - 1) >= 0
    BY <1>2
  <2> QED  BY <2>1
<1> QED  BY <1>1, <1>2

\* A power of two is 1 or twice a power of two.
LEMMA HalfPower ==
    ASSUME NEW c \in Nat \ {0}, PowerOfTwo(c), c # 1
    PROVE  \E d \in Nat \ {0} : c = 2 * d /\ PowerOfTwo(d)
<1>1. c % c = 0 /\ c \in 1 .. c
  OBVIOUS
<1>2. c % 2 = 0
  BY <1>1 DEF PowerOfTwo
<1>3. PICK d \in Int : c = 2 * d
  BY <1>2, Halved
<1>4. d \in Nat \ {0}
  BY <1>3
<1>5. ASSUME NEW e \in 1 .. d, d % e = 0
      PROVE  e = 1 \/ e % 2 = 0
  <2>1. PICK q \in Int : d = e * q
    <3>1. PICK q \in Int, r \in 0 .. e - 1 : r = d % e /\ d = e * q + r
      BY <1>4, Remainder
    <3>2. d = e * q
      BY <1>5, <3>1
    <3> QED  BY <3>2
  <2>2. c = e * (2 * q) /\ 2 * q \in Int
    BY <2>1, <1>3
  <2>3. c % e = 0
    BY <2>2, Multiple
  <2> QED  BY <2>3, <1>3 DEF PowerOfTwo
<1> QED  BY <1>3, <1>4, <1>5 DEF PowerOfTwo

\* Then so is its double.
LEMMA OddFreeDouble ==
    ASSUME NEW d \in Nat \ {0}, OddFree(d)
    PROVE  OddFree(Times(d, 2))
<1> SUFFICES ASSUME NEW a \in Int, NEW b \in Int, NEW q \in Int,
                    a % 2 = 1, Times(a, b) = Times(Times(d, 2), q)
             PROVE  \E s \in Int : b = Times(Times(d, 2), s)
  BY DEF OddFree
<1>1. Times(a, b) = Times(d, Times(2, q)) /\ Times(2, q) \in Int
  BY Product, Associate
<1>2. PICK r \in Int : b = Times(d, r)
  BY <1>1 DEF OddFree
<1>3. Times(a, r) = Times(2, q)
  <2>1. Times(d, Times(a, r)) = Times(Times(d, a), r)
    BY Associate
  <2>2. Times(a, Times(d, r)) = Times(Times(a, d), r)
    BY Associate
  <2>3. Times(d, a) = Times(a, d) /\ Times(a, r) \in Int
    <3>1. d \in Int
      OBVIOUS
    <3> QED  BY <3>1, Product
  <2>4. Times(d, Times(a, r)) = Times(d, Times(2, q))
    BY <1>1, <1>2, <2>1, <2>2, <2>3
  <2> QED  BY <1>1, <2>3, <2>4, Cancel DEF Times
<1>4. PICK s \in Int : r = Times(2, s)
  BY <1>3, EvenFactor DEF OddFree
<1>5. b = Times(Times(d, 2), s)
  BY <1>2, <1>4, Associate
<1> QED  BY <1>5

\* So is every power of two.
LEMMA OddFactor ==
    ASSUME NEW c \in Nat \ {0}, PowerOfTwo(c)
    PROVE  OddFree(c)
<1> DEFINE fails == {n \in Nat : n # 0 /\ PowerOfTwo(n) /\ ~OddFree(n)}
<1> SUFFICES ASSUME fails # {}
             PROVE  FALSE
  OBVIOUS
<1>1. PICK n \in fails : \A m \in fails : n <= m
  <2> HIDE DEF fails
  <2>1. fails \in SUBSET Nat
    BY DEF fails
  <2> QED  BY <2>1, LeastNatural
<1>2. n \in Nat \ {0} /\ PowerOfTwo(n) /\ ~OddFree(n)
  OBVIOUS
<1>3. n # 1
  <2>1. \A b \in Int : Times(1, b) = b
    BY DEF Times
  <2>2. \A a, b \in Int : Times(a, b) \in Int
    BY Product
  <2> QED  BY <1>2, <2>1, <2>2 DEF OddFree
<1>4. PICK d \in Nat \ {0} : n = 2 * d /\ PowerOfTwo(d)
  BY <1>2, <1>3, HalfPower
<1>5. d \notin fails
  <2>1. d < n
    BY <1>2, <1>4
  <2> HIDE DEF fails
  <2> QED  BY <1>1, <1>2, <2>1
<1>6. OddFree(d)
  BY <1>4, <1>5
<1>7. OddFree(Times(d, 2)) /\ Times(d, 2) = n
  BY <1>4, <1>6, OddFreeDouble DEF Times
<1> QED  BY <1>2, <1>7

\* The offset of the n-th probe, without its division.
LEMMA Triangular ==
    ASSUME NEW n \in Nat
    PROVE  \E t \in Nat : t = (n * (n + 1)) \div 2 /\ 2 * t = n * (n + 1)
<1>1. \A x \in Nat : (2 * x) \div 2 = x
  OBVIOUS
<1>2. \E x \in Nat : n * (n + 1) = 2 * x
  <2>1. CASE n % 2 = 0
    <3>1. PICK q \in Int : n = 2 * q
      BY <2>1, Halved
    <3>2. q * (n + 1) \in Nat /\ n * (n + 1) = 2 * (q * (n + 1))
      BY <3>1
    <3> QED  BY <3>2
  <2>2. CASE n % 2 # 0
    <3>1. PICK q \in Int : n = 2 * q + 1
      BY <2>2, Halved
    <3>2. n + 1 = 2 * (q + 1) /\ q + 1 \in Nat
      BY <3>1
    <3>3. n * (q + 1) \in Nat /\ n * (n + 1) = 2 * (n * (q + 1))
      BY <3>2
    <3> QED  BY <3>3
  <2> QED  BY <2>1, <2>2
<1>3. PICK x \in Nat : n * (n + 1) = 2 * x
  BY <1>2
<1>4. (n * (n + 1)) \div 2 = x
  BY <1>1, <1>3
<1> QED  BY <1>3, <1>4

\* Two of the first c probes of a key are at different entries: the distance
\* between their offsets is half a product of an odd and an even number that are
\* both smaller than 2 * c.
LEMMA ProbesDiffer ==
    ASSUME NEW c \in CAPACITIES, NEW k \in KEYS,
           NEW m \in 0 .. c - 1, NEW n \in 0 .. c - 1, m < n
    PROVE  Probe(k, m, c) # Probe(k, n, c)
<1>1. c \in Nat \ {0} /\ PowerOfTwo(c) /\ HASH[k] \in Nat
  BY HashAssumption
<1>2. PICK s \in Nat : s = (m * (m + 1)) \div 2 /\ 2 * s = m * (m + 1)
  BY Triangular
<1>3. PICK t \in Nat : t = (n * (n + 1)) \div 2 /\ 2 * t = n * (n + 1)
  BY Triangular
<1> SUFFICES ASSUME Probe(k, m, c) = Probe(k, n, c)
             PROVE  FALSE
  OBVIOUS
<1>4. PICK q \in Int : t - s = c * q
  <2>1. PICK h \in Nat : h = HASH[k]
    BY <1>1
  <2>2. (h + t) % c = (h + s) % c
    BY <1>2, <1>3, <2>1 DEF Probe
  <2>3. c \in Nat \ {0} /\ h \in Int /\ t \in Int /\ s \in Int
    BY <1>1
  <2> QED  BY <2>2, <2>3, SameRemainder, Zenon
<1> DEFINE x == n - m
           y == n + m + 1
<1>5. x * y = 2 * (c * q) /\ c * q \in Int
  <2>1. x * y = n * (n + 1) - m * (m + 1)
    OBVIOUS
  <2> QED  BY <1>2, <1>3, <1>4, <2>1
<1>6. x \in Nat /\ y \in Nat /\ 0 < x /\ x < c /\ 0 < y /\ y < 2 * c /\ x + y = 2 * n + 1
  BY <1>1
<1> HIDE DEF x, y
<1>7. \A a, b, p \in Int : a % 2 = 1 /\ a * b = c * p => \E r \in Int : b = c * r
  <2>1. OddFree(c)
    BY <1>1, OddFactor
  <2>2. \A a, b, p \in Int :
           a % 2 = 1 /\ Times(a, b) = Times(c, p) => \E r \in Int : b = Times(c, r)
    BY <2>1 DEF OddFree
  <2> QED  BY <2>2, Zenon DEF Times
<1>8. CASE x % 2 = 1
  <2>1. PICK z \in Int : y = 2 * z
    <3>1. PICK w \in Int : x = 2 * w + 1
      BY <1>6, <1>8, Halved
    <3>2. y = 2 * (n - w) /\ n - w \in Int
      BY <1>6, <3>1
    <3> QED  BY <3>2
  <2>2. x * z = c * q
    BY <1>5, <1>6, <2>1
  <2>3. PICK r \in Int : z = c * r
    BY <1>6, <1>7, <1>8, <2>2
  <2>4. 0 < z /\ z < c
    BY <1>1, <1>6, <2>1
  <2> QED  BY <1>1, <2>3, <2>4, SmallMultiple
<1>9. CASE x % 2 = 0
  <2>1. PICK z \in Int : x = 2 * z
    BY <1>6, <1>9, Halved
  <2>2. y % 2 = 1
    BY <1>6, <2>1
  <2>3. y * z = c * q
    BY <1>5, <1>6, <2>1
  <2>4. PICK r \in Int : z = c * r
    BY <1>6, <1>7, <2>2, <2>3
  <2>5. 0 < z /\ z < c
    BY <1>1, <1>6, <2>1
  <2> QED  BY <1>1, <2>4, <2>5, SmallMultiple
<1> QED  BY <1>6, <1>8, <1>9

\* So the first c probes come to every entry of a table of c.
LEMMA ProbesCover ==
    ASSUME NEW c \in CAPACITIES, NEW k \in KEYS
    PROVE  /\ \A n \in Nat : Probe(k, n, c) \in 0 .. c - 1
           /\ \A i \in 0 .. c - 1 : \E n \in 0 .. c - 1 : Probe(k, n, c) = i
<1>1. c \in Nat \ {0} /\ HASH[k] \in Nat
  BY HashAssumption
<1>2. ASSUME NEW n \in Nat
      PROVE  Probe(k, n, c) \in 0 .. c - 1
  <2>1. PICK t \in Nat : t = (n * (n + 1)) \div 2
    BY Triangular
  <2> QED  BY <1>1, <2>1 DEF Probe
<1> DEFINE S == 0 .. c - 1
           f == [n \in S |-> Probe(k, n, c)]
<1>3. f \in [S -> S]
  BY <1>1, <1>2
<1>4. ASSUME NEW a \in S, NEW b \in S, f[a] = f[b]
      PROVE  a = b
  <2>1. a \in Int /\ b \in Int /\ (a < b \/ b < a \/ a = b)
    BY <1>1
  <2>2. f[a] = Probe(k, a, c) /\ f[b] = Probe(k, b, c)
    OBVIOUS
  <2> QED  BY <1>4, <2>1, <2>2, ProbesDiffer
<1>5. IsFiniteSet(S)
  BY <1>1, FS_Interval
<1> HIDE DEF f, S
<1>6. f \in Injection(S, S)
  BY <1>3, <1>4, Fun_IsInj
<1>7. f \in Surjection(S, S)
  BY <1>5, <1>6, FS_Injection
<1>8. \A i \in S : \E n \in S : f[n] = i
  BY <1>7, Fun_SurjectionProperties
<1> QED  BY <1>2, <1>8 DEF f, S
-----------------------------------------------------------------------------
(* Tables                                                                  *)

\* A probe that can end does, at the first entry where it can.
LEMMA First ==
    ASSUME NEW c \in CAPACITIES, NEW k \in KEYS, NEW stops,
           \E i \in 0 .. c - 1 : i \in stops
    PROVE  \E n \in 0 .. c - 1 :
              /\ FirstOf(k, stops, c) = Probe(k, n, c)
              /\ Probe(k, n, c) \in stops
              /\ \A m \in 0 .. n - 1 : Probe(k, m, c) \notin stops
<1>1. c \in Nat
  BY HashAssumption
<1> DEFINE hits == {n \in 0 .. c - 1 : Probe(k, n, c) \in stops}
<1>2. hits # {} /\ hits \in SUBSET Nat
  BY <1>1, ProbesCover
<1>3. \E n \in hits : \A m \in hits : n <= m
  BY <1>2, LeastNatural
<1> DEFINE n == CHOOSE n \in hits : \A m \in hits : n <= m
<1>4. n \in hits /\ \A m \in hits : n <= m
  <2> HIDE DEF hits
  <2> QED  BY <1>3
<1>5. FirstOf(k, stops, c) = Probe(k, n, c)
  BY <1>2 DEF FirstOf
<1> HIDE DEF n
<1>6. \A m \in 0 .. n - 1 : m \in 0 .. c - 1 /\ ~(n <= m)
  BY <1>1, <1>4
<1> QED  BY <1>4, <1>5, <1>6

\* And that is the only one it can end at.
LEMMA FirstIs ==
    ASSUME NEW c \in CAPACITIES, NEW k \in KEYS, NEW stops, NEW n \in 0 .. c - 1,
           Probe(k, n, c) \in stops,
           \A m \in 0 .. n - 1 : Probe(k, m, c) \notin stops
    PROVE  FirstOf(k, stops, c) = Probe(k, n, c)
<1>1. c \in Nat /\ Probe(k, n, c) \in 0 .. c - 1
  BY HashAssumption, ProbesCover
<1>2. PICK p \in 0 .. c - 1 :
              /\ FirstOf(k, stops, c) = Probe(k, p, c)
              /\ Probe(k, p, c) \in stops
              /\ \A m \in 0 .. p - 1 : Probe(k, m, c) \notin stops
  BY <1>1, First
<1>3. ~ (p \in 0 .. n - 1) /\ ~ (n \in 0 .. p - 1)
  BY <1>2
<1>4. p = n
  BY <1>1, <1>3
<1> QED  BY <1>2, <1>4
Tables(c) == [0 .. c - 1 -> ENTRY]

\* The entries a probe does not end at, and the tombstones.
InUse(t) == {i \in DOMAIN t : t[i].status # "free"}
Tombstones(t) == {i \in DOMAIN t : t[i].status = "deleted"}

\* What a table holds.
Contents(t) == {t[i] : i \in Allocated(t)}

Fresh(t, k) == \A i \in Allocated(t) : t[i].key # k

Once(t) == \A i, j \in Allocated(t) : t[i].key = t[j].key => i = j

\* The probe for a key comes to its entry.
Reached(t, c) ==
    \A i \in Allocated(t) : \E n \in 0 .. c - 1 :
       /\ Probe(t[i].key, n, c) = i
       /\ \A m \in 0 .. n - 1 :
             LET e == t[Probe(t[i].key, m, c)]
             IN  e.status # "free" /\ e.key # t[i].key

\* What an entry can be.
LEMMA Entries ==
    /\ FREE \in ENTRY /\ FREE.status = "free" /\ FREE.key = NULL
    /\ \A e \in ENTRY : /\ e.status \in {"free", "allocated", "deleted"}
                        /\ e.status # "free" => e.key \in KEYS /\ e.value \in VALUES
                        /\ e.status = "free" => e = FREE
    /\ \A k \in KEYS, v \in VALUES :
          /\ Occupied(k, v) \in ENTRY /\ Occupied(k, v).status = "allocated"
          /\ Occupied(k, v).key = k /\ Occupied(k, v).value = v
    /\ \A e \in ENTRY : e.status # "free" => [e EXCEPT !.status = "deleted"] \in ENTRY
<1> QED BY DEF ENTRY, FREE, Occupied

\* A table and its parts are finite.
LEMMA Finite ==
    ASSUME NEW c \in CAPACITIES, NEW t \in Tables(c)
    PROVE  /\ c \in Nat /\ DOMAIN t = 0 .. c - 1
           /\ \A S \in SUBSET DOMAIN t :
                 IsFiniteSet(S) /\ Cardinality(S) \in 0 .. c
<1>1. c \in Nat /\ DOMAIN t = 0 .. c - 1
  BY HashAssumption DEF Tables
<1>2. IsFiniteSet(0 .. c - 1) /\ Cardinality(0 .. c - 1) = c
  BY <1>1, FS_Interval
<1>3. ASSUME NEW S \in SUBSET DOMAIN t
      PROVE  IsFiniteSet(S) /\ Cardinality(S) \in 0 .. c
  <2>1. IsFiniteSet(S) /\ Cardinality(S) <= c
    BY <1>1, <1>2, FS_Subset
  <2>2. Cardinality(S) \in Nat
    BY <2>1, FS_CardinalityType
  <2> QED  BY <1>1, <2>1, <2>2
<1> QED  BY <1>1, <1>3

\* A table with fewer entries in use than it has entries has a free one.
LEMMA RoomLeft ==
    ASSUME NEW c \in CAPACITIES, NEW t \in Tables(c), Cardinality(InUse(t)) < c
    PROVE  \E i \in 0 .. c - 1 : t[i].status = "free"
<1> SUFFICES ASSUME \A i \in 0 .. c - 1 : t[i].status # "free"
             PROVE  FALSE
  OBVIOUS
<1>1. InUse(t) = 0 .. c - 1
  BY Finite DEF InUse
<1>2. Cardinality(0 .. c - 1) = c /\ c \in Nat
  BY Finite, FS_Interval
<1> QED  BY <1>1, <1>2

\* lookupForInsert ends at the first entry that does not hold another key.
LEMMA LookupForInsert ==
    ASSUME NEW c \in CAPACITIES, NEW t \in Tables(c), NEW k \in KEYS,
           \E i \in 0 .. c - 1 : t[i].status # "allocated"
    PROVE  \E n \in 0 .. c - 1 :
              LET i == Probe(k, n, c)
              IN  /\ lookupForInsert(t, k, c) = i /\ i \in 0 .. c - 1
                  /\ t[i].status # "allocated" \/ t[i].key = k
                  /\ \A m \in 0 .. n - 1 :
                        LET e == t[Probe(k, m, c)]
                        IN  e.status = "allocated" /\ e.key # k
<1> DEFINE stops == {i \in DOMAIN t : t[i].status # "allocated" \/ t[i].key = k}
<1>1. c \in Nat /\ DOMAIN t = 0 .. c - 1
  BY Finite
<1>2. \E i \in 0 .. c - 1 : i \in stops
  BY <1>1
<1> HIDE DEF stops
<1>3. PICK n \in 0 .. c - 1 :
              /\ FirstOf(k, stops, c) = Probe(k, n, c)
              /\ Probe(k, n, c) \in stops
              /\ \A m \in 0 .. n - 1 : Probe(k, m, c) \notin stops
  BY <1>2, First
<1>4. \A m \in Nat : Probe(k, m, c) \in DOMAIN t
  BY <1>1, ProbesCover
<1> WITNESS n \in 0 .. c - 1
<1>5. lookupForInsert(t, k, c) = Probe(k, n, c)
  <2>1. lookupForInsert(t, k, c) = FirstOf(k, stops, c)
    BY Zenon DEF lookupForInsert, stops
  <2> QED  BY <1>3, <2>1
<1>6. ASSUME NEW m \in 0 .. n - 1
      PROVE  LET e == t[Probe(k, m, c)]
             IN  e.status = "allocated" /\ e.key # k
  <2>1. m \in Nat
    OBVIOUS
  <2>2. Probe(k, m, c) \in DOMAIN t /\ Probe(k, m, c) \notin stops
    BY <1>3, <1>4, <2>1
  <2> QED  BY <2>2 DEF stops
<1> QED  BY <1>3, <1>4, <1>5, <1>6, <1>1 DEF stops

\* A table with an entry stored where the probe for its key ends.
Put(t, e, c) == [t EXCEPT ![lookupForInsert(t, e.key, c)] = e]

\* What storing an entry does to the parts of the table.
LEMMA PutCounts ==
    ASSUME NEW c \in CAPACITIES, NEW t \in Tables(c), NEW e \in ENTRY,
           e.status = "allocated",
           \E i \in 0 .. c - 1 : t[i].status # "allocated"
    PROVE  LET i == lookupForInsert(t, e.key, c)
               u == Put(t, e, c)
           IN  /\ i \in 0 .. c - 1 /\ u \in Tables(c)
               /\ Allocated(u) = Allocated(t) \cup {i}
               /\ InUse(u) = InUse(t) \cup {i}
               /\ Tombstones(u) = Tombstones(t) \ {i}
               /\ t[i].status # "allocated" \/ t[i].key = e.key
<1> DEFINE i == lookupForInsert(t, e.key, c)
           u == Put(t, e, c)
<1>1. c \in Nat /\ DOMAIN t = 0 .. c - 1 /\ e.key \in KEYS
  BY Finite, Entries
<1>2. i \in 0 .. c - 1 /\ (t[i].status # "allocated" \/ t[i].key = e.key)
  <2>1. PICK n \in 0 .. c - 1 :
              LET p == Probe(e.key, n, c)
              IN  /\ lookupForInsert(t, e.key, c) = p /\ p \in 0 .. c - 1
                  /\ t[p].status # "allocated" \/ t[p].key = e.key
    BY <1>1, LookupForInsert
  <2> QED  BY <2>1
<1>3. u = [t EXCEPT ![i] = e]
  BY DEF Put
<1> HIDE DEF i, u
<1>4. u \in Tables(c) /\ DOMAIN u = DOMAIN t
      /\ \A j \in DOMAIN t : u[j] = IF j = i THEN e ELSE t[j]
  BY <1>1, <1>2, <1>3 DEF Tables
<1>5. Allocated(u) = Allocated(t) \cup {i}
  BY <1>1, <1>2, <1>4 DEF Allocated
<1>6. InUse(u) = InUse(t) \cup {i}
  BY <1>1, <1>2, <1>4 DEF InUse
<1>7. Tombstones(u) = Tombstones(t) \ {i}
  BY <1>1, <1>2, <1>4 DEF Tombstones
<1> QED  BY <1>2, <1>4, <1>5, <1>6, <1>7 DEF i, u

\* Storing a key that is not stored yet keeps what the probes rely on: the
\* probes of the keys already there go over the new entry as over the old.
LEMMA PutKeeps ==
    ASSUME NEW c \in CAPACITIES, NEW t \in Tables(c), NEW e \in ENTRY,
           e.status = "allocated",
           \E i \in 0 .. c - 1 : t[i].status # "allocated",
           Fresh(t, e.key), Once(t), Reached(t, c)
    PROVE  LET i == lookupForInsert(t, e.key, c)
               u == Put(t, e, c)
           IN  /\ t[i].status # "allocated"
               /\ Once(u) /\ Reached(u, c)
               /\ Contents(u) = Contents(t) \cup {e}
<1> DEFINE i == lookupForInsert(t, e.key, c)
           u == Put(t, e, c)
<1>1. c \in Nat /\ DOMAIN t = 0 .. c - 1 /\ e.key \in KEYS
  BY Finite, Entries
<1>2. PICK n \in 0 .. c - 1 :
              /\ i = Probe(e.key, n, c) /\ i \in 0 .. c - 1
              /\ t[i].status # "allocated" \/ t[i].key = e.key
              /\ \A m \in 0 .. n - 1 :
                    LET p == Probe(e.key, m, c)
                    IN  t[p].status = "allocated" /\ t[p].key # e.key
  BY <1>1, LookupForInsert
<1>3. u = [t EXCEPT ![i] = e]
  BY DEF Put
<1> HIDE DEF i, u
<1>4. u \in Tables(c) /\ DOMAIN u = DOMAIN t
      /\ \A j \in DOMAIN t : u[j] = IF j = i THEN e ELSE t[j]
  BY <1>1, <1>2, <1>3 DEF Tables
<1>5. t[i].status # "allocated"
  BY <1>1, <1>2 DEF Fresh, Allocated
<1>6. Allocated(u) = Allocated(t) \cup {i} /\ i \notin Allocated(t)
  BY <1>1, <1>2, <1>4, <1>5 DEF Allocated
<1>7. u[i] = e /\ \A j \in Allocated(t) : u[j] = t[j] /\ j \in DOMAIN t
  BY <1>1, <1>2, <1>4, <1>6 DEF Allocated
<1>8. Once(u)
  BY <1>6, <1>7 DEF Once, Fresh
<1>9. Contents(u) = Contents(t) \cup {e}
  BY <1>6, <1>7 DEF Contents
<1>10. Reached(u, c)
  <2>1. ASSUME NEW j \in Allocated(t)
        PROVE  \E p \in 0 .. c - 1 :
                  /\ Probe(u[j].key, p, c) = j
                  /\ \A m \in 0 .. p - 1 :
                        LET f == u[Probe(u[j].key, m, c)]
                        IN  f.status # "free" /\ f.key # u[j].key
    <3> DEFINE k == t[j].key
    <3>1. PICK p \in 0 .. c - 1 :
                  /\ Probe(k, p, c) = j
                  /\ \A m \in 0 .. p - 1 :
                        LET f == t[Probe(k, m, c)]
                        IN  f.status # "free" /\ f.key # k
      BY DEF Reached
    <3>2. u[j].key = k /\ k \in KEYS /\ k # e.key
      <4>1. t[j] \in ENTRY /\ t[j].status = "allocated"
        BY <1>7 DEF Tables, Allocated
      <4> QED  BY <1>7, <4>1, Entries DEF Fresh
    <3> HIDE DEF k
    <3>3. ASSUME NEW m \in 0 .. p - 1
          PROVE  LET f == u[Probe(k, m, c)]
                 IN  f.status # "free" /\ f.key # k
      <4>1. m \in Nat
        OBVIOUS
      <4>2. Probe(k, m, c) \in DOMAIN t
        BY <1>1, <3>2, <4>1, ProbesCover
      <4>3. LET f == t[Probe(k, m, c)]
            IN  f.status # "free" /\ f.key # k
        BY <3>1
      <4> QED  BY <1>4, <3>2, <4>2, <4>3
    <3> QED  BY <3>1, <3>2, <3>3
  <2>2. \E p \in 0 .. c - 1 :
           /\ Probe(u[i].key, p, c) = i
           /\ \A m \in 0 .. p - 1 :
                 LET f == u[Probe(u[i].key, m, c)]
                 IN  f.status # "free" /\ f.key # u[i].key
    <3>1. ASSUME NEW m \in 0 .. n - 1
          PROVE  LET f == u[Probe(e.key, m, c)]
                 IN  f.status # "free" /\ f.key # e.key
      <4>1. m \in Nat
        OBVIOUS
      <4>2. Probe(e.key, m, c) \in DOMAIN t
        BY <1>1, <4>1, ProbesCover
      <4>3. LET f == t[Probe(e.key, m, c)]
            IN  f.status = "allocated" /\ f.key # e.key
        BY <1>2
      <4>4. Probe(e.key, m, c) # i
        BY <1>5, <4>3
      <4> QED  BY <1>4, <4>2, <4>3, <4>4
    <3> QED  BY <1>2, <1>7, <3>1
  <2> QED  BY <1>6, <2>1, <2>2 DEF Reached
<1> QED  BY <1>5, <1>8, <1>9, <1>10 DEF i, u
-----------------------------------------------------------------------------
(* Resizing                                                                *)

\* The values of a recursion on the numbers up to m.
Recursive(f, m, s, F) == f[0] = s /\ \A n \in 1 .. m : f[n] = F[n][f[n - 1]]

\* Such a recursion has values.  The library states it with operators for
\* parameters; here the steps are functions.
LEMMA Recursion ==
    ASSUME NEW N \in Nat, NEW S, NEW s \in S, NEW F \in [1 .. N -> [S -> S]]
    PROVE  \E f \in [0 .. N -> S] : Recursive(f, N, s, F)
<1> USE DEF Recursive
<1> DEFINE Upto(m, f) == Recursive(f, m, s, F)
           Done == {m \in Nat : m <= N => \E f \in [0 .. m -> S] : Upto(m, f)}
<1>1. 0 \in Done
  <2> DEFINE f == [n \in 0 .. 0 |-> s]
  <2>1. f \in [0 .. 0 -> S] /\ Upto(0, f)
    OBVIOUS
  <2> QED  BY <2>1
<1>2. ASSUME NEW m \in Nat, m \in Done
      PROVE  m + 1 \in Done
  <2> SUFFICES ASSUME m + 1 <= N
               PROVE  \E f \in [0 .. m + 1 -> S] : Upto(m + 1, f)
    OBVIOUS
  <2>1. PICK g \in [0 .. m -> S] : Upto(m, g)
    BY <1>2
  <2> DEFINE f == [n \in 0 .. m + 1 |-> IF n <= m THEN g[n] ELSE F[m + 1][g[m]]]
  <2>2. F[m + 1][g[m]] \in S
    <3>1. g[m] \in S /\ m + 1 \in 1 .. N
      OBVIOUS
    <3> QED  BY <3>1
  <2>3. f \in [0 .. m + 1 -> S]
    <3>1. \A n \in 0 .. m + 1 : n <= m => n \in 0 .. m
      OBVIOUS
    <3> QED  BY <2>2, <3>1
  <2>4. f[0] = s /\ f[m + 1] = F[m + 1][g[m]] /\ \A n \in 0 .. m : f[n] = g[n]
    BY <2>1
  <2> HIDE DEF f
  <2>5. ASSUME NEW n \in 1 .. m + 1
        PROVE  f[n] = F[n][f[n - 1]]
    <3>1. CASE n = m + 1
      <4>1. n - 1 = m /\ m \in 0 .. m
        BY <3>1
      <4> QED  BY <2>4, <3>1, <4>1
    <3>2. CASE n # m + 1
      <4>1. n \in 1 .. m /\ n \in 0 .. m /\ n - 1 \in 0 .. m
        BY <3>2
      <4> QED  BY <2>1, <2>4, <4>1
    <3> QED  BY <3>1, <3>2
  <2> QED  BY <2>3, <2>4, <2>5
<1> HIDE DEF Done
<1>3. Nat \subseteq Done
  BY <1>1, <1>2, Induction
<1> QED  BY <1>3 DEF Done

\* Each step of the recursion that moves the entries.
LEMMA RehashSteps ==
    ASSUME NEW c \in CAPACITIES, mask \in Nat, NEW t \in [0 .. mask -> ENTRY]
    PROVE  \E f \in [0 .. mask + 1 -> Tables(c)] :
              /\ f[0] = Empty(c) /\ Rehash(t, c) = f[mask + 1]
              /\ \A n \in 1 .. mask + 1 : f[n] = Moved(t[n - 1], f[n - 1], c)
<1> DEFINE N == mask + 1
           S == Tables(c)
           F == [n \in 1 .. N |-> [g \in S |-> Moved(t[n - 1], g, c)]]
           Is(r) == r = [n \in 0 .. mask + 1 |->
                           IF n = 0 THEN Empty(c)
                           ELSE Moved(t[n - 1], r[n - 1], c)]
<1>1. Empty(c) \in S
  BY Entries, HashAssumption DEF Tables, Empty
<1>2. ASSUME NEW n \in 1 .. N, NEW g \in S
      PROVE  Moved(t[n - 1], g, c) \in S
  <2>1. t[n - 1] \in ENTRY
    <3>1. n - 1 \in 0 .. mask
      OBVIOUS
    <3> QED  BY <3>1
  <2> QED  BY <2>1 DEF Moved, Tables
<1>3. F \in [1 .. N -> [S -> S]]
  BY <1>2
<1>4. PICK f \in [0 .. N -> S] : f[0] = Empty(c) /\ \A n \in 1 .. N : f[n] = F[n][f[n - 1]]
  <2>1. N \in Nat
    OBVIOUS
  <2> HIDE DEF N, F, S
  <2>2. PICK f \in [0 .. N -> S] : Recursive(f, N, Empty(c), F)
    BY <1>1, <1>3, <2>1, Recursion
  <2> QED  BY <2>2 DEF Recursive
<1>5. \A n \in 1 .. N : f[n] = Moved(t[n - 1], f[n - 1], c)
  <2> TAKE n \in 1 .. N
  <2>1. n - 1 \in 0 .. N
    OBVIOUS
  <2>2. f[n - 1] \in S
    BY <2>1
  <2> QED  BY <1>4, <2>2
<1>6. \A r : Is(r) => r \in [0 .. N -> S] /\ r[0] = Empty(c)
               /\ \A n \in 1 .. N : r[n] = Moved(t[n - 1], r[n - 1], c)
  <2> SUFFICES ASSUME NEW r, Is(r)
               PROVE r \in [0 .. N -> S] /\ r[0] = Empty(c)
               /\ \A n \in 1 .. N : r[n] = Moved(t[n - 1], r[n - 1], c)
    OBVIOUS
  <2>1. r[0] = Empty(c) /\ DOMAIN r = 0 .. N /\ \A n \in 1 .. N : r[n] = Moved(t[n - 1], r[n - 1], c)
    OBVIOUS
  <2> HIDE DEF Is
  <2> DEFINE D == {n \in Nat : n <= N => r[n] \in S}
  <2>2. 0 \in D
    BY <1>1, <2>1
  <2>3. ASSUME NEW n \in Nat, n \in D
        PROVE  n + 1 \in D
    <3> SUFFICES ASSUME n + 1 <= N
                 PROVE r[n + 1] \in S
      OBVIOUS
    <3>1. n + 1 \in 1 .. N /\ (n + 1) - 1 = n /\ r[n] \in S
      BY <2>3
    <3> QED  BY <3>1, <2>1, <1>2
  <2> HIDE DEF D
  <2>4. Nat \subseteq D
    BY <2>2, <2>3, Induction
  <2>5. \A n \in 0 .. N : r[n] \in S
    BY <2>4 DEF D
  <2>6. ASSUME NEW n \in 0 .. N
        PROVE  (IF n = 0 THEN Empty(c) ELSE Moved(t[n - 1], r[n - 1], c)) \in S
    <3>1. CASE n = 0
      BY <1>1, <3>1
    <3>2. CASE n # 0
      <4>1. n \in 1 .. N
        BY <3>2
      <4>2. r[n] = Moved(t[n - 1], r[n - 1], c)
        BY <2>1, <4>1
      <4> HIDE DEF S
      <4> QED  BY <2>5, <3>2, <4>2
    <3> QED  BY <3>1, <3>2
  <2>7. [n \in 0 .. N |-> IF n = 0 THEN Empty(c) ELSE Moved(t[n - 1], r[n - 1], c)]
           \in [0 .. N -> S]
    BY <2>6
  <2> QED  BY <2>1, <2>7 DEF Is
<1>7. Is(f)
  <2>1. f = [n \in 0 .. N |-> f[n]]
    OBVIOUS
  <2>2. \A n \in 0 .. N : n # 0 => n \in 1 .. N
    OBVIOUS
  <2> QED  BY <1>4, <1>5, <2>1, <2>2
<1> DEFINE rehash == CHOOSE r : Is(r)
<1>8. Is(rehash)
  <2> HIDE DEF Is
  <2> QED  BY <1>7
<1>9. Rehash(t, c) = rehash[mask + 1]
  BY DEF Rehash
<1> HIDE DEF rehash, Is
<1> QED  BY <1>6, <1>8, <1>9

\* What holds of the new table g when the first n entries of t have been moved.
MovedUpto(t, n, g, c) ==
    LET moved == {i \in Allocated(t) : i < n}
    IN  /\ g \in Tables(c)
        /\ InUse(g) = Allocated(g)
        /\ Cardinality(Allocated(g)) <= Cardinality(moved)
        /\ Once(t) => /\ Once(g) /\ Reached(g, c)
                      /\ Contents(g) = {t[i] : i \in moved}
                      /\ Cardinality(Allocated(g)) = Cardinality(moved)

\* Moving one entry more keeps it.
LEMMA MovedOne ==
    ASSUME NEW c \in CAPACITIES, NEW d \in CAPACITIES, NEW t \in Tables(d),
           Cardinality(Allocated(t)) < c,
           NEW n \in 0 .. d - 1, NEW g, MovedUpto(t, n, g, c)
    PROVE  MovedUpto(t, n + 1, Moved(t[n], g, c), c)
<1> DEFINE moved == {i \in Allocated(t) : i < n}
           e == t[n]
<1>1. c \in Nat /\ d \in Nat /\ DOMAIN t = 0 .. d - 1 /\ e \in ENTRY /\ n \in DOMAIN t
  <2>1. d \in Nat /\ c \in Nat /\ DOMAIN t = 0 .. d - 1
    BY HashAssumption DEF Tables
  <2> QED  BY <2>1 DEF Tables
<1>2. /\ g \in Tables(c)
      /\ InUse(g) = Allocated(g)
      /\ Cardinality(Allocated(g)) <= Cardinality(moved)
      /\ Once(t) => /\ Once(g) /\ Reached(g, c)
                    /\ Contents(g) = {t[i] : i \in moved}
                    /\ Cardinality(Allocated(g)) = Cardinality(moved)
  BY DEF MovedUpto
<1>3. CASE e.status # "allocated"
  <2>1. {i \in Allocated(t) : i < n + 1} = moved
    BY <1>1, <1>3 DEF Allocated
  <2>2. Moved(e, g, c) = g
    BY <1>3 DEF Moved
  <2> HIDE DEF moved, e
  <2> QED  BY <1>2, <2>1, <2>2 DEF MovedUpto, e
<1>4. CASE e.status = "allocated"
  <2> DEFINE i == lookupForInsert(g, e.key, c)
             u == Put(g, e, c)
  <2>1. Moved(e, g, c) = u
    BY <1>4 DEF Moved, Put
  <2>2. {j \in Allocated(t) : j < n + 1} = moved \cup {n} /\ n \notin moved
    BY <1>1, <1>4 DEF Allocated
  <2>3. moved \cup {n} \subseteq Allocated(t) /\ Allocated(t) \subseteq DOMAIN t
        /\ Allocated(g) \subseteq DOMAIN g
    BY <2>2 DEF Allocated
  <2> HIDE DEF moved, e, i, u
  <2>4. /\ Cardinality(moved \cup {n}) = Cardinality(moved) + 1
        /\ Cardinality(moved \cup {n}) <= Cardinality(Allocated(t))
        /\ Cardinality(moved) \in Nat
    <3>1. IsFiniteSet(Allocated(t)) /\ Cardinality(Allocated(t)) \in Nat
      BY <2>3, Finite
    <3>2. IsFiniteSet(moved) /\ Cardinality(moved) \in Nat
      BY <2>3, <3>1, FS_Subset, FS_CardinalityType
    <3>3. Cardinality(moved \cup {n}) = Cardinality(moved) + 1
      BY <2>2, <3>2, FS_AddElement
    <3> QED  BY <2>3, <3>1, <3>2, <3>3, FS_Subset
  <2>5. /\ IsFiniteSet(Allocated(g)) /\ Cardinality(Allocated(g)) \in Nat
        /\ Cardinality(InUse(g)) < c
    <3>1. IsFiniteSet(Allocated(g)) /\ Cardinality(Allocated(g)) \in 0 .. c
      BY <1>2, <2>3, Finite
    <3>2. Cardinality(Allocated(t)) \in Nat
      <4>1. Cardinality(Allocated(t)) \in 0 .. d
        BY <2>3, Finite
      <4> QED  BY <4>1, <1>1
    <3> QED  BY <1>1, <1>2, <2>4, <3>1, <3>2
  <2>6. \E j \in 0 .. c - 1 : g[j].status # "allocated"
    <3>1. PICK j \in 0 .. c - 1 : g[j].status = "free"
      BY <1>2, <2>5, RoomLeft
    <3> QED  BY <3>1
  <2>7. /\ u \in Tables(c) /\ i \in 0 .. c - 1
        /\ Allocated(u) = Allocated(g) \cup {i}
        /\ InUse(u) = InUse(g) \cup {i}
    BY <1>1, <1>2, <1>4, <2>6, PutCounts DEF u, i
  <2>8. /\ Cardinality(Allocated(u)) <= Cardinality(moved) + 1
        /\ i \notin Allocated(g)
           => Cardinality(Allocated(u)) = Cardinality(Allocated(g)) + 1
    <3>1. Cardinality(Allocated(g) \cup {i}) =
             IF i \in Allocated(g) THEN Cardinality(Allocated(g))
             ELSE Cardinality(Allocated(g)) + 1
      BY <2>5, FS_AddElement
    <3> QED  BY <1>2, <2>4, <2>5, <2>7, <3>1
  <2>9. ASSUME Once(t)
        PROVE  /\ Once(u) /\ Reached(u, c)
               /\ Contents(u) = {t[j] : j \in moved \cup {n}}
               /\ Cardinality(Allocated(u)) = Cardinality(moved) + 1
    <3>1. Fresh(g, e.key)
      <4> SUFFICES ASSUME NEW j \in Allocated(g), g[j].key = e.key
                   PROVE  FALSE
        BY DEF Fresh
      <4>1. g[j] \in {t[k] : k \in moved}
        BY <1>2, <2>9 DEF Contents
      <4>2. PICK k \in moved : g[j] = t[k]
        BY <4>1
      <4>3. k = n
        <5>1. k \in Allocated(t) /\ n \in Allocated(t) /\ t[k].key = t[n].key
          BY <2>3, <4>2 DEF e
        <5> QED  BY <5>1, <2>9 DEF Once
      <4> QED  BY <2>2, <4>3
    <3>2. /\ g[i].status # "allocated"
          /\ Once(u) /\ Reached(u, c)
          /\ Contents(u) = Contents(g) \cup {e}
      BY <1>1, <1>2, <1>4, <2>6, <2>9, <3>1, PutKeeps DEF u, i
    <3>3. i \notin Allocated(g)
      BY <3>2 DEF Allocated
    <3>4. Contents(u) = {t[j] : j \in moved \cup {n}}
      BY <1>2, <2>9, <3>2 DEF e
    <3> QED  BY <1>2, <2>8, <2>9, <3>2, <3>3, <3>4
  <2>10. Moved(t[n], g, c) = u
    BY <2>1 DEF e
  <2> QED  BY <1>2, <2>2, <2>4, <2>7, <2>8, <2>9, <2>10 DEF MovedUpto
<1> QED  BY <1>3, <1>4

\* What a resize does: it keeps the contents and drops the tombstones.
LEMMA Rehashed ==
    ASSUME NEW c \in CAPACITIES, mask \in Nat, mask + 1 \in CAPACITIES,
           NEW t \in Tables(mask + 1), Cardinality(Allocated(t)) < c
    PROVE  LET r == Rehash(t, c)
           IN  /\ r \in Tables(c)
               /\ InUse(r) = Allocated(r)
               /\ Cardinality(Allocated(r)) <= Cardinality(Allocated(t))
               /\ Once(t) => /\ Once(r) /\ Reached(r, c)
                             /\ Contents(r) = Contents(t)
                             /\ Cardinality(Allocated(r)) = Cardinality(Allocated(t))
<1> DEFINE d == mask + 1
<1>1. t \in [0 .. mask -> ENTRY]
  BY DEF Tables
<1>2. PICK f \in [0 .. d -> Tables(c)] :
              /\ f[0] = Empty(c) /\ Rehash(t, c) = f[d]
              /\ \A n \in 1 .. d : f[n] = Moved(t[n - 1], f[n - 1], c)
  BY <1>1, RehashSteps
<1>3. d \in Nat /\ DOMAIN t = 0 .. d - 1 /\ c \in Nat /\ d \in CAPACITIES
  BY Finite
<1> HIDE DEF d
<1> DEFINE Done == {n \in Nat : n <= d => MovedUpto(t, n, f[n], c)}
<1>4. 0 \in Done
  <2>1. f[0] \in Tables(c) /\ f[0] = [i \in 0 .. c - 1 |-> FREE]
    <3>1. 0 \in 0 .. d
      BY <1>3
    <3> QED  BY <1>2, <3>1 DEF Empty
  <2>2. Allocated(f[0]) = {} /\ InUse(f[0]) = {}
    BY <2>1, Entries DEF Allocated, InUse
  <2> DEFINE g == f[0]
             moved == {i \in Allocated(t) : i < 0}
  <2>3. moved = {} /\ {t[i] : i \in moved} = {}
    BY <1>3 DEF Allocated
  <2>4. Once(g) /\ Reached(g, c) /\ Contents(g) = {}
    BY <2>2 DEF Once, Reached, Contents
  <2>5. Cardinality(Allocated(g)) = 0 /\ Cardinality(moved) = 0
    BY <2>2, <2>3, FS_EmptySet
  <2>6. /\ g \in Tables(c) /\ InUse(g) = Allocated(g)
        /\ Cardinality(Allocated(g)) <= Cardinality(moved)
        /\ Contents(g) = {t[i] : i \in moved}
        /\ Cardinality(Allocated(g)) = Cardinality(moved)
    <3>1. Cardinality(Allocated(g)) <= Cardinality(moved)
      BY <2>5
    <3> QED  BY <2>1, <2>2, <2>3, <2>4, <2>5, <3>1, Zenon
  <2>7. MovedUpto(t, 0, g, c)
    <3> HIDE DEF g
    <3> QED  BY <2>4, <2>6, Zenon DEF MovedUpto
  <2> QED  BY <2>7
<1>5. ASSUME NEW n \in Nat, n \in Done
      PROVE  n + 1 \in Done
  <2> SUFFICES ASSUME n + 1 <= d
               PROVE  MovedUpto(t, n + 1, f[n + 1], c)
    OBVIOUS
  <2>1. n \in 0 .. d - 1 /\ n + 1 \in 1 .. d /\ (n + 1) - 1 = n
    BY <1>3
  <2>2. MovedUpto(t, n, f[n], c)
    BY <1>5, <1>3
  <2>3. f[n + 1] = Moved(t[n], f[n], c)
    BY <1>2, <2>1
  <2>4. t \in Tables(d)
    BY DEF d
  <2> QED  BY <1>3, <2>1, <2>2, <2>3, <2>4, MovedOne
<1> HIDE DEF Done
<1>6. Nat \subseteq Done
  BY <1>4, <1>5, Induction
<1>7. MovedUpto(t, d, f[d], c)
  BY <1>3, <1>6 DEF Done
<1>8. {i \in Allocated(t) : i < d} = Allocated(t)
  BY <1>3 DEF Allocated
<1> QED  BY <1>2, <1>7, <1>8 DEF MovedUpto, Contents

\* What the counters say of a table with entries t, whatever is registered twice.
Counted(t, c, u, d) ==
    /\ c \in CAPACITIES /\ t \in Tables(c)
    /\ u \in Nat /\ u < c
    /\ Cardinality(InUse(t)) <= u
    /\ d = Cardinality(Tombstones(t))

\* What the probes rely on when each key is registered once.
Probed(t, c, u) ==
    /\ Cardinality(InUse(t)) = u
    /\ Once(t) /\ Reached(t, c)

\* The smallest table has 4 entries: the loads of 25% and 75% are not 0.
LEMMA Sizes ==
    ASSUME NEW c \in CAPACITIES
    PROVE  /\ c \in Nat /\ c >= 4
           /\ c \div 4 \in Nat /\ c \div 4 >= 1
           /\ (c - 1) \div 4 \in Nat
           /\ 3 <= (c - 1) - (c - 1) \div 4 /\ (c - 1) - (c - 1) \div 4 <= c - 1
BY HashAssumption

\* resize finds the capacity it looks for, where calloc does.
LEMMA Capacity ==
    ASSUME NEW need \in Nat, Allocatable(need)
    PROVE  NewCapacity(need) \in CAPACITIES /\ need <= NewCapacity(need)
<1> DEFINE fit == {c \in CAPACITIES : need <= c}
<1>1. fit # {} /\ fit \in SUBSET Nat
  BY HashAssumption DEF Allocatable
<1>2. PICK c \in fit : \A d \in fit : c <= d
  <2> HIDE DEF fit
  <2> QED  BY <1>1, LeastNatural
<1>3. \E b \in CAPACITIES : need <= b /\ \A d \in CAPACITIES : need <= d => b <= d
  BY <1>2
<1> QED  BY <1>3 DEF NewCapacity

\* Entries in use are allocated or tombstones.
LEMMA Parts ==
    ASSUME NEW t
    PROVE  /\ Allocated(t) \subseteq InUse(t) /\ Tombstones(t) \subseteq InUse(t)
           /\ Allocated(t) \cap Tombstones(t) = {}
           /\ InUse(t) \subseteq DOMAIN t
BY DEF Allocated, InUse, Tombstones

\* So are they counted.
LEMMA PartsCounted ==
    ASSUME NEW c \in CAPACITIES, NEW t \in Tables(c)
    PROVE  /\ Cardinality(Allocated(t)) \in Nat /\ Cardinality(Tombstones(t)) \in Nat
           /\ Cardinality(InUse(t)) \in Nat
           /\ InUse(t) = Allocated(t) \cup Tombstones(t)
           /\ Cardinality(InUse(t)) = Cardinality(Allocated(t)) + Cardinality(Tombstones(t))
<1>1. c \in Nat /\ DOMAIN t = 0 .. c - 1 /\ \A i \in DOMAIN t : t[i] \in ENTRY
  BY Finite DEF Tables
<1>2. InUse(t) = Allocated(t) \cup Tombstones(t)
  BY <1>1, Entries DEF Allocated, InUse, Tombstones
<1>3. /\ IsFiniteSet(Allocated(t)) /\ IsFiniteSet(Tombstones(t))
      /\ Cardinality(Allocated(t)) \in Nat /\ Cardinality(Tombstones(t)) \in Nat
      /\ Cardinality(InUse(t)) \in Nat
  <2>1. Allocated(t) \subseteq DOMAIN t /\ Tombstones(t) \subseteq DOMAIN t
        /\ InUse(t) \subseteq DOMAIN t
    BY Parts
  <2> QED  BY <1>1, <2>1, Finite, FS_CardinalityType
<1>4. Cardinality(Allocated(t) \cap Tombstones(t)) = 0
  BY Parts, FS_EmptySet
<1>5. Cardinality(Allocated(t) \cup Tombstones(t)) =
         Cardinality(Allocated(t)) + Cardinality(Tombstones(t))
            - Cardinality(Allocated(t) \cap Tombstones(t))
  BY <1>3, FS_Union, Zenon
<1> QED  BY <1>2, <1>3, <1>4, <1>5

\* Dropping the tombstones, where there are enough.
LEMMA Cleared ==
    ASSUME NEW t, NEW tombstones,
           Counted(t, mask + 1, used, tombstones), mask \in Nat,
           ClearTombstones(t, tombstones)
    PROVE  /\ Counted(entries', mask' + 1, used', deleted')
           /\ mask' \in Nat
           /\ Probed(t, mask + 1, used) =>
                 /\ Probed(entries', mask' + 1, used')
                 /\ Contents(entries') = Contents(t)
<1> DEFINE c == mask + 1
<1>1. /\ c \in CAPACITIES /\ t \in Tables(c) /\ used \in Nat /\ used < c
      /\ Cardinality(InUse(t)) <= used /\ tombstones = Cardinality(Tombstones(t))
  BY DEF Counted
<1>2. c \in Nat /\ c \div 4 \in Nat /\ c \div 4 >= 1
  BY <1>1, Sizes
<1>3. /\ Cardinality(Allocated(t)) \in Nat /\ Cardinality(Tombstones(t)) \in Nat
      /\ Cardinality(InUse(t)) = Cardinality(Allocated(t)) + Cardinality(Tombstones(t))
  BY <1>1, PartsCounted
<1>4. CASE tombstones >= c \div 4
  <2> DEFINE d == NewCapacity(used)
             r == Rehash(t, d)
  <2>1. entries' = r /\ mask' = d - 1 /\ used' = Cardinality(Allocated(t)) /\ deleted' = 0
    BY <1>4 DEF ClearTombstones
  <2>2. d \in CAPACITIES /\ used <= d
    <3>1. Allocatable(used)
      BY <1>1, <1>2 DEF Allocatable
    <3> QED  BY <1>1, <3>1, Capacity
  <2>3. Cardinality(Allocated(t)) < used
    BY <1>1, <1>2, <1>3, <1>4
  <2>4. d \in Nat /\ Cardinality(Allocated(t)) < d
    <3>1. d \in Nat
      BY <2>2, Sizes
    <3> HIDE DEF d
    <3> QED  BY <1>1, <1>3, <2>2, <2>3, <3>1
  <2> HIDE DEF d
  <2>5. /\ r \in Tables(d)
        /\ InUse(r) = Allocated(r)
        /\ Cardinality(Allocated(r)) <= Cardinality(Allocated(t))
        /\ Once(t) => /\ Once(r) /\ Reached(r, d)
                      /\ Contents(r) = Contents(t)
                      /\ Cardinality(Allocated(r)) = Cardinality(Allocated(t))
    BY <1>1, <2>2, <2>4, Rehashed
  <2> HIDE DEF r
  <2>6. mask' \in Nat /\ mask' + 1 = d
    BY <2>1, <2>2, Sizes
  <2>7. Tombstones(r) = {}
    <3>1. Tombstones(r) \subseteq Allocated(r) /\ Allocated(r) \cap Tombstones(r) = {}
      BY <2>5, Parts
    <3> QED  BY <3>1
  <2>8. Counted(r, d, used', deleted')
    <3>1. deleted' = Cardinality(Tombstones(r))
      BY <2>1, <2>7, FS_EmptySet
    <3> QED  BY <1>3, <2>1, <2>2, <2>4, <2>5, <3>1 DEF Counted
  <2>9. Probed(t, c, used) => Probed(r, d, used') /\ Contents(r) = Contents(t)
    BY <2>1, <2>5 DEF Probed
  <2> QED  BY <2>1, <2>6, <2>8, <2>9
<1>5. CASE ~(tombstones >= c \div 4)
  <2>1. entries' = t /\ deleted' = tombstones /\ mask' = mask /\ used' = used
    BY <1>5 DEF ClearTombstones
  <2> QED  BY <2>1
<1> QED  BY <1>4, <1>5

Bury(t, i) == [t EXCEPT ![i].status = "deleted"]

\* Making a tombstone keeps what the probes rely on: they go over it.
LEMMA Buries ==
    ASSUME NEW c \in CAPACITIES, NEW t \in Tables(c), NEW i \in Allocated(t)
    PROVE  LET u == Bury(t, i)
           IN  /\ u \in Tables(c)
               /\ InUse(u) = InUse(t)
               /\ Tombstones(u) = Tombstones(t) \cup {i}
               /\ Cardinality(Tombstones(u)) = Cardinality(Tombstones(t)) + 1
               /\ Allocated(u) = Allocated(t) \ {i}
               /\ \A j \in Allocated(u) : u[j] = t[j]
               /\ Once(t) => Once(u) /\ Contents(u) = Contents(t) \ {t[i]}
               /\ Reached(t, c) => Reached(u, c)
<1> DEFINE u == Bury(t, i)
           e == [t[i] EXCEPT !.status = "deleted"]
<1>1. /\ c \in Nat /\ DOMAIN t = 0 .. c - 1 /\ \A j \in DOMAIN t : t[j] \in ENTRY
      /\ i \in DOMAIN t /\ t[i].status = "allocated" /\ t[i] \in ENTRY
  BY Finite DEF Tables, Allocated
<1>2. e \in ENTRY /\ e.status = "deleted" /\ e.key = t[i].key
  BY <1>1 DEF ENTRY, FREE
<1>3. u = [t EXCEPT ![i] = e]
  BY DEF Bury
<1> HIDE DEF u, e
<1>4. u \in Tables(c) /\ DOMAIN u = DOMAIN t
      /\ \A j \in DOMAIN t : u[j] = IF j = i THEN e ELSE t[j]
  BY <1>1, <1>2, <1>3 DEF Tables
<1>5. InUse(u) = InUse(t)
  BY <1>1, <1>2, <1>4 DEF InUse
<1>6. Tombstones(u) = Tombstones(t) \cup {i} /\ i \notin Tombstones(t)
  BY <1>1, <1>2, <1>4 DEF Tombstones
<1>7. Cardinality(Tombstones(u)) = Cardinality(Tombstones(t)) + 1
  <2>1. IsFiniteSet(Tombstones(t))
    <3>1. Tombstones(t) \subseteq DOMAIN t
      BY Parts
    <3> QED  BY <3>1, Finite
  <2> QED  BY <1>6, <2>1, FS_AddElement
<1>8. Allocated(u) = Allocated(t) \ {i} /\ \A j \in Allocated(u) : u[j] = t[j]
  BY <1>1, <1>2, <1>4 DEF Allocated
<1>9. ASSUME Once(t)
      PROVE  Once(u) /\ Contents(u) = Contents(t) \ {t[i]}
  <2>1. Once(u)
    BY <1>8, <1>9 DEF Once
  <2>2. \A j \in Allocated(t) : j # i => t[j] # t[i]
    BY <1>9 DEF Once
  <2> QED  BY <1>8, <2>1, <2>2 DEF Contents
<1>10. ASSUME Reached(t, c)
       PROVE  Reached(u, c)
  <2> SUFFICES ASSUME NEW j \in Allocated(u)
               PROVE  \E p \in 0 .. c - 1 :
                         /\ Probe(u[j].key, p, c) = j
                         /\ \A m \in 0 .. p - 1 :
                               LET f == u[Probe(u[j].key, m, c)]
                               IN  f.status # "free" /\ f.key # u[j].key
    BY DEF Reached
  <2> DEFINE k == t[j].key
  <2>1. j \in Allocated(t) /\ u[j].key = k /\ k \in KEYS
    <3>1. j \in Allocated(t) /\ u[j] = t[j]
      BY <1>8
    <3>2. t[j] \in ENTRY /\ t[j].status # "free"
      BY <1>1, <3>1 DEF Allocated
    <3> QED  BY <3>1, <3>2, Entries
  <2>2. PICK p \in 0 .. c - 1 :
                  /\ Probe(k, p, c) = j
                  /\ \A m \in 0 .. p - 1 :
                        LET f == t[Probe(k, m, c)]
                        IN  f.status # "free" /\ f.key # k
    BY <1>10, <2>1 DEF Reached
  <2> HIDE DEF k
  <2>3. ASSUME NEW m \in 0 .. p - 1
        PROVE  LET f == u[Probe(k, m, c)]
               IN  f.status # "free" /\ f.key # k
    <3>1. m \in Nat
      OBVIOUS
    <3>2. Probe(k, m, c) \in DOMAIN t
      BY <1>1, <2>1, <3>1, ProbesCover
    <3>3. LET f == t[Probe(k, m, c)]
          IN  f.status # "free" /\ f.key # k
      BY <2>2
    <3> QED  BY <1>2, <1>4, <3>2, <3>3
  <2> QED  BY <2>1, <2>2, <2>3
<1> QED  BY <1>4, <1>5, <1>6, <1>7, <1>8, <1>9, <1>10 DEF u
-----------------------------------------------------------------------------
(* The invariants                                                          *)

\* The counters leave a free entry, whatever is registered twice.
Bounds == TypeOK /\ Counted(entries, mask + 1, used, deleted)

\* Holds when each object is registered once.
RegisteredOnce == REREGISTERED = {}

IInv == /\ Bounds
        /\ Probed(entries, mask + 1, used)
        /\ entry # NULL =>
              \A i \in Allocated(entries) : i < entry => entries[i].key \notin doomed

\* What the bounds say of the table.
LEMMA Current ==
    ASSUME Bounds
    PROVE  /\ mask \in Nat /\ mask + 1 \in CAPACITIES /\ entries \in Tables(mask + 1)
           /\ DOMAIN entries = 0 .. mask
           /\ \A i \in DOMAIN entries : entries[i] \in ENTRY
           /\ \A i \in Allocated(entries) :
                 /\ i \in 0 .. mask
                 /\ entries[i].key \in KEYS /\ entries[i].value \in VALUES
           /\ Present \subseteq KEYS
           /\ \E i \in 0 .. mask : entries[i].status = "free"
<1>1. mask + 1 \in CAPACITIES /\ entries \in Tables(mask + 1)
      /\ DOMAIN entries = 0 .. mask /\ mask + 1 \in Nat /\ mask + 1 >= 4
  BY Sizes DEF Bounds, Counted, TypeOK
<1>2. mask \in Nat
  BY DEF Bounds, TypeOK
<1>3. \A i \in DOMAIN entries : entries[i] \in ENTRY
  BY DEF Bounds, TypeOK
<1>4. \A i \in Allocated(entries) :
                 /\ i \in 0 .. mask
                 /\ entries[i].key \in KEYS /\ entries[i].value \in VALUES
  BY <1>1, <1>3, Entries DEF Allocated
<1>5. \E i \in 0 .. (mask + 1) - 1 : entries[i].status = "free"
  <2>1. Cardinality(InUse(entries)) < mask + 1
    <3>1. Cardinality(InUse(entries)) \in Nat
      BY <1>1, PartsCounted
    <3> QED  BY <1>2, <3>1 DEF Bounds, Counted
  <2> QED  BY <1>1, <2>1, RoomLeft
<1>6. (mask + 1) - 1 = mask
  BY <1>2
<1> QED  BY <1>1, <1>2, <1>3, <1>4, <1>5, <1>6 DEF Present

\* lookupForInsert ends.
LEMMA InsertPlace ==
    ASSUME Bounds, NEW k \in KEYS
    PROVE  LET i == lookupForInsert(entries, k, mask + 1)
           IN  /\ i \in 0 .. mask /\ i # NULL
               /\ entries[i].status # "allocated" \/ entries[i].key = k
<1>1. /\ mask \in Nat /\ mask + 1 \in CAPACITIES /\ entries \in Tables(mask + 1)
      /\ (mask + 1) - 1 = mask
      /\ \E i \in 0 .. (mask + 1) - 1 : entries[i].status # "allocated"
  BY Current
<1>2. PICK n \in 0 .. (mask + 1) - 1 :
              LET i == Probe(k, n, mask + 1)
              IN  /\ lookupForInsert(entries, k, mask + 1) = i /\ i \in 0 .. (mask + 1) - 1
                  /\ entries[i].status # "allocated" \/ entries[i].key = k
  BY <1>1, LookupForInsert
<1>3. lookupForInsert(entries, k, mask + 1) \in Nat
  BY <1>1, <1>2
<1> QED  BY <1>1, <1>2, <1>3, HashAssumption

\* lookup ends.
LEMMA SearchPlace ==
    ASSUME Bounds, NEW k \in KEYS
    PROVE  LET i == lookup(k)
           IN  /\ i \in 0 .. mask /\ i # NULL
               /\ entries[i].status = "free" \/ entries[i].key = k
<1> DEFINE stops == {i \in DOMAIN entries : \/ entries[i].status = "free"
                                            \/ entries[i].key = k}
<1>1. /\ mask \in Nat /\ mask + 1 \in CAPACITIES
      /\ (mask + 1) - 1 = mask
      /\ \E i \in 0 .. (mask + 1) - 1 : i \in stops
  BY Current
<1>2. lookup(k) = FirstOf(k, stops, mask + 1)
  BY Zenon DEF lookup
<1>3. lookup(k) \in stops
  <2> HIDE DEF stops
  <2> QED  BY <1>1, <1>2, First
<1>4. lookup(k) \in Nat
  BY <1>1, <1>3, Current
<1> QED  BY <1>3, <1>4, Current, HashAssumption

\* The probe comes to the entry of a key that is stored.
LEMMA SearchFinds ==
    ASSUME Bounds, Once(entries), Reached(entries, mask + 1),
           NEW j \in Allocated(entries)
    PROVE  lookup(entries[j].key) = j
<1> DEFINE k == entries[j].key
           stops == {i \in DOMAIN entries : \/ entries[i].status = "free"
                                            \/ entries[i].key = k}
           c == mask + 1
<1>1. c \in CAPACITIES /\ k \in KEYS /\ j \in DOMAIN entries /\ DOMAIN entries = 0 .. c - 1
  BY Current
<1>2. lookup(k) = FirstOf(k, stops, c)
  BY Zenon DEF lookup
<1>3. PICK n \in 0 .. c - 1 :
              /\ Probe(k, n, c) = j
              /\ \A m \in 0 .. n - 1 :
                    LET e == entries[Probe(k, m, c)]
                    IN  e.status # "free" /\ e.key # k
  BY DEF Reached
<1>4. Probe(k, n, c) \in stops
  BY <1>1, <1>3
<1>5. \A m \in 0 .. n - 1 : Probe(k, m, c) \notin stops
  BY <1>3
<1> HIDE DEF k, stops, c
<1>6. lookup(k) = j
  BY <1>1, <1>2, <1>3, <1>4, <1>5, FirstIs
<1> QED  BY <1>6 DEF k

\* Inserting into a table that had to be resized.
LEMMA Resizing ==
    ASSUME Bounds, NEW k \in KEYS, NEW v \in VALUES,
           Overloaded, Allocatable(used * 2)
    PROVE  LET d == NewCapacity(used * 2)
               r == Rehash(entries, d)
               u == Put(r, Occupied(k, v), d)
               n == Cardinality(Allocated(entries)) + 1
           IN  /\ Counted(u, d, n, 0)
               /\ Probed(entries, mask + 1, used) /\ k \notin Present =>
                     /\ Probed(u, d, n)
                     /\ Contents(u) = Contents(entries) \cup {Occupied(k, v)}
<1> DEFINE d == NewCapacity(used * 2)
           r == Rehash(entries, d)
           e == Occupied(k, v)
           u == Put(r, e, d)
           a == Cardinality(Allocated(entries))
           i == lookupForInsert(r, e.key, d)
<1>1. /\ mask \in Nat /\ mask + 1 \in CAPACITIES /\ entries \in Tables(mask + 1)
      /\ used \in Nat /\ used < mask + 1 /\ Cardinality(InUse(entries)) <= used
  BY Current DEF Bounds, Counted
<1>2. used >= 3
  <2>1. \A m \in Nat : m = mask + 1 => m - 1 = mask
    BY <1>1
  <2>2. 3 <= mask - mask \div 4 /\ mask \div 4 \in Nat
    BY <1>1, Sizes, <2>1
  <2> QED  BY <1>1, <2>2 DEF Overloaded
<1>3. a \in Nat /\ a <= used
  <2> HIDE DEF a
  <2>1. a \in Nat /\ Cardinality(Tombstones(entries)) \in Nat
        /\ Cardinality(InUse(entries)) = a + Cardinality(Tombstones(entries))
    BY <1>1, PartsCounted DEF a
  <2> QED  BY <1>1, <2>1
<1>4. d \in CAPACITIES /\ used * 2 <= d /\ d \in Nat
  <2>1. used * 2 \in Nat
    BY <1>1
  <2>2. d \in CAPACITIES /\ used * 2 <= d
    BY <2>1, Capacity
  <2> HIDE DEF d
  <2> QED  BY <2>2, Sizes
<1> HIDE DEF d
<1>5. a < d /\ a + 1 < d
  BY <1>1, <1>2, <1>3, <1>4
<1>6. /\ r \in Tables(d)
      /\ InUse(r) = Allocated(r)
      /\ Cardinality(Allocated(r)) <= a
      /\ Once(entries) => /\ Once(r) /\ Reached(r, d)
                          /\ Contents(r) = Contents(entries)
                          /\ Cardinality(Allocated(r)) = a
  BY <1>1, <1>4, <1>5, Rehashed
<1> HIDE DEF r, a
<1>7. Cardinality(Allocated(r)) \in Nat /\ Cardinality(InUse(r)) < d
  <2>1. Cardinality(Allocated(r)) \in Nat
    BY <1>4, <1>6, PartsCounted
  <2> QED  BY <1>3, <1>4, <1>5, <1>6, <2>1
<1>8. \E j \in 0 .. d - 1 : r[j].status # "allocated"
  <2>1. PICK j \in 0 .. d - 1 : r[j].status = "free"
    BY <1>4, <1>6, <1>7, RoomLeft
  <2> QED  BY <2>1
<1>9. e \in ENTRY /\ e.status = "allocated" /\ e.key = k /\ k \in KEYS
  BY Entries
<1> HIDE DEF e, i, u
<1>10. /\ i \in 0 .. d - 1 /\ u \in Tables(d)
       /\ InUse(u) = InUse(r) \cup {i}
       /\ Tombstones(u) = Tombstones(r) \ {i}
  BY <1>4, <1>6, <1>8, <1>9, PutCounts DEF i, u
<1>11. Tombstones(u) = {}
  <2>1. Tombstones(r) \subseteq Allocated(r) /\ Allocated(r) \cap Tombstones(r) = {}
    BY <1>6, Parts
  <2> QED  BY <1>10, <2>1
<1>12. Cardinality(InUse(r) \cup {i}) =
          IF i \in InUse(r) THEN Cardinality(InUse(r)) ELSE Cardinality(InUse(r)) + 1
  <2>1. IsFiniteSet(InUse(r))
    BY <1>4, <1>6, Finite, Parts
  <2> QED  BY <2>1, FS_AddElement
<1>13. Counted(u, d, a + 1, 0)
  <2>1. Cardinality(Tombstones(u)) = 0
    BY <1>11, FS_EmptySet
  <2>2. Cardinality(InUse(u)) <= a + 1
    BY <1>3, <1>6, <1>7, <1>10, <1>12
  <2> QED  BY <1>3, <1>4, <1>5, <1>10, <2>1, <2>2 DEF Counted
<1>14. ASSUME Probed(entries, mask + 1, used), k \notin Present
       PROVE  Probed(u, d, a + 1) /\ Contents(u) = Contents(entries) \cup {e}
  <2>1. Once(entries)
    BY <1>14 DEF Probed
  <2>2. Fresh(r, e.key)
    <3> SUFFICES ASSUME NEW j \in Allocated(r), r[j].key = k
                 PROVE  FALSE
      BY <1>9 DEF Fresh
    <3>1. r[j] \in Contents(entries)
      BY <1>6, <2>1 DEF Contents
    <3> QED  BY <1>14, <3>1 DEF Contents, Present
  <2>3. /\ r[i].status # "allocated"
        /\ Once(u) /\ Reached(u, d)
        /\ Contents(u) = Contents(r) \cup {e}
    BY <1>4, <1>6, <1>8, <1>9, <2>1, <2>2, PutKeeps DEF i, u
  <2>4. i \notin InUse(r)
    BY <1>6, <2>3 DEF Allocated
  <2>5. Cardinality(InUse(u)) = a + 1
    BY <1>6, <1>10, <1>12, <2>1, <2>4
  <2> QED  BY <1>6, <2>1, <2>3, <2>5 DEF Probed
<1> QED  BY <1>13, <1>14 DEF a, d, r, e, u
-----------------------------------------------------------------------------
(* The operations                                                          *)

\* Each operation keeps the bounds, and does to the contents what is asked of
\* it when the probes are sound.
LEMMA InsertFreeEffect ==
    ASSUME Bounds, NEW k \in KEYS, NEW v \in VALUES, InsertFree(k, v)
    PROVE  /\ mask' \in Nat
           /\ Counted(entries', mask' + 1, used', deleted')
           /\ Probed(entries, mask + 1, used) /\ k \notin Present =>
                 /\ Probed(entries', mask' + 1, used')
                 /\ Contents(entries') = Contents(entries) \cup {Occupied(k, v)}
<1> DEFINE i == lookupForInsert(entries, k, mask + 1)
           c == mask + 1
           e == Occupied(k, v)
<1>1. /\ mask \in Nat /\ c \in CAPACITIES /\ entries \in Tables(c)
      /\ used \in Nat /\ used < c /\ Cardinality(InUse(entries)) <= used
      /\ deleted = Cardinality(Tombstones(entries))
      /\ DOMAIN entries = 0 .. mask
  BY Current DEF Bounds, Counted
<1>2. i \in 0 .. mask /\ i # NULL /\ entries[i].status = "free"
  BY InsertPlace DEF InsertFree
<1>3. CASE Overloaded
  <2> DEFINE d == NewCapacity(used * 2)
             r == Rehash(entries, d)
             u == Put(r, e, d)
             n == Cardinality(Allocated(entries)) + 1
  <2>1. Allocatable(used * 2)
    BY <1>3 DEF InsertFree
  <2>2. entries' = u /\ mask' = d - 1 /\ used' = n /\ deleted' = 0
    <3>1. e.key = k
      BY Entries
    <3> QED  BY <1>3, <3>1 DEF InsertFree, Put
  <2>3. /\ Counted(u, d, n, 0)
        /\ Probed(entries, mask + 1, used) /\ k \notin Present =>
              /\ Probed(u, d, n)
              /\ Contents(u) = Contents(entries) \cup {e}
    BY <1>3, <2>1, Resizing
  <2> HIDE DEF u, n, d
  <2>4. d \in CAPACITIES
    BY <2>3 DEF Counted
  <2>5. mask' \in Nat /\ mask' + 1 = d
    BY <2>2, <2>4, Sizes
  <2> QED  BY <2>2, <2>3, <2>5
<1>4. CASE ~Overloaded
  <2> DEFINE u == Put(entries, e, c)
  <2>1. entries' = u /\ mask' = mask /\ used' = used + 1 /\ deleted' = deleted
    <3>1. e.key = k
      BY Entries
    <3> QED  BY <1>4, <3>1 DEF InsertFree, Put
  <2>2. /\ e \in ENTRY /\ e.status = "allocated" /\ e.key = k
        /\ \E j \in 0 .. c - 1 : entries[j].status # "allocated"
    <3>1. c - 1 = mask
      BY <1>1
    <3> QED  BY <1>2, <3>1, Entries
  <2> HIDE DEF e
  <2>3. /\ u \in Tables(c)
        /\ InUse(u) = InUse(entries) \cup {i}
        /\ Tombstones(u) = Tombstones(entries) \ {i}
    <3>1. i = lookupForInsert(entries, e.key, c)
      BY <2>2
    <3> HIDE DEF i, u, c
    <3> QED  BY <1>1, <2>2, <3>1, PutCounts DEF u
  <2>4. Tombstones(u) = Tombstones(entries) /\ i \notin InUse(entries)
    BY <1>2, <2>3 DEF Tombstones, InUse
  <2> HIDE DEF u, i
  <2>5. Cardinality(InUse(u)) = Cardinality(InUse(entries)) + 1
        /\ Cardinality(InUse(entries)) \in Nat
    <3>1. IsFiniteSet(InUse(entries)) /\ Cardinality(InUse(entries)) \in Nat
      BY <1>1, Finite, Parts, PartsCounted
    <3> QED  BY <2>3, <2>4, <3>1, FS_AddElement
  <2>6. used + 1 < c
    <3>1. c - 1 = mask /\ c \in Nat
      BY <1>1
    <3>2. mask \div 4 \in Nat /\ mask - mask \div 4 <= mask
      BY <1>1, <3>1, Sizes
    <3> QED  BY <1>1, <1>4, <3>2 DEF Overloaded
  <2>7. Counted(u, c, used + 1, deleted)
    <3>1. used + 1 \in Nat /\ Cardinality(InUse(u)) <= used + 1
      BY <1>1, <2>5
    <3>2. deleted = Cardinality(Tombstones(u))
      BY <1>1, <2>4
    <3> HIDE DEF c
    <3> QED  BY <1>1, <2>3, <2>6, <3>1, <3>2 DEF Counted
  <2>8. ASSUME Probed(entries, c, used), k \notin Present
        PROVE  Probed(u, c, used + 1) /\ Contents(u) = Contents(entries) \cup {e}
    <3>1. Fresh(entries, e.key)
      BY <2>2, <2>8 DEF Fresh, Present
    <3> QED  BY <1>1, <2>2, <2>5, <2>8, <3>1, PutKeeps DEF Probed, u
  <2> QED  BY <1>1, <2>1, <2>7, <2>8 DEF e
<1> QED  BY <1>3, <1>4

\* A tombstone that is used again is not counted twice.
LEMMA InsertDeletedEffect ==
    ASSUME Bounds, NEW k \in KEYS, NEW v \in VALUES, InsertDeleted(k, v)
    PROVE  /\ mask' = mask /\ used' = used
           /\ Counted(entries', mask + 1, used, deleted')
           /\ Probed(entries, mask + 1, used) /\ k \notin Present =>
                 /\ Probed(entries', mask + 1, used)
                 /\ Contents(entries') = Contents(entries) \cup {Occupied(k, v)}
<1> DEFINE i == lookupForInsert(entries, k, mask + 1)
           c == mask + 1
           e == Occupied(k, v)
           u == Put(entries, e, c)
<1>1. /\ mask \in Nat /\ c \in CAPACITIES /\ entries \in Tables(c)
      /\ used \in Nat /\ used < c /\ Cardinality(InUse(entries)) <= used
      /\ deleted = Cardinality(Tombstones(entries))
      /\ DOMAIN entries = 0 .. mask
  BY Current DEF Bounds, Counted
<1>2. i \in 0 .. mask /\ i # NULL /\ entries[i].status = "deleted"
  BY InsertPlace DEF InsertDeleted
<1>3. entries' = u /\ mask' = mask /\ used' = used /\ deleted' = deleted - 1
  <2>1. e.key = k
    BY Entries
  <2> HIDE DEF e
  <2> QED  BY <2>1 DEF InsertDeleted, Put, e
<1>4. /\ e \in ENTRY /\ e.status = "allocated" /\ e.key = k
      /\ \E j \in 0 .. c - 1 : entries[j].status # "allocated"
  <2>1. c - 1 = mask
    BY <1>1
  <2> QED  BY <1>2, <2>1, Entries
<1> HIDE DEF e
<1>5. /\ u \in Tables(c)
      /\ InUse(u) = InUse(entries) \cup {i}
      /\ Tombstones(u) = Tombstones(entries) \ {i}
  <2>1. i = lookupForInsert(entries, e.key, c)
    BY <1>4
  <2> HIDE DEF i, u, c
  <2> QED  BY <1>1, <1>4, <2>1, PutCounts DEF u
<1>6. InUse(u) = InUse(entries) /\ i \in Tombstones(entries)
  BY <1>1, <1>2, <1>5 DEF Tombstones, InUse
<1> HIDE DEF u, i
<1>7. Cardinality(Tombstones(u)) = Cardinality(Tombstones(entries)) - 1
  <2>1. IsFiniteSet(Tombstones(entries))
    <3>1. Tombstones(entries) \subseteq DOMAIN entries
      BY Parts
    <3> QED  BY <1>1, <3>1, Finite
  <2> QED  BY <1>5, <1>6, <2>1, FS_RemoveElement
<1>8. Counted(u, c, used, deleted - 1)
  BY <1>1, <1>5, <1>6, <1>7 DEF Counted
<1>9. ASSUME Probed(entries, c, used), k \notin Present
      PROVE  Probed(u, c, used) /\ Contents(u) = Contents(entries) \cup {e}
  <2>1. Fresh(entries, e.key)
    BY <1>4, <1>9 DEF Fresh, Present
  <2> QED  BY <1>1, <1>4, <1>6, <1>9, <2>1, PutKeeps DEF Probed, u
<1> QED  BY <1>3, <1>8, <1>9 DEF e

\* Only a key that is registered again is replaced.
LEMMA ReplaceEffect ==
    ASSUME Bounds, NEW k \in KEYS, NEW v \in VALUES, ReplaceValue(k, v)
    PROVE  /\ mask' = mask /\ used' = used /\ k \in Present
           /\ Counted(entries', mask + 1, used, deleted')
<1> DEFINE i == lookupForInsert(entries, k, mask + 1)
           c == mask + 1
           e == [entries[i] EXCEPT !.value = v]
<1>1. /\ mask \in Nat /\ c \in CAPACITIES /\ entries \in Tables(c)
      /\ used \in Nat /\ used < c /\ Cardinality(InUse(entries)) <= used
      /\ deleted = Cardinality(Tombstones(entries))
      /\ DOMAIN entries = 0 .. mask
  BY Current DEF Bounds, Counted
<1>2. i \in 0 .. mask /\ entries[i].status = "allocated" /\ entries[i].key = k
  BY InsertPlace DEF ReplaceValue
<1>3. entries' = [entries EXCEPT ![i].value = v]
      /\ mask' = mask /\ used' = used /\ deleted' = deleted
  BY DEF ReplaceValue
<1> HIDE DEF i
<1>4. e \in ENTRY /\ e.status = "allocated"
  <2>1. entries[i] \in ENTRY
    BY <1>1, <1>2, Current
  <2> QED  BY <1>2, <2>1 DEF ENTRY, FREE
<1>5. entries' = [entries EXCEPT ![i] = e]
  BY <1>3
<1> HIDE DEF e
<1>6. entries' \in Tables(c) /\ DOMAIN entries' = DOMAIN entries
      /\ \A j \in DOMAIN entries : entries'[j] = IF j = i THEN e ELSE entries[j]
  BY <1>1, <1>2, <1>4, <1>5 DEF Tables
<1>7. InUse(entries') = InUse(entries)
  BY <1>1, <1>2, <1>4, <1>6 DEF InUse
<1>8. Tombstones(entries') = Tombstones(entries)
  BY <1>1, <1>2, <1>4, <1>6 DEF Tombstones
<1>9. k \in Present
  BY <1>1, <1>2 DEF Present, Allocated
<1> QED  BY <1>1, <1>3, <1>6, <1>7, <1>8, <1>9 DEF Counted

LEMMA DeleteEffect ==
    ASSUME Bounds, NEW k \in KEYS, Hash_delete(k),
           entries[lookup(k)].status = "allocated"
    PROVE  /\ mask' \in Nat
           /\ Counted(entries', mask' + 1, used', deleted')
           /\ lookup(k) \in Allocated(entries) /\ entries[lookup(k)].key = k
           /\ Probed(entries, mask + 1, used) =>
                 /\ Probed(entries', mask' + 1, used')
                 /\ Contents(entries') = Contents(entries) \ {entries[lookup(k)]}
<1> DEFINE i == lookup(k)
           c == mask + 1
           u == Bury(entries, i)
<1>1. /\ mask \in Nat /\ c \in CAPACITIES /\ entries \in Tables(c)
      /\ used \in Nat /\ used < c /\ Cardinality(InUse(entries)) <= used
      /\ deleted = Cardinality(Tombstones(entries))
      /\ DOMAIN entries = 0 .. mask
  BY Current DEF Bounds, Counted
<1>2. i \in Allocated(entries) /\ entries[i].key = k
  BY <1>1, SearchPlace DEF Allocated
<1>3. ClearTombstones(u, deleted + 1)
  BY DEF Hash_delete, Buried, Bury
<1> HIDE DEF i
<1>4. /\ u \in Tables(c) /\ InUse(u) = InUse(entries)
      /\ Cardinality(Tombstones(u)) = Cardinality(Tombstones(entries)) + 1
      /\ Once(entries) => Once(u) /\ Contents(u) = Contents(entries) \ {entries[i]}
      /\ Reached(entries, c) => Reached(u, c)
  BY <1>1, <1>2, Buries
<1> HIDE DEF u
<1>5. Counted(u, c, used, deleted + 1)
  BY <1>1, <1>4 DEF Counted
<1>6. Probed(entries, c, used) => Probed(u, c, used)
                                  /\ Contents(u) = Contents(entries) \ {entries[i]}
  BY <1>4 DEF Probed
<1>7. /\ Counted(entries', mask' + 1, used', deleted')
      /\ mask' \in Nat
      /\ Probed(u, mask + 1, used) =>
            /\ Probed(entries', mask' + 1, used')
            /\ Contents(entries') = Contents(u)
  BY <1>1, <1>3, <1>5, Cleared
<1> QED  BY <1>2, <1>6, <1>7 DEF i

LEMMA CallbackEffect ==
    ASSUME Bounds, NEW i \in Allocated(entries),
           entries' = Buried(i), deleted' = deleted + 1, UNCHANGED <<mask, used>>
    PROVE  /\ Counted(entries', mask' + 1, used', deleted')
           /\ Allocated(entries') = Allocated(entries) \ {i}
           /\ \A j \in Allocated(entries') : entries'[j] = entries[j]
           /\ Probed(entries, mask + 1, used) =>
                 /\ Probed(entries', mask' + 1, used')
                 /\ Contents(entries') = Contents(entries) \ {entries[i]}
<1> DEFINE c == mask + 1
           u == Bury(entries, i)
<1>1. /\ mask \in Nat /\ c \in CAPACITIES /\ entries \in Tables(c)
      /\ used \in Nat /\ used < c /\ Cardinality(InUse(entries)) <= used
      /\ deleted = Cardinality(Tombstones(entries))
  BY Current DEF Bounds, Counted
<1>2. entries' = u /\ mask' = mask /\ used' = used
  BY DEF Buried, Bury
<1>3. /\ u \in Tables(c) /\ InUse(u) = InUse(entries)
      /\ Cardinality(Tombstones(u)) = Cardinality(Tombstones(entries)) + 1
      /\ Allocated(u) = Allocated(entries) \ {i}
      /\ \A j \in Allocated(u) : u[j] = entries[j]
      /\ Once(entries) => Once(u) /\ Contents(u) = Contents(entries) \ {entries[i]}
      /\ Reached(entries, c) => Reached(u, c)
  BY <1>1, Buries
<1> HIDE DEF u
<1>4. Counted(u, c, used, deleted + 1)
  BY <1>1, <1>3 DEF Counted
<1>5. Probed(entries, c, used) => Probed(u, c, used)
                                  /\ Contents(u) = Contents(entries) \ {entries[i]}
  BY <1>3 DEF Probed
<1> QED  BY <1>2, <1>3, <1>4, <1>5
-----------------------------------------------------------------------------
(* The steps                                                               *)

\* The counters of a table that is counted have their types.
LEMMA Typed ==
    ASSUME NEW m \in Nat, NEW t, NEW u, NEW d, Counted(t, m + 1, u, d)
    PROVE  /\ m + 1 \in CAPACITIES /\ t \in [0 .. m -> ENTRY]
           /\ u \in 0 .. m + 1 /\ d \in 0 .. u
<1>1. /\ m + 1 \in CAPACITIES /\ t \in Tables(m + 1) /\ u \in Nat /\ u < m + 1
      /\ Cardinality(InUse(t)) <= u
      /\ d = Cardinality(Tombstones(t))
  BY DEF Counted
<1>2. (m + 1) - 1 = m
  OBVIOUS
<1>3. t \in [0 .. m -> ENTRY]
  BY <1>1, <1>2 DEF Tables
<1>4. d \in 0 .. u
  <2>1. /\ Cardinality(Allocated(t)) \in Nat /\ Cardinality(Tombstones(t)) \in Nat
        /\ Cardinality(InUse(t)) =
              Cardinality(Allocated(t)) + Cardinality(Tombstones(t))
    BY <1>1, PartsCounted
  <2> QED  BY <1>1, <2>1
<1> QED  BY <1>1, <1>3, <1>4

\* The first table.
LEMMA BoundsInit ==
    ASSUME Init
    PROVE  IInv
<1>1. /\ MINSIZE \in CAPACITIES /\ MINSIZE \in Nat /\ MINSIZE >= 4
      /\ mask = MINSIZE - 1 /\ mask \in Nat /\ mask + 1 = MINSIZE
  BY HashAssumption, Sizes DEF Init
<1>2. entries \in Tables(mask + 1) /\ \A i \in DOMAIN entries : entries[i].status = "free"
  BY <1>1, Entries DEF Init, Empty, Tables
<1>3. Allocated(entries) = {} /\ InUse(entries) = {} /\ Tombstones(entries) = {}
  BY <1>2 DEF Allocated, InUse, Tombstones
<1>4. Cardinality(InUse(entries)) = 0 /\ Cardinality(Tombstones(entries)) = 0
  BY <1>3, FS_EmptySet
<1>5. Counted(entries, mask + 1, used, deleted)
  BY <1>1, <1>2, <1>4 DEF Counted, Init
<1>6. TypeOK
  <2>1. /\ mask + 1 \in CAPACITIES /\ entries \in [0 .. mask -> ENTRY]
        /\ used \in 0 .. mask + 1 /\ deleted \in 0 .. used
    BY <1>1, <1>5, Typed
  <2>2. entry = NULL /\ doomed = NULL /\ result = NULL
    BY DEF Init
  <2> QED  BY <1>1, <2>1, <2>2 DEF TypeOK
<1>7. Probed(entries, mask + 1, used)
  BY <1>3, <1>4 DEF Probed, Once, Reached, Init
<1> QED  BY <1>3, <1>5, <1>6, <1>7 DEF IInv, Bounds, Init

\* Every step keeps the bounds, and what the probes rely on when it is sound.
LEMMA BoundsStep ==
    ASSUME Bounds, [Next]_vars
    PROVE  Bounds'
<1>1. /\ mask \in Nat
      /\ entry \in 0 .. mask + 1 \cup {NULL}
      /\ doomed \in {NULL} \cup SUBSET KEYS
      /\ entry = NULL <=> doomed = NULL
      /\ result \in VALUES \cup {NULL} \cup (KEYS \X VALUES)
      /\ Counted(entries, mask + 1, used, deleted)
  BY DEF Bounds, TypeOK
<1> SUFFICES /\ mask' \in Nat
             /\ Counted(entries', mask' + 1, used', deleted')
             /\ entry' \in 0 .. mask' + 1 \cup {NULL}
             /\ doomed' \in {NULL} \cup SUBSET KEYS
             /\ entry' = NULL <=> doomed' = NULL
             /\ result' \in VALUES \cup {NULL} \cup (KEYS \X VALUES)
  <2>1. ASSUME mask' \in Nat, Counted(entries', mask' + 1, used', deleted')
        PROVE  /\ entries' \in [0 .. mask' -> ENTRY] /\ mask' + 1 \in CAPACITIES
               /\ used' \in 0 .. mask' + 1 /\ deleted' \in 0 .. used'
    BY <2>1, Typed
  <2> QED  BY <2>1 DEF Bounds, TypeOK
<1>2. ASSUME NEW k \in KEYS, NEW v \in VALUES, ReplaceValue(k, v)
      PROVE  /\ mask' = mask /\ Counted(entries', mask' + 1, used', deleted')
             /\ result' = NULL /\ UNCHANGED <<entry, doomed>>
  BY <1>2, ReplaceEffect DEF ReplaceValue
<1>3. ASSUME NEW k \in KEYS, NEW v \in VALUES, InsertFree(k, v)
      PROVE  /\ mask' \in Nat /\ Counted(entries', mask' + 1, used', deleted')
             /\ result' = NULL /\ entry = NULL /\ UNCHANGED <<entry, doomed>>
  BY <1>3, InsertFreeEffect DEF InsertFree, Idle
<1>4. ASSUME NEW k \in KEYS, NEW v \in VALUES, InsertDeleted(k, v)
      PROVE  /\ mask' = mask /\ Counted(entries', mask' + 1, used', deleted')
             /\ result' = NULL /\ UNCHANGED <<entry, doomed>>
  BY <1>4, InsertDeletedEffect DEF InsertDeleted
<1>5. ASSUME NEW k \in KEYS, Hash_delete(k)
      PROVE  /\ mask' \in Nat /\ Counted(entries', mask' + 1, used', deleted')
             /\ result' \in VALUES \cup {NULL}
             /\ entry = NULL /\ UNCHANGED <<entry, doomed>>
  <2>1. CASE entries[lookup(k)].status = "allocated"
    <3>1. /\ mask' \in Nat /\ Counted(entries', mask' + 1, used', deleted')
          /\ lookup(k) \in Allocated(entries)
      BY <1>5, <2>1, DeleteEffect
    <3>2. result' = entries[lookup(k)].value /\ entry = NULL
          /\ UNCHANGED <<entry, doomed>>
      BY <1>5, <2>1 DEF Hash_delete, Idle
    <3>3. entries[lookup(k)].value \in VALUES
      BY <3>1, Current
    <3> QED  BY <3>1, <3>2, <3>3
  <2>2. CASE entries[lookup(k)].status # "allocated"
    <3>1. result' = NULL /\ UNCHANGED table /\ entry = NULL
          /\ UNCHANGED <<entry, doomed>>
      BY <1>5, <2>2 DEF Hash_delete, Idle
    <3> QED  BY <1>1, <3>1 DEF table
  <2> QED  BY <2>1, <2>2
<1>6. CASE DeleteIf
  <2>1. /\ entry' = 0 /\ doomed' \in SUBSET Present /\ result' = NULL
        /\ UNCHANGED <<entries, mask, used, deleted>>
    BY <1>6 DEF DeleteIf, table
  <2>2. doomed' \in SUBSET KEYS /\ doomed' # NULL
    BY <2>1, Current, HashAssumption
  <2>3. entry' \in 0 .. mask' + 1 /\ entry' # NULL
    BY <1>1, <2>1, HashAssumption
  <2> QED  BY <1>1, <2>1, <2>2, <2>3
<1>7. CASE Callback
  <2>1. PICK i \in Finalizable :
           /\ result' = <<entries[i].key, entries[i].value>>
           /\ entries' = Buried(i) /\ entry' = i + 1
    BY <1>7 DEF Callback
  <2>2. /\ deleted' = deleted + 1 /\ UNCHANGED <<mask, used, doomed>>
        /\ entry # NULL
    BY <1>7 DEF Callback, Idle
  <2>3. i \in Allocated(entries)
    BY DEF Finalizable
  <2>4. Counted(entries', mask' + 1, used', deleted')
    BY <2>1, <2>2, <2>3, CallbackEffect
  <2>5. i \in 0 .. mask /\ result' \in KEYS \X VALUES
    BY <2>1, <2>3, Current
  <2>6. entry' \in 0 .. mask' + 1 /\ entry' # NULL
    BY <1>1, <2>1, <2>2, <2>5, HashAssumption
  <2> QED  BY <1>1, <2>2, <2>4, <2>5, <2>6
<1>8. CASE Finish
  <2>1. /\ ClearTombstones(entries, deleted)
        /\ entry' = NULL /\ doomed' = NULL /\ result' = NULL
    BY <1>8 DEF Finish
  <2>2. mask' \in Nat /\ Counted(entries', mask' + 1, used', deleted')
    BY <1>1, <2>1, Cleared
  <2> QED  BY <2>1, <2>2
<1>9. CASE UNCHANGED vars
  BY <1>1, <1>9 DEF vars, table
<1> QED  BY <1>1, <1>2, <1>3, <1>4, <1>5, <1>6, <1>7, <1>8, <1>9 DEF Next

\* What each step of a table in which each object is registered once does to
\* its contents.
StepEffect ==
    \/ \E k \in KEYS, v \in VALUES :
          /\ entry = NULL /\ doomed = NULL /\ result' = NULL
          /\ UNCHANGED <<entry, doomed>>
          /\ k \notin Present
          /\ Contents(entries') = Contents(entries) \cup {Occupied(k, v)}
    \/ \E i \in Allocated(entries) :
          /\ entry = NULL /\ doomed = NULL /\ result' = entries[i].value
          /\ UNCHANGED <<entry, doomed>>
          /\ Contents(entries') = Contents(entries) \ {entries[i]}
    \/ \E k \in KEYS \ Present :
          /\ entry = NULL /\ doomed = NULL /\ result' = NULL
          /\ UNCHANGED <<entry, doomed, entries>>
    \/ /\ entry = NULL /\ doomed = NULL /\ result' = NULL
       /\ entry' = 0 /\ doomed' \in SUBSET Present
       /\ UNCHANGED entries
    \/ \E i \in Allocated(entries) :
          /\ entry # NULL /\ doomed # NULL /\ entries[i].key \in doomed
          /\ result' = <<entries[i].key, entries[i].value>>
          /\ UNCHANGED doomed
          /\ Contents(entries') = Contents(entries) \ {entries[i]}
    \/ /\ entry # NULL /\ doomed # NULL /\ result' = NULL
       /\ entry' = NULL /\ doomed' = NULL
       /\ \A i \in Allocated(entries) : entries[i].key \notin doomed
       /\ Contents(entries') = Contents(entries)
    \/ UNCHANGED <<entries, entry, doomed, result>>

\* Every step keeps the invariant, and has one of these effects.
LEMMA IInvStep ==
    ASSUME RegisteredOnce, IInv, [Next]_vars
    PROVE  IInv' /\ StepEffect
<1>1. Bounds /\ Bounds' /\ Probed(entries, mask + 1, used)
  BY BoundsStep DEF IInv
<1>2. /\ Once(entries) /\ Reached(entries, mask + 1)
      /\ entry = NULL <=> doomed = NULL
      /\ entry # NULL =>
            \A i \in Allocated(entries) : i < entry => entries[i].key \notin doomed
      /\ 0 # NULL
  BY <1>1, HashAssumption DEF IInv, Bounds, TypeOK, Probed
<1> SUFFICES /\ Probed(entries', mask' + 1, used')
             /\ entry' # NULL =>
                   \A i \in Allocated(entries') :
                      i < entry' => entries'[i].key \notin doomed'
             /\ StepEffect
  BY <1>1 DEF IInv
<1>3. ASSUME NEW k \in KEYS, MayRegister(k)
      PROVE  k \notin Present
  BY <1>3 DEF MayRegister, RegisteredOnce
<1>4. ASSUME NEW k \in KEYS, NEW v \in VALUES, ReplaceValue(k, v)
      PROVE  FALSE
  <2>1. MayRegister(k)
    BY <1>4 DEF ReplaceValue
  <2> QED  BY <1>1, <1>3, <1>4, <2>1, ReplaceEffect
<1>5. ASSUME NEW k \in KEYS, NEW v \in VALUES, InsertFree(k, v)
      PROVE  /\ Probed(entries', mask' + 1, used')
             /\ entry' = NULL /\ StepEffect
  <2>1. k \notin Present /\ entry = NULL /\ result' = NULL
        /\ UNCHANGED <<entry, doomed>>
    BY <1>3, <1>5 DEF InsertFree, Idle
  <2>2. Probed(entries', mask' + 1, used')
        /\ Contents(entries') = Contents(entries) \cup {Occupied(k, v)}
    BY <1>1, <1>5, <2>1, InsertFreeEffect
  <2> QED  BY <1>2, <2>1, <2>2 DEF StepEffect
<1>6. ASSUME NEW k \in KEYS, NEW v \in VALUES, InsertDeleted(k, v)
      PROVE  /\ Probed(entries', mask' + 1, used')
             /\ entry' = NULL /\ StepEffect
  <2>1. k \notin Present /\ entry = NULL /\ result' = NULL
        /\ UNCHANGED <<entry, doomed>>
    BY <1>3, <1>6 DEF InsertDeleted, Idle
  <2>2. Probed(entries', mask' + 1, used')
        /\ Contents(entries') = Contents(entries) \cup {Occupied(k, v)}
    BY <1>1, <1>6, <2>1, InsertDeletedEffect
  <2> QED  BY <1>2, <2>1, <2>2 DEF StepEffect
<1>7. ASSUME NEW k \in KEYS, Hash_delete(k)
      PROVE  /\ Probed(entries', mask' + 1, used')
             /\ entry' = NULL /\ StepEffect
  <2>1. entry = NULL /\ doomed = NULL /\ UNCHANGED <<entry, doomed>>
    BY <1>2, <1>7 DEF Hash_delete, Idle
  <2>2. CASE entries[lookup(k)].status = "allocated"
    <3>1. result' = entries[lookup(k)].value
      BY <1>7, <2>2 DEF Hash_delete
    <3>2. /\ lookup(k) \in Allocated(entries)
          /\ Probed(entries', mask' + 1, used')
          /\ Contents(entries') = Contents(entries) \ {entries[lookup(k)]}
      BY <1>1, <1>7, <2>2, DeleteEffect
    <3> QED  BY <2>1, <3>1, <3>2 DEF StepEffect
  <2>3. CASE entries[lookup(k)].status # "allocated"
    <3>1. result' = NULL /\ UNCHANGED <<entries, mask, used>>
      BY <1>7, <2>3 DEF Hash_delete, table
    <3>2. k \notin Present
      <4> SUFFICES ASSUME NEW j \in Allocated(entries), entries[j].key = k
                   PROVE  FALSE
        BY DEF Present
      <4>1. lookup(k) = j
        BY <1>1, <1>2, SearchFinds
      <4> QED  BY <2>3, <4>1 DEF Allocated
    <3> QED  BY <1>1, <2>1, <3>1, <3>2 DEF StepEffect
  <2> QED  BY <2>2, <2>3
<1>8. CASE DeleteIf
  <2>1. /\ entry = NULL /\ doomed = NULL /\ result' = NULL
        /\ entry' = 0 /\ doomed' \in SUBSET Present
        /\ UNCHANGED <<entries, mask, used>>
    BY <1>2, <1>8 DEF DeleteIf, Idle, table
  <2>2. \A i \in Allocated(entries) : ~(i < 0)
    BY <1>1, Current
  <2> QED  BY <1>1, <2>1, <2>2 DEF StepEffect
<1>9. CASE Callback
  <2>1. PICK i \in Finalizable :
           /\ \A j \in Finalizable : i <= j
           /\ result' = <<entries[i].key, entries[i].value>>
           /\ entries' = Buried(i) /\ entry' = i + 1
    BY <1>9 DEF Callback
  <2>2. /\ deleted' = deleted + 1 /\ UNCHANGED <<mask, used, doomed>>
        /\ entry # NULL
    BY <1>9 DEF Callback, Idle
  <2>3. i \in Allocated(entries) /\ entries[i].key \in doomed
    BY DEF Finalizable
  <2>4. /\ Allocated(entries') = Allocated(entries) \ {i}
        /\ \A j \in Allocated(entries') : entries'[j] = entries[j]
        /\ Probed(entries', mask' + 1, used')
        /\ Contents(entries') = Contents(entries) \ {entries[i]}
    BY <1>1, <2>1, <2>2, <2>3, CallbackEffect
  <2>5. ASSUME NEW j \in Allocated(entries'), j < entry'
        PROVE  entries'[j].key \notin doomed'
    <3>1. j \in Allocated(entries) /\ j # i /\ entries'[j] = entries[j] /\ doomed' = doomed
      BY <2>2, <2>4
    <3>2. i \in Nat /\ j \in Nat /\ entry \in Nat
      <4>1. mask \in Nat /\ entry \in 0 .. mask + 1 \cup {NULL}
        BY <1>1 DEF Bounds, TypeOK
      <4>2. i \in 0 .. mask /\ j \in 0 .. mask
        BY <1>1, <2>3, <3>1, Current
      <4> QED  BY <2>2, <4>1, <4>2
    <3>3. j < i
      BY <2>1, <2>5, <3>1, <3>2
    <3>4. j \notin Finalizable
      BY <2>1, <3>2, <3>3
    <3>5. CASE j < entry
      BY <1>2, <2>2, <3>1, <3>5
    <3>6. CASE j >= entry
      BY <3>1, <3>4, <3>6 DEF Finalizable
    <3> QED  BY <3>2, <3>5, <3>6
  <2> QED  BY <1>2, <2>1, <2>2, <2>3, <2>4, <2>5 DEF StepEffect
<1>10. CASE Finish
  <2>1. /\ ClearTombstones(entries, deleted) /\ Finalizable = {} /\ entry # NULL
        /\ entry' = NULL /\ doomed' = NULL /\ result' = NULL
    BY <1>10 DEF Finish, Idle
  <2>2. Probed(entries', mask' + 1, used') /\ Contents(entries') = Contents(entries)
    BY <1>1, <2>1, Cleared, Current DEF Bounds
  <2>3. ASSUME NEW i \in Allocated(entries)
        PROVE  entries[i].key \notin doomed
    <3>1. mask \in Nat /\ entry \in 0 .. mask + 1 \cup {NULL}
      BY <1>1 DEF Bounds, TypeOK
    <3>2. i \in Nat /\ entry \in Nat
      BY <1>1, <2>1, <3>1, Current
    <3>3. CASE i < entry
      BY <1>2, <2>1, <3>3
    <3>4. CASE i >= entry
      BY <2>1, <3>4 DEF Finalizable
    <3> QED  BY <3>2, <3>3, <3>4
  <2> QED  BY <1>2, <2>1, <2>2, <2>3 DEF StepEffect
<1>11. CASE UNCHANGED vars
  BY <1>1, <1>2, <1>11 DEF vars, table, StepEffect
<1> QED  BY <1>4, <1>5, <1>6, <1>7, <1>8, <1>9, <1>10, <1>11 DEF Next
-----------------------------------------------------------------------------
(* The table as a map                                                      *)

\* Keys and values are those of the contents.
LEMMA Bindings ==
    ASSUME NEW t, Once(t)
    PROVE  /\ BindingsOf(t) = [k \in DOMAIN BindingsOf(t) |-> BindingsOf(t)[k]]
           /\ \A k : k \in DOMAIN BindingsOf(t) <=> \E e \in Contents(t) : e.key = k
           /\ \A e \in Contents(t) : BindingsOf(t)[e.key] = e.value
           /\ \A e, f \in Contents(t) : e.key = f.key => e = f
<1>1. DOMAIN BindingsOf(t) = {t[i].key : i \in Allocated(t)}
      /\ BindingsOf(t) = [k \in DOMAIN BindingsOf(t) |-> BindingsOf(t)[k]]
  BY DEF BindingsOf
<1>2. \A k : k \in DOMAIN BindingsOf(t) <=> \E e \in Contents(t) : e.key = k
  BY <1>1 DEF Contents
<1>3. ASSUME NEW e \in Contents(t)
      PROVE  BindingsOf(t)[e.key] = e.value
  <2>1. PICK j \in Allocated(t) : e = t[j]
    BY DEF Contents
  <2>2. (CHOOSE i \in Allocated(t) : t[i].key = e.key) = j
    BY <2>1 DEF Once
  <2>3. BindingsOf(t)[e.key] = t[CHOOSE i \in Allocated(t) : t[i].key = e.key].value
    BY <2>1 DEF BindingsOf
  <2> QED  BY <2>1, <2>2, <2>3
<1>4. \A e, f \in Contents(t) : e.key = f.key => e = f
  BY DEF Contents, Once
<1> QED  BY <1>1, <1>2, <1>3, <1>4

\* What adding an entry to the contents does to the map,
LEMMA BindAdd ==
    ASSUME NEW t, NEW u, Once(t), Once(u), NEW e,
           Contents(u) = Contents(t) \cup {e}
    PROVE  BindingsOf(u) =
              [o \in DOMAIN BindingsOf(t) \cup {e.key} |->
                 IF o = e.key THEN e.value ELSE BindingsOf(t)[o]]
<1> DEFINE g == [o \in DOMAIN BindingsOf(t) \cup {e.key} |->
                   IF o = e.key THEN e.value ELSE BindingsOf(t)[o]]
<1>1. DOMAIN BindingsOf(u) = DOMAIN BindingsOf(t) \cup {e.key}
  <2>1. \A k : k \in DOMAIN BindingsOf(u) <=> k \in DOMAIN BindingsOf(t) \cup {e.key}
    BY Bindings
  <2> QED  BY <2>1
<1>2. ASSUME NEW o \in DOMAIN BindingsOf(u)
      PROVE  BindingsOf(u)[o] = g[o]
  <2>1. PICK f \in Contents(u) : o = f.key
    BY Bindings
  <2>2. BindingsOf(u)[o] = f.value
    BY <2>1, Bindings
  <2>3. CASE f = e
    BY <2>1, <2>2, <2>3
  <2>4. CASE f # e
    <3>1. f \in Contents(t) /\ f.key # e.key
      BY <2>4, Bindings
    <3>2. BindingsOf(t)[o] = f.value
      BY <2>1, <3>1, Bindings
    <3> QED  BY <1>1, <2>1, <2>2, <3>1, <3>2
  <2> QED  BY <2>3, <2>4
<1>3. DOMAIN g = DOMAIN BindingsOf(t) \cup {e.key} /\ g = [o \in DOMAIN g |-> g[o]]
  OBVIOUS
<1> HIDE DEF g
<1> QED  BY <1>1, <1>2, <1>3, Bindings DEF g

\* what removing one does,
LEMMA BindRemove ==
    ASSUME NEW t, NEW u, Once(t), Once(u), NEW e \in Contents(t),
           Contents(u) = Contents(t) \ {e}
    PROVE  BindingsOf(u) =
              [o \in DOMAIN BindingsOf(t) \ {e.key} |-> BindingsOf(t)[o]]
<1> DEFINE g == [o \in DOMAIN BindingsOf(t) \ {e.key} |-> BindingsOf(t)[o]]
<1>1. DOMAIN BindingsOf(u) = DOMAIN BindingsOf(t) \ {e.key}
  <2>1. \A k : k \in DOMAIN BindingsOf(u) <=> k \in DOMAIN BindingsOf(t) \ {e.key}
    BY Bindings
  <2> QED  BY <2>1
<1>2. ASSUME NEW o \in DOMAIN BindingsOf(u)
      PROVE  BindingsOf(u)[o] = g[o]
  <2>1. PICK f \in Contents(u) : o = f.key
    BY Bindings
  <2>2. BindingsOf(u)[o] = f.value /\ BindingsOf(t)[o] = f.value
    BY <2>1, Bindings
  <2> QED  BY <1>1, <2>2
<1>3. DOMAIN g = DOMAIN BindingsOf(t) \ {e.key} /\ g = [o \in DOMAIN g |-> g[o]]
  OBVIOUS
<1> HIDE DEF g
<1> QED  BY <1>1, <1>2, <1>3, Bindings DEF g

\* and that only the contents matter.
LEMMA BindSame ==
    ASSUME NEW t, NEW u, Once(t), Once(u), Contents(u) = Contents(t)
    PROVE  BindingsOf(u) = BindingsOf(t)
<1>1. DOMAIN BindingsOf(u) = DOMAIN BindingsOf(t)
  <2>1. \A k : k \in DOMAIN BindingsOf(u) <=> k \in DOMAIN BindingsOf(t)
    BY Bindings
  <2> QED  BY <2>1
<1>2. ASSUME NEW o \in DOMAIN BindingsOf(u)
      PROVE  BindingsOf(u)[o] = BindingsOf(t)[o]
  <2>1. PICK f \in Contents(u) : o = f.key
    BY Bindings
  <2> QED  BY <2>1, Bindings
<1> QED  BY <1>1, <1>2, Bindings

\* Each step of the table is one of the map, or leaves the map as it is.
LEMMA TableStep ==
    ASSUME RegisteredOnce, IInv, [Next]_vars
    PROVE  [Table!Next]_(Table!vars)
<1>1. /\ IInv' /\ StepEffect
      /\ Once(entries) /\ Once(entries')
      /\ doomed \in {NULL} \cup SUBSET KEYS
      /\ Present \subseteq KEYS
  BY IInvStep, Current DEF IInv, Bounds, TypeOK, Probed
<1> DEFINE f == BindingsOf(entries)
           g == BindingsOf(entries')
<1>2. /\ Present = DOMAIN f
      /\ f = [k \in DOMAIN f |-> f[k]]
      /\ \A i \in Allocated(entries) :
            /\ entries[i] \in Contents(entries)
            /\ entries[i].key \in DOMAIN f /\ f[entries[i].key] = entries[i].value
  <2>2. Present = DOMAIN f
    BY DEF Present, BindingsOf
  <2>3. \A i \in Allocated(entries) : entries[i] \in Contents(entries)
    BY DEF Contents
  <2> QED  BY <1>1, <2>2, <2>3, Bindings
<1> DEFINE Abstract ==
              \/ \E k \in KEYS, v \in VALUES :
                    /\ doomed = NULL /\ result' = NULL /\ UNCHANGED doomed
                    /\ g = [o \in DOMAIN f \cup {k} |-> IF o = k THEN v ELSE f[o]]
              \/ \E k \in KEYS :
                    /\ doomed = NULL /\ UNCHANGED doomed
                    /\ result' = IF k \in DOMAIN f THEN f[k] ELSE NULL
                    /\ g = [o \in DOMAIN f \ {k} |-> f[o]]
              \/ \E k \in KEYS :
                    /\ doomed # NULL /\ k \in doomed /\ k \in DOMAIN f
                    /\ result' = <<k, f[k]>> /\ UNCHANGED doomed
                    /\ g = [o \in DOMAIN f \ {k} |-> f[o]]
              \/ /\ doomed = NULL /\ result' = NULL
                 /\ \E unreachable \in SUBSET KEYS : doomed' = unreachable
                 /\ g = f
              \/ /\ doomed # NULL /\ doomed \cap DOMAIN f = {}
                 /\ doomed' = NULL /\ result' = NULL
                 /\ g = f
              \/ g = f /\ UNCHANGED <<doomed, result>>
<1>3. Abstract
  <2>1. ASSUME NEW k \in KEYS, NEW v \in VALUES,
               Contents(entries') = Contents(entries) \cup {Occupied(k, v)}
        PROVE  g = [o \in DOMAIN f \cup {k} |-> IF o = k THEN v ELSE f[o]]
    <3>1. Occupied(k, v).key = k /\ Occupied(k, v).value = v
      BY Entries
    <3> QED  BY <1>1, <2>1, <3>1, BindAdd
  <2>2. ASSUME NEW i \in Allocated(entries),
               Contents(entries') = Contents(entries) \ {entries[i]}
        PROVE  /\ entries[i].key \in KEYS
               /\ g = [o \in DOMAIN f \ {entries[i].key} |-> f[o]]
    <3>1. entries[i] \in Contents(entries) /\ entries[i].key \in KEYS
      BY <1>1, <1>2
    <3> QED  BY <1>1, <2>2, <3>1, BindRemove
  <2>3. ASSUME Contents(entries') = Contents(entries)
        PROVE  g = f
    BY <1>1, <2>3, BindSame
  <2>4. ASSUME NEW k \in KEYS \ Present
        PROVE  f = [o \in DOMAIN f \ {k} |-> f[o]]
    <3>1. DOMAIN f \ {k} = DOMAIN f
      BY <1>2
    <3> QED  BY <1>2, <3>1
  <2> HIDE DEF f, g
  <2>5. ASSUME NEW k \in KEYS, NEW v \in VALUES,
               doomed = NULL, result' = NULL, UNCHANGED doomed,
               Contents(entries') = Contents(entries) \cup {Occupied(k, v)}
        PROVE  Abstract
    BY <2>1, <2>5
  <2>6. ASSUME NEW i \in Allocated(entries),
               doomed = NULL, result' = entries[i].value, UNCHANGED doomed,
               Contents(entries') = Contents(entries) \ {entries[i]}
        PROVE  Abstract
    BY <1>2, <2>2, <2>6
  <2>7. ASSUME NEW k \in KEYS \ Present,
               doomed = NULL, result' = NULL, UNCHANGED doomed, g = f
        PROVE  Abstract
    BY <1>2, <2>4, <2>7
  <2>8. ASSUME NEW i \in Allocated(entries),
               doomed # NULL, entries[i].key \in doomed, UNCHANGED doomed,
               result' = <<entries[i].key, entries[i].value>>,
               Contents(entries') = Contents(entries) \ {entries[i]}
        PROVE  Abstract
    BY <1>2, <2>2, <2>8
  <2>9. ASSUME doomed = NULL, result' = NULL, doomed' \in SUBSET Present, g = f
        PROVE  Abstract
    BY <1>1, <2>9
  <2>10. ASSUME doomed # NULL, doomed' = NULL, result' = NULL,
                \A i \in Allocated(entries) : entries[i].key \notin doomed,
                Contents(entries') = Contents(entries)
         PROVE  Abstract
    <3>1. doomed \cap DOMAIN f = {}
      BY <1>2, <2>10 DEF Present
    <3> QED  BY <2>3, <2>10, <3>1
  <2>11. ASSUME UNCHANGED entries
         PROVE  g = f
    BY <2>11 DEF f, g
  <2> HIDE DEF Abstract
  <2>12. ASSUME UNCHANGED <<entries, entry, doomed, result>>
         PROVE  Abstract
    BY <2>11, <2>12 DEF Abstract
  <2> QED  BY <1>1, <2>5, <2>6, <2>7, <2>8, <2>9, <2>10, <2>11, <2>12, ZenonT(60)
           DEF StepEffect
<1> HIDE DEF f, g
<1> QED  BY <1>3 DEF Table!Next, Table!vars, Table!Register, Table!Take,
                     Table!Collect, Table!Finalize, Table!Finalized,
                     Table!Without, f, g
-----------------------------------------------------------------------------
(* Theorems                                                                *)

\* The two invariants.
LEMMA AlwaysBounds == Spec => []Bounds
<1>1. Init => Bounds
  BY BoundsInit DEF IInv
<1>2. Bounds /\ [Next]_vars => Bounds'
  BY BoundsStep
<1> QED  BY <1>1, <1>2, PTL DEF Spec

LEMMA Invariant == ASSUME RegisteredOnce PROVE Spec => []IInv
<1>1. Init => IInv
  BY BoundsInit
<1>2. IInv /\ [Next]_vars => IInv'
  BY IInvStep
<1> QED  BY <1>1, <1>2, PTL DEF Spec

\* The type invariant.
THEOREM TypeCorrect == Spec => []TypeOK
<1>1. Bounds => TypeOK
  BY DEF Bounds
<1> QED  BY <1>1, AlwaysBounds, PTL

\* The loops over the probes of a key (hash.c:22 and hash.c:43), which have no
\* bound, end in every table the program can reach, whatever it registers twice:
\* a free entry is always left, and the probes of a key come to every entry.
THEOREM LoopsEnd == Spec => []ProbesEnd
<1>1. Bounds => ProbesEnd
  BY SearchPlace, InsertPlace DEF ProbesEnd
<1> QED  BY <1>1, AlwaysBounds, PTL

\* "inserts key once" (test/hash_test.c:17), when an object is registered once.
THEOREM StoredOnce == ASSUME RegisteredOnce PROVE Spec => []KeysOnce
<1>1. IInv => KeysOnce
  BY DEF IInv, Probed, Once, KeysOnce
<1> QED  BY <1>1, Invariant, PTL

\* used and deleted, which decide when the table is resized, are exact.
THEOREM ExactCounters == ASSUME RegisteredOnce PROVE Spec => []CountsExact
<1>1. IInv => CountsExact
  BY DEF IInv, Bounds, Counted, Probed, InUse, Tombstones, CountsExact
<1> QED  BY <1>1, Invariant, PTL

\* Hash_search finds the keys that are stored, and no others.
THEOREM SearchExact == ASSUME RegisteredOnce PROVE Spec => []StoredKeysFound
<1>1. IInv => StoredKeysFound
  <2> SUFFICES ASSUME IInv
               PROVE  StoredKeysFound
    OBVIOUS
  <2>1. \A i \in Allocated(entries) : lookup(entries[i].key) = i
    BY SearchFinds DEF IInv, Probed
  <2>2. ASSUME NEW k \in KEYS \ Present
        PROVE  Hash_search(k) = NULL
    <3>1. /\ lookup(k) \in DOMAIN entries
          /\ entries[lookup(k)].status = "free" \/ entries[lookup(k)].key = k
      BY SearchPlace, Current DEF IInv
    <3>2. lookup(k) \notin Allocated(entries)
      BY <2>2, <3>1 DEF Allocated, Present
    <3>3. entries[lookup(k)].status # "allocated"
      BY <3>1, <3>2 DEF Allocated
    <3> QED  BY <3>3 DEF Hash_search
  <2> QED  BY <2>1, <2>2 DEF StoredKeysFound
<1> QED  BY <1>1, Invariant, PTL

\* The table is a map: Hash_insert registers, Hash_delete takes out, Hash_deleteIf
\* finalizes every unreachable object once.
THEOREM Implementation == ASSUME RegisteredOnce PROVE Spec => ImplementsTable
<1>1. Init => Table!Init
  <2> SUFFICES ASSUME Init
               PROVE  Table!Init
    OBVIOUS
  <2>1. Allocated(entries) = {}
    BY DEF Init, Empty, FREE, Allocated
  <2>2. BindingsOf(entries) = [k \in {} |-> NULL]
    BY <2>1 DEF BindingsOf
  <2> QED  BY <2>2 DEF Init, Table!Init
<1>2. IInv /\ [Next]_vars => [Table!Next]_(Table!vars)
  BY TableStep
<1> QED  BY <1>1, <1>2, Invariant, PTL DEF Spec, ImplementsTable, Table!Spec

=============================================================================
