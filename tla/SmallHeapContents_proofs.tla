----------------------- MODULE SmallHeapContents_proofs -----------------------
(***************************************************************************)
(* What the blocks of the small heap contain, whatever their geometry, the *)
(* sizes the program asks for and what survives a collection: headers can  *)
(* be walked and found, what is handed out holds no object in use, and a   *)
(* sweep keeps those.  Who owns a block is the subject of                  *)
(* SmallHeap_proofs, whose invariant is used here.                         *)
(***************************************************************************)
EXTENDS SmallHeap_proofs, WellFoundedInduction

(* Addresses *)

LEMMA Units ==
    /\ LINE_SIZE \in Nat /\ LINE_SIZE > 0
    /\ LINE_COUNT \in Nat /\ LINE_COUNT > 0
    /\ BLOCK_SIZE = LINE_COUNT * LINE_SIZE + LINE_SIZE
    /\ LINE_COUNT * LINE_SIZE \in Nat
    /\ OBJECT \in Nat /\ OBJECT > 0
    /\ \A s \in SIZES : s \in Nat /\ s > OBJECT /\ s <= LINE_COUNT * LINE_SIZE
<1>1. /\ LINE_SIZE \in Nat /\ LINE_SIZE > 0
      /\ LINE_COUNT \in Nat /\ LINE_COUNT > 0
  BY GeometryAssumption
<1>2. BLOCK_SIZE = LINE_COUNT * LINE_SIZE + LINE_SIZE /\ LINE_COUNT * LINE_SIZE \in Nat
  BY <1>1 DEF BLOCK_SIZE
<1>3. /\ OBJECT \in Nat /\ OBJECT > 0
      /\ SIZES \subseteq OBJECT + 1 .. LINE_COUNT * LINE_SIZE
  BY SmallHeapAssumption
<1>4. \A s \in SIZES : s \in Nat /\ s > OBJECT /\ s <= LINE_COUNT * LINE_SIZE
  <2>1. PICK n \in Nat : n = LINE_COUNT * LINE_SIZE
    BY <1>2
  <2> QED  BY <1>3, <2>1
<1> QED  BY <1>1, <1>2, <1>3, <1>4

InLine(b, l, a) == Block_line(b, l) <= a /\ a < Block_line(b, l) + LINE_SIZE

\* Lines follow one another from the start of a block to its end.
LEMMA Lines ==
    ASSUME NEW b \in Nat, NEW k \in 0 .. LINE_COUNT, NEW l \in 0 .. LINE_COUNT
    PROVE  /\ Block_line(b, l) \in Nat
           /\ Block_line(b, 0) = Block_start(b)
           /\ Block_line(b, LINE_COUNT) = Block_stop(b)
           /\ b < Block_start(b) /\ Block_start(b) < Block_stop(b)
           /\ Block_start(b) \in Nat /\ Block_stop(b) \in Nat
           /\ Block_start(b) <= Block_line(b, l)
           /\ Block_line(b, l) <= Block_stop(b)
           /\ k <= l => Block_line(b, k) <= Block_line(b, l)
           /\ k < l => Block_line(b, k) + LINE_SIZE <= Block_line(b, l)
<1>1. /\ LINE_SIZE \in Nat /\ LINE_SIZE > 0
      /\ LINE_COUNT \in Nat /\ LINE_COUNT > 0
      /\ BLOCK_SIZE = LINE_COUNT * LINE_SIZE + LINE_SIZE
      /\ k \in Nat /\ l \in Nat /\ k <= LINE_COUNT /\ l <= LINE_COUNT
  BY Units
<1>2. \A i \in Nat : i * LINE_SIZE \in Nat
  BY <1>1
<1>3. \A i, j \in Nat : i <= j => i * LINE_SIZE <= j * LINE_SIZE
  BY <1>1
<1>4. \A i, j \in Nat : i < j => i * LINE_SIZE + LINE_SIZE <= j * LINE_SIZE
  <2> SUFFICES ASSUME NEW i \in Nat, NEW j \in Nat, i < j
               PROVE  i * LINE_SIZE + LINE_SIZE <= j * LINE_SIZE
    OBVIOUS
  <2>1. i + 1 <= j /\ (i + 1) * LINE_SIZE = i * LINE_SIZE + LINE_SIZE
    BY <1>1
  <2> QED  BY <1>3, <2>1
<1>5. 0 * LINE_SIZE = 0
  BY <1>1
<1> DEFINE times(i) == i * LINE_SIZE
<1>6. /\ times(0) = 0 /\ times(k) \in Nat /\ times(l) \in Nat
      /\ times(LINE_COUNT) \in Nat /\ times(l) <= times(LINE_COUNT)
      /\ k <= l => times(k) <= times(l)
      /\ k < l => times(k) + LINE_SIZE <= times(l)
      /\ 0 < LINE_COUNT => 0 + LINE_SIZE <= times(LINE_COUNT)
      /\ BLOCK_SIZE = times(LINE_COUNT) + LINE_SIZE
  BY <1>1, <1>2, <1>3, <1>4, <1>5
<1>7. /\ Block_line(b, l) = b + LINE_SIZE + times(l)
      /\ Block_line(b, k) = b + LINE_SIZE + times(k)
      /\ Block_line(b, 0) = b + LINE_SIZE + times(0)
      /\ Block_line(b, LINE_COUNT) = b + LINE_SIZE + times(LINE_COUNT)
      /\ Block_start(b) = b + LINE_SIZE /\ Block_stop(b) = b + BLOCK_SIZE
  BY DEF Block_line, Block_start, Block_stop
<1> HIDE DEF times
<1> QED  BY <1>1, <1>6, <1>7

\* Every word after the metadata is in one line.
LEMMA LineIndex ==
    ASSUME NEW b \in Nat, NEW a \in Nat, Block_contains(b, a)
    PROVE  /\ Block_lineIndex(b, a) \in Line
           /\ InLine(b, Block_lineIndex(b, a), a)
           /\ Block_lineIndex(b, a) # INVALID_LINE_INDEX
<1>1. /\ LINE_SIZE \in Nat /\ LINE_SIZE > 0
      /\ LINE_COUNT \in Nat /\ LINE_COUNT > 0
      /\ BLOCK_SIZE = LINE_COUNT * LINE_SIZE + LINE_SIZE
      /\ LINE_COUNT * LINE_SIZE \in Nat
  BY Units
<1>2. PICK s \in Nat : s = Block_start(b)
  BY <1>1 DEF Block_start
<1>3. s <= a /\ a < s + LINE_COUNT * LINE_SIZE
  BY <1>1, <1>2 DEF Block_contains, Block_start, Block_stop
<1>4. PICK x \in Nat : x = a - s
  BY <1>3
<1>5. x < LINE_COUNT * LINE_SIZE
  BY <1>1, <1>3, <1>4
<1>6. PICK q \in Nat : q = x \div LINE_SIZE
  BY <1>1
<1>7. q * LINE_SIZE <= x /\ x < q * LINE_SIZE + LINE_SIZE /\ q * LINE_SIZE \in Nat
  BY <1>1, <1>6
<1>8. q < LINE_COUNT
  <2> SUFFICES ASSUME LINE_COUNT <= q PROVE FALSE
    BY <1>1
  <2>1. LINE_COUNT * LINE_SIZE <= q * LINE_SIZE
    BY <1>1
  <2> QED  BY <1>1, <1>5, <1>7, <2>1
<1>9. Block_lineIndex(b, a) = q
  BY <1>2, <1>3, <1>4, <1>6 DEF Block_lineIndex
<1>10. Block_line(b, q) = s + q * LINE_SIZE
  BY <1>2 DEF Block_line
<1> QED  BY <1>1, <1>3, <1>4, <1>7, <1>8, <1>9, <1>10
            DEF Line, InLine, INVALID_LINE_INDEX

LEMMA IndexOf ==
    ASSUME NEW b \in Nat, NEW l \in Line, NEW a \in Nat, InLine(b, l, a)
    PROVE  /\ Block_contains(b, a)
           /\ Block_lineIndex(b, a) = l
<1>1. /\ LINE_SIZE \in Nat /\ LINE_SIZE > 0 /\ LINE_COUNT \in Nat
      /\ l \in 0 .. LINE_COUNT /\ l + 1 \in 0 .. LINE_COUNT /\ l < l + 1
      /\ LINE_COUNT \in 0 .. LINE_COUNT
  BY Units DEF Line
<1>2. Block_contains(b, a)
  <2>1. /\ Block_start(b) <= Block_line(b, l) /\ Block_start(b) \in Nat
        /\ Block_line(b, l) \in Nat /\ Block_stop(b) \in Nat
        /\ Block_line(b, l + 1) <= Block_stop(b) /\ Block_line(b, l + 1) \in Nat
        /\ Block_line(b, l) + LINE_SIZE <= Block_line(b, l + 1)
    BY <1>1, Lines
  <2> QED  BY <1>1, <2>1 DEF InLine, Block_contains
<1>3. PICK m \in Line : m = Block_lineIndex(b, a) /\ InLine(b, m, a)
  BY <1>2, LineIndex
<1>4. /\ m \in 0 .. LINE_COUNT /\ m \in Nat /\ l \in Nat
      /\ Block_line(b, l) \in Nat /\ Block_line(b, m) \in Nat
      /\ l < m => Block_line(b, l) + LINE_SIZE <= Block_line(b, m)
      /\ m < l => Block_line(b, m) + LINE_SIZE <= Block_line(b, l)
  <2>1. m \in 0 .. LINE_COUNT /\ m \in Nat /\ l \in Nat
    BY Units DEF Line
  <2> QED  BY <1>1, <2>1, Lines
<1>5. l = m
  BY <1>1, <1>3, <1>4 DEF InLine
<1> QED  BY <1>2, <1>3, <1>5

\* Blocks are apart, and their words are addresses.
LEMMA BlockFacts ==
    ASSUME NEW b \in Blocks
    PROVE  /\ b \in Nat
           /\ Block_start(b) = b + LINE_SIZE /\ Block_start(b) \in Nat
           /\ Block_stop(b) = b + BLOCK_SIZE /\ Block_stop(b) \in Nat
           /\ Block_stop(b) <= MAX_BLOCKS * BLOCK_SIZE
           /\ \A a \in Nat : a < Block_stop(b) => a \in Address
           /\ \A c \in Blocks : b < c => Block_stop(b) <= c
<1>1. PICK i \in 0 .. MAX_BLOCKS - 1 : b = i * BLOCK_SIZE
  BY DEF Blocks
<1>2. MAX_BLOCKS \in Nat /\ i \in Nat /\ i + 1 \in Nat /\ i + 1 <= MAX_BLOCKS
      /\ BLOCK_SIZE \in Nat /\ BLOCK_SIZE > 0 /\ LINE_SIZE \in Nat
  BY SmallHeapAssumption, BlockSize, Units
<1>3. b \in Nat /\ b + BLOCK_SIZE = (i + 1) * BLOCK_SIZE
  BY <1>1, <1>2, Multiples
<1>4. /\ (i + 1) * BLOCK_SIZE <= MAX_BLOCKS * BLOCK_SIZE
      /\ MAX_BLOCKS * BLOCK_SIZE \in Nat
  BY <1>2, Multiples
<1>5. ASSUME NEW c \in Blocks, b < c
      PROVE  b + BLOCK_SIZE <= c
  <2>1. PICK j \in 0 .. MAX_BLOCKS - 1 : c = j * BLOCK_SIZE
    BY DEF Blocks
  <2>2. j \in Nat
    BY <1>2
  <2>3. i < j
    BY <1>1, <1>2, <1>5, <2>1, <2>2, Multiples
  <2>4. i + 1 <= j
    BY <1>2, <2>2, <2>3
  <2> QED  BY <1>2, <1>3, <2>1, <2>2, <2>4, Multiples
<1>6. Block_start(b) = b + LINE_SIZE /\ Block_stop(b) = b + BLOCK_SIZE
  BY DEF Block_start, Block_stop
<1>7. PICK top \in Nat : top = MAX_BLOCKS * BLOCK_SIZE
  BY <1>4
<1>8. \A a \in Nat : a < Block_stop(b) => a \in Address
  BY <1>2, <1>3, <1>4, <1>6, <1>7 DEF Address
<1> QED  BY <1>2, <1>3, <1>4, <1>5, <1>6, <1>8

LEMMA BlockFrom ==
    ASSUME NEW b \in Blocks, NEW a \in Nat, b <= a, a < Block_stop(b)
    PROVE  Block_from(a) = b
<1>1. PICK i \in 0 .. MAX_BLOCKS - 1 : b = i * BLOCK_SIZE
  BY DEF Blocks
<1>2. i \in Nat /\ BLOCK_SIZE \in Nat /\ BLOCK_SIZE > 0 /\ b \in Nat
      /\ Block_stop(b) = b + BLOCK_SIZE
  BY SmallHeapAssumption, BlockSize, BlockFacts
<1>3. PICK r \in Nat : r = a - b
  BY <1>2
<1>4. r < BLOCK_SIZE /\ a = i * BLOCK_SIZE + r
  BY <1>1, <1>2, <1>3
<1>5. (i * BLOCK_SIZE + r) % BLOCK_SIZE = r
  BY <1>2, <1>4
<1> QED  BY <1>1, <1>2, <1>3, <1>4, <1>5 DEF Block_from

\* The block of a pointer into the heap.
LEMMA Pointed ==
    ASSUME HeapInv, NEW a \in Nat, a < heap_stop
    PROVE  /\ Block_from(a) \in MappedBlocks
           /\ Block_from(a) <= a /\ a < Block_stop(Block_from(a))
<1>1. PICK n \in 2 .. MAX_BLOCKS : heap_stop = n * BLOCK_SIZE
  BY DEF HeapInv
<1>2. n \in Nat /\ n <= MAX_BLOCKS /\ MAX_BLOCKS \in Nat
      /\ BLOCK_SIZE \in Nat /\ BLOCK_SIZE > 0
  BY SmallHeapAssumption, BlockSize
<1>3. PICK q \in Nat : q = a \div BLOCK_SIZE
  BY <1>2
<1>4. q * BLOCK_SIZE <= a /\ a < q * BLOCK_SIZE + BLOCK_SIZE
      /\ q * BLOCK_SIZE \in Nat
  BY <1>2, <1>3
<1>5. q < n
  <2>1. n * BLOCK_SIZE \in Nat /\ q * BLOCK_SIZE < n * BLOCK_SIZE
    BY <1>1, <1>2, <1>4, Multiples
  <2> QED  BY <1>2, <2>1, Multiples
<1>6. q \in 0 .. MAX_BLOCKS - 1 /\ q * BLOCK_SIZE \in Blocks
      /\ q * BLOCK_SIZE < heap_stop
  <2>1. n * BLOCK_SIZE \in Nat /\ q * BLOCK_SIZE < n * BLOCK_SIZE
    BY <1>1, <1>2, <1>4, Multiples
  <2> QED  BY <1>1, <1>2, <1>5, <2>1 DEF Blocks
<1>7. PICK b \in Blocks : b = q * BLOCK_SIZE
  BY <1>6
<1>8. b <= a /\ a < Block_stop(b)
  BY <1>4, <1>7 DEF Block_stop
<1>9. Block_from(a) = b
  BY <1>8, BlockFrom
<1> QED  BY <1>6, <1>7, <1>8, <1>9 DEF MappedBlocks

\* The lines of different blocks are apart too.
LEMMA OneBlock ==
    ASSUME NEW b \in Blocks, NEW c \in Blocks, NEW a \in Nat,
           Block_contains(b, a), Block_contains(c, a)
    PROVE  b = c
<1>1. /\ b \in Nat /\ Block_start(b) = b + LINE_SIZE
      /\ c \in Nat /\ Block_start(c) = c + LINE_SIZE
      /\ Block_stop(b) \in Nat /\ Block_stop(c) \in Nat
      /\ b < c => Block_stop(b) <= c
      /\ c < b => Block_stop(c) <= b
      /\ LINE_SIZE \in Nat
  BY BlockFacts, Units
<1> QED  BY <1>1 DEF Block_contains
-----------------------------------------------------------------------------
(* Walking and following holes: what the two recursions compute *)

\* The least element of a set of numbers.
LEMMA LeastNatural ==
    ASSUME NEW S \in SUBSET Nat, S # {}
    PROVE  \E n \in S : \A m \in S : n <= m
<1> DEFINE less == {p \in Nat \X Nat : p[1] < p[2]}
<1>1. less = OpToRel(<, Nat)
  BY DEF OpToRel
<1>2. IsWellFoundedOn(less, Nat)
  BY <1>1, NatLessThanWellFounded
<1>3. PICK n \in S : \A m \in S : <<m, n>> \notin less
  <2> HIDE DEF less
  <2> QED  BY <1>2, WFMin
<1>4. ASSUME NEW m \in S
      PROVE  n <= m
  <2>1. n \in Nat /\ m \in Nat /\ ~ (<<m, n>>[1] < <<m, n>>[2])
    BY <1>3
  <2> QED  BY <2>1
<1> QED  BY <1>4

LEMMA Greatest ==
    ASSUME NEW n \in Int, NEW S \in SUBSET (0 .. n), S # {}
    PROVE  Max(S) \in S /\ \A y \in S : y <= Max(S)
<1> DEFINE T == {n - y : y \in S}
<1>1. T \in SUBSET Nat /\ T # {}
  <2>1. \A y \in S : n - y \in Nat
    OBVIOUS
  <2> QED  BY <2>1
<1>2. PICK t \in T : \A u \in T : t <= u
  <2> HIDE DEF T
  <2> QED  BY <1>1, LeastNatural
<1>3. PICK x \in S : t = n - x
  OBVIOUS
<1>4. ASSUME NEW y \in S
      PROVE  y <= x
  <2>1. n - x <= n - y
    BY <1>2, <1>3
  <2>2. x \in Int /\ y \in Int
    OBVIOUS
  <2> QED  BY <2>1, <2>2
<1>5. \A y \in S : x >= y
  BY <1>4
<1>6. Max(S) \in S /\ \A y \in S : Max(S) >= y
  BY <1>5 DEF Max
<1> QED  BY <1>6

\* Going from one element to the next until the last, or until one outside:
\* this is the recursion of Walk and of Chain.
Steps(f, D, Out, Ends, nxt) ==
    f = [a \in D |-> IF a \in Out THEN {}
                     ELSE {a} \cup IF a \in Ends THEN {} ELSE f[nxt[a]]]

\* It has a solution: what the closed sets that contain an element have in
\* common.
LEMMA StepsExist ==
    ASSUME NEW D, NEW Out, NEW Ends, NEW nxt,
           \A a \in D : a \notin Out /\ a \notin Ends => nxt[a] \in D
    PROVE  \E f : Steps(f, D, Out, Ends, nxt)
<1> DEFINE Closed(S) == \A y \in S : y \notin Out /\ y \notin Ends => nxt[y] \in S
           Common(a) == {x \in D : \A S \in SUBSET D : a \in S /\ Closed(S) => x \in S}
           f == [a \in D |-> Common(a) \ Out]
<1>1. ASSUME NEW a \in D, a \in Out \/ a \in Ends
      PROVE  Common(a) = {a}
  <2>1. Closed({a}) /\ {a} \in SUBSET D
    BY <1>1
  <2>2. ASSUME NEW x \in Common(a)
        PROVE  x = a
    <3>1. x \in {a}
      BY <2>1
    <3> QED  BY <3>1
  <2> QED  BY <2>2
<1>2. ASSUME NEW a \in D, a \notin Out, a \notin Ends
      PROVE  Common(a) \ Out = {a} \cup (Common(nxt[a]) \ Out)
  <2>1. nxt[a] \in D
    BY <1>2
  <2>2. ASSUME NEW x \in Common(a), x # a
        PROVE  x \in Common(nxt[a])
    <3> SUFFICES ASSUME NEW S \in SUBSET D, nxt[a] \in S, Closed(S)
                 PROVE  x \in S
      OBVIOUS
    <3>1. Closed(S \cup {a}) /\ S \cup {a} \in SUBSET D
      OBVIOUS
    <3>2. x \in S \cup {a}
      BY <3>1
    <3> QED  BY <2>2, <3>2
  <2>3. ASSUME NEW x \in Common(nxt[a])
        PROVE  x \in Common(a)
    <3> SUFFICES ASSUME NEW S \in SUBSET D, a \in S, Closed(S)
                 PROVE  x \in S
      OBVIOUS
    <3>1. nxt[a] \in S
      BY <1>2
    <3> QED  BY <3>1
  <2>4. a \in Common(a)
    OBVIOUS
  <2> HIDE DEF Common
  <2> QED  BY <1>2, <2>2, <2>3, <2>4
<1> HIDE DEF Common
<1>3. \A a \in D : f[a] = Common(a) \ Out
  OBVIOUS
<1>4. ASSUME NEW a \in D
      PROVE  f[a] = IF a \in Out THEN {}
                    ELSE {a} \cup IF a \in Ends THEN {} ELSE f[nxt[a]]
  <2>1. CASE a \in Out
    BY <1>1, <1>3, <2>1
  <2>2. CASE a \notin Out /\ a \in Ends
    BY <1>1, <1>3, <2>2
  <2>3. CASE a \notin Out /\ a \notin Ends
    <3>1. nxt[a] \in D
      BY <2>3
    <3> QED  BY <1>2, <1>3, <2>3, <3>1
  <2> QED  BY <2>1, <2>2, <2>3
<1>5. f = [a \in D |-> IF a \in Out THEN {}
                       ELSE {a} \cup IF a \in Ends THEN {} ELSE f[nxt[a]]]
  <2>1. f = [a \in D |-> f[a]]
    OBVIOUS
  <2> HIDE DEF f
  <2> QED  BY <1>4, <2>1
<1> HIDE DEF f
<1> QED  BY <1>5 DEF Steps

MemoryType == memory \in [Address -> Size \cup {DATA}]

LEMMA Words ==
    ASSUME MemoryType, NEW a \in Address
    PROVE  /\ memory[a] \in Int /\ DATA \in Int /\ DATA < 0
           /\ memory[a] \in Nat \/ memory[a] = DATA
           /\ a \in Nat
<1>1. LINE_COUNT * LINE_SIZE \in Nat /\ MAX_BLOCKS * BLOCK_SIZE \in Nat
  BY Units, Multiples, SmallHeapAssumption
<1> QED  BY <1>1 DEF MemoryType, Size, DATA, Address

\* A line whose objects can be walked: the first one is where its header says;
\* every other is where one before it ends; each ends at an object, a zero or
\* beyond the line; and there is nothing inside of one.
LineShape(m, h, first) ==
    /\ containsObject(h) => /\ h.offset \in 0 .. LINE_SIZE - 1
                            /\ m[first + h.offset] > 0
    /\ \A a \in first .. first + LINE_SIZE - 1 : m[a] > 0 =>
          /\ containsObject(h) /\ first + h.offset <= a
          /\ \/ a = first + h.offset
             \/ \E c \in first .. a - 1 : m[c] > 0 /\ c + m[c] = a
          /\ a + m[a] < first + LINE_SIZE => m[a + m[a]] # DATA
          /\ \A c \in first .. first + LINE_SIZE - 1 :
                a < c /\ c < a + m[a] => m[c] = DATA

\* An object is followed by the next one.
LEMMA NextHead ==
    ASSUME MemoryType, NEW first \in Nat, NEW h, LineShape(memory, h, first),
           first .. first + LINE_SIZE - 1 \subseteq Address,
           NEW a \in first .. first + LINE_SIZE - 1, memory[a] > 0,
           NEW d \in first .. first + LINE_SIZE - 1, memory[d] > 0, a < d
    PROVE  a + memory[a] <= d /\ memory[a + memory[a]] > 0
<1> DEFINE cells == first .. first + LINE_SIZE - 1
           n == a + memory[a]
           after == {c \in cells : memory[c] > 0 /\ a < c}
<1>0. LINE_SIZE \in Nat
  BY Units
<1>1. \A c \in cells : c \in Nat /\ memory[c] \in Int
                       /\ (memory[c] \in Nat \/ memory[c] = DATA)
  BY Words
<1>2. n \in Nat /\ a < n
  BY <1>1
<1>3. n <= d
  <2> SUFFICES ASSUME d < n PROVE FALSE
    BY <1>1, <1>2
  <2>1. memory[d] = DATA
    BY DEF LineShape
  <2> QED  BY <2>1, Words
<1>4. n \in cells /\ n < first + LINE_SIZE
  BY <1>0, <1>1, <1>2, <1>3
<1>5. memory[n] # DATA
  BY <1>4 DEF LineShape
<1>6. memory[n] # 0
  <2> SUFFICES ASSUME memory[n] = 0 PROVE FALSE
    OBVIOUS
  <2>1. after \in SUBSET Nat /\ after # {}
    BY <1>1
  <2>2. PICK e \in after : \A c \in after : e <= c
    <3> HIDE DEF after
    <3> QED  BY <2>1, LeastNatural
  <2>3. e \in cells /\ memory[e] > 0 /\ a < e
    OBVIOUS
  <2>4. first + h.offset <= a
    BY DEF LineShape
  <2>5. PICK c \in first .. e - 1 : memory[c] > 0 /\ c + memory[c] = e
    <3>1. h.offset \in Nat
      BY <1>0 DEF LineShape
    <3>2. e # first + h.offset
      BY <1>1, <2>3, <2>4, <3>1
    <3> QED  BY <2>3, <3>2 DEF LineShape
  <2>6. c \in cells /\ c < e
    BY <1>0, <1>1, <2>3
  <2>7. ~(a < c)
    <3>1. a < c => c \in after
      BY <2>5, <2>6
    <3> HIDE DEF after
    <3> QED  BY <1>1, <2>2, <2>3, <2>6, <3>1
  <2>8. c # a
    BY <2>3, <2>5
  <2>9. c < a /\ a < c + memory[c]
    BY <1>1, <2>3, <2>5, <2>6, <2>7, <2>8
  <2>10. memory[a] = DATA
    BY <2>5, <2>6, <2>9 DEF LineShape
  <2> QED  BY <2>10, Words
<1> QED  BY <1>1, <1>3, <1>4, <1>5, <1>6

\* The objects of a line.
Heads(b, l) == {a \in Address : InLine(b, l, a) /\ memory[a] > 0}

\* The words of a line are addresses.
LEMMA LineCells ==
    ASSUME NEW b \in Blocks, NEW l \in Line
    PROVE  /\ Block_line(b, l) \in Nat
           /\ Block_line(b, l) .. Block_line(b, l) + LINE_SIZE - 1 \subseteq Address
           /\ \A a \in Address :
                 InLine(b, l, a)
                    <=> a \in Block_line(b, l) .. Block_line(b, l) + LINE_SIZE - 1
           /\ Block_start(b) <= Block_line(b, l)
           /\ Block_line(b, l) + LINE_SIZE <= Block_stop(b)
<1>1. /\ b \in Nat /\ l \in 0 .. LINE_COUNT /\ LINE_COUNT \in 0 .. LINE_COUNT
      /\ l < LINE_COUNT /\ LINE_SIZE \in Nat
  BY BlockFacts, Units DEF Line
<1>2. /\ Block_line(b, l) \in Nat /\ Block_stop(b) \in Nat
      /\ Block_start(b) <= Block_line(b, l)
      /\ Block_line(b, l) + LINE_SIZE <= Block_line(b, LINE_COUNT)
      /\ Block_line(b, LINE_COUNT) = Block_stop(b)
  BY <1>1, Lines
<1>3. \A a \in Block_line(b, l) .. Block_line(b, l) + LINE_SIZE - 1 : a \in Address
  <2> TAKE a \in Block_line(b, l) .. Block_line(b, l) + LINE_SIZE - 1
  <2>1. a \in Nat /\ a < Block_stop(b)
    BY <1>1, <1>2
  <2> QED  BY <2>1, BlockFacts
<1>4. \A a \in Address : a \in Nat
  BY Multiples, SmallHeapAssumption DEF Address
<1> QED  BY <1>1, <1>2, <1>3, <1>4 DEF InLine

\* Walking a line comes to all of its objects and to nothing else.
LEMMA WalkFindsHeads ==
    ASSUME MemoryType, NEW b \in Blocks, NEW l \in Line,
           LineShape(memory, line_header[b][l], Block_line(b, l))
    PROVE  Walk(b, l) = Heads(b, l)
<1> DEFINE h == line_header[b][l]
           first == Block_line(b, l)
           stop == Block_line(b, l) + LINE_SIZE
           cells == first .. first + LINE_SIZE - 1
           Is(g) == g = [a \in Nat |->
                           IF a >= stop \/ memory[a] = 0 THEN {}
                           ELSE {a} \cup IF memory[a] = DATA THEN {}
                                         ELSE g[a + memory[a]]]
           walk == CHOOSE g : Is(g)
<1>1. Walk(b, l) = IF containsObject(h) THEN walk[first + h.offset] ELSE {}
  BY DEF Walk
<1>2. /\ first \in Nat /\ stop \in Nat /\ LINE_SIZE \in Nat
      /\ cells \subseteq Address
      /\ \A a \in Nat : a < stop => a \in Address
      /\ \A a \in Address : InLine(b, l, a) <=> a \in cells
  <2>1. /\ first \in Nat /\ LINE_SIZE \in Nat /\ cells \subseteq Address
        /\ \A a \in Address : InLine(b, l, a) <=> a \in cells
        /\ stop <= Block_stop(b)
    BY LineCells, Units
  <2>2. Block_stop(b) \in Nat /\ \A a \in Nat : a < Block_stop(b) => a \in Address
    BY BlockFacts
  <2> QED  BY <2>1, <2>2
<1> HIDE DEF first, stop
<1>3. \A a \in Nat : a < stop => /\ memory[a] \in Int
                                 /\ memory[a] \in Nat \/ memory[a] = DATA
  BY <1>2, Words
<1>4. \E g : Is(g)
  <2> DEFINE Out == {a \in Nat : a >= stop \/ memory[a] = 0}
             Ends == {a \in Nat : memory[a] = DATA}
             nxt == [a \in Nat |-> a + memory[a]]
  <2>1. \A a \in Nat : a \notin Out /\ a \notin Ends => nxt[a] \in Nat
    <3> SUFFICES ASSUME NEW a \in Nat, a \notin Out, a \notin Ends
                 PROVE  nxt[a] \in Nat
      OBVIOUS
    <3>1. a < stop
      BY <1>2
    <3>2. memory[a] \in Nat
      BY <1>3, <3>1
    <3> QED  BY <3>2
  <2>2. PICK g : Steps(g, Nat, Out, Ends, nxt)
    <3> HIDE DEF Out, Ends, nxt
    <3> QED  BY <2>1, StepsExist
  <2>3. Is(g)
    BY <2>2 DEF Steps
  <2> QED  BY <2>3
<1>5. Is(walk)
  <2> HIDE DEF Is
  <2> QED  BY <1>4
<1>6. \A a \in Nat : walk[a] = IF a >= stop \/ memory[a] = 0 THEN {}
                               ELSE {a} \cup IF memory[a] = DATA THEN {}
                                             ELSE walk[a + memory[a]]
  <2> HIDE DEF walk
  <2> QED  BY <1>5
<1> HIDE DEF walk, Is
<1> DEFINE From(a) == {c \in cells : memory[c] > 0 /\ a <= c}
           wrong == {a \in cells : memory[a] > 0 /\ walk[a] # From(a)}
<1>7. stop = first + LINE_SIZE
  BY DEF stop, first
<1>8. \A c \in cells : c \in Nat /\ c < stop /\ memory[c] \in Int
                       /\ (memory[c] \in Nat \/ memory[c] = DATA)
  BY <1>2, <1>3, <1>7
<1>9. LineShape(memory, h, first)
  BY DEF first
<1> HIDE DEF h
<1>10. ASSUME NEW a \in cells, memory[a] > 0,
              a + memory[a] \notin wrong
       PROVE  walk[a] = From(a)
  <2> DEFINE n == a + memory[a]
  <2>1. a \in Nat /\ a < stop /\ memory[a] \in Nat /\ n \in Nat /\ a < n
        /\ memory[a] # DATA /\ memory[a] # 0
    <3>1. a \in Nat /\ a < stop /\ memory[a] \in Int /\ memory[a] > 0
          /\ (memory[a] \in Nat \/ memory[a] = DATA)
      BY <1>8, <1>10
    <3> QED  BY <3>1 DEF DATA
  <2>2. walk[a] = {a} \cup walk[n]
    <3>1. ~ (a >= stop)
      BY <1>2, <2>1
    <3>2. walk[a] = {a} \cup walk[a + memory[a]]
      BY <1>6, <2>1, <3>1, Zenon
    <3> QED  BY <3>2
  <2>3. \A d \in cells : memory[d] > 0 /\ a < d => n <= d /\ memory[n] > 0
    BY <1>2, <1>9, <1>10, NextHead
  <2>4. CASE n \in cells /\ memory[n] > 0
    <3>1. walk[n] = From(n)
      BY <1>10, <2>4
    <3>2. From(a) = {a} \cup From(n)
      BY <1>8, <1>10, <2>1, <2>3, <2>4
    <3> QED  BY <2>2, <3>1, <3>2
  <2>5. CASE ~(n \in cells /\ memory[n] > 0)
    <3>1. walk[n] = {}
      <4>1. CASE n \in cells
        <5>1. memory[n] # DATA
          BY <1>7, <1>8, <1>9, <1>10, <4>1 DEF LineShape
        <5>2. memory[n] = 0
          BY <1>8, <2>5, <4>1, <5>1
        <5> QED  BY <1>6, <2>1, <5>2
      <4>2. CASE n \notin cells
        <5>1. n >= stop
          BY <1>2, <1>7, <2>1, <4>2
        <5> QED  BY <1>6, <2>1, <5>1
      <4> QED  BY <4>1, <4>2
    <3>2. From(a) = {a}
      <4>1. ASSUME NEW d \in From(a), d # a
            PROVE  FALSE
        <5>1. d \in cells /\ memory[d] > 0 /\ a < d
          BY <1>8, <4>1
        <5>2. n <= d /\ memory[n] > 0
          BY <2>3, <5>1
        <5>3. n \in cells
          BY <1>2, <1>7, <1>8, <2>1, <5>1, <5>2
        <5> QED  BY <2>5, <5>2, <5>3
      <4> QED  BY <1>8, <1>10, <4>1
    <3> QED  BY <2>2, <3>1, <3>2
  <2> QED  BY <2>4, <2>5
<1>11. wrong = {}
  <2> SUFFICES ASSUME wrong # {} PROVE FALSE
    OBVIOUS
  <2> DEFINE left == {stop - a : a \in wrong}
  <2>1. left \in SUBSET Nat /\ left # {}
    BY <1>2, <1>8
  <2>2. PICK x \in left : \A y \in left : x <= y
    <3> HIDE DEF left
    <3> QED  BY <2>1, LeastNatural
  <2>3. PICK a \in wrong : x = stop - a
    OBVIOUS
  <2>4. a \in cells /\ memory[a] > 0 /\ walk[a] # From(a)
    OBVIOUS
  <2>5. a + memory[a] \notin wrong
    <3> SUFFICES ASSUME a + memory[a] \in wrong PROVE FALSE
      OBVIOUS
    <3>1. stop - a <= stop - (a + memory[a])
      BY <2>2, <2>3
    <3>2. a \in Int /\ memory[a] \in Int /\ memory[a] > 0
      BY <1>8, <2>4
    <3> QED  BY <1>2, <3>1, <3>2
  <2> HIDE DEF wrong, From
  <2> QED  BY <1>10, <2>4, <2>5
<1>12. CASE containsObject(h)
  <2> DEFINE f == first + h.offset
  <2>1. f \in cells /\ memory[f] > 0 /\ \A a \in cells : memory[a] > 0 => f <= a
    BY <1>2, <1>9, <1>12 DEF LineShape
  <2>2. walk[f] = From(f)
    BY <1>11, <2>1
  <2>3. From(f) = Heads(b, l)
    BY <1>2, <2>1 DEF Heads
  <2> QED  BY <1>1, <1>12, <2>2, <2>3
<1>13. CASE ~containsObject(h)
  <2>1. \A a \in cells : ~(memory[a] > 0)
    BY <1>9, <1>13 DEF LineShape
  <2>2. Heads(b, l) = {}
    BY <1>2, <2>1 DEF Heads
  <2> QED  BY <1>1, <1>13, <2>2
<1> QED  BY <1>12, <1>13
-----------------------------------------------------------------------------
\* The holes in order: following them stays in a set that has with each of its
\* holes the next one, which is further on.
LEMMA ChainFollows ==
    ASSUME \A a \in Address : hole[a] \in HoleRecord \cup {NULL},
           NEW S \in SUBSET Address,
           \A a \in S : /\ hole[a] # NULL
                        /\ hole[a].next # NULL =>
                              hole[a].next \in S /\ a < hole[a].next,
           NEW x \in S
    PROVE  Chain(x) \subseteq S
<1> DEFINE last == {c \in Address : hole[c] = NULL \/ hole[c].next = NULL}
           nxt == [c \in Address |-> hole[c].next]
           Is(g) == g = [c \in Address |->
                           {c} \cup IF hole[c] = NULL \/ hole[c].next = NULL THEN {}
                                    ELSE g[hole[c].next]]
           chain == CHOOSE g : Is(g)
           wrong == {a \in S : ~ (chain[a] \subseteq S)}
<1>1. Chain(x) = chain[x]
  BY DEF Chain
<1>2. \E g : Is(g)
  <2>1. \A c \in Address : c \notin {} /\ c \notin last => nxt[c] \in Address
    <3> SUFFICES ASSUME NEW c \in Address, c \notin last
                 PROVE  nxt[c] \in Address
      OBVIOUS
    <3>1. hole[c] \in HoleRecord /\ hole[c].next # NULL
      OBVIOUS
    <3> QED  BY <3>1 DEF HoleRecord
  <2>2. PICK g : Steps(g, Address, {}, last, nxt)
    <3> HIDE DEF last, nxt
    <3> QED  BY <2>1, StepsExist
  <2>3. Is(g)
    BY <2>2 DEF Steps
  <2> QED  BY <2>3
<1>3. Is(chain)
  <2> HIDE DEF Is
  <2> QED  BY <1>2
<1>4. \A c \in Address :
         chain[c] = {c} \cup IF hole[c] = NULL \/ hole[c].next = NULL THEN {}
                             ELSE chain[hole[c].next]
  <2> HIDE DEF chain
  <2> QED  BY <1>3
<1> HIDE DEF chain
<1>5. wrong = {}
  <2> SUFFICES ASSUME wrong # {} PROVE FALSE
    OBVIOUS
  <2>1. MAX_BLOCKS * BLOCK_SIZE \in Nat
    BY Multiples, SmallHeapAssumption
  <2>2. PICK n \in Int : n = MAX_BLOCKS * BLOCK_SIZE - 1
    BY <2>1
  <2>3. wrong \in SUBSET (0 .. n)
    BY <2>2 DEF Address
  <2>4. Max(wrong) \in wrong /\ \A y \in wrong : y <= Max(wrong)
    <3> HIDE DEF wrong
    <3> QED  BY <2>3, Greatest
  <2>5. PICK a \in wrong : \A y \in wrong : y <= a
    BY <2>4
  <2>6. a \in S /\ a \in Address /\ hole[a] # NULL
    OBVIOUS
  <2>7. hole[a].next # NULL
    BY <1>4, <2>6
  <2>8. hole[a].next \in S /\ a < hole[a].next /\ hole[a].next \in Address
    BY <2>6, <2>7
  <2>9. hole[a].next \notin wrong
    <3>1. a \in Int /\ hole[a].next \in Int
      BY <2>1, <2>6, <2>8 DEF Address
    <3> QED  BY <2>5, <2>8, <3>1
  <2>10. chain[hole[a].next] \subseteq S
    BY <2>8, <2>9
  <2>11. chain[a] = {a} \cup chain[hole[a].next]
    BY <1>4, <2>6, <2>7, Zenon
  <2> QED  BY <2>6, <2>10, <2>11
<1> QED  BY <1>1, <1>5
-----------------------------------------------------------------------------
(* The invariant *)

\* No object and no word of one, up to y.
Spare(m, lv, x, y) ==
    \A a \in Address : x <= a /\ a < y =>
        ~ (m[a] > 0) /\ \A o \in lv : a \notin Cells(o)

\* What the allocator bumps through: whole lines but for the first, where the
\* objects before the cursor end at the cursor, in a zero.
Region(m, h, lv, b, x, y) ==
    /\ Block_start(b) <= x /\ x <= y
    /\ \E k \in 0 .. LINE_COUNT : y = Block_line(b, k)
    /\ Spare(m, lv, x, y)
    /\ \A l \in Line :
          x < y /\ InLine(b, l, x) /\ containsObject(h[b][l]) =>
             /\ m[x] = 0
             /\ \E c \in Block_line(b, l) .. x - 1 : m[c] > 0 /\ c + m[c] = x

\* A hole of block b, and what follows it.
HoleOK(m, h, lv, hl, b, S, a) ==
    /\ hl[a] # NULL
    /\ \E l \in Line : a = Block_line(b, l)
    /\ Region(m, h, lv, b, a, hl[a].limit)
    /\ hl[a].next # NULL => hl[a].next \in S /\ hl[a].limit <= hl[a].next

\* The holes of block b from the one at x on.
ChainOK(m, h, lv, hl, b, x) ==
    \E S \in SUBSET Address :
       /\ x \in S
       /\ \A a \in S : x <= a /\ HoleOK(m, h, lv, hl, b, S, a)

\* Every line can be walked.
LinesInv ==
    \A b \in Blocks, l \in Line :
       LineShape(memory, line_header[b][l], Block_line(b, l))

\* An object in use is in the lines of one block, and as it was allocated.
Placed(m, blocks, o) ==
    /\ \E b \in blocks : Block_start(b) <= o.at /\ o.at + o.size <= Block_stop(b)
    /\ o.at \in Nat /\ o.size \in SIZES /\ m[o.at] = o.size
    /\ \A c \in Address : o.at < c /\ c < o.at + o.size => m[c] = DATA

LiveInv == \A o \in live : Placed(memory, MappedBlocks, o)

\* A hole record is at the start of a line that is not the first, and leads
\* further on in the same block.
HoleShape(hl, a) ==
    hl[a] # NULL =>
       /\ hl[a] \in HoleRecord
       /\ \E b \in Blocks, l \in Line \ {0} :
             /\ a = Block_line(b, l)
             /\ hl[a].next # NULL => a < hl[a].next /\ Block_contains(b, hl[a].next)

HoleInv == \A a \in Address : HoleShape(hole, a)

\* Blocks that are free, or not mapped yet, hold nothing.
FreeInv ==
    \A b \in Range(free_list) \cup (Blocks \ MappedBlocks) :
       Spare(memory, live, Block_start(b), Block_stop(b))

RecyclableInv ==
    \A b \in Range(recyclable_list) :
       ChainOK(memory, line_header, live, hole, b,
               Block_line(b, block_header[b].first_free_line))

\* The allocator goes through its block, or it has followed a `next' that was
\* left over out of it, which the next allocation finds out.
Within(b, at, limit, hl) ==
    /\ limit = Block_stop(b)
    /\ \A a \in Address : Block_start(b) <= a /\ a <= at /\ a < limit => hl[a] = NULL

Astray(b, at, next) ==
    /\ ~Block_contains(b, at)
    /\ next # NULL => ~Block_contains(b, next)

BumpOK(m, h, lv, hl, flag, l) ==
    \/ /\ flag = "free"
       /\ Within(l.block, l.cursor, l.limit, hl)
       /\ Region(m, h, lv, l.block, l.cursor, l.limit)
    \/ flag = "free" /\ Astray(l.block, l.cursor, l.next)
    \/ /\ flag = "recyclable"
       /\ Region(m, h, lv, l.block, l.cursor, l.limit)
       /\ l.next # NULL => /\ ChainOK(m, h, lv, hl, l.block, l.next)
                           /\ l.limit <= l.next

LocalInv ==
    ~collecting \/ pc \in {"nextFree", "growFree"} =>
       BumpOK(memory, line_header, live, hole, block_header[local.block].flag, local)

OverflowOK(m, h, lv, l) ==
    /\ l.overflow_limit = Block_stop(l.overflow_block)
    /\ Region(m, h, lv, l.overflow_block, l.overflow_cursor, l.overflow_limit)

OverflowInv == ~collecting => OverflowOK(memory, line_header, live, local)

\* A call that waits for a block, or for the collection, has a request.
CallInv ==
    /\ ~collecting /\ pc # "idle" => request # NULL
    /\ collecting /\ caller # "idle" => request # NULL

MarkInv == pc = "mark" => \A o \in live : o.at \notin marked

Contents ==
    /\ TypeOK /\ LinesInv /\ LiveInv /\ HoleInv /\ FreeInv /\ RecyclableInv
    /\ LocalInv /\ OverflowInv /\ CallInv /\ MarkInv /\ SweepKeepsLive
-----------------------------------------------------------------------------
(* What a step leaves alone *)

\* The words of block b from z on, and the headers of the lines from there.
Kept(b, z) ==
    /\ \A a \in Address : z <= a /\ a < Block_stop(b) =>
          memory'[a] = memory[a] /\ hole'[a] = hole[a]
    /\ \A l \in Line : z <= Block_line(b, l) =>
          line_header'[b][l].offset = line_header[b][l].offset
    /\ \A o \in live' : \/ o \in live
                        \/ \A a \in Cells(o) : ~ (z <= a /\ a < Block_stop(b))

LEMMA Numbers ==
    /\ \A a \in Address : a \in Nat
    /\ \A b \in Blocks, l \in 0 .. LINE_COUNT :
          /\ Block_line(b, l) \in Nat /\ Block_line(b, l) <= Block_stop(b)
          /\ Block_start(b) <= Block_line(b, l)
    /\ \A b \in Blocks : /\ b \in Nat /\ Block_start(b) \in Nat /\ Block_stop(b) \in Nat
                         /\ Block_start(b) < Block_stop(b)
                         /\ Block_line(b, 0) = Block_start(b)
                         /\ Block_line(b, LINE_COUNT) = Block_stop(b)
                         /\ \A a \in Nat : a < Block_stop(b) => a \in Address
    /\ \A l \in Line : l \in 0 .. LINE_COUNT
    /\ 0 \in Line /\ LINE_COUNT \in 0 .. LINE_COUNT
<1>1. \A a \in Address : a \in Nat
  BY Multiples, SmallHeapAssumption DEF Address
<1>2. /\ \A l \in Line : l \in 0 .. LINE_COUNT
      /\ 0 \in Line /\ LINE_COUNT \in 0 .. LINE_COUNT /\ 0 \in 0 .. LINE_COUNT
  BY Units DEF Line
<1>3. ASSUME NEW b \in Blocks
      PROVE  b \in Nat /\ \A a \in Nat : a < Block_stop(b) => a \in Address
  BY BlockFacts
<1>4. ASSUME NEW b \in Blocks, NEW l \in 0 .. LINE_COUNT
      PROVE  /\ Block_line(b, l) \in Nat /\ Block_line(b, l) <= Block_stop(b)
             /\ Block_start(b) <= Block_line(b, l)
  BY <1>3, <1>4, Lines
<1>5. ASSUME NEW b \in Blocks
      PROVE  /\ Block_start(b) \in Nat /\ Block_stop(b) \in Nat
             /\ Block_start(b) < Block_stop(b)
             /\ Block_line(b, 0) = Block_start(b)
             /\ Block_line(b, LINE_COUNT) = Block_stop(b)
  BY <1>2, <1>3, Lines
<1> QED  BY <1>1, <1>2, <1>3, <1>4, <1>5

LEMMA KeptSpare ==
    ASSUME NEW b \in Blocks, NEW z \in Nat, Kept(b, z), NEW x \in Nat, NEW y \in Nat,
           z <= x, y <= Block_stop(b), Spare(memory, live, x, y)
    PROVE  Spare(memory', live', x, y)
<1> SUFFICES ASSUME NEW a \in Address, x <= a, a < y
             PROVE  ~ (memory'[a] > 0) /\ \A o \in live' : a \notin Cells(o)
  BY DEF Spare
<1>1. z <= a /\ a < Block_stop(b)
  BY Numbers
<1>2. memory'[a] = memory[a] /\ ~ (memory[a] > 0)
  BY <1>1 DEF Kept, Spare
<1>3. \A o \in live : a \notin Cells(o)
  BY DEF Spare
<1> QED  BY <1>1, <1>2, <1>3 DEF Kept

LEMMA KeptRegion ==
    ASSUME NEW b \in Blocks, NEW z \in Nat, Kept(b, z), NEW x \in Nat, NEW y,
           z <= x, \A l \in Line : InLine(b, l, x) => z <= Block_line(b, l),
           Region(memory, line_header, live, b, x, y)
    PROVE  Region(memory', line_header', live', b, x, y)
<1>1. PICK k \in 0 .. LINE_COUNT : y = Block_line(b, k)
  BY DEF Region
<1>2. y \in Nat /\ y <= Block_stop(b) /\ x <= y /\ Block_stop(b) \in Nat
  BY <1>1, Numbers DEF Region
<1>3. Spare(memory', live', x, y)
  BY <1>2, KeptSpare DEF Region
<1>4. ASSUME NEW l \in Line, x < y, InLine(b, l, x), containsObject(line_header'[b][l])
      PROVE  /\ memory'[x] = 0
             /\ \E c \in Block_line(b, l) .. x - 1 :
                   memory'[c] > 0 /\ c + memory'[c] = x
  <2>1. z <= Block_line(b, l) /\ Block_line(b, l) \in Nat
    BY <1>4, Numbers
  <2>2. containsObject(line_header[b][l])
    BY <1>4, <2>1 DEF Kept, containsObject
  <2>3. /\ memory[x] = 0
        /\ \E c \in Block_line(b, l) .. x - 1 : memory[c] > 0 /\ c + memory[c] = x
    BY <1>4, <2>2 DEF Region
  <2>4. PICK c \in Block_line(b, l) .. x - 1 : memory[c] > 0 /\ c + memory[c] = x
    BY <2>3
  <2>5. x \in Address /\ c \in Address /\ z <= c /\ c < Block_stop(b)
        /\ x < Block_stop(b)
    <3>1. c \in Nat /\ c < Block_stop(b) /\ z <= c /\ x < Block_stop(b)
      BY <1>2, <1>4, <2>1
    <3> QED  BY <3>1, Numbers
  <2>6. memory'[x] = memory[x] /\ memory'[c] = memory[c]
    BY <2>5 DEF Kept
  <2> QED  BY <2>3, <2>4, <2>6
<1> QED  BY <1>1, <1>2, <1>3, <1>4 DEF Region

\* A line is the only one that contains its first word.
LEMMA LineStart ==
    ASSUME NEW b \in Blocks, NEW l \in Line
    PROVE  /\ Block_line(b, l) \in Address
           /\ InLine(b, l, Block_line(b, l))
           /\ \A k \in Line : InLine(b, k, Block_line(b, l)) => k = l
<1>1. Block_line(b, l) \in Nat /\ LINE_SIZE \in Nat /\ LINE_SIZE > 0 /\ b \in Nat
  BY Numbers, Units
<1>2. InLine(b, l, Block_line(b, l))
  BY <1>1 DEF InLine
<1>3. Block_line(b, l) \in Address
  BY <1>1, LineCells
<1>4. \A k \in Line : InLine(b, k, Block_line(b, l)) => k = l
  BY <1>1, <1>2, IndexOf
<1> QED  BY <1>2, <1>3, <1>4

LEMMA KeptChain ==
    ASSUME NEW b \in Blocks, NEW z \in Nat, Kept(b, z), NEW x,
           z <= x, ChainOK(memory, line_header, live, hole, b, x)
    PROVE  ChainOK(memory', line_header', live', hole', b, x)
<1>1. PICK S \in SUBSET Address :
         /\ x \in S
         /\ \A a \in S : x <= a /\ HoleOK(memory, line_header, live, hole, b, S, a)
  BY DEF ChainOK
<1>2. ASSUME NEW a \in S
      PROVE  HoleOK(memory', line_header', live', hole', b, S, a)
  <2>1. PICK l \in Line : a = Block_line(b, l)
    BY <1>1 DEF HoleOK
  <2>2. a \in Nat /\ z <= a /\ x \in Nat
    BY <1>1, Numbers
  <2>3. \A k \in Line : InLine(b, k, a) => z <= Block_line(b, k)
    BY <2>1, <2>2, LineStart
  <2>4. Region(memory, line_header, live, b, a, hole[a].limit)
    BY <1>1 DEF HoleOK
  <2>5. Region(memory', line_header', live', b, a, hole[a].limit)
    BY <2>2, <2>3, <2>4, KeptRegion
  <2>6. a < Block_stop(b)
    <3>1. InLine(b, l, a)
      BY <2>1, LineStart
    <3>2. Block_line(b, l) + LINE_SIZE <= Block_stop(b)
      BY LineCells
    <3> QED  BY <2>2, <3>1, <3>2, Numbers, Units DEF InLine
  <2>7. hole'[a] = hole[a]
    BY <2>2, <2>6 DEF Kept
  <2> QED  BY <1>1, <2>5, <2>7 DEF HoleOK
<1> QED  BY <1>1, <1>2 DEF ChainOK

\* A block of which nothing changes.
LEMMA KeptBlock ==
    ASSUME NEW b \in Blocks, Kept(b, Block_start(b))
    PROVE  /\ \A x \in Nat, y \in Nat :
                 Block_start(b) <= x /\ y <= Block_stop(b)
                    /\ Spare(memory, live, x, y) => Spare(memory', live', x, y)
           /\ \A x \in Nat : \A y : Region(memory, line_header, live, b, x, y) =>
                 Region(memory', line_header', live', b, x, y)
           /\ \A x : ChainOK(memory, line_header, live, hole, b, x) =>
                 ChainOK(memory', line_header', live', hole', b, x)
<1>1. Block_start(b) \in Nat /\ Block_stop(b) \in Nat
      /\ \A l \in Line : Block_start(b) <= Block_line(b, l)
  BY Numbers
<1>2. ASSUME NEW x \in Nat, NEW y \in Nat, Block_start(b) <= x, y <= Block_stop(b),
             Spare(memory, live, x, y)
      PROVE  Spare(memory', live', x, y)
  BY <1>1, <1>2, KeptSpare
<1>3. ASSUME NEW x \in Nat, NEW y, Region(memory, line_header, live, b, x, y)
      PROVE  Region(memory', line_header', live', b, x, y)
  <2>1. Block_start(b) <= x
    BY <1>3 DEF Region
  <2> QED  BY <1>1, <1>3, <2>1, KeptRegion
<1>4. ASSUME NEW x, ChainOK(memory, line_header, live, hole, b, x)
      PROVE  ChainOK(memory', line_header', live', hole', b, x)
  <2>1. \E l \in Line : x = Block_line(b, l)
    BY <1>4 DEF ChainOK, HoleOK
  <2>2. Block_start(b) <= x
    BY <1>1, <2>1
  <2> QED  BY <1>1, <1>4, <2>2, KeptChain
<1> QED  BY <1>2, <1>3, <1>4
-----------------------------------------------------------------------------
(* Placing an object *)

HeaderType ==
    line_header \in [Blocks -> [Line -> [marked : BOOLEAN,
                                         offset : 0 .. LINE_SIZE - 1 \cup {NULL}]]]

\* What PlaceObject is given: a region with room for the request.
Room(b, x, limit) ==
    /\ b \in MappedBlocks /\ x \in Nat /\ request \in SIZES
    /\ Region(memory, line_header, live, b, x, limit)
    /\ x + request <= limit

\* What it does, word by word and line by line.
Written(b, x, limit, l) ==
    /\ \A c \in Address :
          /\ c = x => memory'[c] = request
          /\ x < c /\ c < x + request => memory'[c] = DATA
          /\ c = x + request /\ c < limit => memory'[c] = 0
          /\ c < x \/ x + request < c \/ limit <= c => memory'[c] = memory[c]
          /\ x <= c /\ c < limit /\ c <= x + request => hole'[c] = NULL
          /\ c < x \/ limit <= c => hole'[c] = hole[c]
          /\ hole'[c] \in {hole[c], NULL}
    /\ \A c \in Blocks, k \in Line :
          /\ c # b \/ k # l => line_header'[c][k] = line_header[c][k]
          /\ containsObject(line_header[b][l]) =>
                line_header'[c][k] = line_header[c][k]
    /\ ~containsObject(line_header[b][l]) =>
          line_header'[b][l] = [marked |-> FALSE, offset |-> x - Block_line(b, l)]
    /\ live' = live \cup {[at |-> x, size |-> request]}

LEMMA RoomFacts ==
    ASSUME NEW b, NEW x, NEW limit, Room(b, x, limit)
    PROVE  /\ b \in Blocks /\ x \in Nat /\ x \in Address /\ request \in Nat
           /\ request > OBJECT /\ OBJECT \in Nat /\ OBJECT > 0
           /\ limit \in Nat /\ x + request <= limit /\ x < limit
           /\ Block_start(b) <= x /\ limit <= Block_stop(b)
           /\ Block_lineIndex(b, x) \in Line
           /\ InLine(b, Block_lineIndex(b, x), x)
           /\ \E k \in 0 .. LINE_COUNT : limit = Block_line(b, k)
<1>1. b \in Blocks /\ x \in Nat /\ request \in Nat /\ request > OBJECT
      /\ OBJECT \in Nat /\ OBJECT > 0
  BY Units DEF Room, MappedBlocks
<1>2. PICK k \in 0 .. LINE_COUNT : limit = Block_line(b, k)
  BY DEF Room, Region
<1>3. limit \in Nat /\ limit <= Block_stop(b) /\ Block_stop(b) \in Nat
  BY <1>1, <1>2, Numbers
<1>4. Block_start(b) <= x /\ x + request <= limit /\ x < limit
  BY <1>1, <1>3 DEF Room, Region
<1>5. x \in Address /\ b \in Nat
  BY <1>1, <1>3, <1>4, Numbers
<1>6. Block_contains(b, x)
  BY <1>1, <1>3, <1>4 DEF Block_contains
<1>7. Block_lineIndex(b, x) \in Line /\ InLine(b, Block_lineIndex(b, x), x)
  BY <1>1, <1>5, <1>6, LineIndex
<1> QED  BY <1>1, <1>2, <1>3, <1>4, <1>5, <1>7

LEMMA PlacedWords ==
    ASSUME HeaderType, NEW b, NEW x, NEW limit, Room(b, x, limit),
           PlaceObject(b, x, limit)
    PROVE  Written(b, x, limit, Block_lineIndex(b, x))
<1> DEFINE l == Block_lineIndex(b, x)
           o == [at |-> x, size |-> request]
<1>1. /\ b \in Blocks /\ x \in Nat /\ x \in Address /\ request \in Nat
      /\ request > 0 /\ limit \in Nat /\ l \in Line /\ x + request <= limit
  BY RoomFacts
<1>2. Cells(o) = x .. x + request - 1
  BY DEF Cells
<1>3. \A c \in Address : c \in Nat /\ (c \in Cells(o) <=> x <= c /\ c < x + request)
  BY <1>1, <1>2, Numbers
<1>4. /\ Line_update(b, x)
      /\ memory' = [c \in Address |->
                      IF c = x THEN request
                      ELSE IF c \in Cells(o) THEN DATA
                      ELSE IF c = x + request /\ x + request < limit THEN 0
                      ELSE memory[c]]
      /\ hole' = [c \in Address |->
                    IF c \in Cells(o) \/ (c = x + request /\ x + request < limit)
                    THEN NULL ELSE hole[c]]
      /\ live' = live \cup {o}
  BY DEF PlaceObject, HasNext
<1>5. ASSUME NEW c \in Address
      PROVE  /\ c = x => memory'[c] = request
             /\ x < c /\ c < x + request => memory'[c] = DATA
             /\ c = x + request /\ c < limit => memory'[c] = 0
             /\ c < x \/ x + request < c \/ limit <= c => memory'[c] = memory[c]
  <2> HIDE DEF o
  <2> QED  BY <1>1, <1>3, <1>4
<1>6. ASSUME NEW c \in Address
      PROVE  /\ x <= c /\ c < limit /\ c <= x + request => hole'[c] = NULL
             /\ c < x \/ limit <= c => hole'[c] = hole[c]
             /\ hole'[c] \in {hole[c], NULL}
  <2> HIDE DEF o
  <2>1. hole'[c] = IF c \in Cells(o) \/ (c = x + request /\ x + request < limit)
                   THEN NULL ELSE hole[c]
    BY <1>4
  <2>2. c \in Nat /\ (c \in Cells(o) <=> x <= c /\ c < x + request)
    BY <1>3
  <2>3. CASE x <= c /\ c < limit /\ c <= x + request
    <3>1. c \in Cells(o) \/ (c = x + request /\ x + request < limit)
      BY <1>1, <2>2, <2>3
    <3>2. hole'[c] = NULL
      BY <2>1, <3>1, Zenon
    <3> QED  BY <1>1, <2>2, <2>3, <3>2
  <2>4. CASE ~ (x <= c /\ c < limit /\ c <= x + request)
    <3>1. ~ (c \in Cells(o) \/ (c = x + request /\ x + request < limit))
      BY <1>1, <2>2, <2>4
    <3>2. hole'[c] = hole[c]
      BY <2>1, <3>1, Zenon
    <3> QED  BY <2>4, <3>2
  <2> QED  BY <2>3, <2>4
<1>7. /\ containsObject(line_header[b][l]) => line_header' = line_header
      /\ ~containsObject(line_header[b][l]) =>
            line_header' = [line_header EXCEPT ![b][l] =
               [marked |-> FALSE, offset |-> x - Block_line(b, l)]]
  BY <1>4 DEF Line_update
<1> HIDE DEF l, o
<1>8. \A c \in Blocks, k \in Line :
          /\ c # b \/ k # l => line_header'[c][k] = line_header[c][k]
          /\ containsObject(line_header[b][l]) =>
                line_header'[c][k] = line_header[c][k]
  BY <1>1, <1>7 DEF HeaderType
<1>9. ~containsObject(line_header[b][l]) =>
          line_header'[b][l] = [marked |-> FALSE, offset |-> x - Block_line(b, l)]
  BY <1>1, <1>7 DEF HeaderType
<1> QED  BY <1>4, <1>5, <1>6, <1>8, <1>9 DEF Written, l, o

\* Other blocks, and what comes after the region, are left alone.
LEMMA PlacedElsewhere ==
    ASSUME NEW b, NEW x, NEW limit, Room(b, x, limit),
           Written(b, x, limit, Block_lineIndex(b, x))
    PROVE  /\ \A c \in Blocks : c # b => Kept(c, Block_start(c))
           /\ Kept(b, limit)
<1> DEFINE l == Block_lineIndex(b, x)
           o == [at |-> x, size |-> request]
<1>1. /\ b \in Blocks /\ x \in Nat /\ request \in Nat /\ request > 0
      /\ limit \in Nat /\ l \in Line /\ x + request <= limit
      /\ Block_start(b) <= x /\ limit <= Block_stop(b) /\ InLine(b, l, x)
      /\ \E k \in 0 .. LINE_COUNT : limit = Block_line(b, k)
  BY RoomFacts
<1>2. \A c \in Address : c < x \/ limit <= c =>
         memory'[c] = memory[c] /\ hole'[c] = hole[c]
  BY DEF Written
<1>3. live' = live \cup {o} /\ \A a \in Cells(o) : a \in Nat /\ x <= a /\ a < limit
  BY <1>1 DEF Written, Cells
<1>4. \A c \in Blocks, k \in Line :
         c # b \/ k # l => line_header'[c][k] = line_header[c][k]
  BY DEF Written
<1>5. Block_line(b, l) < limit /\ Block_line(b, l) \in Nat
  BY <1>1, Numbers DEF InLine
<1> HIDE DEF l, o
<1>6. ASSUME NEW c \in Blocks, c # b
      PROVE  Kept(c, Block_start(c))
  <2>1. ASSUME NEW a \in Nat, Block_start(c) <= a, a < Block_stop(c)
        PROVE  a < x \/ limit <= a
    <3> SUFFICES ASSUME x <= a, a < limit PROVE FALSE
      BY <1>1
    <3>1. Block_contains(b, a) /\ Block_contains(c, a)
      BY <1>1, <2>1, Numbers DEF Block_contains
    <3> QED  BY <1>1, <1>6, <3>1, OneBlock
  <2>2. \A a \in Address : Block_start(c) <= a /\ a < Block_stop(c) =>
           memory'[a] = memory[a] /\ hole'[a] = hole[a]
    BY <1>2, <2>1, Numbers
  <2>3. \A a \in Cells(o) : ~ (Block_start(c) <= a /\ a < Block_stop(c))
    BY <1>1, <1>3, <2>1
  <2> QED  BY <1>3, <1>4, <1>6, <2>2, <2>3 DEF Kept
<1>7. Kept(b, limit)
  <2>1. \A k \in Line : limit <= Block_line(b, k) => k # l
    BY <1>1, <1>5
  <2>2. \A a \in Cells(o) : ~ (limit <= a /\ a < Block_stop(b))
    BY <1>1, <1>3
  <2> QED  BY <1>1, <1>2, <1>3, <1>4, <2>1, <2>2 DEF Kept
<1> QED  BY <1>6, <1>7

\* A line of spare words has no first object.
LEMMA SpareLine ==
    ASSUME LinesInv, MemoryType, NEW b \in Blocks, NEW l \in Line,
           \A a \in Address : InLine(b, l, a) => ~ (memory[a] > 0)
    PROVE  ~containsObject(line_header[b][l])
<1> DEFINE first == Block_line(b, l)
           h == line_header[b][l]
<1> SUFFICES ASSUME containsObject(h) PROVE FALSE
  OBVIOUS
<1>1. LineShape(memory, h, first)
  BY DEF LinesInv
<1>2. /\ first \in Nat /\ LINE_SIZE \in Nat
      /\ \A a \in first .. first + LINE_SIZE - 1 : a \in Address /\ InLine(b, l, a)
  BY LineCells, Units
<1> HIDE DEF first, h
<1>3. h.offset \in 0 .. LINE_SIZE - 1 /\ memory[first + h.offset] > 0
  BY <1>1 DEF LineShape
<1>4. first + h.offset \in first .. first + LINE_SIZE - 1
  BY <1>2, <1>3
<1> QED  BY <1>2, <1>3, <1>4

\* The line of the new object can still be walked.
LEMMA PlacedLine ==
    ASSUME MemoryType, LinesInv, NEW b, NEW x, NEW limit, Room(b, x, limit),
           Written(b, x, limit, Block_lineIndex(b, x))
    PROVE  LineShape(memory', line_header'[b][Block_lineIndex(b, x)],
                     Block_line(b, Block_lineIndex(b, x)))
<1> DEFINE l == Block_lineIndex(b, x)
           first == Block_line(b, l)
           stop == Block_line(b, l) + LINE_SIZE
           cells == first .. first + LINE_SIZE - 1
           h == line_header[b][l]
           g == line_header'[b][l]
<1>1. /\ b \in Blocks /\ x \in Nat /\ x \in Address /\ request \in Nat /\ request > 0
      /\ limit \in Nat /\ l \in Line /\ x + request <= limit /\ x < limit
      /\ Block_start(b) <= x /\ limit <= Block_stop(b) /\ InLine(b, l, x)
      /\ \E k \in 0 .. LINE_COUNT : limit = Block_line(b, k)
  BY RoomFacts
<1>2. /\ first \in Nat /\ stop \in Nat /\ LINE_SIZE \in Nat /\ LINE_SIZE > 0
      /\ stop = first + LINE_SIZE
      /\ first <= x /\ x < stop /\ stop <= limit
  <2>1. first \in Nat /\ LINE_SIZE \in Nat /\ LINE_SIZE > 0 /\ b \in Nat
        /\ l \in 0 .. LINE_COUNT
    BY <1>1, Numbers, Units
  <2>2. PICK k \in 0 .. LINE_COUNT : limit = Block_line(b, k)
    BY <1>1
  <2>3. /\ k <= l => Block_line(b, k) <= first
        /\ l < k => stop <= Block_line(b, k)
    BY <2>1, <2>2, Lines
  <2>4. k \in Int /\ l \in Int
    BY <2>1
  <2> QED  BY <1>1, <2>1, <2>2, <2>3, <2>4 DEF InLine
<1>3. \A a \in cells : /\ a \in Address /\ a \in Nat /\ a < stop /\ first <= a
                       /\ memory[a] \in Int
                       /\ memory[a] \in Nat \/ memory[a] = DATA
  <2>1. cells \subseteq Address
    BY <1>1, LineCells
  <2> QED  BY <1>2, <2>1, Words
<1>4. LineShape(memory, h, first)
  BY <1>1 DEF LinesInv
<1>5. \A a \in cells : x <= a => ~ (memory[a] > 0)
  <2>1. \A a \in Address : x <= a /\ a < limit => ~ (memory[a] > 0)
    BY DEF Room, Region, Spare
  <2>2. \A a \in cells : a \in Address /\ a < limit
    BY <1>1, <1>2, <1>3
  <2> QED  BY <2>1, <2>2
<1>6. containsObject(h) =>
         /\ memory[x] = 0
         /\ \E c \in first .. x - 1 : memory[c] > 0 /\ c + memory[c] = x
  BY <1>1 DEF Room, Region
<1>7. \A c \in cells :
          /\ c = x => memory'[c] = request
          /\ x < c /\ c < x + request => memory'[c] = DATA
          /\ c = x + request => memory'[c] = 0
          /\ c < x \/ x + request < c => memory'[c] = memory[c]
  <2>1. \A c \in cells : c \in Address /\ c < limit
    BY <1>1, <1>2, <1>3
  <2> QED  BY <2>1 DEF Written
<1>8. /\ containsObject(h) => g = h
      /\ ~containsObject(h) => g = [marked |-> FALSE, offset |-> x - first]
  BY <1>1 DEF Written
<1>9. request # DATA /\ ~ (DATA > 0) /\ 0 # DATA /\ NULL \notin Int /\ DATA \in Int
  BY <1>1, NullAssumption DEF DATA
<1> HIDE DEF l, first, stop, h, g
<1>10. x \in cells
  BY <1>1, <1>2
<1>11. \A a \in cells : memory'[a] > 0 =>
          a = x \/ (a < x /\ memory[a] > 0 /\ memory'[a] = memory[a])
  <2> TAKE a \in cells
  <2>1. a \in Nat
    BY <1>3
  <2>2. CASE a < x
    BY <1>7, <2>2
  <2>3. CASE x < a /\ a < x + request
    BY <1>7, <1>9, <2>3
  <2>4. CASE a = x + request
    BY <1>7, <2>4
  <2>5. CASE x + request < a
    BY <1>1, <1>5, <1>7, <2>1, <2>5
  <2> QED  BY <1>1, <2>1, <2>2, <2>3, <2>4, <2>5
<1>12. CASE containsObject(h)
  <2> DEFINE f == first + h.offset
  <2>1. g = h
    BY <1>8, <1>12
  <2>2. /\ memory[x] = 0
        /\ \E c \in first .. x - 1 : memory[c] > 0 /\ c + memory[c] = x
    BY <1>6, <1>12
  <2>3. f \in cells /\ memory[f] > 0 /\ f < x /\ h.offset \in 0 .. LINE_SIZE - 1
    <3>1. h.offset \in 0 .. LINE_SIZE - 1 /\ memory[f] > 0
      BY <1>4, <1>12 DEF LineShape
    <3>2. f \in cells
      BY <1>2, <3>1
    <3> QED  BY <1>1, <1>3, <1>5, <3>1, <3>2
  <2>4. memory'[f] > 0
    BY <1>7, <2>3
  <2> HIDE DEF f
  <2>5. ASSUME NEW a \in cells, memory'[a] > 0
        PROVE  /\ f <= a
               /\ \/ a = f
                  \/ \E c \in first .. a - 1 : memory'[c] > 0 /\ c + memory'[c] = a
               /\ a + memory'[a] < stop => memory'[a + memory'[a]] # DATA
               /\ \A c \in cells : a < c /\ c < a + memory'[a] => memory'[c] = DATA
    <3>1. CASE a = x
      <4>1. f <= a
        BY <1>1, <1>3, <2>3, <3>1
      <4>2. PICK c \in first .. x - 1 : memory[c] > 0 /\ c + memory[c] = x
        BY <2>2
      <4>3. c \in cells /\ c < x
        BY <1>1, <1>2, <4>2
      <4>4. memory'[c] = memory[c]
        BY <1>7, <4>3
      <4>5. memory'[a] = request
        BY <1>7, <1>10, <3>1
      <4>6. x + request < stop => x + request \in cells
        BY <1>1, <1>2
      <4>7. a + memory'[a] < stop => memory'[a + memory'[a]] # DATA
        BY <1>7, <1>9, <3>1, <4>5, <4>6
      <4>8. \A d \in cells : a < d /\ d < a + memory'[a] => memory'[d] = DATA
        BY <1>7, <3>1, <4>5
      <4> QED  BY <3>1, <4>1, <4>2, <4>4, <4>7, <4>8
    <3>2. CASE a # x
      <4>1. a < x /\ memory[a] > 0 /\ memory'[a] = memory[a] /\ a \in Nat
            /\ memory[a] \in Nat
        BY <1>3, <1>9, <1>11, <2>5, <3>2
      <4>2. /\ f <= a
            /\ \/ a = f
               \/ \E c \in first .. a - 1 : memory[c] > 0 /\ c + memory[c] = a
            /\ a + memory[a] < stop => memory[a + memory[a]] # DATA
            /\ \A c \in cells : a < c /\ c < a + memory[a] => memory[c] = DATA
        BY <1>2, <1>4, <4>1 DEF LineShape, f
      <4>3. a + memory[a] <= x
        <5> SUFFICES ASSUME x < a + memory[a] PROVE FALSE
          BY <1>1, <4>1
        <5>1. memory[x] = DATA
          BY <1>10, <4>1, <4>2
        <5> QED  BY <1>9, <2>2, <5>1
      <4>4. a = f \/ \E c \in first .. a - 1 : memory'[c] > 0 /\ c + memory'[c] = a
        <5> SUFFICES ASSUME a # f
                     PROVE  \E c \in first .. a - 1 :
                               memory'[c] > 0 /\ c + memory'[c] = a
          OBVIOUS
        <5>1. PICK c \in first .. a - 1 : memory[c] > 0 /\ c + memory[c] = a
          BY <4>2
        <5>2. c \in cells /\ c < x
          BY <1>1, <1>2, <4>1, <5>1
        <5>3. memory'[c] = memory[c]
          BY <1>7, <5>2
        <5> QED  BY <5>1, <5>3
      <4>5. a + memory'[a] < stop => memory'[a + memory'[a]] # DATA
        <5> SUFFICES ASSUME a + memory[a] < stop
                     PROVE  memory'[a + memory[a]] # DATA
          BY <4>1
        <5>1. a + memory[a] \in cells
          BY <1>2, <1>3, <4>1
        <5>2. CASE a + memory[a] = x
          BY <1>7, <1>9, <1>10, <5>2
        <5>3. CASE a + memory[a] < x
          BY <1>7, <4>2, <5>1, <5>3
        <5> QED  BY <1>1, <4>1, <4>3, <5>2, <5>3
      <4>6. ASSUME NEW c \in cells, a < c, c < a + memory'[a]
            PROVE  memory'[c] = DATA
        <5>1. c < x
          BY <1>1, <1>3, <4>1, <4>3, <4>6
        <5> QED  BY <1>7, <4>1, <4>2, <4>6, <5>1
      <4> QED  BY <4>2, <4>4, <4>5, <4>6
    <3> QED  BY <3>1, <3>2
  <2>6. LineShape(memory', g, first)
    BY <1>2, <1>12, <2>1, <2>3, <2>4, <2>5 DEF LineShape, f
  <2> QED  BY <2>6 DEF first, l, g
<1>13. CASE ~containsObject(h)
  <2>1. /\ containsObject(g) /\ g.offset = x - first
        /\ g.offset \in 0 .. LINE_SIZE - 1 /\ first + g.offset = x
    <3>1. g.offset = x - first
      BY <1>8, <1>13
    <3>2. g.offset \in 0 .. LINE_SIZE - 1 /\ first + g.offset = x /\ g.offset \in Int
      BY <1>1, <1>2, <3>1
    <3> QED  BY <1>9, <3>1, <3>2 DEF containsObject
  <2>2. \A a \in cells : ~ (memory[a] > 0)
    BY <1>4, <1>13 DEF LineShape
  <2>3. memory'[x] = request
    BY <1>7, <1>10
  <2>4. \A a \in cells : memory'[a] > 0 => a = x
    BY <1>11, <2>2
  <2>5. x + request < stop => memory'[x + request] # DATA
    <3>1. x + request < stop => x + request \in cells
      BY <1>1, <1>2
    <3> QED  BY <1>7, <1>9, <3>1
  <2>6. \A c \in cells : x < c /\ c < x + request => memory'[c] = DATA
    BY <1>7
  <2>7. memory'[first + g.offset] > 0
    BY <1>1, <2>1, <2>3
  <2>8. ASSUME NEW a \in cells, memory'[a] > 0
        PROVE  /\ first + g.offset <= a /\ a = first + g.offset
               /\ a + memory'[a] < stop => memory'[a + memory'[a]] # DATA
               /\ \A c \in cells : a < c /\ c < a + memory'[a] => memory'[c] = DATA
    <3>1. a = x
      BY <2>4, <2>8
    <3> QED  BY <1>1, <2>1, <2>3, <2>5, <2>6, <3>1
  <2>9. LineShape(memory', g, first)
    BY <1>2, <2>1, <2>7, <2>8 DEF LineShape
  <2> QED  BY <2>9 DEF first, l, g
<1> QED  BY <1>12, <1>13

LEMMA BlankLine ==
    ASSUME NEW m, NEW h, NEW first, ~containsObject(h),
           \A a \in first .. first + LINE_SIZE - 1 : ~ (m[a] > 0)
    PROVE  LineShape(m, h, first)
BY DEF LineShape

LEMMA SameLine ==
    ASSUME NEW m, NEW n, NEW h, NEW g, NEW first \in Nat, LineShape(m, h, first),
           containsObject(h) = containsObject(g), g.offset = h.offset,
           \A a \in first .. first + LINE_SIZE - 1 : m[a] \in Int /\ n[a] = m[a]
    PROVE  LineShape(n, g, first)
<1> DEFINE cells == first .. first + LINE_SIZE - 1
<1>1. LINE_SIZE \in Nat
  BY Units
<1>2. containsObject(h) => /\ h.offset \in 0 .. LINE_SIZE - 1
                           /\ m[first + h.offset] > 0
                           /\ first + h.offset \in cells
  BY <1>1 DEF LineShape
<1>3. containsObject(g) => /\ g.offset \in 0 .. LINE_SIZE - 1
                           /\ n[first + g.offset] > 0
  BY <1>2
<1>4. ASSUME NEW a \in cells, n[a] > 0
      PROVE  /\ containsObject(g) /\ first + g.offset <= a
             /\ \/ a = first + g.offset
                \/ \E c \in first .. a - 1 : n[c] > 0 /\ c + n[c] = a
             /\ a + n[a] < first + LINE_SIZE => n[a + n[a]] # DATA
             /\ \A c \in cells : a < c /\ c < a + n[a] => n[c] = DATA
  <2>1. n[a] = m[a] /\ m[a] > 0 /\ m[a] \in Int /\ a \in Nat
    BY <1>4
  <2>2. /\ containsObject(h) /\ first + h.offset <= a
        /\ \/ a = first + h.offset
           \/ \E c \in first .. a - 1 : m[c] > 0 /\ c + m[c] = a
        /\ a + m[a] < first + LINE_SIZE => m[a + m[a]] # DATA
        /\ \A c \in cells : a < c /\ c < a + m[a] => m[c] = DATA
    BY <2>1 DEF LineShape
  <2>3. \A c \in first .. a - 1 : c \in cells
    BY <1>1, <2>1
  <2>4. a + m[a] < first + LINE_SIZE => a + m[a] \in cells
    BY <1>1, <2>1
  <2> HIDE DEF cells
  <2>5. ASSUME a # first + h.offset
        PROVE  \E c \in first .. a - 1 : n[c] > 0 /\ c + n[c] = a
    <3>1. PICK c \in first .. a - 1 : m[c] > 0 /\ c + m[c] = a
      BY <2>2, <2>5
    <3>2. n[c] = m[c]
      BY <2>3 DEF cells
    <3> QED  BY <3>1, <3>2
  <2>6. a + m[a] < first + LINE_SIZE => n[a + m[a]] # DATA
    BY <2>2, <2>4 DEF cells
  <2>7. \A c \in cells : a < c /\ c < a + m[a] => n[c] = DATA
    BY <2>2 DEF cells
  <2> QED  BY <2>1, <2>2, <2>5, <2>6, <2>7
<1> QED  BY <1>3, <1>4 DEF LineShape

\* The other lines of the block: before the cursor, after the region, or spare.
LEMMA OtherLine ==
    ASSUME MemoryType, LinesInv, NEW b, NEW x, NEW limit, Room(b, x, limit),
           NEW k \in Line, k # Block_lineIndex(b, x)
    PROVE  \/ Block_line(b, k) + LINE_SIZE <= x
           \/ limit <= Block_line(b, k)
           \/ /\ x < Block_line(b, k) /\ Block_line(b, k) + LINE_SIZE <= limit
              /\ ~containsObject(line_header[b][k])
<1> DEFINE l == Block_lineIndex(b, x)
<1>1. /\ b \in Blocks /\ x \in Nat /\ limit \in Nat /\ l \in Line
      /\ InLine(b, l, x)
      /\ \E j \in 0 .. LINE_COUNT : limit = Block_line(b, j)
  BY RoomFacts
<1>2. PICK j \in 0 .. LINE_COUNT : limit = Block_line(b, j)
  BY <1>1
<1>3. /\ l \in 0 .. LINE_COUNT /\ k \in 0 .. LINE_COUNT /\ b \in Nat
      /\ Block_line(b, k) \in Nat /\ Block_line(b, l) \in Nat
      /\ LINE_SIZE \in Nat /\ LINE_SIZE > 0
  BY <1>1, Numbers, Units
<1>4. /\ k < l => Block_line(b, k) + LINE_SIZE <= Block_line(b, l)
      /\ l < k => Block_line(b, l) + LINE_SIZE <= Block_line(b, k)
      /\ k < j => Block_line(b, k) + LINE_SIZE <= limit
      /\ j <= k => limit <= Block_line(b, k)
  BY <1>2, <1>3, Lines
<1>5. k < l \/ l < k
  BY <1>3
<1>6. k < j \/ j <= k
  BY <1>2, <1>3
<1> HIDE DEF l
<1>7. CASE k < l
  BY <1>1, <1>3, <1>4, <1>7 DEF InLine
<1>8. CASE l < k /\ k < j
  <2>1. x < Block_line(b, k) /\ Block_line(b, k) + LINE_SIZE <= limit
    BY <1>1, <1>3, <1>4, <1>8 DEF InLine
  <2>2. \A a \in Address : InLine(b, k, a) => x <= a /\ a < limit
    BY <1>1, <1>3, <2>1, Numbers DEF InLine
  <2>3. \A a \in Address : InLine(b, k, a) => ~ (memory[a] > 0)
    BY <2>2 DEF Room, Region, Spare
  <2> QED  BY <1>1, <2>1, <2>3, SpareLine
<1>9. CASE j <= k
  BY <1>4, <1>9
<1> QED  BY <1>5, <1>6, <1>7, <1>8, <1>9

LEMMA PlacedLines ==
    ASSUME MemoryType, LinesInv, NEW b, NEW x, NEW limit, Room(b, x, limit),
           Written(b, x, limit, Block_lineIndex(b, x))
    PROVE  LinesInv'
<1> DEFINE l == Block_lineIndex(b, x)
<1> SUFFICES ASSUME NEW c \in Blocks, NEW k \in Line
             PROVE  LineShape(memory', line_header'[c][k], Block_line(c, k))
  BY DEF LinesInv
<1> DEFINE first == Block_line(c, k)
           cells == first .. first + LINE_SIZE - 1
<1>1. /\ b \in Blocks /\ x \in Nat /\ limit \in Nat /\ l \in Line
      /\ request \in Nat /\ request > 0 /\ x + request <= limit
  BY RoomFacts
<1>2. /\ first \in Nat /\ LINE_SIZE \in Nat
      /\ \A a \in cells : a \in Address /\ InLine(c, k, a) /\ a \in Nat
                          /\ Block_start(c) <= a /\ a < Block_stop(c)
                          /\ first <= a /\ a < first + LINE_SIZE
      /\ Block_start(c) \in Nat /\ Block_stop(c) \in Nat
  <2>1. /\ first \in Nat /\ LINE_SIZE \in Nat /\ cells \subseteq Address
        /\ \A a \in Address : InLine(c, k, a) <=> a \in cells
        /\ Block_start(c) <= first /\ first + LINE_SIZE <= Block_stop(c)
        /\ Block_start(c) \in Nat /\ Block_stop(c) \in Nat
    BY LineCells, Units, Numbers
  <2> QED  BY <2>1
<1>3. LineShape(memory, line_header[c][k], first)
  BY DEF LinesInv
<1>4. \A a \in cells : memory[a] \in Int
  BY <1>2, Words
<1>5. CASE c = b /\ k = l
  BY <1>5, PlacedLine
<1>6. ASSUME c # b \/ k # l, \A a \in cells : memory'[a] = memory[a]
      PROVE  LineShape(memory', line_header'[c][k], first)
  <2>1. line_header'[c][k] = line_header[c][k]
    BY <1>6 DEF Written
  <2> HIDE DEF first, l
  <2> QED  BY <1>2, <1>3, <1>4, <1>6, <2>1, SameLine
<1>7. CASE c # b
  <2>1. Kept(c, Block_start(c))
    BY <1>7, PlacedElsewhere
  <2>2. \A a \in cells : memory'[a] = memory[a]
    BY <1>2, <2>1 DEF Kept
  <2> QED  BY <1>6, <1>7, <2>2
<1>8. CASE c = b /\ k # l
  <2>1. CASE first + LINE_SIZE <= x \/ limit <= first
    <3>1. \A a \in cells : a < x \/ limit <= a
      BY <1>1, <1>2, <2>1
    <3>2. \A a \in cells : memory'[a] = memory[a]
      BY <1>2, <3>1 DEF Written
    <3> QED  BY <1>6, <1>8, <3>2
  <2>2. CASE /\ x < first /\ first + LINE_SIZE <= limit
             /\ ~containsObject(line_header[b][k])
    <3>1. ~containsObject(line_header'[c][k])
      BY <1>8, <2>2 DEF Written
    <3>2. \A a \in cells : ~ (memory[a] > 0)
      BY <1>3, <1>8, <2>2 DEF LineShape
    <3>3. ASSUME NEW a \in cells
          PROVE  ~ (memory'[a] > 0)
      <4>1. a \in Address /\ a \in Nat /\ x < a /\ a < limit
        BY <1>1, <1>2, <2>2
      <4>2. memory'[a] \in {DATA, 0, memory[a]}
        BY <1>1, <4>1 DEF Written
      <4> QED  BY <3>2, <4>2 DEF DATA
    <3> QED  BY <3>1, <3>3, BlankLine
  <2> QED  BY <1>8, <2>1, <2>2, OtherLine
<1> QED  BY <1>5, <1>7, <1>8

\* What is left of the region.
LEMMA PlacedRegion ==
    ASSUME MemoryType, LinesInv, NEW b, NEW x, NEW limit, Room(b, x, limit),
           Written(b, x, limit, Block_lineIndex(b, x))
    PROVE  Region(memory', line_header', live', b, x + request, limit)
<1> DEFINE l == Block_lineIndex(b, x)
           y == x + request
<1>1. /\ b \in Blocks /\ x \in Nat /\ x \in Address /\ limit \in Nat /\ l \in Line
      /\ request \in Nat /\ request > 0 /\ y <= limit /\ x < limit
      /\ Block_start(b) <= x /\ limit <= Block_stop(b) /\ InLine(b, l, x)
      /\ \E k \in 0 .. LINE_COUNT : limit = Block_line(b, k)
      /\ Block_start(b) \in Nat /\ y \in Nat /\ b \in Nat
  BY RoomFacts, Numbers
<1>2. Spare(memory', live', y, limit)
  <2> SUFFICES ASSUME NEW a \in Address, y <= a, a < limit
               PROVE  ~ (memory'[a] > 0) /\ \A o \in live' : a \notin Cells(o)
    BY DEF Spare
  <2>1. a \in Nat /\ x < a
    BY <1>1, Numbers
  <2>2. ~ (memory[a] > 0) /\ \A o \in live : a \notin Cells(o)
    BY <1>1, <2>1 DEF Room, Region, Spare
  <2>3. memory'[a] \in {0, memory[a]}
    <3>1. a = x + request => memory'[a] = 0
      BY DEF Written
    <3>2. x + request < a => memory'[a] = memory[a]
      BY DEF Written
    <3> QED  BY <1>1, <2>1, <3>1, <3>2
  <2>4. a \notin Cells([at |-> x, size |-> request])
    BY <1>1, <2>1 DEF Cells
  <2> QED  BY <2>2, <2>3, <2>4 DEF Written
<1>3. ASSUME NEW k \in Line, y < limit, InLine(b, k, y),
             containsObject(line_header'[b][k])
      PROVE  /\ memory'[y] = 0
             /\ \E c \in Block_line(b, k) .. y - 1 :
                   memory'[c] > 0 /\ c + memory'[c] = y
  <2>1. y \in Address
    BY <1>1, <1>3, Numbers
  <2>2. memory'[y] = 0 /\ memory'[x] = request
    BY <1>1, <1>3, <2>1 DEF Written
  <2>3. k = l
    <3> SUFFICES ASSUME k # l PROVE FALSE
      OBVIOUS
    <3>1. line_header'[b][k] = line_header[b][k]
      BY <1>1 DEF Written
    <3>2. containsObject(line_header[b][k])
      BY <1>3, <3>1
    <3>3. \/ Block_line(b, k) + LINE_SIZE <= x
          \/ limit <= Block_line(b, k)
      BY <3>2, OtherLine
    <3>4. Block_line(b, k) \in Nat /\ LINE_SIZE \in Nat
      BY <1>1, Numbers, Units
    <3> QED  BY <1>1, <1>3, <3>3, <3>4 DEF InLine
  <2>4. x \in Block_line(b, k) .. y - 1
    <3>1. Block_line(b, k) <= x /\ Block_line(b, k) \in Nat
      BY <1>1, <2>3, Numbers DEF InLine
    <3> QED  BY <1>1, <3>1
  <2> QED  BY <1>1, <2>2, <2>4
<1>4. Block_start(b) <= y
  BY <1>1
<1> QED  BY <1>1, <1>2, <1>3, <1>4 DEF Region

LEMMA PlacedLive ==
    ASSUME LiveInv, NEW b, NEW x, NEW limit, Room(b, x, limit),
           Written(b, x, limit, Block_lineIndex(b, x)), UNCHANGED heap_stop
    PROVE  LiveInv'
<1>1. /\ b \in MappedBlocks /\ x \in Nat /\ x \in Address /\ limit \in Nat
      /\ request \in Nat /\ request > 0 /\ x + request <= limit
      /\ Block_start(b) <= x /\ limit <= Block_stop(b)
      /\ Block_stop(b) \in Nat /\ request \in SIZES
  BY RoomFacts, Numbers DEF Room
<1>2. MappedBlocks' = MappedBlocks
  BY DEF MappedBlocks
<1> SUFFICES ASSUME NEW o \in live'
             PROVE  Placed(memory', MappedBlocks, o)
  BY <1>2 DEF LiveInv
<1>3. CASE o = [at |-> x, size |-> request]
  <2>1. o.at = x /\ o.size = request
    BY <1>3
  <2>2. memory'[x] = request
    BY <1>1 DEF Written
  <2>3. \A c \in Address : x < c /\ c < x + request => memory'[c] = DATA
    BY DEF Written
  <2>4. Block_start(b) <= o.at /\ o.at + o.size <= Block_stop(b)
    BY <1>1, <2>1
  <2> QED  BY <1>1, <2>1, <2>2, <2>3, <2>4 DEF Placed
<1>4. CASE o \in live
  <2>1. Placed(memory, MappedBlocks, o)
    BY <1>4 DEF LiveInv
  <2>2. PICK c \in MappedBlocks : Block_start(c) <= o.at /\ o.at + o.size <= Block_stop(c)
    BY <2>1 DEF Placed
  <2>3. o.at \in Nat /\ o.size \in Nat /\ o.size > 0
    BY <2>1, Units DEF Placed
  <2>4. c \in Blocks /\ Block_stop(c) \in Nat
    BY Numbers DEF MappedBlocks
  <2>5. o.at \in Address
    BY <2>2, <2>3, <2>4, Numbers
  <2>6. \A a \in Address : o.at <= a /\ a < o.at + o.size => a < x \/ limit <= a
    <3> SUFFICES ASSUME NEW a \in Address, o.at <= a, a < o.at + o.size,
                        x <= a, a < limit
                 PROVE  FALSE
      BY <1>1, Numbers
    <3>1. a \in Cells(o)
      BY <2>3, Numbers DEF Cells
    <3> QED  BY <1>4, <3>1 DEF Room, Region, Spare
  <2>7. \A a \in Address : o.at <= a /\ a < o.at + o.size => memory'[a] = memory[a]
    BY <2>6 DEF Written
  <2>8. memory'[o.at] = o.size
    BY <2>1, <2>3, <2>5, <2>7 DEF Placed
  <2>9. \A a \in Address : o.at < a /\ a < o.at + o.size => memory'[a] = DATA
    <3> SUFFICES ASSUME NEW a \in Address, o.at < a, a < o.at + o.size
                 PROVE  memory'[a] = DATA
      OBVIOUS
    <3>1. memory'[a] = memory[a]
      BY <2>3, <2>7, Numbers
    <3> QED  BY <2>1, <3>1 DEF Placed
  <2> QED  BY <2>1, <2>8, <2>9 DEF Placed
<1> QED  BY <1>3, <1>4 DEF Written

LEMMA PlacedHoles ==
    ASSUME HoleInv, NEW b, NEW x, NEW limit,
           Written(b, x, limit, Block_lineIndex(b, x))
    PROVE  HoleInv'
<1> SUFFICES ASSUME NEW a \in Address
             PROVE  HoleShape(hole', a)
  BY DEF HoleInv
<1>1. HoleShape(hole, a)
  BY DEF HoleInv
<1>2. CASE hole'[a] = NULL
  BY <1>2 DEF HoleShape
<1>3. CASE hole'[a] = hole[a]
  BY <1>1, <1>3 DEF HoleShape
<1> QED  BY <1>2, <1>3 DEF Written

LEMMA PlacedTypes ==
    ASSUME TypeOK, NEW b, NEW x, NEW limit, Room(b, x, limit), PlaceObject(b, x, limit)
    PROVE  /\ line_header' \in [Blocks -> [Line -> [marked : BOOLEAN,
                                  offset : 0 .. LINE_SIZE - 1 \cup {NULL}]]]
           /\ memory' \in [Address -> Size \cup {DATA}]
           /\ \A a \in Address : hole'[a] \in HoleRecord \cup {NULL}
           /\ marked' \subseteq Address
           /\ allocated' \in Nat
           /\ \A o \in live' : o.at \in Address /\ o.size \in SIZES
<1> DEFINE l == Block_lineIndex(b, x)
           o == [at |-> x, size |-> request]
<1>1. /\ b \in Blocks /\ x \in Nat /\ x \in Address /\ l \in Line /\ InLine(b, l, x)
      /\ request \in Nat /\ request > OBJECT /\ OBJECT \in Nat
      /\ request \in SIZES
      /\ Block_line(b, l) \in Nat /\ LINE_SIZE \in Nat
  BY RoomFacts, Numbers, Units DEF Room
<1>2. /\ line_header \in [Blocks -> [Line -> [marked : BOOLEAN,
                                  offset : 0 .. LINE_SIZE - 1 \cup {NULL}]]]
      /\ memory \in [Address -> Size \cup {DATA}]
      /\ \A a \in Address : hole[a] \in HoleRecord \cup {NULL}
      /\ marked \subseteq Address /\ allocated \in Nat
      /\ \A p \in live : p.at \in Address /\ p.size \in SIZES
  BY DEF TypeOK
<1>3. /\ Line_update(b, x)
      /\ memory' = [c \in Address |->
                      IF c = x THEN request
                      ELSE IF c \in Cells(o) THEN DATA
                      ELSE IF c = x + request /\ HasNext(x + request, limit) THEN 0
                      ELSE memory[c]]
      /\ hole' = [c \in Address |->
                    IF c \in Cells(o) \/ (c = x + request /\ HasNext(x + request, limit))
                    THEN NULL ELSE hole[c]]
      /\ \E stale \in STALE_MARKS :
            marked' = (marked \ Cells(o)) \cup (IF stale THEN {x} ELSE {})
      /\ live' = live \cup {o}
      /\ allocated' = allocated + request - OBJECT
  BY DEF PlaceObject
<1>4. request \in Size /\ 0 \in Size
  <2>1. LINE_COUNT * LINE_SIZE \in Nat /\ request <= LINE_COUNT * LINE_SIZE
    BY <1>1, Units
  <2> QED  BY <1>1, <2>1 DEF Size
<1>5. memory' \in [Address -> Size \cup {DATA}]
  BY <1>2, <1>3, <1>4
<1>6. \A a \in Address : hole'[a] \in HoleRecord \cup {NULL}
  BY <1>2, <1>3
<1>7. marked' \subseteq Address
  BY <1>1, <1>2, <1>3
<1>8. allocated' \in Nat
  BY <1>1, <1>2, <1>3
<1>9. \A p \in live' : p.at \in Address /\ p.size \in SIZES
  BY <1>1, <1>2, <1>3
<1>10. line_header' \in [Blocks -> [Line -> [marked : BOOLEAN,
                                  offset : 0 .. LINE_SIZE - 1 \cup {NULL}]]]
  <2>1. CASE containsObject(line_header[b][l])
    BY <1>2, <1>3, <2>1 DEF Line_update
  <2>2. CASE ~containsObject(line_header[b][l])
    <3>1. line_header' = [line_header EXCEPT ![b][l] =
             [marked |-> FALSE, offset |-> x - Block_line(b, l)]]
      BY <1>3, <2>2 DEF Line_update
    <3>2. x - Block_line(b, l) \in 0 .. LINE_SIZE - 1
      BY <1>1 DEF InLine
    <3> HIDE DEF l
    <3> QED  BY <1>1, <1>2, <3>1, <3>2
  <2> QED  BY <2>1, <2>2
<1> QED  BY <1>5, <1>6, <1>7, <1>8, <1>9, <1>10
-----------------------------------------------------------------------------
(* The steps of an allocation *)

LocalType(l) ==
    /\ l.block \in Blocks /\ l.overflow_block \in Blocks
    /\ {l.cursor, l.limit, l.overflow_cursor, l.overflow_limit} \subseteq Nat
    /\ l.next \in Address \cup {NULL}

\* Everything but where the allocator is, which depends on the step.
Rest ==
    /\ TypeOK /\ LinesInv /\ LiveInv /\ HoleInv /\ FreeInv /\ RecyclableInv
    /\ CallInv /\ MarkInv /\ SweepKeepsLive

LEMMA Parts ==
    ASSUME TypeOK
    PROVE  MemoryType /\ HeaderType /\ LocalType(local) /\ MappedBlocks \subseteq Blocks
BY DEF TypeOK, MemoryType, HeaderType, LocalType, MappedBlocks

\* What the type invariant asks after a step of the allocator alone.
LEMMA TypeFrame ==
    ASSUME TypeOK, LocalType(local'), free_list' \in Seq(Blocks),
           heap_stop' \in {i * BLOCK_SIZE : i \in 2 .. MAX_BLOCKS},
           UNCHANGED <<block_header, line_header, recyclable_list, memory, hole>>,
           UNCHANGED <<marked, live, allocated, collecting, pc, request>>,
           UNCHANGED <<caller, sweeping, status>>
    PROVE  TypeOK'
<1> DEFINE Heap ==
             /\ block_header \in [Blocks -> [marked : BOOLEAN,
                                flag : {"free", "recyclable", "unavailable"},
                                first_free_line : Line]]
             /\ line_header \in [Blocks -> [Line -> [marked : BOOLEAN,
                                offset : 0 .. LINE_SIZE - 1 \cup {NULL}]]]
             /\ recyclable_list \in Seq(Blocks)
             /\ memory \in [Address -> Size \cup {DATA}]
             /\ \A a \in Address : hole[a] \in HoleRecord \cup {NULL}
             /\ marked \subseteq Address
           Call ==
             /\ allocated \in Nat
             /\ collecting \in BOOLEAN
             /\ pc \in {"idle", "small", "overflow", "nextBlock",
                       "retryBlock", "growBlock", "nextFree", "growFree",
                       "unmark", "mark", "sweep"}
             /\ request \in SIZES \cup {NULL}
             /\ caller \in {"idle", "retryBlock", "growFree", NULL}
             /\ sweeping \in Blocks \cup {NULL}
             /\ \A o \in live : o.at \in Address /\ o.size \in SIZES
             /\ status \in {"running", "assertion failed", "dangling hole",
                           "aborted", "out of memory"}
<1>1. Heap /\ Call
  BY DEF TypeOK
<1>2. Heap'
  <2>1. Heap
    BY <1>1
  <2> QED  BY <2>1
<1>3. Call'
  <2>1. Call
    BY <1>1
  <2> HIDE DEF Heap
  <2> QED  BY <2>1
<1>4. /\ local'.block \in Blocks /\ local'.overflow_block \in Blocks
      /\ {local'.cursor, local'.limit, local'.overflow_cursor,
          local'.overflow_limit} \subseteq Nat
      /\ local'.next \in Address \cup {NULL}
  BY DEF LocalType
<1> QED  BY <1>2, <1>3, <1>4 DEF TypeOK

\* The lists survive a step that leaves all blocks but one alone.
LEMMA KeptLists ==
    ASSUME FreeInv, RecyclableInv, NEW b \in MappedBlocks, b \notin Listed,
           free_list \in Seq(MappedBlocks), recyclable_list \in Seq(MappedBlocks),
           \A c \in Blocks : c # b => Kept(c, Block_start(c)),
           UNCHANGED <<heap_stop, block_header, free_list, recyclable_list>>
    PROVE  FreeInv' /\ RecyclableInv'
<1>1. MappedBlocks' = MappedBlocks /\ MappedBlocks \subseteq Blocks
  BY DEF MappedBlocks
<1>2. /\ Range(free_list) \subseteq Blocks /\ Range(recyclable_list) \subseteq Blocks
      /\ b \notin Range(free_list) /\ b \notin Range(recyclable_list)
  BY <1>1 DEF Range, Listed
<1>3. ASSUME NEW c \in Range(free_list) \cup (Blocks \ MappedBlocks)
      PROVE  Spare(memory', live', Block_start(c), Block_stop(c))
  <2>1. c \in Blocks /\ c # b
    BY <1>2
  <2>2. Spare(memory, live, Block_start(c), Block_stop(c))
    BY DEF FreeInv
  <2>3. Block_start(c) \in Nat /\ Block_stop(c) \in Nat
    BY <2>1, Numbers
  <2> QED  BY <2>1, <2>2, <2>3, KeptBlock
<1>4. ASSUME NEW c \in Range(recyclable_list)
      PROVE  ChainOK(memory', line_header', live', hole', c,
                     Block_line(c, block_header[c].first_free_line))
  <2>1. c \in Blocks /\ c # b
    BY <1>2
  <2>2. ChainOK(memory, line_header, live, hole, c,
                Block_line(c, block_header[c].first_free_line))
    BY DEF RecyclableInv
  <2> QED  BY <2>1, <2>2, KeptBlock
<1> QED  BY <1>1, <1>3, <1>4 DEF FreeInv, RecyclableInv

LEMMA PlacedContents ==
    ASSUME IInv, Rest, pc \in {"small", "overflow"}, NEW b, NEW x, NEW limit,
           b \in {local.block, local.overflow_block},
           x \in Nat, Region(memory, line_header, live, b, x, limit),
           x + request <= limit, PlaceObject(b, x, limit), LocalType(local')
    PROVE  /\ Room(b, x, limit) /\ Written(b, x, limit, Block_lineIndex(b, x))
           /\ Region(memory', line_header', live', b, x + request, limit)
           /\ \A c \in Blocks : c # b => Kept(c, Block_start(c))
           /\ Kept(b, limit)
           /\ Rest'
<1>1. /\ TypeOK /\ LinesInv /\ LiveInv /\ HoleInv /\ FreeInv /\ RecyclableInv
      /\ CallInv /\ MemoryType /\ HeaderType
  BY Parts DEF Rest
<1>2. /\ ~collecting /\ b \in MappedBlocks /\ b \notin Listed
      /\ free_list \in Seq(MappedBlocks) /\ recyclable_list \in Seq(MappedBlocks)
  BY DEF IInv, ShapeInv, ListsInv, ControlInv, OwnerInv
<1>3. request \in SIZES
  BY <1>1, <1>2 DEF CallInv, TypeOK
<1>4. Room(b, x, limit)
  BY <1>2, <1>3 DEF Room
<1>5. Written(b, x, limit, Block_lineIndex(b, x))
  BY <1>1, <1>4, PlacedWords
<1>6. /\ UNCHANGED <<heap_stop, block_header, free_list, recyclable_list, caller,
                     sweeping, collecting, status>>
      /\ pc' = "idle" /\ request' = NULL
  BY DEF PlaceObject
<1>7. /\ \A c \in Blocks : c # b => Kept(c, Block_start(c))
      /\ Kept(b, limit)
  BY <1>4, <1>5, PlacedElsewhere
<1>8. LinesInv' /\ Region(memory', line_header', live', b, x + request, limit)
  BY <1>1, <1>4, <1>5, PlacedLines, PlacedRegion
<1>9. LiveInv' /\ HoleInv'
  BY <1>1, <1>4, <1>5, <1>6, PlacedLive, PlacedHoles
<1>10. FreeInv' /\ RecyclableInv'
  BY <1>1, <1>2, <1>6, <1>7, KeptLists
<1>11. CallInv' /\ MarkInv' /\ SweepKeepsLive'
  BY <1>2, <1>6 DEF CallInv, MarkInv, SweepKeepsLive
<1>12. TypeOK'
  <2>1. /\ line_header' \in [Blocks -> [Line -> [marked : BOOLEAN,
                                  offset : 0 .. LINE_SIZE - 1 \cup {NULL}]]]
        /\ memory' \in [Address -> Size \cup {DATA}]
        /\ \A a \in Address : hole'[a] \in HoleRecord \cup {NULL}
        /\ marked' \subseteq Address
        /\ allocated' \in Nat
        /\ \A o \in live' : o.at \in Address /\ o.size \in SIZES
    BY <1>1, <1>4, PlacedTypes
  <2> QED  BY <1>1, <1>6, <2>1 DEF TypeOK, LocalType
<1> QED  BY <1>4, <1>5, <1>7, <1>8, <1>9, <1>10, <1>11, <1>12 DEF Rest

LEMMA KeptBump ==
    ASSUME NEW flag, NEW l, LocalType(l), Kept(l.block, Block_start(l.block)),
           BumpOK(memory, line_header, live, hole, flag, l)
    PROVE  BumpOK(memory', line_header', live', hole', flag, l)
<1>1. l.block \in Blocks /\ l.cursor \in Nat
  BY DEF LocalType
<1>2. Within(l.block, l.cursor, l.limit, hole) => Within(l.block, l.cursor, l.limit, hole')
  BY DEF Within, Kept
<1>3. Region(memory, line_header, live, l.block, l.cursor, l.limit) =>
         Region(memory', line_header', live', l.block, l.cursor, l.limit)
  BY <1>1, KeptBlock
<1>4. ChainOK(memory, line_header, live, hole, l.block, l.next) =>
         ChainOK(memory', line_header', live', hole', l.block, l.next)
  BY <1>1, KeptBlock
<1> QED  BY <1>2, <1>3, <1>4 DEF BumpOK

\* Steps that change neither the blocks nor what is in them.
LEMMA Unmoved ==
    ASSUME LinesInv, LiveInv, HoleInv, FreeInv, RecyclableInv,
           UNCHANGED <<heap_stop, block_header, line_header, free_list,
                       recyclable_list, memory, hole, live>>
    PROVE  LinesInv' /\ LiveInv' /\ HoleInv' /\ FreeInv' /\ RecyclableInv'
<1>1. MappedBlocks' = MappedBlocks
  BY DEF MappedBlocks
<1>2. LinesInv' /\ HoleInv'
  BY DEF LinesInv, HoleInv
<1>3. LiveInv'
  BY <1>1 DEF LiveInv
<1>4. FreeInv' /\ RecyclableInv'
  BY <1>1 DEF FreeInv, RecyclableInv
<1> QED  BY <1>2, <1>3, <1>4

Outcome(s) == s \in {"running", "assertion failed", "dangling hole", "aborted",
                    "out of memory"}

\* Steps that go on to another one, of which only the sweep needs more.
LEMMA Onwards ==
    ASSUME Contents, UNCHANGED <<heap, contents, local, allocated, collecting>>,
           Outcome(status'),
           request' \in SIZES \cup {NULL},
           ~collecting /\ pc' # "idle" => request' # NULL,
           UNCHANGED <<caller, sweeping>>, collecting => UNCHANGED request,
           \/ pc' = pc
           \/ pc' \in {"idle", "small", "overflow", "nextBlock", "retryBlock",
                       "growBlock"}
           \/ pc' \in {"nextFree", "growFree"}
              /\ (~collecting \/ pc \in {"nextFree", "growFree"})
    PROVE  Contents'
<1>1. /\ TypeOK /\ LinesInv /\ LiveInv /\ HoleInv /\ FreeInv /\ RecyclableInv
      /\ LocalInv /\ OverflowInv /\ CallInv /\ MarkInv /\ SweepKeepsLive
      /\ UNCHANGED <<heap_stop, block_header, line_header, free_list,
                     recyclable_list, memory, hole, live, marked, local,
                     allocated, collecting, caller, sweeping>>
      /\ collecting \in BOOLEAN
  BY DEF Contents, heap, contents, TypeOK
<1>2. LinesInv' /\ LiveInv' /\ HoleInv' /\ FreeInv' /\ RecyclableInv'
  BY <1>1, Unmoved
<1>3. LocalInv'
  BY <1>1 DEF LocalInv
<1>4. OverflowInv'
  BY <1>1 DEF OverflowInv
<1>5. CallInv' /\ MarkInv'
  BY <1>1 DEF CallInv, MarkInv
<1>6. SweepKeepsLive'
  BY <1>1 DEF SweepKeepsLive, MarkedLines
<1>7. TypeOK'
  BY <1>1 DEF TypeOK, Outcome
<1> QED  BY <1>2, <1>3, <1>4, <1>5, <1>6, <1>7 DEF Contents

\* The program may stop at any step.
LEMMA Stays ==
    ASSUME Contents, UNCHANGED <<heap, contents, control, local, allocated>>,
           Outcome(status')
    PROVE  Contents'
<1>1. UNCHANGED <<pc, request, caller, sweeping, collecting>>
  BY DEF control
<1>2. /\ request \in SIZES \cup {NULL}
      /\ ~collecting /\ pc # "idle" => request # NULL
  BY DEF Contents, TypeOK, CallInv
<1> QED  BY <1>1, <1>2, Onwards

LEMMA BumpStep ==
    ASSUME IInv, Contents, BumpAllocate
    PROVE  Contents'
<1> DEFINE b == local.block
           x == local.cursor
           limit == local.limit
           flag == block_header[local.block].flag
<1>1. /\ pc = "small" /\ status = "running" /\ ~collecting
      /\ x + request <= limit
      /\ local = Allocator(local) /\ local.block # local.overflow_block
      /\ local.block \in MappedBlocks /\ local.overflow_block \in MappedBlocks
  BY DEF BumpAllocate, Running, FitsHole, IInv, ShapeInv, ControlInv, OwnerInv
<1>2. Rest /\ TypeOK /\ LocalInv /\ OverflowInv /\ LocalType(local)
  BY Parts DEF Contents, Rest
<1>3. /\ BumpOK(memory, line_header, live, hole, flag, local)
      /\ OverflowOK(memory, line_header, live, local)
  BY <1>1, <1>2 DEF LocalInv, OverflowInv
<1>4. CASE ~Block_contains(b, x)
  <2>1. /\ UNCHANGED <<heap, contents, control, local, allocated>>
        /\ Outcome(status')
    BY <1>4 DEF BumpAllocate, Stop, Outcome
  <2> QED  BY <2>1, Stays
<1>5. CASE Block_contains(b, x)
  <2>1. PlaceObject(b, x, limit) /\ local' = [local EXCEPT !.cursor = x + request]
    BY <1>5 DEF BumpAllocate
  <2>2. /\ local'.block = b /\ local'.cursor = x + request /\ local'.limit = limit
        /\ local'.next = local.next
        /\ local'.overflow_block = local.overflow_block
        /\ local'.overflow_cursor = local.overflow_cursor
        /\ local'.overflow_limit = local.overflow_limit
    BY <1>1, <2>1 DEF Allocator
  <2>3. request \in SIZES /\ request \in Nat /\ request > 0 /\ x \in Nat
        /\ b \in Blocks
    <3>1. request \in SIZES
      BY <1>1, <1>2 DEF Rest, CallInv, TypeOK
    <3> QED  BY <1>2, <3>1, Units DEF LocalType
  <2>4. LocalType(local')
    BY <1>2, <2>2, <2>3 DEF LocalType
  <2>5. Region(memory, line_header, live, b, x, limit)
    BY <1>3, <1>5 DEF BumpOK, Astray
  <2>6. /\ Room(b, x, limit) /\ Written(b, x, limit, Block_lineIndex(b, x))
        /\ Region(memory', line_header', live', b, x + request, limit)
        /\ \A c \in Blocks : c # b => Kept(c, Block_start(c))
        /\ Kept(b, limit)
        /\ Rest'
    BY <1>1, <1>2, <2>1, <2>3, <2>4, <2>5, PlacedContents
  <2>7. limit \in Nat
    BY <2>6, RoomFacts
  <2>8. BumpOK(memory', line_header', live', hole', flag, local')
    <3>1. CASE flag = "free" /\ Within(b, x, limit, hole)
      <4>1. ASSUME NEW a \in Address, Block_start(b) <= a, a <= x + request, a < limit
            PROVE  hole'[a] = NULL
        <5>1. CASE a <= x /\ a # x
          <6>1. a < x
            BY <2>3, <5>1, Numbers
          <6>2. hole[a] = NULL /\ hole'[a] = hole[a]
            BY <2>6, <3>1, <4>1, <5>1, <6>1 DEF Within, Written
          <6> QED  BY <6>2
        <5>2. CASE x <= a
          BY <2>6, <4>1, <5>2 DEF Written
        <5> QED  BY <2>3, <5>1, <5>2, Numbers
      <4>2. Within(b, x + request, limit, hole')
        BY <3>1, <4>1 DEF Within
      <4> QED  BY <2>2, <2>6, <3>1, <4>2 DEF BumpOK
    <3>2. CASE flag = "recyclable" /\ local.next # NULL
      <4>1. ChainOK(memory, line_header, live, hole, b, local.next)
            /\ limit <= local.next
        BY <1>3, <3>2 DEF BumpOK
      <4>2. ChainOK(memory', line_header', live', hole', b, local.next)
        BY <2>3, <2>6, <2>7, <4>1, KeptChain
      <4> QED  BY <2>2, <2>6, <3>2, <4>1, <4>2 DEF BumpOK
    <3>3. CASE flag = "recyclable" /\ local.next = NULL
      BY <2>2, <2>6, <3>3 DEF BumpOK
    <3> QED  BY <1>3, <1>5, <3>1, <3>2, <3>3 DEF BumpOK, Astray
  <2>9. LocalInv'
    <3>1. block_header' = block_header
      BY <2>1 DEF PlaceObject
    <3> QED  BY <2>2, <2>8, <3>1 DEF LocalInv
  <2>10. OverflowInv'
    <3>1. Region(memory, line_header, live, local.overflow_block,
                 local.overflow_cursor, local.overflow_limit)
      BY <1>3 DEF OverflowOK
    <3>2. Region(memory', line_header', live', local.overflow_block,
                 local.overflow_cursor, local.overflow_limit)
      BY <1>1, <1>2, <2>6, <3>1, KeptBlock DEF LocalType
    <3> QED  BY <1>3, <2>2, <3>2 DEF OverflowInv, OverflowOK
  <2> QED  BY <2>6, <2>9, <2>10 DEF Contents, Rest
<1> QED  BY <1>4, <1>5

LEMMA OverflowStep ==
    ASSUME IInv, Contents, OverflowAllocate
    PROVE  Contents'
<1> DEFINE b == local.overflow_block
           x == local.overflow_cursor
           limit == local.overflow_limit
           flag == block_header[local.block].flag
<1>1. /\ pc = "overflow" /\ status = "running" /\ ~collecting
      /\ x + request <= limit
      /\ local = Allocator(local) /\ local.block # local.overflow_block
      /\ local.block \in MappedBlocks /\ local.overflow_block \in MappedBlocks
  BY DEF OverflowAllocate, Running, IInv, ShapeInv, ControlInv, OwnerInv
<1>2. Rest /\ TypeOK /\ LocalInv /\ OverflowInv /\ LocalType(local)
  BY Parts DEF Contents, Rest
<1>3. /\ BumpOK(memory, line_header, live, hole, flag, local)
      /\ OverflowOK(memory, line_header, live, local)
  BY <1>1, <1>2 DEF LocalInv, OverflowInv
<1>4. CASE ~Block_contains(b, x)
  <2>1. /\ UNCHANGED <<heap, contents, control, local, allocated>>
        /\ Outcome(status')
    BY <1>4 DEF OverflowAllocate, Stop, Outcome
  <2> QED  BY <2>1, Stays
<1>5. CASE Block_contains(b, x)
  <2>1. /\ PlaceObject(b, x, limit)
        /\ local' = [local EXCEPT !.overflow_cursor = x + request]
    BY <1>5 DEF OverflowAllocate
  <2>2. /\ local'.block = local.block /\ local'.cursor = local.cursor
        /\ local'.limit = local.limit /\ local'.next = local.next
        /\ local'.overflow_block = b
        /\ local'.overflow_cursor = x + request
        /\ local'.overflow_limit = limit
    BY <1>1, <2>1 DEF Allocator
  <2>3. request \in SIZES /\ request \in Nat /\ request > 0 /\ x \in Nat
        /\ b \in Blocks /\ local.block \in Blocks /\ local.cursor \in Nat
    <3>1. request \in SIZES
      BY <1>1, <1>2 DEF Rest, CallInv, TypeOK
    <3> QED  BY <1>2, <3>1, Units DEF LocalType
  <2>4. LocalType(local')
    BY <1>2, <2>2, <2>3 DEF LocalType
  <2>5. Region(memory, line_header, live, b, x, limit)
    BY <1>3 DEF OverflowOK
  <2>6. /\ Region(memory', line_header', live', b, x + request, limit)
        /\ Written(b, x, limit, Block_lineIndex(b, x)) /\ Room(b, x, limit)
        /\ \A c \in Blocks : c # b => Kept(c, Block_start(c))
        /\ Rest'
    BY <1>1, <1>2, <2>1, <2>3, <2>4, <2>5, PlacedContents
  <2>7. Kept(local.block, Block_start(local.block))
    BY <1>1, <2>3, <2>6
  <2>8. BumpOK(memory', line_header', live', hole', flag, local')
    <3>1. BumpOK(memory', line_header', live', hole', flag, local)
      BY <1>2, <1>3, <2>7, KeptBump
    <3> QED  BY <2>2, <3>1 DEF BumpOK
  <2>9. LocalInv'
    <3>1. block_header' = block_header
      BY <2>1 DEF PlaceObject
    <3> QED  BY <2>2, <2>8, <3>1 DEF LocalInv
  <2>10. OverflowInv'
    BY <1>3, <2>2, <2>6 DEF OverflowInv, OverflowOK
  <2> QED  BY <2>6, <2>9, <2>10 DEF Contents, Rest
<1> QED  BY <1>4, <1>5
-----------------------------------------------------------------------------
(* The steps that look for a hole or a block *)

LEMMA ChainHole ==
    ASSUME TypeOK, NEW b, NEW x, ChainOK(memory, line_header, live, hole, b, x)
    PROVE  /\ x \in Address /\ hole[x] # NULL /\ hole[x] \in HoleRecord
           /\ hole[x].limit \in Nat /\ hole[x].next \in Address \cup {NULL}
           /\ Region(memory, line_header, live, b, x, hole[x].limit)
           /\ hole[x].next # NULL =>
                 /\ ChainOK(memory, line_header, live, hole, b, hole[x].next)
                 /\ hole[x].limit <= hole[x].next
<1>1. PICK S \in SUBSET Address :
         /\ x \in S
         /\ \A a \in S : x <= a /\ HoleOK(memory, line_header, live, hole, b, S, a)
  BY DEF ChainOK
<1>2. \A a \in S : /\ a \in Nat /\ hole[a].limit \in Nat /\ hole[a] \in HoleRecord
                   /\ hole[a].next \in Address \cup {NULL}
  <2> SUFFICES ASSUME NEW a \in S
               PROVE  /\ a \in Nat /\ hole[a].limit \in Nat /\ hole[a] \in HoleRecord
                      /\ hole[a].next \in Address \cup {NULL}
    OBVIOUS
  <2>1. hole[a] \in HoleRecord
    BY <1>1 DEF HoleOK, TypeOK
  <2> QED  BY <2>1, Numbers DEF HoleRecord
<1>3. HoleOK(memory, line_header, live, hole, b, S, x)
  BY <1>1
<1>4. ASSUME hole[x].next # NULL
      PROVE  ChainOK(memory, line_header, live, hole, b, hole[x].next)
  <2> DEFINE T == {a \in S : hole[x].next <= a}
  <2>1. hole[x].next \in T
    <3>1. hole[x].next \in S
      BY <1>3, <1>4 DEF HoleOK
    <3> QED  BY <1>2, <3>1
  <2>2. ASSUME NEW a \in T
        PROVE  HoleOK(memory, line_header, live, hole, b, T, a)
    <3>1. HoleOK(memory, line_header, live, hole, b, S, a) /\ a \in S
          /\ hole[x].next <= a
      BY <1>1
    <3>2. ASSUME hole[a].next # NULL
          PROVE  hole[a].next \in T
      <4>1. hole[a].next \in S /\ hole[a].limit <= hole[a].next /\ a <= hole[a].limit
        BY <3>1, <3>2 DEF HoleOK, Region
      <4>2. hole[a].next \in Nat /\ hole[a].limit \in Nat /\ a \in Nat
            /\ hole[x].next \in Nat
        BY <1>2, <2>1, <3>1, <4>1
      <4>3. hole[x].next <= hole[a].next
        BY <3>1, <4>1, <4>2
      <4> QED  BY <4>1, <4>3
    <3> HIDE DEF T
    <3> QED  BY <3>1, <3>2 DEF HoleOK
  <2>3. T \in SUBSET Address /\ \A a \in T : hole[x].next <= a
    OBVIOUS
  <2> HIDE DEF T
  <2> QED  BY <2>1, <2>2, <2>3 DEF ChainOK
<1> QED  BY <1>1, <1>2, <1>3, <1>4 DEF HoleOK

\* A hole record is found in the block that contains it.
LEMMA HoleBlock ==
    ASSUME HoleInv, NEW x \in Address, hole[x] # NULL
    PROVE  \E c \in Blocks, l \in Line \ {0} :
              /\ x = Block_line(c, l) /\ Block_contains(c, x)
              /\ hole[x].next # NULL => Block_contains(c, hole[x].next)
<1>1. HoleShape(hole, x)
  BY DEF HoleInv
<1>2. PICK c \in Blocks, l \in Line \ {0} :
         /\ x = Block_line(c, l)
         /\ hole[x].next # NULL => x < hole[x].next /\ Block_contains(c, hole[x].next)
  BY <1>1 DEF HoleShape
<1>3. Block_contains(c, x)
  <2>1. InLine(c, l, x) /\ x \in Nat /\ c \in Nat
    BY <1>2, LineStart, Numbers
  <2> QED  BY <2>1, IndexOf
<1> QED  BY <1>2, <1>3

LEMMA NextHoleStep ==
    ASSUME IInv, Contents, FindNextHole
    PROVE  Contents'
<1> DEFINE b == local.block
           n == local.next
           flag == block_header[local.block].flag
<1>1. /\ pc = "small" /\ status = "running" /\ ~collecting
      /\ ~FitsHole /\ ~GoesToOverflow /\ n # NULL
      /\ local = Allocator(local) /\ local.block \in MappedBlocks
      /\ local.overflow_block \in MappedBlocks
  BY DEF FindNextHole, Running, IInv, ShapeInv, ControlInv
<1>2. /\ Rest /\ TypeOK /\ LinesInv /\ LiveInv /\ HoleInv /\ FreeInv
      /\ RecyclableInv /\ LocalInv /\ OverflowInv /\ CallInv /\ LocalType(local)
      /\ request \in SIZES
  <2>1. TypeOK /\ CallInv
    BY DEF Contents
  <2>2. request \in SIZES
    BY <1>1, <2>1 DEF CallInv, TypeOK
  <2> QED  BY <2>1, <2>2, Parts DEF Contents, Rest
<1>3. BumpOK(memory, line_header, live, hole, flag, local)
  BY <1>1, <1>2 DEF LocalInv
<1>4. b \in Blocks /\ n \in Address /\ n \in Nat
  BY <1>1, <1>2, Numbers DEF LocalType
<1>5. CASE hole[n] = NULL
  <2>1. /\ UNCHANGED <<heap, contents, control, local, allocated>>
        /\ Outcome(status')
    BY <1>5 DEF FindNextHole, Stop, Outcome
  <2> QED  BY <2>1, Stays
<1>6. CASE hole[n] # NULL
  <2>1. /\ local' = [local EXCEPT !.cursor = n, !.limit = hole[n].limit,
                                  !.next = hole[n].next]
        /\ UNCHANGED <<heap, contents, control, allocated, status>>
    BY <1>6 DEF FindNextHole
  <2>2. /\ local'.block = b /\ local'.cursor = n /\ local'.limit = hole[n].limit
        /\ local'.next = hole[n].next
        /\ local'.overflow_block = local.overflow_block
        /\ local'.overflow_cursor = local.overflow_cursor
        /\ local'.overflow_limit = local.overflow_limit
    BY <1>1, <2>1 DEF Allocator
  <2>3. hole[n].limit \in Nat /\ hole[n].next \in Address \cup {NULL}
    <3>1. hole[n] \in HoleRecord
      BY <1>2, <1>4, <1>6 DEF TypeOK
    <3> QED  BY <3>1 DEF HoleRecord
  <2>4. BumpOK(memory, line_header, live, hole, flag, local')
    <3>1. CASE flag = "recyclable"
      <4>1. ChainOK(memory, line_header, live, hole, b, n)
        BY <1>1, <1>3, <3>1 DEF BumpOK
      <4>2. /\ Region(memory, line_header, live, b, n, hole[n].limit)
            /\ hole[n].next # NULL =>
                  /\ ChainOK(memory, line_header, live, hole, b, hole[n].next)
                  /\ hole[n].limit <= hole[n].next
        BY <1>2, <4>1, ChainHole
      <4> QED  BY <2>2, <3>1, <4>2 DEF BumpOK
    <3>2. CASE flag = "free"
      <4>1. PICK c \in Blocks, l \in Line \ {0} :
               /\ n = Block_line(c, l) /\ Block_contains(c, n)
               /\ hole[n].next # NULL => Block_contains(c, hole[n].next)
        BY <1>2, <1>4, <1>6, HoleBlock
      <4>2. ~Block_contains(b, n)
        <5>1. CASE Astray(b, local.cursor, n)
          BY <1>1, <5>1 DEF Astray
        <5>2. CASE Within(b, local.cursor, local.limit, hole)
          <6> SUFFICES ASSUME Block_contains(b, n) PROVE FALSE
            OBVIOUS
          <6>1. c = b
            BY <1>4, <4>1, OneBlock
          <6>2. n + LINE_SIZE <= Block_stop(b) /\ LINE_SIZE \in Nat /\ LINE_SIZE > 0
            BY <1>4, <4>1, <6>1, LineCells, Units
          <6>3. local.limit = Block_stop(b) /\ local.limit \in Nat
                /\ local.cursor \in Nat /\ request \in Nat
            BY <1>2, <5>2, Units DEF Within, LocalType
          <6>4. local.limit - local.cursor <= LINE_SIZE
            BY <1>1, <6>2, <6>3 DEF FitsHole, GoesToOverflow
          <6>5. n <= local.cursor /\ n < local.limit
            BY <1>4, <6>2, <6>3, <6>4
          <6>6. Block_start(b) <= n
            BY <4>1, <6>1 DEF Block_contains
          <6> QED  BY <1>4, <1>6, <5>2, <6>5, <6>6 DEF Within
        <5> QED  BY <1>3, <3>2, <5>1, <5>2 DEF BumpOK
      <4>3. hole[n].next # NULL => ~Block_contains(b, hole[n].next)
        <5> SUFFICES ASSUME hole[n].next # NULL, Block_contains(b, hole[n].next)
                     PROVE  FALSE
          OBVIOUS
        <5>1. hole[n].next \in Nat
          BY <2>3, Numbers
        <5>2. c = b
          BY <1>4, <4>1, <5>1, OneBlock
        <5> QED  BY <4>1, <4>2, <5>2
      <4>4. Astray(b, n, hole[n].next)
        BY <4>2, <4>3 DEF Astray
      <4> QED  BY <2>2, <3>2, <4>4 DEF BumpOK
    <3> QED  BY <1>3, <3>1, <3>2 DEF BumpOK
  <2>5. /\ UNCHANGED <<heap_stop, block_header, line_header, free_list,
                       recyclable_list, memory, hole, live, marked, allocated,
                       pc, request, caller, sweeping, collecting, status>>
    BY <2>1 DEF heap, contents, control
  <2>6. LinesInv' /\ LiveInv' /\ HoleInv' /\ FreeInv' /\ RecyclableInv'
    BY <1>2, <2>5, Unmoved
  <2>7. LocalInv'
    BY <2>2, <2>4, <2>5 DEF LocalInv
  <2>8. OverflowInv'
    BY <1>2, <2>2, <2>5 DEF OverflowInv, OverflowOK
  <2>9. CallInv' /\ MarkInv' /\ SweepKeepsLive'
    BY <1>1, <1>2, <2>5 DEF CallInv, MarkInv, SweepKeepsLive
  <2>10. TypeOK'
    <3>1. /\ local'.block \in Blocks /\ local'.overflow_block \in Blocks
          /\ {local'.cursor, local'.limit, local'.overflow_cursor,
              local'.overflow_limit} \subseteq Nat
          /\ local'.next \in Address \cup {NULL}
      <4>1. /\ local.block \in Blocks /\ local.overflow_block \in Blocks
            /\ local.overflow_cursor \in Nat /\ local.overflow_limit \in Nat
        BY <1>2 DEF TypeOK
      <4> QED  BY <1>4, <2>2, <2>3, <4>1
    <3>2. /\ heap_stop' \in {i * BLOCK_SIZE : i \in 2 .. MAX_BLOCKS}
          /\ free_list' \in Seq(Blocks)
      <4>1. /\ heap_stop \in {i * BLOCK_SIZE : i \in 2 .. MAX_BLOCKS}
            /\ free_list \in Seq(Blocks)
        BY <1>2 DEF TypeOK
      <4> QED  BY <2>5, <4>1
    <3>3. LocalType(local')
      BY <3>1 DEF LocalType
    <3> QED  BY <1>2, <2>5, <3>2, <3>3, TypeFrame
  <2> QED  BY <2>6, <2>7, <2>8, <2>9, <2>10 DEF Contents
<1> QED  BY <1>5, <1>6

LEMMA WaitingSteps ==
    ASSUME IInv, Contents,
           \/ \E size \in SIZES : Malloc(size)
           \/ ChooseOverflow \/ BlockExhausted \/ OverflowExhausted
           \/ NothingRecycled
           \/ NoBlock /\ ~CollectionDue
           \/ NoFreeBlock /\ ~CollectionDue
    PROVE  Contents'
<1>1. TypeOK /\ CallInv
  BY DEF Contents
<1>2. pc \in {"idle", "small", "overflow", "retryBlock"} => ~collecting
  BY DEF IInv, ControlInv
<1>3. Outcome(status) /\ request \in SIZES \cup {NULL} /\ collecting \in BOOLEAN
  BY <1>1 DEF TypeOK, Outcome
<1>4. \A size \in SIZES : size # NULL
  BY Units, NullAssumption
<1>5. CASE \E size \in SIZES : Malloc(size)
  <2>1. PICK size \in SIZES : Malloc(size)
    BY <1>5
  <2>2. /\ pc = "idle" /\ pc' = "small" /\ request' = size
        /\ UNCHANGED <<heap, contents, caller, sweeping, collecting, local,
                       allocated, status>>
    BY <2>1 DEF Malloc, Running
  <2> QED  BY <1>2, <1>3, <1>4, <2>2, Onwards
<1>6. CASE \/ ChooseOverflow \/ BlockExhausted \/ OverflowExhausted
           \/ NothingRecycled
           \/ NoBlock /\ ~CollectionDue
           \/ NoFreeBlock /\ ~CollectionDue
  <2>1. /\ UNCHANGED <<heap, contents, local, allocated, status, request, caller,
                       sweeping, collecting>>
        /\ \/ /\ pc \in {"small", "overflow", "retryBlock"}
              /\ pc' \in {"overflow", "nextBlock", "nextFree", "growBlock"}
           \/ pc = "nextBlock" /\ pc' = "growBlock"
           \/ pc = "nextFree" /\ pc' = "growFree"
    BY <1>6 DEF ChooseOverflow, BlockExhausted, OverflowExhausted, NothingRecycled,
                NoBlock, NoFreeBlock, Running, Goto
  <2>2. ~collecting => request # NULL
    BY <1>1, <2>1 DEF CallInv
  <2> QED  BY <1>2, <1>3, <2>1, <2>2, Onwards
<1> QED  BY <1>5, <1>6

\* A block with nothing in it can be bumped through from its start.
LEMMA FreeRegion ==
    ASSUME TypeOK, LinesInv, HoleInv, NEW b \in Blocks,
           Spare(memory, live, Block_start(b), Block_stop(b))
    PROVE  /\ Region(memory, line_header, live, b, Block_start(b), Block_stop(b))
           /\ Within(b, Block_start(b), Block_stop(b), hole)
<1> DEFINE x == Block_start(b)
           y == Block_stop(b)
<1>1. /\ x \in Nat /\ y \in Nat /\ x < y /\ b \in Nat /\ x \in Address
      /\ Block_line(b, 0) = x /\ y = Block_line(b, LINE_COUNT)
      /\ 0 \in Line /\ LINE_COUNT \in 0 .. LINE_COUNT
  BY Numbers
<1>2. ASSUME NEW l \in Line, InLine(b, l, x)
      PROVE  ~containsObject(line_header[b][l])
  <2>1. x <= Block_line(b, l) /\ Block_line(b, l) + LINE_SIZE <= y
        /\ Block_line(b, l) \in Nat /\ LINE_SIZE \in Nat
    BY LineCells, Units
  <2>2. \A a \in Address : InLine(b, l, a) => x <= a /\ a < y
    BY <1>1, <2>1, Numbers DEF InLine
  <2>3. \A a \in Address : InLine(b, l, a) => ~ (memory[a] > 0)
    BY <2>2 DEF Spare
  <2> QED  BY <2>3, SpareLine, Parts
<1>3. Region(memory, line_header, live, b, x, y)
  BY <1>1, <1>2 DEF Region
<1>4. hole[x] = NULL
  <2> SUFFICES ASSUME hole[x] # NULL PROVE FALSE
    OBVIOUS
  <2>1. PICK c \in Blocks, l \in Line \ {0} : x = Block_line(c, l) /\ Block_contains(c, x)
    BY <1>1, HoleBlock
  <2>2. Block_contains(b, x)
    BY <1>1 DEF Block_contains
  <2>3. b = c
    BY <1>1, <2>1, <2>2, OneBlock
  <2>4. Block_line(b, l) = Block_line(b, 0)
    BY <1>1, <2>1, <2>3
  <2>5. InLine(b, l, Block_line(b, 0))
    BY <2>4, LineStart
  <2> QED  BY <1>1, <2>5, LineStart
<1>5. \A a \in Address : x <= a /\ a <= x => a = x
  BY <1>1, Numbers
<1> QED  BY <1>3, <1>4, <1>5 DEF Within

\* A list that loses blocks, or gains some that were not mapped.
LEMMA ListsShrink ==
    ASSUME FreeInv, RecyclableInv, UNCHANGED <<block_header, line_header, memory, hole>>,
           live' \subseteq live, heap_stop \in Nat, heap_stop' \in Nat,
           heap_stop <= heap_stop',
           \A b \in Range(free_list') : b \in Range(free_list) \cup (Blocks \ MappedBlocks),
           \A b \in Range(recyclable_list') : b \in Range(recyclable_list)
    PROVE  FreeInv' /\ RecyclableInv'
<1>1. \A b \in Blocks \ MappedBlocks' : b \in Blocks \ MappedBlocks
  BY Numbers DEF MappedBlocks
<1>2. \A x, y : Spare(memory, live, x, y) => Spare(memory', live', x, y)
  BY DEF Spare
<1>3. FreeInv'
  BY <1>1, <1>2 DEF FreeInv
<1>4. ASSUME NEW b, NEW x, ChainOK(memory, line_header, live, hole, b, x)
      PROVE  ChainOK(memory', line_header', live', hole', b, x)
  <2>1. \A y, z : Region(memory, line_header, live, b, y, z) =>
                  Region(memory', line_header', live', b, y, z)
    BY <1>2 DEF Region
  <2>2. \A S, a : HoleOK(memory, line_header, live, hole, b, S, a) =>
                  HoleOK(memory', line_header', live', hole', b, S, a)
    BY <2>1 DEF HoleOK
  <2> QED  BY <1>4, <2>2 DEF ChainOK
<1>5. RecyclableInv'
  BY <1>4 DEF RecyclableInv
<1> QED  BY <1>3, <1>5

LEMMA CursorContents ==
    ASSUME IInv, Contents, NEW b \in MappedBlocks, InitCursor(b),
           \/ block_header[b].flag = "free" /\ b \in Range(free_list)
           \/ block_header[b].flag = "recyclable" /\ b \in Range(recyclable_list),
           pc \in {"nextBlock", "retryBlock", "growBlock"},
           \A c \in Range(free_list') : c \in Range(free_list),
           \A c \in Range(recyclable_list') : c \in Range(recyclable_list),
           free_list' \in Seq(Blocks), recyclable_list' \in Seq(Blocks),
           UNCHANGED status
    PROVE  Contents'
<1> DEFINE first == Block_line(b, block_header[b].first_free_line)
           flag == block_header[b].flag
<1>1. /\ TypeOK /\ LinesInv /\ LiveInv /\ HoleInv /\ FreeInv /\ RecyclableInv
      /\ OverflowInv /\ CallInv /\ LocalType(local) /\ b \in Blocks
  BY Parts DEF Contents
<1>2. /\ heap_stop \in Nat /\ local = Allocator(local)
  BY Mapped DEF IInv, ShapeInv
<1>3. /\ UNCHANGED <<heap_stop, block_header, line_header, memory, hole, marked,
                     live, allocated, request, caller, sweeping, collecting>>
      /\ pc' = IF collecting THEN "nextFree" ELSE "small"
      /\ flag = "free" => InitFreeCursor(b)
      /\ flag = "recyclable" => InitHoleCursor(b)
  BY DEF InitCursor, Goto, contents
<1>4. FreeInv' /\ RecyclableInv'
  BY <1>1, <1>2, <1>3, ListsShrink
<1>5. LinesInv' /\ LiveInv' /\ HoleInv'
  <2>1. MappedBlocks' = MappedBlocks
    BY <1>3 DEF MappedBlocks
  <2> QED  BY <1>1, <1>3, <2>1 DEF LinesInv, LiveInv, HoleInv
<1>6. /\ BumpOK(memory, line_header, live, hole, flag, local') /\ LocalType(local')
      /\ local'.block = b
      /\ local'.overflow_block = local.overflow_block
      /\ local'.overflow_cursor = local.overflow_cursor
      /\ local'.overflow_limit = local.overflow_limit
  <2>1. CASE flag = "free" /\ b \in Range(free_list)
    <3>1. local' = [local EXCEPT !.block = b, !.cursor = Block_start(b),
                                 !.limit = Block_stop(b)]
      BY <1>3, <2>1 DEF InitFreeCursor
    <3>2. /\ local'.block = b /\ local'.cursor = Block_start(b)
          /\ local'.limit = Block_stop(b) /\ local'.next = local.next
          /\ local'.overflow_block = local.overflow_block
          /\ local'.overflow_cursor = local.overflow_cursor
          /\ local'.overflow_limit = local.overflow_limit
      BY <1>2, <3>1 DEF Allocator
    <3>3. Spare(memory, live, Block_start(b), Block_stop(b))
      BY <1>1, <2>1 DEF FreeInv
    <3>4. /\ Region(memory, line_header, live, b, Block_start(b), Block_stop(b))
          /\ Within(b, Block_start(b), Block_stop(b), hole)
      BY <1>1, <3>3, FreeRegion
    <3>5. Block_start(b) \in Nat /\ Block_stop(b) \in Nat
      BY <1>1, Numbers
    <3> QED  BY <1>1, <2>1, <3>2, <3>4, <3>5 DEF BumpOK, LocalType
  <2>2. CASE flag = "recyclable" /\ b \in Range(recyclable_list)
    <3>1. local' = [local EXCEPT !.block = b, !.cursor = first,
                                 !.limit = hole[first].limit,
                                 !.next = hole[first].next]
      BY <1>3, <2>2 DEF InitHoleCursor
    <3> HIDE DEF first
    <3>2. /\ local'.block = b /\ local'.cursor = first
          /\ local'.limit = hole[first].limit /\ local'.next = hole[first].next
          /\ local'.overflow_block = local.overflow_block
          /\ local'.overflow_cursor = local.overflow_cursor
          /\ local'.overflow_limit = local.overflow_limit
      BY <1>2, <3>1 DEF Allocator
    <3>3. ChainOK(memory, line_header, live, hole, b, first)
      BY <1>1, <2>2 DEF RecyclableInv, first
    <3>4. /\ first \in Address /\ hole[first].limit \in Nat
          /\ hole[first].next \in Address \cup {NULL}
          /\ Region(memory, line_header, live, b, first, hole[first].limit)
          /\ hole[first].next # NULL =>
                /\ ChainOK(memory, line_header, live, hole, b, hole[first].next)
                /\ hole[first].limit <= hole[first].next
      BY <1>1, <3>3, ChainHole
    <3> QED  BY <1>1, <2>2, <3>2, <3>4, Numbers DEF BumpOK, LocalType
  <2> QED  BY <2>1, <2>2
<1>7. LocalInv'
  BY <1>3, <1>6 DEF LocalInv
<1>8. OverflowInv'
  BY <1>1, <1>3, <1>6 DEF OverflowInv, OverflowOK
<1>9. CallInv' /\ MarkInv' /\ SweepKeepsLive'
  BY <1>1, <1>3 DEF CallInv, MarkInv, SweepKeepsLive
<1>10. TypeOK'
  BY <1>1, <1>3, <1>6 DEF TypeOK, LocalType
<1> QED  BY <1>4, <1>5, <1>7, <1>8, <1>9, <1>10 DEF Contents

LEMMA TakeContents ==
    ASSUME IInv, Contents, TakeRecyclable \/ TakeFree
    PROVE  Contents'
<1>1. ListsInv /\ MappedBlocks \subseteq Blocks
      /\ free_list \in Seq(MappedBlocks) /\ recyclable_list \in Seq(MappedBlocks)
      /\ free_list \in Seq(Blocks) /\ recyclable_list \in Seq(Blocks)
      /\ IsInjective(free_list) /\ IsInjective(recyclable_list)
  BY DEF IInv, ListsInv, MappedBlocks, Contents, TypeOK
<1>2. CASE TakeRecyclable
  <2>1. /\ recyclable_list # <<>> /\ recyclable_list' = Tail(recyclable_list)
        /\ UNCHANGED free_list
        /\ InitCursor(Head(recyclable_list))
        /\ pc \in {"nextBlock", "retryBlock"}
    BY <1>2 DEF TakeRecyclable
  <2>2. /\ Head(recyclable_list) \in MappedBlocks
        /\ Head(recyclable_list) \in Range(recyclable_list)
        /\ Range(recyclable_list') = Range(recyclable_list) \ {Head(recyclable_list)}
    BY <1>1, <2>1, Taken
  <2>3. recyclable_list' \in Seq(Blocks)
    BY <1>1, <2>1, Taken
  <2>4. block_header[Head(recyclable_list)].flag = "recyclable"
    BY <1>1, <2>2 DEF ListsInv
  <2>5. UNCHANGED status
    BY <2>1, <2>4 DEF InitCursor
  <2> QED  BY <1>1, <2>1, <2>2, <2>3, <2>4, <2>5, CursorContents
<1>3. CASE TakeFree
  <2>1. /\ free_list # <<>> /\ free_list' = Tail(free_list)
        /\ UNCHANGED recyclable_list
        /\ InitCursor(Head(free_list))
        /\ pc \in {"nextBlock", "growBlock"}
    BY <1>3 DEF TakeFree
  <2>2. /\ Head(free_list) \in MappedBlocks /\ Head(free_list) \in Range(free_list)
        /\ Range(free_list') = Range(free_list) \ {Head(free_list)}
    BY <1>1, <2>1, Taken
  <2>3. free_list' \in Seq(Blocks)
    BY <1>1, <2>1, Taken
  <2>4. block_header[Head(free_list)].flag = "free"
    BY <1>1, <2>2 DEF ListsInv
  <2>5. UNCHANGED status
    BY <2>1, <2>4 DEF InitCursor
  <2> QED  BY <1>1, <2>1, <2>2, <2>3, <2>4, <2>5, CursorContents
<1> QED  BY <1>2, <1>3

LEMMA OverflowBlockStep ==
    ASSUME IInv, Contents, TakeFreeForOverflow
    PROVE  Contents'
<1> DEFINE b == Head(free_list)
<1>1. /\ TypeOK /\ LinesInv /\ LiveInv /\ HoleInv /\ FreeInv /\ RecyclableInv
      /\ LocalInv /\ CallInv /\ LocalType(local) /\ heap_stop \in Nat
      /\ local = Allocator(local) /\ collecting \in BOOLEAN
  BY Parts, Mapped DEF Contents, IInv, ShapeInv
<1>2. /\ free_list # <<>> /\ free_list' = Tail(free_list)
      /\ UNCHANGED <<heap_stop, block_header, line_header, recyclable_list, memory,
                     hole, marked, live, request, sweeping, allocated, status>>
      /\ pc \in {"nextFree", "growFree"}
      /\ IF collecting
         THEN pc' = caller /\ caller' = NULL /\ collecting' = FALSE
         ELSE pc' = "overflow" /\ UNCHANGED <<caller, collecting>>
      /\ local' = [local EXCEPT !.overflow_block = b,
                                !.overflow_cursor = Block_start(b),
                                !.overflow_limit = Block_stop(b)]
  BY DEF TakeFreeForOverflow, contents
<1>3. /\ b \in Blocks /\ b \in Range(free_list) /\ free_list' \in Seq(Blocks)
      /\ Range(free_list') \subseteq Range(free_list)
  <2>1. free_list \in Seq(Blocks) /\ IsInjective(free_list)
    BY <1>1 DEF TypeOK, IInv, ListsInv
  <2> QED  BY <1>2, <2>1, Taken
<1> HIDE DEF b
<1>4. /\ local'.block = local.block /\ local'.cursor = local.cursor
      /\ local'.limit = local.limit /\ local'.next = local.next
      /\ local'.overflow_block = b /\ local'.overflow_cursor = Block_start(b)
      /\ local'.overflow_limit = Block_stop(b)
  BY <1>1, <1>2 DEF Allocator
<1>5. Region(memory, line_header, live, b, Block_start(b), Block_stop(b))
  <2>1. Spare(memory, live, Block_start(b), Block_stop(b))
    BY <1>1, <1>3 DEF FreeInv
  <2> QED  BY <1>1, <1>3, <2>1, FreeRegion
<1>6. FreeInv' /\ RecyclableInv'
  BY <1>1, <1>2, <1>3, ListsShrink
<1>7. LinesInv' /\ LiveInv' /\ HoleInv'
  <2>1. MappedBlocks' = MappedBlocks
    BY <1>2 DEF MappedBlocks
  <2> QED  BY <1>1, <1>2, <2>1 DEF LinesInv, LiveInv, HoleInv
<1>8. LocalInv'
  <2>1. BumpOK(memory, line_header, live, hole, block_header[local.block].flag, local)
    BY <1>1, <1>2 DEF LocalInv
  <2>2. BumpOK(memory, line_header, live, hole, block_header[local.block].flag, local')
    BY <1>4, <2>1 DEF BumpOK
  <2> QED  BY <1>2, <1>4, <2>2 DEF LocalInv
<1>9. OverflowInv'
  BY <1>2, <1>4, <1>5 DEF OverflowInv, OverflowOK
<1>10. /\ collecting => caller \in {"idle", "retryBlock", "growFree"}
       /\ pc' \in {"idle", "retryBlock", "growFree", "overflow"}
       /\ caller' \in {caller, NULL} /\ collecting' = FALSE
       /\ pc' # "idle" => request # NULL
  <2>1. collecting => caller \in {"idle", "retryBlock", "growFree"}
    BY DEF IInv, ControlInv
  <2> QED  BY <1>1, <1>2, <2>1 DEF CallInv
<1>11. CallInv' /\ MarkInv' /\ SweepKeepsLive'
  BY <1>2, <1>10 DEF CallInv, MarkInv, SweepKeepsLive
<1>12. TypeOK'
  <2>1. Block_start(b) \in Nat /\ Block_stop(b) \in Nat
    BY <1>3, Numbers
  <2> QED  BY <1>1, <1>2, <1>3, <1>4, <1>10, <2>1 DEF TypeOK, LocalType
<1> QED  BY <1>6, <1>7, <1>8, <1>9, <1>11, <1>12 DEF Contents

LEMMA GrowContents ==
    ASSUME IInv, Contents, Grow
    PROVE  Contents'
<1> DEFINE increment == ROUND_TO_NEXT_MULTIPLE(
                           (SmallHeapSize * GROWTH_RATE) \div 100, BLOCK_SIZE)
           k == increment \div BLOCK_SIZE
           new == [i \in 1 .. k |-> heap_stop + (i - 1) * BLOCK_SIZE]
<1>1. /\ pc \in {"growBlock", "growFree"} /\ status = "running"
      /\ free_list = <<>> /\ GrowSmall
  BY DEF Grow
<1>2. CASE OverLimit(increment)
  <2>1. /\ UNCHANGED <<heap, contents, control, local, allocated>>
        /\ Outcome(status')
    BY <1>1, <1>2 DEF GrowSmall, Stop, Outcome
  <2> QED  BY <2>1, Stays
<1>3. CASE ~OverLimit(increment)
  <2>1. /\ heap_stop' = heap_stop + increment
        /\ free_list' = free_list \o new
        /\ UNCHANGED <<block_header, line_header, recyclable_list, memory, hole,
                       marked, live, pc, request, caller, sweeping, collecting,
                       local, allocated, status>>
    BY <1>1, <1>3 DEF GrowSmall, contents, control
  <2>2. /\ TypeOK /\ LinesInv /\ LiveInv /\ HoleInv /\ FreeInv /\ RecyclableInv
        /\ LocalInv /\ OverflowInv /\ CallInv /\ HeapInv
    BY DEF Contents, IInv, ShapeInv
  <2>3. /\ HeapInv' /\ heap_stop <= heap_stop' /\ k \in Nat
        /\ \A i \in 1 .. k : LET b == heap_stop + (i - 1) * BLOCK_SIZE
                            IN b \in Blocks /\ heap_stop <= b /\ b < heap_stop'
    BY <1>3, <2>1, <2>2, Growth
  <2> HIDE DEF increment, k
  <2>4. heap_stop \in Nat /\ heap_stop' \in Nat
    <3>1. MAX_BLOCKS \in Nat /\ \A n \in 2 .. MAX_BLOCKS : n \in Nat
      BY SmallHeapAssumption
    <3> QED  BY <2>2, <2>3, <3>1, Mapped, Multiples DEF HeapInv
  <2>5. /\ new \in Seq(Blocks)
        /\ \A b \in Range(new) : b \in Blocks \ MappedBlocks
    <3>1. \A i \in 1 .. k : new[i] \in Blocks /\ new[i] \notin MappedBlocks
      BY <2>3, <2>4, Numbers DEF MappedBlocks
    <3>2. new \in Seq(Blocks) /\ DOMAIN new = 1 .. k
      BY <2>3, <3>1
    <3> QED  BY <2>3, <3>1, <3>2 DEF Range
  <2>6. free_list' = new
    BY <1>1, <2>1, <2>5, ConcatEmptySeq
  <2> HIDE DEF new
  <2>7. FreeInv' /\ RecyclableInv'
    BY <2>1, <2>2, <2>3, <2>4, <2>5, <2>6, ListsShrink
  <2>8. MappedBlocks \subseteq MappedBlocks'
    BY <2>3, <2>4, Numbers DEF MappedBlocks
  <2>9. LinesInv' /\ HoleInv' /\ LocalInv' /\ OverflowInv' /\ CallInv'
    BY <2>1, <2>2 DEF LinesInv, HoleInv, LocalInv, OverflowInv, CallInv
  <2>10. LiveInv'
    BY <2>1, <2>2, <2>8 DEF LiveInv, Placed
  <2>11. MarkInv' /\ SweepKeepsLive'
    BY <1>1, <2>1 DEF MarkInv, SweepKeepsLive
  <2>12. TypeOK'
    <3>1. heap_stop' \in {i * BLOCK_SIZE : i \in 2 .. MAX_BLOCKS}
      <4>1. PICK n \in 2 .. MAX_BLOCKS : heap_stop' = n * BLOCK_SIZE
        BY <2>3 DEF HeapInv
      <4> QED  BY <4>1, Zenon
    <3>2. free_list' \in Seq(Blocks)
      BY <2>5, <2>6
    <3>3. /\ LocalType(local')
          /\ UNCHANGED <<block_header, line_header, recyclable_list, memory, hole>>
          /\ UNCHANGED <<marked, live, allocated, collecting, pc, request>>
          /\ UNCHANGED <<caller, sweeping, status>>
      BY <2>1, <2>2, Parts
    <3> QED  BY <2>2, <3>1, <3>2, <3>3, TypeFrame
  <2> QED  BY <2>7, <2>9, <2>10, <2>11, <2>12 DEF Contents
<1> QED  BY <1>2, <1>3
-----------------------------------------------------------------------------
(* The collection: finding objects *)

LEMMA StartContents ==
    ASSUME IInv, Contents, NEW then \in {"idle", "retryBlock", "growFree"},
           then # "idle" => request # NULL, StartCollection(then)
    PROVE  Contents'
<1>1. /\ TypeOK /\ LinesInv /\ LiveInv /\ HoleInv /\ FreeInv /\ RecyclableInv
      /\ CallInv /\ heap_stop \in Nat
  BY Mapped DEF Contents, IInv, ShapeInv
<1>2. live' \subseteq live
  BY DEF StartCollection, kSubset
<1>3. /\ UNCHANGED <<heap_stop, block_header, line_header, free_list,
                     recyclable_list, memory, hole, marked, request, sweeping,
                     local, allocated, status>>
      /\ collecting' = TRUE /\ caller' = then /\ pc' = "unmark"
  BY DEF StartCollection, heap
<1>4. FreeInv' /\ RecyclableInv'
  BY <1>1, <1>2, <1>3, ListsShrink
<1>5. LinesInv' /\ HoleInv' /\ LiveInv'
  <2>1. MappedBlocks' = MappedBlocks
    BY <1>3 DEF MappedBlocks
  <2> QED  BY <1>1, <1>2, <1>3, <2>1 DEF LinesInv, HoleInv, LiveInv
<1>6. LocalInv' /\ OverflowInv' /\ CallInv' /\ MarkInv' /\ SweepKeepsLive'
  BY <1>3 DEF LocalInv, OverflowInv, CallInv, MarkInv, SweepKeepsLive
<1>7. TypeOK'
  BY <1>1, <1>2, <1>3 DEF TypeOK
<1> QED  BY <1>4, <1>5, <1>6, <1>7 DEF Contents

LEMMA RequestContents ==
    ASSUME IInv, Contents, NoBlock \/ NoFreeBlock \/ Collect
    PROVE  Contents'
<1>1. CASE (NoBlock \/ NoFreeBlock) /\ ~CollectionDue
  BY <1>1, WaitingSteps
<1>2. CASE (NoBlock \/ NoFreeBlock) /\ CollectionDue
  <2>1. pc # "idle" /\ ~collecting
    BY <1>2 DEF NoBlock, NoFreeBlock, Running, CollectionDue
  <2>2. request # NULL
    BY <2>1 DEF Contents, CallInv
  <2> QED  BY <1>2, <2>2, StartContents DEF NoBlock, NoFreeBlock
<1>3. CASE Collect
  BY <1>3, StartContents DEF Collect
<1> QED  BY <1>1, <1>2, <1>3

\* Where an object in use is.
LEMMA LiveBlock ==
    ASSUME HeapInv, LiveInv, NEW o \in live
    PROVE  LET b == Block_from(o.at)
           IN /\ b \in MappedBlocks /\ b \in Blocks
              /\ o.at \in Nat /\ o.at \in Address /\ o.size \in Nat
              /\ OBJECT \in Nat /\ OBJECT > 0 /\ o.size > OBJECT
              /\ Block_start(b) <= o.at /\ o.at + o.size <= Block_stop(b)
              /\ Block_stop(b) <= heap_stop
              /\ heap_stop \in Nat /\ Block_stop(b) \in Nat /\ Block_start(b) \in Nat
              /\ memory[o.at] = o.size
              /\ \A c \in Address : o.at < c /\ c < o.at + o.size => memory[c] = DATA
<1>1. Placed(memory, MappedBlocks, o)
  BY DEF LiveInv
<1>2. PICK b \in MappedBlocks : Block_start(b) <= o.at /\ o.at + o.size <= Block_stop(b)
  BY <1>1 DEF Placed
<1>3. /\ o.at \in Nat /\ o.size \in Nat /\ OBJECT \in Nat /\ OBJECT > 0
      /\ o.size > OBJECT
  BY <1>1, Units DEF Placed
<1>4. /\ b \in Blocks /\ b \in Nat /\ Block_stop(b) \in Nat /\ Block_start(b) \in Nat
      /\ b <= Block_start(b) /\ Block_stop(b) = b + BLOCK_SIZE
  <2>1. b \in Blocks
    BY DEF MappedBlocks
  <2> QED  BY <2>1, BlockFacts, Units
<1>5. Block_from(o.at) = b
  BY <1>2, <1>3, <1>4, BlockFrom
<1>6. o.at \in Address
  BY <1>2, <1>3, <1>4, Numbers
<1>7. heap_stop \in Nat /\ Block_stop(b) <= heap_stop
  <2>1. PICK n \in 2 .. MAX_BLOCKS : heap_stop = n * BLOCK_SIZE
    BY DEF HeapInv
  <2>2. PICK i \in 0 .. MAX_BLOCKS - 1 : b = i * BLOCK_SIZE
    BY <1>4 DEF Blocks
  <2>3. n \in Nat /\ i \in Nat /\ i + 1 \in Nat
    BY SmallHeapAssumption
  <2>4. i < n
    BY <2>1, <2>2, <2>3, Multiples DEF MappedBlocks
  <2>5. i + 1 <= n
    BY <2>3, <2>4
  <2> QED  BY <1>4, <2>1, <2>2, <2>3, <2>5, Multiples
<1> QED  BY <1>1, <1>2, <1>3, <1>4, <1>5, <1>6, <1>7 DEF Placed

\* A pointer into the heap stands for an address or for nothing.
LEMMA FoundAddress ==
    ASSUME HeapInv, MemoryType, LinesInv, NEW p \in Nat, p < heap_stop
    PROVE  FoundObject(p) \in Address \cup {NULL}
<1> DEFINE b == Block_from(p)
           index == Block_lineIndex(b, p)
           h == line_header[b][index]
           last == IF containsObject(h) /\ p < Block_line(b, index) + h.offset
                   THEN index - 1 ELSE index
           lines == {l \in 0 .. last : containsObject(line_header[b][l])}
           found == {a \in Walk(b, Max(lines)) : Object_contains(a, p)}
<1>1. FoundObject(p) = IF index = INVALID_LINE_INDEX THEN NULL
                       ELSE IF lines = {} THEN NULL
                       ELSE IF found = {} THEN NULL
                       ELSE CHOOSE a \in found : TRUE
  BY DEF FoundObject
<1>2. b \in Blocks /\ b \in Nat /\ b <= p /\ p < Block_stop(b)
  BY Pointed, Numbers DEF MappedBlocks
<1> HIDE DEF b
<1>3. CASE p < Block_start(b)
  <2>1. index = INVALID_LINE_INDEX
    BY <1>3 DEF Block_lineIndex
  <2> HIDE DEF index
  <2> QED  BY <1>1, <2>1
<1>4. CASE Block_start(b) <= p
  <2>1. index \in Line
    BY <1>2, <1>4, LineIndex DEF Block_contains
  <2> HIDE DEF index
  <2>2. last \in Int /\ last <= index /\ index \in Nat /\ index < LINE_COUNT
    BY <2>1, Units DEF Line
  <2>3. ASSUME lines # {}
        PROVE  found \subseteq Address
    <3>1. last \in Int /\ lines \in SUBSET (0 .. last)
      BY <2>2
    <3>2. Max(lines) \in lines
      <4> HIDE DEF lines, last
      <4> QED  BY <2>3, <3>1, Greatest
    <3>3. Max(lines) \in Line
      <4>1. \A l \in lines : l \in Line
        BY <2>2, Units DEF Line
      <4> QED  BY <3>2, <4>1
    <3> DEFINE m == Max(lines)
    <3>4. LineShape(memory, line_header[b][m], Block_line(b, m))
      BY <1>2, <3>3 DEF LinesInv
    <3>5. Walk(b, m) = Heads(b, m)
      <4> HIDE DEF m
      <4> QED  BY <1>2, <3>3, <3>4, WalkFindsHeads DEF m
    <3> QED  BY <3>5 DEF Heads
  <2> HIDE DEF found, lines
  <2> QED  BY <1>1, <2>3
<1>5. Block_start(b) \in Nat
  BY <1>2, Numbers
<1> QED  BY <1>3, <1>4, <1>5

\* A pointer into an object in use stands for that object.
LEMMA FoundLive ==
    ASSUME HeapInv, MemoryType, LinesInv, LiveInv, NEW o \in live,
           NEW p \in o.at + OBJECT .. o.at + o.size - 1
    PROVE  FoundObject(p) = o.at
<1> DEFINE b == Block_from(p)
           index == Block_lineIndex(b, p)
           h == line_header[b][index]
           last == IF containsObject(h) /\ p < Block_line(b, index) + h.offset
                   THEN index - 1 ELSE index
           lines == {l \in 0 .. last : containsObject(line_header[b][l])}
           found == {a \in Walk(b, Max(lines)) : Object_contains(a, p)}
           start == Block_lineIndex(b, o.at)
<1>1. FoundObject(p) = IF index = INVALID_LINE_INDEX THEN NULL
                       ELSE IF lines = {} THEN NULL
                       ELSE IF found = {} THEN NULL
                       ELSE CHOOSE a \in found : TRUE
  BY DEF FoundObject
<1>2. PICK c \in Blocks :
         /\ o.at \in Nat /\ o.at \in Address /\ o.size \in Nat
         /\ OBJECT \in Nat /\ OBJECT > 0 /\ o.size > OBJECT
         /\ Block_start(c) <= o.at /\ o.at + o.size <= Block_stop(c)
         /\ Block_stop(c) \in Nat /\ Block_start(c) \in Nat
         /\ memory[o.at] = o.size
         /\ \A a \in Address : o.at < a /\ a < o.at + o.size => memory[a] = DATA
  BY LiveBlock
<1>3. /\ p \in Nat /\ o.at < p /\ p < o.at + o.size /\ o.at + OBJECT <= p
  BY <1>2
<1>4. Block_contains(c, p) /\ Block_contains(c, o.at)
  BY <1>2, <1>3 DEF Block_contains
<1>5. b = c
  <2>1. c <= Block_start(c) /\ c \in Nat
    BY BlockFacts, Units
  <2>2. c <= p /\ p < Block_stop(c)
    BY <1>2, <1>3, <2>1
  <2> QED  BY <1>3, <2>2, BlockFrom
<1>6. /\ b \in Blocks /\ b \in Nat /\ Block_contains(b, p) /\ Block_contains(b, o.at)
  BY <1>4, <1>5, Numbers
<1> HIDE DEF b
<1>7. /\ index \in Line /\ InLine(b, index, p) /\ index # INVALID_LINE_INDEX
      /\ start \in Line /\ InLine(b, start, o.at)
  BY <1>2, <1>3, <1>6, LineIndex
<1> HIDE DEF index, start
<1>8. /\ index \in Nat /\ index < LINE_COUNT /\ start \in Nat /\ start < LINE_COUNT
      /\ LINE_COUNT \in Nat /\ LINE_SIZE \in Nat
      /\ \A l \in Line : l \in Nat /\ Block_line(b, l) \in Nat /\ l \in 0 .. LINE_COUNT
  BY <1>6, <1>7, Units, Numbers DEF Line
<1>9. \A k, l \in Line : k < l => Block_line(b, k) + LINE_SIZE <= Block_line(b, l)
  BY <1>6, <1>8, Lines
<1>10. \A l \in Line : LineShape(memory, line_header[b][l], Block_line(b, l))
  BY <1>6 DEF LinesInv
<1>11. start <= index
  <2> SUFFICES ASSUME index < start PROVE FALSE
    BY <1>8
  <2>1. Block_line(b, index) + LINE_SIZE <= Block_line(b, start)
    BY <1>7, <1>9
  <2> QED  BY <1>2, <1>3, <1>7, <1>8, <2>1 DEF InLine
<1>12. /\ containsObject(line_header[b][start])
       /\ Block_line(b, start) + line_header[b][start].offset <= o.at
       /\ line_header[b][start].offset \in Nat
  <2>1. o.at \in Block_line(b, start) .. Block_line(b, start) + LINE_SIZE - 1
    BY <1>2, <1>6, <1>7, LineCells
  <2>2. memory[o.at] > 0
    BY <1>2
  <2>3. /\ containsObject(line_header[b][start])
        /\ Block_line(b, start) + line_header[b][start].offset <= o.at
        /\ line_header[b][start].offset \in 0 .. LINE_SIZE - 1
    BY <1>7, <1>10, <2>1, <2>2 DEF LineShape
  <2> QED  BY <1>8, <2>3
<1>13. start <= last /\ last <= index /\ last \in Int
  <2>1. CASE start = index
    <3>1. ~ (p < Block_line(b, index) + h.offset)
      BY <1>2, <1>3, <1>7, <1>8, <1>12, <2>1
    <3> QED  BY <1>8, <2>1, <3>1
  <2>2. CASE start < index
    BY <1>8, <2>2
  <2> QED  BY <1>8, <1>11, <2>1, <2>2
<1>14. \A l \in lines : l \in Line /\ l <= last /\ l \in Nat
  BY <1>8, <1>13 DEF Line
<1>15. start \in lines
  BY <1>8, <1>12, <1>13
<1>16. ASSUME NEW k \in lines, start < k
       PROVE  FALSE
  <2> DEFINE f == Block_line(b, k) + line_header[b][k].offset
  <2>1. k \in Line /\ containsObject(line_header[b][k]) /\ k <= last
    BY <1>14
  <2>2. memory[f] > 0 /\ line_header[b][k].offset \in 0 .. LINE_SIZE - 1
    BY <1>10, <2>1 DEF LineShape
  <2>3. /\ f \in Nat /\ Block_line(b, k) <= f /\ f < Block_line(b, k) + LINE_SIZE
        /\ f \in Address
    <3>1. f \in Block_line(b, k) .. Block_line(b, k) + LINE_SIZE - 1
      BY <1>8, <2>1, <2>2
    <3>2. f \in Address
      BY <1>6, <2>1, <3>1, LineCells
    <3> QED  BY <1>8, <2>1, <3>1, <3>2, Numbers
  <2>4. o.at < f
    <3>1. Block_line(b, start) + LINE_SIZE <= Block_line(b, k)
      BY <1>7, <1>9, <1>16, <2>1
    <3> QED  BY <1>2, <1>7, <1>8, <2>1, <2>3, <3>1 DEF InLine
  <2>5. f <= p
    <3>1. CASE k = index
      <4>1. last = index
        BY <1>8, <1>13, <2>1, <3>1
      <4>2. ~ (p < Block_line(b, index) + h.offset)
        BY <1>8, <2>1, <3>1, <4>1
      <4> QED  BY <1>3, <2>3, <3>1, <4>2
    <3>2. CASE k < index
      <4>1. Block_line(b, k) + LINE_SIZE <= Block_line(b, index)
        BY <1>7, <1>9, <2>1, <3>2
      <4> QED  BY <1>3, <1>7, <1>8, <2>1, <2>3, <4>1 DEF InLine
    <3> QED  BY <1>8, <1>13, <1>14, <2>1, <3>1, <3>2
  <2> HIDE DEF f
  <2>6. memory[f] = DATA
    BY <1>2, <1>3, <2>3, <2>4, <2>5
  <2> QED  BY <2>2, <2>6 DEF DATA
<1>17. Max(lines) = start
  <2>1. lines \in SUBSET (0 .. last)
    OBVIOUS
  <2> HIDE DEF lines, last
  <2>2. Max(lines) \in lines /\ start <= Max(lines)
    BY <1>13, <1>15, <2>1, Greatest
  <2>3. ~ (start < Max(lines))
    BY <1>16, <2>2
  <2> QED  BY <1>8, <1>14, <2>2, <2>3
<1>18. Walk(b, start) = Heads(b, start)
  BY <1>6, <1>7, <1>10, WalkFindsHeads DEF MemoryType
<1>19. found = {a \in Heads(b, start) : Object_contains(a, p)}
  BY <1>17, <1>18
<1> HIDE DEF found, lines
<1>20. o.at \in found
  <2>1. o.at \in Heads(b, start)
    BY <1>2, <1>7 DEF Heads
  <2> QED  BY <1>2, <1>3, <1>19, <2>1 DEF Object_contains
<1>21. ASSUME NEW a \in found
       PROVE  a = o.at
  <2> DEFINE first == Block_line(b, start)
             cells == first .. first + LINE_SIZE - 1
  <2>1. /\ a \in Address /\ memory[a] > 0 /\ a \in cells /\ a \in Nat
        /\ a + OBJECT <= p /\ p < a + memory[a]
        /\ o.at \in cells /\ memory[o.at] > 0
        /\ first \in Nat /\ cells \subseteq Address
        /\ LineShape(memory, line_header[b][start], first)
    <3>1. a \in Address /\ memory[a] > 0 /\ InLine(b, start, a) /\ Object_contains(a, p)
      BY <1>19 DEF Heads
    <3>2. a \in cells /\ o.at \in cells /\ first \in Nat /\ cells \subseteq Address
      BY <1>2, <1>6, <1>7, <3>1, LineCells
    <3> QED  BY <1>2, <1>7, <1>10, <3>1, <3>2, Numbers DEF Object_contains
  <2>2. memory[a] \in Int
    BY <2>1, Words
  <2> HIDE DEF first
  <2>3. CASE a < o.at
    <3>1. a + memory[a] <= o.at
      BY <2>1, <2>3, NextHead
    <3> QED  BY <1>2, <1>3, <2>1, <2>2, <3>1
  <2>4. CASE o.at < a
    <3>1. o.at + memory[o.at] <= a
      BY <2>1, <2>4, NextHead
    <3> QED  BY <1>2, <1>3, <2>1, <3>1
  <2> QED  BY <1>2, <2>1, <2>3, <2>4
<1>22. (CHOOSE a \in found : TRUE) = o.at
  <2>1. (CHOOSE a \in found : TRUE) \in found
    BY <1>20
  <2> QED  BY <1>21, <2>1
<1>23. found # {} /\ lines # {}
  BY <1>15, <1>20
<1> QED  BY <1>1, <1>7, <1>22, <1>23
-----------------------------------------------------------------------------
(* The collection: unmarking and marking *)

\* Marks change nothing of what the blocks contain.
LEMMA Remarking ==
    ASSUME TypeOK, LinesInv, LiveInv, HoleInv, FreeInv, RecyclableInv, ListsInv,
           UNCHANGED <<heap_stop, memory, hole, live>>,
           \A b \in Blocks : block_header'[b].first_free_line
                               = block_header[b].first_free_line,
           \A b \in Blocks, l \in Line :
              line_header'[b][l].offset = line_header[b][l].offset,
           \A b \in Range(free_list') : b \in Range(free_list),
           \A b \in Range(recyclable_list') : b \in Range(recyclable_list)
    PROVE  LinesInv' /\ LiveInv' /\ HoleInv' /\ FreeInv' /\ RecyclableInv'
<1>1. MemoryType /\ MappedBlocks' = MappedBlocks /\ MappedBlocks \subseteq Blocks
  BY Parts DEF MappedBlocks
<1>2. LiveInv' /\ HoleInv' /\ FreeInv'
  BY <1>1 DEF LiveInv, HoleInv, FreeInv
<1>3. ASSUME NEW b \in Blocks, NEW l \in Line
      PROVE  LineShape(memory', line_header'[b][l], Block_line(b, l))
  <2> DEFINE first == Block_line(b, l)
             h == line_header[b][l]
             g == line_header'[b][l]
  <2>1. LineShape(memory, h, first) /\ g.offset = h.offset /\ first \in Nat
        /\ first .. first + LINE_SIZE - 1 \subseteq Address
    BY LineCells DEF LinesInv
  <2>2. \A a \in first .. first + LINE_SIZE - 1 : memory[a] \in Int /\ memory'[a] = memory[a]
    BY <1>1, <2>1, Words
  <2>3. containsObject(h) = containsObject(g)
    BY <2>1 DEF containsObject
  <2> HIDE DEF first, h, g
  <2>4. LineShape(memory', g, first)
    BY <2>1, <2>2, <2>3, SameLine
  <2> QED  BY <2>4 DEF first, g
<1>4. ASSUME NEW b \in Range(recyclable_list')
      PROVE  ChainOK(memory', line_header', live', hole', b,
                     Block_line(b, block_header'[b].first_free_line))
  <2>0. Range(recyclable_list) \subseteq Blocks
    BY <1>1 DEF ListsInv, Range
  <2>1. b \in Range(recyclable_list) /\ b \in Blocks
    BY <2>0
  <2>2. Kept(b, Block_start(b))
    BY <2>1 DEF Kept
  <2>3. ChainOK(memory, line_header, live, hole, b,
                Block_line(b, block_header[b].first_free_line))
    BY <2>1 DEF RecyclableInv
  <2>4. block_header'[b].first_free_line = block_header[b].first_free_line
    BY <2>1
  <2> HIDE DEF ChainOK
  <2> QED  BY <2>1, <2>2, <2>3, <2>4, KeptBlock
<1> QED  BY <1>2, <1>3, <1>4 DEF LinesInv, RecyclableInv

\* The object is in the line its address is in.
LEMMA LiveHead ==
    ASSUME HeapInv, TypeOK, LinesInv, LiveInv, NEW o \in live
    PROVE  o.at \in UnmarkedObjects
<1> DEFINE b == Block_from(o.at)
           l == Block_lineIndex(b, o.at)
<1>1. /\ b \in MappedBlocks /\ b \in Blocks /\ o.at \in Nat /\ o.at \in Address
      /\ o.size \in Nat /\ o.size > 0 /\ memory[o.at] = o.size /\ b \in Nat
      /\ Block_start(b) <= o.at /\ o.at + o.size <= Block_stop(b)
      /\ Block_stop(b) \in Nat
  BY LiveBlock, Numbers
<1> HIDE DEF b
<1>2. Block_contains(b, o.at)
  BY <1>1 DEF Block_contains
<1>3. l \in Line /\ InLine(b, l, o.at)
  BY <1>1, <1>2, LineIndex
<1> HIDE DEF l
<1>4. Walk(b, l) = Heads(b, l)
  BY <1>1, <1>3, WalkFindsHeads, Parts DEF LinesInv
<1>5. o.at \in Walk(b, l)
  BY <1>1, <1>3, <1>4 DEF Heads
<1> QED  BY <1>1, <1>3, <1>5 DEF UnmarkedObjects

LEMMA UnmarkContents ==
    ASSUME IInv, Contents, Unmark
    PROVE  Contents'
<1>1. /\ TypeOK /\ LinesInv /\ LiveInv /\ HoleInv /\ FreeInv /\ RecyclableInv
      /\ CallInv /\ HeapInv /\ ListsInv
  BY DEF Contents, IInv, ShapeInv
<1>2. /\ pc = "unmark" /\ pc' = "mark" /\ marked' = marked \ UnmarkedObjects
      /\ UNCHANGED <<heap_stop, free_list, recyclable_list, memory, hole, live,
                     local, allocated, status, request, caller, sweeping, collecting>>
      /\ block_header' = [b \in Blocks |->
                             IF b \in MappedBlocks
                             THEN [block_header[b] EXCEPT !.marked = FALSE]
                             ELSE block_header[b]]
      /\ line_header' = [b \in Blocks |-> [l \in Line |->
                            [line_header[b][l] EXCEPT !.marked = FALSE]]]
  BY DEF Unmark, Running, Goto
<1>3. collecting
  BY <1>2 DEF IInv, ControlInv
<1>4. /\ block_header' \in [Blocks -> [marked : BOOLEAN,
                                flag : {"free", "recyclable", "unavailable"},
                                first_free_line : Line]]
      /\ \A b \in Blocks : block_header'[b].first_free_line
                             = block_header[b].first_free_line
  BY <1>1, <1>2 DEF TypeOK
<1>5. /\ line_header' \in [Blocks -> [Line -> [marked : BOOLEAN,
                               offset : 0 .. LINE_SIZE - 1 \cup {NULL}]]]
      /\ \A b \in Blocks, l \in Line :
            line_header'[b][l].offset = line_header[b][l].offset
  <2>1. ASSUME NEW b \in Blocks, NEW l \in Line
        PROVE  /\ line_header'[b][l] \in [marked : BOOLEAN,
                                         offset : 0 .. LINE_SIZE - 1 \cup {NULL}]
               /\ line_header'[b][l].offset = line_header[b][l].offset
    <3> DEFINE Headers == [marked : BOOLEAN, offset : 0 .. LINE_SIZE - 1 \cup {NULL}]
    <3>1. line_header[b][l] \in Headers
      <4>1. line_header \in [Blocks -> [Line -> Headers]]
        BY <1>1 DEF TypeOK
      <4> HIDE DEF Headers
      <4> QED  BY <4>1
    <3>2. line_header'[b][l] = [line_header[b][l] EXCEPT !.marked = FALSE]
      BY <1>2
    <3> QED  BY <3>1, <3>2
  <2>2. line_header' = [b \in Blocks |-> [l \in Line |-> line_header'[b][l]]]
    BY <1>2
  <2> QED  BY <2>1, <2>2
<1>6. LinesInv' /\ LiveInv' /\ HoleInv' /\ FreeInv' /\ RecyclableInv'
  BY <1>1, <1>2, <1>4, <1>5, Remarking
<1>7. MarkInv'
  BY <1>1, <1>2, LiveHead DEF MarkInv
<1>8. LocalInv' /\ OverflowInv' /\ CallInv' /\ SweepKeepsLive'
  BY <1>1, <1>2, <1>3 DEF LocalInv, OverflowInv, CallInv, SweepKeepsLive
<1>9. TypeOK'
  BY <1>1, <1>2, <1>4, <1>5 DEF TypeOK
<1> QED  BY <1>6, <1>7, <1>8, <1>9 DEF Contents

\* The lines of an object in use are lines of its block.
LEMMA MarkedLinesFacts ==
    ASSUME HeapInv, LiveInv, NEW o \in live
    PROVE  LET b == Block_from(o.at)
           IN /\ MarkedLines(o.at) \subseteq Line
              /\ Block_lineIndex(b, o.at) \in MarkedLines(o.at)
              /\ InLine(b, Block_lineIndex(b, o.at), o.at)
              /\ o.size > LINE_SIZE => \A l \in Line, c \in Cells(o) :
                    InLine(b, l, c) => l \in MarkedLines(o.at)
<1> DEFINE b == Block_from(o.at)
           z == o.at + o.size - 1
           l == Block_lineIndex(b, o.at)
           k == Block_lineIndex(b, z)
<1>1. /\ b \in Blocks /\ o.at \in Nat /\ o.size \in Nat /\ o.size > 0
      /\ Block_start(b) <= o.at /\ o.at + o.size <= Block_stop(b)
      /\ Block_stop(b) \in Nat /\ Block_start(b) \in Nat /\ memory[o.at] = o.size
      /\ b \in Nat /\ LINE_SIZE \in Nat /\ LINE_COUNT \in Nat
  BY LiveBlock, Numbers, Units
<1>2. MarkedLines(o.at) = l .. IF o.size <= LINE_SIZE THEN l ELSE k
  BY <1>1 DEF MarkedLines
<1> HIDE DEF b
<1>3. z \in Nat /\ Block_contains(b, o.at) /\ Block_contains(b, z) /\ o.at <= z
  BY <1>1 DEF Block_contains
<1>4. l \in Line /\ k \in Line /\ InLine(b, l, o.at) /\ InLine(b, k, z)
  BY <1>1, <1>3, LineIndex
<1> HIDE DEF z
<1>5. \A i \in Line : i \in 0 .. LINE_COUNT /\ i \in Nat /\ Block_line(b, i) \in Nat
  BY <1>1, Numbers
<1>6. \A i, j \in Line : i < j => Block_line(b, i) + LINE_SIZE <= Block_line(b, j)
  BY <1>1, <1>5, Lines
<1>7. \A c, d \in Nat : \A i, j \in Line :
         InLine(b, i, c) /\ InLine(b, j, d) /\ c <= d => i <= j
  <2> SUFFICES ASSUME NEW c \in Nat, NEW d \in Nat, NEW i \in Line, NEW j \in Line,
                      InLine(b, i, c), InLine(b, j, d), c <= d, j < i
               PROVE  FALSE
    BY <1>5
  <2>1. Block_line(b, j) + LINE_SIZE <= Block_line(b, i)
    BY <1>6
  <2> QED  BY <1>1, <1>5, <2>1 DEF InLine
<1> HIDE DEF l, k
<1>8. l <= k
  BY <1>1, <1>3, <1>4, <1>7
<1>9. ASSUME o.size > LINE_SIZE, NEW i \in Line, NEW c \in Cells(o), InLine(b, i, c)
      PROVE  l <= i /\ i <= k
  <2>1. c \in Nat /\ o.at <= c /\ c <= z
    BY <1>1 DEF Cells, z
  <2> QED  BY <1>1, <1>3, <1>4, <1>7, <1>9, <2>1
<1>10. ASSUME NEW i \in MarkedLines(o.at)
       PROVE  i \in Line
  <2>1. l \in Nat /\ k \in Nat /\ l < LINE_COUNT /\ k < LINE_COUNT
    BY <1>1, <1>4 DEF Line
  <2>2. i \in l .. k
    BY <1>2, <1>8, <1>10, <2>1
  <2> QED  BY <1>1, <2>1, <2>2 DEF Line
<1>11. l \in MarkedLines(o.at)
  BY <1>2, <1>4, <1>5, <1>8
<1>12. o.size > LINE_SIZE => \A i \in Line, c \in Cells(o) :
          InLine(b, i, c) => i \in MarkedLines(o.at)
  <2> SUFFICES ASSUME o.size > LINE_SIZE, NEW i \in Line, NEW c \in Cells(o),
                      InLine(b, i, c)
               PROVE  i \in MarkedLines(o.at)
    OBVIOUS
  <2>1. MarkedLines(o.at) = l .. k
    BY <1>1, <1>2
  <2> QED  BY <1>4, <1>5, <1>9, <2>1
<1> QED  BY <1>4, <1>10, <1>11, <1>12 DEF b, l

LEMMA MarkContents ==
    ASSUME IInv, Contents, Mark
    PROVE  Contents'
<1>1. /\ TypeOK /\ LinesInv /\ LiveInv /\ HoleInv /\ FreeInv /\ RecyclableInv
      /\ CallInv /\ MarkInv /\ HeapInv /\ ListsInv /\ MemoryType
  BY Parts DEF Contents, IInv, ShapeInv
<1>2. /\ pc = "mark" /\ pc' = "sweep" /\ sweeping' = 0 /\ allocated' = 0
      /\ free_list' = <<>> /\ recyclable_list' = <<>>
      /\ UNCHANGED <<heap_stop, memory, hole, live, request, caller, collecting,
                     local, status>>
      /\ \E inner \in BOOLEAN, spurious \in {{}} \cup {{p} : p \in SPURIOUS} :
            MarkObjects({FoundObject(p) : p \in
                           {q \in Pointers(inner, spurious) : q < heap_stop}}
                          \ {NULL})
  BY DEF Mark, Running, ClearLists
<1>3. collecting
  BY <1>2 DEF IInv, ControlInv
<1>4. PICK inner \in BOOLEAN, spurious \in {{}} \cup {{p} : p \in SPURIOUS} :
         MarkObjects({FoundObject(p) : p \in
                        {q \in Pointers(inner, spurious) : q < heap_stop}}
                       \ {NULL})
  BY <1>2
<1> DEFINE pointers == {q \in Pointers(inner, spurious) : q < heap_stop}
           objects == {FoundObject(p) : p \in pointers} \ {NULL}
           fresh == objects \ marked
           PointerOf(o) == IF inner THEN o.at + o.size - 1 ELSE o.at + OBJECT
<1>5. Pointers(inner, spurious) = {PointerOf(o) : o \in live} \cup spurious
  BY DEF Pointers
<1>6. ASSUME NEW o \in live
      PROVE  /\ PointerOf(o) \in o.at + OBJECT .. o.at + o.size - 1
             /\ PointerOf(o) \in Nat /\ PointerOf(o) < heap_stop
             /\ o.at \in Nat
  <2>1. /\ o.at \in Nat /\ o.size \in Nat /\ OBJECT \in Nat /\ o.size > OBJECT
        /\ o.at + o.size <= Block_stop(Block_from(o.at))
        /\ Block_stop(Block_from(o.at)) <= heap_stop /\ heap_stop \in Nat
        /\ Block_stop(Block_from(o.at)) \in Nat
    BY <1>1, LiveBlock
  <2> QED  BY <2>1
<1>7. \A p \in pointers : p \in Nat /\ p < heap_stop
  <2>1. spurious \subseteq Nat
    BY <1>4, SmallHeapAssumption
  <2> HIDE DEF PointerOf
  <2> QED  BY <1>5, <1>6, <2>1
<1>8. objects \subseteq Address
  <2>1. \A p \in pointers : FoundObject(p) \in Address \cup {NULL}
    BY <1>1, <1>7, FoundAddress
  <2> HIDE DEF pointers
  <2> QED  BY <2>1
<1>9. ASSUME NEW o \in live
      PROVE  o.at \in fresh
  <2>1. PointerOf(o) \in pointers
    <3> HIDE DEF PointerOf
    <3> QED  BY <1>5, <1>6
  <2>2. FoundObject(PointerOf(o)) = o.at
    <3> HIDE DEF PointerOf
    <3> QED  BY <1>1, <1>6, FoundLive
  <2>3. o.at # NULL
    BY <1>6, NullAssumption
  <2>4. o.at \notin marked
    BY <1>1, <1>2 DEF MarkInv
  <2> HIDE DEF pointers, PointerOf
  <2> QED  BY <2>1, <2>2, <2>3, <2>4
<1>10. MarkObjects(objects)
  BY <1>4
<1> HIDE DEF objects
<1>11. /\ marked' = marked \cup fresh
       /\ block_header' =
            [b \in Blocks |->
               IF \E a \in fresh : Block_from(a) = b
               THEN [block_header[b] EXCEPT !.marked = TRUE]
               ELSE block_header[b]]
       /\ line_header' =
            [b \in Blocks |-> [l \in Line |->
               IF \E a \in fresh : Block_from(a) = b /\ l \in MarkedLines(a)
               THEN [line_header[b][l] EXCEPT !.marked = TRUE]
               ELSE line_header[b][l]]]
  BY <1>10 DEF MarkObjects
<1> HIDE DEF fresh
<1>12. ASSUME NEW b \in Blocks
       PROVE  /\ block_header'[b] \in [marked : BOOLEAN,
                                flag : {"free", "recyclable", "unavailable"},
                                first_free_line : Line]
              /\ block_header'[b].first_free_line = block_header[b].first_free_line
              /\ (\E a \in fresh : Block_from(a) = b) => block_header'[b].marked
  <2>1. block_header[b] \in [marked : BOOLEAN,
                             flag : {"free", "recyclable", "unavailable"},
                             first_free_line : Line]
    BY <1>1 DEF TypeOK
  <2>2. CASE \E a \in fresh : Block_from(a) = b
    <3>1. block_header'[b] = [block_header[b] EXCEPT !.marked = TRUE]
      BY <1>11, <2>2
    <3> QED  BY <2>1, <3>1
  <2>3. CASE ~ \E a \in fresh : Block_from(a) = b
    <3>1. block_header'[b] = block_header[b]
      BY <1>11, <2>3
    <3> QED  BY <2>1, <2>3, <3>1
  <2> QED  BY <2>2, <2>3
<1>13. ASSUME NEW b \in Blocks, NEW l \in Line
       PROVE  /\ line_header'[b][l] \in [marked : BOOLEAN,
                                         offset : 0 .. LINE_SIZE - 1 \cup {NULL}]
              /\ line_header'[b][l].offset = line_header[b][l].offset
              /\ (\E a \in fresh : Block_from(a) = b /\ l \in MarkedLines(a))
                    => line_header'[b][l].marked
  <2> DEFINE Found == \E a \in fresh : Block_from(a) = b /\ l \in MarkedLines(a)
             Headers == [marked : BOOLEAN, offset : 0 .. LINE_SIZE - 1 \cup {NULL}]
  <2>1. line_header[b][l] \in Headers
    <3>1. line_header \in [Blocks -> [Line -> Headers]]
      BY <1>1 DEF TypeOK
    <3> HIDE DEF Headers
    <3> QED  BY <3>1
  <2>2. line_header'[b][l] = IF Found THEN [line_header[b][l] EXCEPT !.marked = TRUE]
                             ELSE line_header[b][l]
    BY <1>11
  <2> HIDE DEF Found
  <2>3. /\ line_header'[b][l] \in [marked : BOOLEAN,
                                   offset : 0 .. LINE_SIZE - 1 \cup {NULL}]
        /\ line_header'[b][l].offset = line_header[b][l].offset
        /\ Found => line_header'[b][l].marked
    BY <2>1, <2>2
  <2> QED  BY <2>3 DEF Found
<1>14. /\ block_header' \in [Blocks -> [marked : BOOLEAN,
                                 flag : {"free", "recyclable", "unavailable"},
                                 first_free_line : Line]]
       /\ line_header' \in [Blocks -> [Line -> [marked : BOOLEAN,
                                offset : 0 .. LINE_SIZE - 1 \cup {NULL}]]]
  <2>1. /\ block_header' = [b \in Blocks |-> block_header'[b]]
        /\ line_header' = [b \in Blocks |-> [l \in Line |-> line_header'[b][l]]]
    BY <1>11
  <2>2. block_header' \in [Blocks -> [marked : BOOLEAN,
                                 flag : {"free", "recyclable", "unavailable"},
                                 first_free_line : Line]]
    BY <1>12, <2>1
  <2>3. line_header' \in [Blocks -> [Line -> [marked : BOOLEAN,
                                offset : 0 .. LINE_SIZE - 1 \cup {NULL}]]]
    BY <1>13, <2>1
  <2> QED  BY <2>2, <2>3
<1>15. Range(free_list') = {} /\ Range(recyclable_list') = {}
  BY <1>2 DEF Range
<1>16. LinesInv' /\ LiveInv' /\ HoleInv' /\ FreeInv' /\ RecyclableInv'
  BY <1>1, <1>2, <1>12, <1>13, <1>15, Remarking
<1>17. SweepKeepsLive'
  <2> SUFFICES ASSUME NEW o \in live
               PROVE  /\ block_header'[Block_from(o.at)].marked
                      /\ \A l \in MarkedLines(o.at) : line_header'[Block_from(o.at)][l].marked
    BY <1>2 DEF SweepKeepsLive, MarkedLines
  <2>1. Block_from(o.at) \in Blocks /\ MarkedLines(o.at) \subseteq Line
    BY <1>1, LiveBlock, MarkedLinesFacts
  <2> QED  BY <1>9, <1>12, <1>13, <2>1
<1>18. LocalInv' /\ OverflowInv' /\ CallInv' /\ MarkInv'
  BY <1>1, <1>2, <1>3 DEF LocalInv, OverflowInv, CallInv, MarkInv
<1>19. TypeOK'
  <2>1. 0 \in Blocks
    BY <1>1, Mapped
  <2>2. marked' \subseteq Address
    BY <1>1, <1>8, <1>11 DEF TypeOK, fresh
  <2>3. <<>> \in Seq(Blocks)
    OBVIOUS
  <2> QED  BY <1>1, <1>2, <1>14, <2>1, <2>2, <2>3 DEF TypeOK
<1> QED  BY <1>16, <1>17, <1>18, <1>19 DEF Contents
-----------------------------------------------------------------------------
(* The collection: sweeping *)

LEMMA LeastNumber ==
    ASSUME NEW S \in SUBSET Nat, S # {}
    PROVE  Least(S) \in S /\ \A y \in S : Least(S) <= y
<1>1. \E n \in S : \A m \in S : n <= m
  BY LeastNatural
<1> QED  BY <1>1 DEF Least

\* Where a hole is, and the one after it: a line was skipped before each.
LEMMA HoleFacts ==
    ASSUME NEW marks \in SUBSET Line, NEW l \in HoleStarts(marks)
    PROVE  LET limit == HoleLimit(marks, l)
               next  == HoleNext(marks, l)
           IN /\ l \in Line \ {0} /\ l - 1 \in Line /\ l \in Nat
              /\ limit \in 0 .. LINE_COUNT /\ l < limit /\ limit \in Nat
              /\ \A k \in Line : l - 1 <= k /\ k < limit => k \notin marks
              /\ next # NULL => /\ next \in HoleStarts(marks) /\ next \in Line \ {0}
                                /\ l < next /\ limit <= next
<1> DEFINE above == {m \in marks : m > l} \cup {LINE_COUNT}
           after == {m \in HoleStarts(marks) : m > l}
           limit == HoleLimit(marks, l)
           next == HoleNext(marks, l)
<1>1. LINE_COUNT \in Nat /\ \A k \in Line : k \in Nat /\ k < LINE_COUNT
  BY Units DEF Line
<1>2. /\ l \in Line /\ l \in Nat /\ l > 0 /\ l < LINE_COUNT
      /\ l \notin marks /\ l - 1 \notin marks /\ l - 1 \in Line
  BY <1>1 DEF HoleStarts, Line
<1>3. limit \in above /\ \A y \in above : limit <= y
  <2>1. above \in SUBSET Nat /\ above # {}
    BY <1>1
  <2>2. limit = Least(above)
    BY DEF HoleLimit
  <2> HIDE DEF above, limit
  <2> QED  BY <2>1, <2>2, LeastNumber
<1>4. limit \in 0 .. LINE_COUNT /\ limit \in Nat /\ l < limit
  <2> HIDE DEF limit
  <2> QED  BY <1>1, <1>2, <1>3
<1> HIDE DEF limit
<1>5. ASSUME NEW k \in Line, l - 1 <= k, k < limit
      PROVE  k \notin marks
  <2> SUFFICES ASSUME k \in marks PROVE FALSE
    OBVIOUS
  <2>1. k # l /\ k # l - 1
    BY <1>2
  <2>2. k > l
    BY <1>1, <1>2, <1>5, <2>1
  <2> QED  BY <1>1, <1>3, <1>4, <1>5, <2>2
<1>6. ASSUME next # NULL
      PROVE  /\ next \in HoleStarts(marks) /\ next \in Line \ {0}
             /\ l < next /\ limit <= next
  <2>1. after # {} /\ next = Least(after)
    BY <1>6 DEF HoleNext
  <2>2. after \in SUBSET Nat
    BY <1>1 DEF HoleStarts
  <2>3. next \in after
    <3> HIDE DEF after, next
    <3> QED  BY <2>1, <2>2, LeastNumber
  <2>4. next \in HoleStarts(marks) /\ next > l
    BY <2>3
  <2> HIDE DEF next
  <2>5. next \in Line \ {0} /\ next \in Nat /\ next > 1 /\ next - 2 \in marks
        /\ next - 1 \notin marks
    BY <1>1, <1>2, <2>4 DEF HoleStarts
  <2>6. next - 2 > l
    <3>1. next - 2 # l /\ next - 2 # l - 1
      BY <1>2, <2>5
    <3> QED  BY <1>2, <2>4, <2>5, <3>1
  <2>7. limit <= next - 2
    BY <1>3, <2>5, <2>6
  <2> QED  BY <1>4, <2>4, <2>5, <2>7
<1> QED  BY <1>2, <1>4, <1>5, <1>6 DEF limit

\* What a sweep does to the lines it clears, and nothing to others.
Swept(b, lines) ==
    /\ \A a \in Address :
          memory'[a] = IF \E l \in lines : InLine(b, l, a) THEN DATA ELSE memory[a]
    /\ \A c \in Blocks, l \in Line :
          line_header'[c][l] = IF c = b /\ l \in lines THEN EMPTY_LINE
                               ELSE line_header[c][l]
    /\ \A a \in Address : ~Block_contains(b, a) => hole'[a] = hole[a]
    /\ UNCHANGED <<heap_stop, live>>

LEMMA SweptLines ==
    ASSUME MemoryType, LinesInv, NEW b \in Blocks, NEW lines \in SUBSET Line,
           Swept(b, lines)
    PROVE  LinesInv'
<1> SUFFICES ASSUME NEW c \in Blocks, NEW l \in Line
             PROVE  LineShape(memory', line_header'[c][l], Block_line(c, l))
  BY DEF LinesInv
<1> DEFINE first == Block_line(c, l)
           cells == first .. first + LINE_SIZE - 1
           g == line_header'[c][l]
<1>1. /\ first \in Nat /\ c \in Nat /\ b \in Nat
      /\ \A a \in cells : a \in Address /\ a \in Nat /\ InLine(c, l, a)
      /\ LineShape(memory, line_header[c][l], first)
  BY LineCells, Numbers DEF LinesInv
<1>2. CASE c = b /\ l \in lines
  <2>1. g = EMPTY_LINE
    BY <1>2 DEF Swept
  <2>2. ~containsObject(g)
    BY <2>1 DEF EMPTY_LINE, containsObject
  <2>3. \A a \in cells : memory'[a] = DATA
    BY <1>1, <1>2 DEF Swept
  <2>4. \A a \in cells : ~ (memory'[a] > 0)
    <3>1. ~ (DATA > 0)
      BY DEF DATA
    <3> QED  BY <2>3, <3>1
  <2> HIDE DEF first, g
  <2>5. LineShape(memory', g, first)
    BY <2>2, <2>4, BlankLine
  <2> QED  BY <2>5 DEF first, g
<1>3. CASE ~(c = b /\ l \in lines)
  <2>1. g = line_header[c][l]
    BY <1>3 DEF Swept
  <2>2. ASSUME NEW a \in cells
        PROVE  memory[a] \in Int /\ memory'[a] = memory[a]
    <3>1. a \in Address /\ a \in Nat /\ InLine(c, l, a)
      BY <1>1
    <3>2. ~ \E k \in lines : InLine(b, k, a)
      <4> SUFFICES ASSUME NEW k \in lines, InLine(b, k, a) PROVE FALSE
        OBVIOUS
      <4>1. Block_contains(c, a) /\ Block_lineIndex(c, a) = l
        BY <1>1, <3>1, IndexOf
      <4>2. Block_contains(b, a) /\ Block_lineIndex(b, a) = k
        BY <1>1, <3>1, IndexOf
      <4>3. c = b
        BY <3>1, <4>1, <4>2, OneBlock
      <4> QED  BY <1>3, <4>1, <4>2, <4>3
    <3>3. memory'[a] = memory[a]
      BY <3>1, <3>2 DEF Swept
    <3> QED  BY <3>1, <3>3, Words
  <2>3. g.offset = line_header[c][l].offset
        /\ containsObject(line_header[c][l]) = containsObject(g)
    BY <2>1
  <2> HIDE DEF first, g
  <2>4. LineShape(memory', g, first)
    BY <1>1, <2>2, <2>3, SameLine
  <2> QED  BY <2>4 DEF first, g
<1> QED  BY <1>2, <1>3

LEMMA SweptElsewhere ==
    ASSUME NEW b \in Blocks, NEW lines \in SUBSET Line, Swept(b, lines),
           NEW c \in Blocks, c # b
    PROVE  /\ Kept(c, Block_start(c))
           /\ \A l \in Line : line_header'[c][l] = line_header[c][l]
<1>1. ASSUME NEW a \in Address, Block_start(c) <= a, a < Block_stop(c)
      PROVE  ~Block_contains(b, a) /\ ~ \E l \in lines : InLine(b, l, a)
  <2>1. a \in Nat /\ b \in Nat /\ Block_contains(c, a)
    BY <1>1, Numbers DEF Block_contains
  <2>2. ~Block_contains(b, a)
    BY <2>1, OneBlock
  <2>3. \A l \in lines : InLine(b, l, a) => Block_contains(b, a)
    BY <2>1, IndexOf
  <2> QED  BY <2>2, <2>3
<1>2. \A a \in Address : Block_start(c) <= a /\ a < Block_stop(c) =>
         memory'[a] = memory[a] /\ hole'[a] = hole[a]
  BY <1>1 DEF Swept
<1>3. \A l \in Line : line_header'[c][l] = line_header[c][l]
  BY DEF Swept
<1>4. live' = live
  BY DEF Swept
<1> QED  BY <1>2, <1>3, <1>4 DEF Kept

\* Objects in use stay as they are when the line they start in does.
LEMMA SweptLive ==
    ASSUME HeapInv, LiveInv, NEW b \in Blocks, NEW lines \in SUBSET Line,
           Swept(b, lines),
           \A o \in live : Block_from(o.at) = b =>
              Block_lineIndex(b, o.at) \notin lines
    PROVE  LiveInv' /\ \A o \in live : memory'[o.at] = memory[o.at]
<1>1. MappedBlocks' = MappedBlocks /\ live' = live
  BY DEF MappedBlocks, Swept
<1>2. ASSUME NEW o \in live
      PROVE  Placed(memory', MappedBlocks, o) /\ memory'[o.at] = memory[o.at]
  <2> DEFINE c == Block_from(o.at)
  <2>1. /\ c \in Blocks /\ o.at \in Nat /\ o.at \in Address /\ o.size \in Nat
        /\ o.size > 0 /\ Block_start(c) <= o.at /\ o.at + o.size <= Block_stop(c)
        /\ Block_stop(c) \in Nat /\ c \in Nat /\ b \in Nat
    BY LiveBlock, Numbers
  <2>2. ~ \E l \in lines : InLine(b, l, o.at)
    <3> SUFFICES ASSUME NEW l \in lines, InLine(b, l, o.at) PROVE FALSE
      OBVIOUS
    <3> HIDE DEF c
    <3>1. Block_contains(b, o.at) /\ Block_lineIndex(b, o.at) = l
      BY <2>1, IndexOf
    <3>2. Block_contains(c, o.at)
      BY <2>1 DEF Block_contains
    <3>3. c = b
      BY <2>1, <3>1, <3>2, OneBlock
    <3> QED  BY <3>1, <3>3 DEF c
  <2>3. memory'[o.at] = memory[o.at]
    BY <2>1, <2>2 DEF Swept
  <2>4. Placed(memory, MappedBlocks, o)
    BY DEF LiveInv
  <2>5. \A a \in Address : memory[a] = DATA => memory'[a] = DATA
    BY DEF Swept
  <2>6. Placed(memory', MappedBlocks, o)
    BY <2>3, <2>4, <2>5 DEF Placed
  <2> QED  BY <2>3, <2>6
<1> QED  BY <1>1, <1>2 DEF LiveInv

HeadersType ==
    block_header \in [Blocks -> [marked : BOOLEAN,
                                 flag : {"free", "recyclable", "unavailable"},
                                 first_free_line : Line]]

LEMMA SweptContents ==
    ASSUME IInv, Contents, pc = "sweep", NEW lines \in SUBSET Line,
           Swept(sweeping, lines),
           \A o \in live : Block_from(o.at) = sweeping =>
              Block_lineIndex(sweeping, o.at) \notin lines,
           HeadersType', HeaderType', MemoryType', marked' \subseteq Address, HoleInv',
           \A c \in Blocks : c # sweeping => block_header'[c] = block_header[c],
           \/ /\ free_list' = Append(free_list, sweeping) /\ UNCHANGED recyclable_list
              /\ Spare(memory', live', Block_start(sweeping), Block_stop(sweeping))
           \/ /\ recyclable_list' = Append(recyclable_list, sweeping)
              /\ UNCHANGED free_list
              /\ ChainOK(memory', line_header', live', hole', sweeping,
                         Block_line(sweeping, block_header'[sweeping].first_free_line))
           \/ UNCHANGED <<free_list, recyclable_list>>,
           \/ /\ sweeping + BLOCK_SIZE < heap_stop
              /\ sweeping' = sweeping + BLOCK_SIZE /\ pc' = "sweep"
           \/ sweeping' = NULL /\ pc' = "nextBlock",
           UNCHANGED <<request, caller, collecting, local, allocated, status>>
    PROVE  Contents'
<1> DEFINE b == sweeping
<1>1. /\ TypeOK /\ LinesInv /\ LiveInv /\ HoleInv /\ FreeInv /\ RecyclableInv
      /\ CallInv /\ HeapInv /\ ListsInv /\ MemoryType /\ SweepKeepsLive
  BY Parts DEF Contents, IInv, ShapeInv
<1>2. /\ b \in MappedBlocks /\ collecting /\ \A c \in Listed : c < b
      /\ b \in Blocks /\ b \in Nat /\ BLOCK_SIZE \in Nat /\ BLOCK_SIZE > 0
      /\ MappedBlocks \subseteq Blocks
  <2>1. sweeping \in MappedBlocks /\ collecting /\ \A c \in Listed : c < sweeping
    BY DEF IInv, ControlInv
  <2> QED  BY <1>1, <2>1, Mapped, BlockSize
<1>3. b \notin Range(free_list) /\ b \notin Range(recyclable_list)
  BY <1>2 DEF Listed
<1>4. live' = live /\ heap_stop' = heap_stop /\ MappedBlocks' = MappedBlocks
  BY DEF Swept, MappedBlocks
<1> HIDE DEF b
<1>5. \A c \in Blocks : c # b => /\ Kept(c, Block_start(c))
                                 /\ \A l \in Line : line_header'[c][l] = line_header[c][l]
  BY <1>2, SweptElsewhere DEF b
<1>6. LinesInv'
  BY <1>1, <1>2, SweptLines DEF b
<1>7. LiveInv' /\ \A o \in live : memory'[o.at] = memory[o.at]
  BY <1>1, <1>2, SweptLive DEF b
<1>8. ASSUME NEW c \in Blocks, c # b, c \in Range(free_list) \cup (Blocks \ MappedBlocks)
      PROVE  Spare(memory', live', Block_start(c), Block_stop(c))
  <2>1. Spare(memory, live, Block_start(c), Block_stop(c))
    BY <1>1, <1>8 DEF FreeInv
  <2>2. Block_start(c) \in Nat /\ Block_stop(c) \in Nat
    BY Numbers
  <2> QED  BY <1>5, <1>8, <2>1, <2>2, KeptBlock
<1>9. ASSUME NEW c \in Blocks, c # b, c \in Range(recyclable_list)
      PROVE  ChainOK(memory', line_header', live', hole', c,
                     Block_line(c, block_header'[c].first_free_line))
  <2>1. ChainOK(memory, line_header, live, hole, c,
                Block_line(c, block_header[c].first_free_line))
    BY <1>1, <1>9 DEF RecyclableInv
  <2>2. block_header'[c] = block_header[c]
    BY <1>9 DEF b
  <2> QED  BY <1>5, <1>9, <2>1, <2>2, KeptBlock
<1>10. Range(free_list) \subseteq Blocks /\ Range(recyclable_list) \subseteq Blocks
  <2>1. free_list \in Seq(Blocks) /\ recyclable_list \in Seq(Blocks)
    BY <1>1 DEF TypeOK
  <2> QED  BY <2>1 DEF Range
<1>11. FreeInv'
  <2>1. CASE free_list' = free_list
    BY <1>2, <1>3, <1>4, <1>8, <1>10, <2>1 DEF FreeInv
  <2>2. CASE /\ free_list' = Append(free_list, sweeping)
             /\ Spare(memory', live', Block_start(sweeping), Block_stop(sweeping))
    <3>1. Range(free_list') = Range(free_list) \cup {b}
      BY <1>1, <1>2, <1>3, <2>2, Appended DEF ListsInv, b
    <3>2. Spare(memory', live', Block_start(b), Block_stop(b))
      BY <2>2 DEF b
    <3> QED  BY <1>2, <1>4, <1>8, <1>10, <3>1, <3>2 DEF FreeInv
  <2> QED  BY <2>1, <2>2
<1>12. RecyclableInv'
  <2>1. CASE recyclable_list' = recyclable_list
    BY <1>2, <1>3, <1>9, <1>10, <2>1 DEF RecyclableInv
  <2>2. CASE /\ recyclable_list' = Append(recyclable_list, sweeping)
             /\ ChainOK(memory', line_header', live', hole', sweeping,
                   Block_line(sweeping, block_header'[sweeping].first_free_line))
    <3>1. Range(recyclable_list') = Range(recyclable_list) \cup {b}
      BY <1>1, <1>2, <1>3, <2>2, Appended DEF ListsInv, b
    <3>2. ChainOK(memory', line_header', live', hole', b,
                  Block_line(b, block_header'[b].first_free_line))
      BY <2>2 DEF b
    <3> QED  BY <1>2, <1>9, <1>10, <3>1, <3>2 DEF RecyclableInv
  <2> QED  BY <2>1, <2>2
<1>13. SweepKeepsLive'
  <2> SUFFICES ASSUME pc' = "sweep", NEW o \in live, Block_from(o.at) >= sweeping'
               PROVE  /\ block_header'[Block_from(o.at)].marked
                      /\ \A l \in MarkedLines(o.at)' : line_header'[Block_from(o.at)][l].marked
    BY <1>4 DEF SweepKeepsLive
  <2> DEFINE c == Block_from(o.at)
  <2>1. sweeping' = b + BLOCK_SIZE
    BY DEF b
  <2>2. c \in Blocks /\ c \in Nat /\ MarkedLines(o.at) \subseteq Line
    BY <1>1, LiveBlock, MarkedLinesFacts, Numbers
  <2>3. c # b /\ c >= b
    BY <1>2, <2>1, <2>2
  <2>4. MarkedLines(o.at)' = MarkedLines(o.at)
    BY <1>7 DEF MarkedLines
  <2>5. block_header[c].marked /\ \A l \in MarkedLines(o.at) : line_header[c][l].marked
    BY <1>1, <2>3 DEF SweepKeepsLive, b
  <2>6. block_header'[c] = block_header[c]
        /\ \A l \in Line : line_header'[c][l] = line_header[c][l]
    BY <1>5, <2>2, <2>3 DEF b
  <2> HIDE DEF c
  <2>7. block_header'[c].marked /\ \A l \in MarkedLines(o.at) : line_header'[c][l].marked
    BY <2>2, <2>5, <2>6
  <2> QED  BY <2>4, <2>7 DEF c
<1>14. LocalInv' /\ OverflowInv' /\ CallInv' /\ MarkInv'
  BY <1>1, <1>2 DEF LocalInv, OverflowInv, CallInv, MarkInv
<1>15. TypeOK'
  <2>1. sweeping' \in Blocks \cup {NULL}
    BY <1>1, <1>2, Mapped DEF b
  <2>2. free_list' \in Seq(Blocks) /\ recyclable_list' \in Seq(Blocks)
    <3>1. free_list \in Seq(Blocks) /\ recyclable_list \in Seq(Blocks)
      BY <1>1 DEF TypeOK
    <3>2. Append(free_list, b) \in Seq(Blocks) /\ Append(recyclable_list, b) \in Seq(Blocks)
      BY <1>2, <3>1
    <3>3. /\ free_list' \in {free_list, Append(free_list, b)}
          /\ recyclable_list' \in {recyclable_list, Append(recyclable_list, b)}
      BY DEF b
    <3> QED  BY <3>1, <3>2, <3>3
  <2>3. \A a \in Address : hole'[a] \in HoleRecord \cup {NULL}
    BY DEF HoleInv, HoleShape
  <2>4. pc' \in {"sweep", "nextBlock"}
    OBVIOUS
  <2> QED  BY <1>1, <1>4, <2>1, <2>2, <2>3, <2>4
           DEF TypeOK, HeadersType, HeaderType, MemoryType
<1> QED  BY <1>6, <1>7, <1>11, <1>12, <1>13, <1>14, <1>15 DEF Contents

LEMMA Forgotten ==
    ASSUME MemoryType, NEW b \in Blocks, NEW lines \in SUBSET Line, Forget(b, lines)
    PROVE  /\ \A a \in Address :
                 memory'[a] = IF \E l \in lines : InLine(b, l, a) THEN DATA ELSE memory[a]
           /\ MemoryType' /\ marked' \subseteq marked
<1> DEFINE cells == UNION {Block_line(b, l) .. Block_line(b, l) + LINE_SIZE - 1 :
                              l \in lines}
<1>1. /\ memory' = [a \in Address |-> IF a \in cells THEN DATA ELSE memory[a]]
      /\ marked' = marked \ cells
  BY DEF Forget
<1>2. \A a \in Address : a \in cells <=> \E l \in lines : InLine(b, l, a)
  BY LineCells
<1> HIDE DEF cells
<1>3. MemoryType'
  BY <1>1 DEF MemoryType
<1> QED  BY <1>1, <1>2, <1>3

\* The block of an object in use is that of each of its words.
LEMMA CellOwner ==
    ASSUME HeapInv, LiveInv, NEW o \in live, NEW b \in Blocks, NEW a \in Cells(o),
           Block_contains(b, a)
    PROVE  Block_from(o.at) = b /\ a \in Nat /\ o.at <= a /\ a < o.at + o.size
<1> DEFINE c == Block_from(o.at)
<1>1. /\ c \in Blocks /\ o.at \in Nat /\ o.size \in Nat
      /\ Block_start(c) <= o.at /\ o.at + o.size <= Block_stop(c)
      /\ Block_stop(c) \in Nat /\ Block_start(c) \in Nat
  BY LiveBlock, Numbers
<1> HIDE DEF c
<1>2. a \in Nat /\ o.at <= a /\ a < o.at + o.size
  BY <1>1 DEF Cells
<1>3. Block_contains(c, a)
  BY <1>1, <1>2 DEF Block_contains
<1> QED  BY <1>1, <1>2, <1>3, OneBlock DEF c

\* How a sweep goes on after a block.
Passed ==
    /\ \/ /\ sweeping + BLOCK_SIZE < heap_stop
          /\ sweeping' = sweeping + BLOCK_SIZE /\ pc' = "sweep"
       \/ sweeping' = NULL /\ pc' = "nextBlock"
    /\ UNCHANGED <<heap_stop, live, request, caller, collecting, local, allocated, status>>

LEMMA FreeContents ==
    ASSUME IInv, Contents, pc = "sweep", ~block_header[sweeping].marked,
           FreeBlock(sweeping), Passed
    PROVE  Contents'
<1> DEFINE b == sweeping
<1>1. /\ TypeOK /\ LinesInv /\ LiveInv /\ HoleInv /\ HeapInv /\ MemoryType
      /\ SweepKeepsLive /\ HeadersType /\ HeaderType /\ marked \subseteq Address
  BY Parts DEF Contents, IInv, ShapeInv, TypeOK, HeadersType
<1>2. b \in Blocks /\ b \in Nat
  <2>1. sweeping \in MappedBlocks
    BY DEF IInv, ControlInv
  <2> QED  BY <1>1, <2>1, Mapped
<1>3. /\ block_header' = [block_header EXCEPT ![b] = NEW_BLOCK]
      /\ line_header' = [line_header EXCEPT ![b] = [l \in Line |-> EMPTY_LINE]]
      /\ free_list' = Append(free_list, b)
      /\ Forget(b, Line)
      /\ UNCHANGED <<recyclable_list, hole, heap_stop, live>>
  BY DEF FreeBlock, Passed
<1>4. \A o \in live : Block_from(o.at) # b
  <2> SUFFICES ASSUME NEW o \in live, Block_from(o.at) = b PROVE FALSE
    OBVIOUS
  <2>1. Block_from(o.at) >= sweeping
    BY <1>2
  <2> QED  BY <1>1, <2>1 DEF SweepKeepsLive
<1> HIDE DEF b
<1>5. /\ \A a \in Address :
            memory'[a] = IF \E l \in Line : InLine(b, l, a) THEN DATA ELSE memory[a]
      /\ MemoryType' /\ marked' \subseteq marked
  BY <1>1, <1>2, <1>3, Forgotten
<1>6. \A c \in Blocks, l \in Line :
         line_header'[c][l] = IF c = b /\ l \in Line THEN EMPTY_LINE ELSE line_header[c][l]
  BY <1>1, <1>2, <1>3 DEF HeaderType
<1>7. Swept(b, Line)
  BY <1>3, <1>5, <1>6 DEF Swept
<1>8. Spare(memory', live', Block_start(b), Block_stop(b))
  <2> SUFFICES ASSUME NEW a \in Address, Block_start(b) <= a, a < Block_stop(b)
               PROVE  ~ (memory'[a] > 0) /\ \A o \in live : a \notin Cells(o)
    BY <1>3 DEF Spare
  <2>1. Block_contains(b, a) /\ a \in Nat
    BY Numbers DEF Block_contains
  <2>2. \E l \in Line : InLine(b, l, a)
    BY <1>2, <2>1, LineIndex
  <2>3. memory'[a] = DATA
    BY <1>5, <2>2
  <2>4. \A o \in live : a \notin Cells(o)
    BY <1>1, <1>2, <1>4, <2>1, CellOwner
  <2> QED  BY <2>3, <2>4 DEF DATA
<1>9. HeadersType' /\ \A c \in Blocks : c # b => block_header'[c] = block_header[c]
  <2>1. NEW_BLOCK \in [marked : BOOLEAN, flag : {"free", "recyclable", "unavailable"},
                       first_free_line : Line]
    BY Numbers DEF NEW_BLOCK
  <2> QED  BY <1>1, <1>2, <1>3, <2>1 DEF HeadersType
<1>10. HeaderType'
  <2>1. EMPTY_LINE \in [marked : BOOLEAN, offset : 0 .. LINE_SIZE - 1 \cup {NULL}]
    BY DEF EMPTY_LINE
  <2>2. [l \in Line |-> EMPTY_LINE]
           \in [Line -> [marked : BOOLEAN, offset : 0 .. LINE_SIZE - 1 \cup {NULL}]]
    BY <2>1
  <2> QED  BY <1>1, <1>2, <1>3, <2>2 DEF HeaderType
<1>11. HoleInv'
  BY <1>1, <1>3 DEF HoleInv
<1>12. marked' \subseteq Address
  BY <1>1, <1>5
<1>13. /\ \/ /\ b + BLOCK_SIZE < heap_stop
             /\ sweeping' = b + BLOCK_SIZE /\ pc' = "sweep"
          \/ sweeping' = NULL /\ pc' = "nextBlock"
       /\ UNCHANGED <<request, caller, collecting, local, allocated, status>>
  BY DEF Passed, b
<1> QED  BY <1>3, <1>4, <1>7, <1>8, <1>9, <1>10, <1>11, <1>12, <1>13, <1>5,
            SweptContents DEF b

\* The lines of a hole are unmarked, and the line before it; so no object in
\* use reaches into them.
LEMMA HoleSpared ==
    ASSUME HeapInv, MemoryType, LiveInv, NEW b \in Blocks, NEW marks \in SUBSET Line,
           \A o \in live : Block_from(o.at) = b => MarkedLines(o.at) \subseteq marks,
           \A a \in Address :
              memory'[a] = IF \E l \in Line \ marks : InLine(b, l, a)
                           THEN DATA ELSE memory[a],
           live' = live, NEW l \in HoleStarts(marks)
    PROVE  Spare(memory', live', Block_line(b, l), Block_line(b, HoleLimit(marks, l)))
<1> DEFINE x == Block_line(b, l)
           limit == HoleLimit(marks, l)
           y == Block_line(b, limit)
<1>1. /\ l \in Line \ {0} /\ l - 1 \in Line /\ l \in Nat
      /\ limit \in 0 .. LINE_COUNT /\ l < limit /\ limit \in Nat
      /\ \A k \in Line : l - 1 <= k /\ k < limit => k \notin marks
  BY HoleFacts
<1> HIDE DEF limit
<1>2. /\ b \in Nat /\ x \in Nat /\ y \in Nat /\ Block_start(b) <= x
      /\ y <= Block_stop(b) /\ Block_stop(b) \in Nat /\ Block_start(b) \in Nat
      /\ LINE_SIZE \in Nat /\ LINE_COUNT \in Nat
  BY <1>1, Numbers, Units
<1>3. \A i, j \in 0 .. LINE_COUNT :
         i < j => Block_line(b, i) + LINE_SIZE <= Block_line(b, j)
  BY <1>2, Lines
<1>4. \A i \in Line : i \in 0 .. LINE_COUNT /\ i \in Nat /\ Block_line(b, i) \in Nat
  BY <1>2, Numbers
<1> SUFFICES ASSUME NEW a \in Address, x <= a, a < y
             PROVE  ~ (memory'[a] > 0) /\ \A o \in live : a \notin Cells(o)
  BY DEF Spare, limit
<1>5. PICK k \in Line : InLine(b, k, a) /\ Block_contains(b, a)
  <2>1. Block_contains(b, a) /\ a \in Nat
    BY <1>2, Numbers DEF Block_contains
  <2> QED  BY <1>2, <2>1, LineIndex
<1>6. a \in Nat
  BY Numbers
<1>7. l <= k
  <2> SUFFICES ASSUME k < l PROVE FALSE
    BY <1>1, <1>4
  <2>1. Block_line(b, k) + LINE_SIZE <= x
    BY <1>1, <1>3, <1>4
  <2> QED  BY <1>2, <1>4, <1>5, <1>6, <2>1 DEF InLine
<1>8. k < limit
  <2>0. limit \in Nat /\ k \in Nat
    BY <1>1, <1>4
  <2> SUFFICES ASSUME limit <= k PROVE FALSE
    BY <2>0
  <2>1. limit \in 0 .. LINE_COUNT /\ k \in 0 .. LINE_COUNT
    BY <1>1, <1>4
  <2>2. y <= Block_line(b, k)
    BY <1>2, <2>1, Lines
  <2>3. Block_line(b, k) <= a /\ Block_line(b, k) \in Nat
    BY <1>4, <1>5 DEF InLine
  <2> HIDE DEF y
  <2> QED  BY <1>2, <1>6, <2>2, <2>3
<1>9. k \in Line \ marks
  <2>1. l - 1 <= k
    BY <1>1, <1>4, <1>7
  <2> QED  BY <1>1, <1>8, <2>1
<1>10. memory'[a] = DATA
  BY <1>5, <1>9
<1>11. ASSUME NEW o \in live, a \in Cells(o)
       PROVE  FALSE
  <2> DEFINE s == Block_lineIndex(b, o.at)
  <2>1. Block_from(o.at) = b /\ o.at <= a /\ a < o.at + o.size
    BY <1>5, <1>11, CellOwner
  <2>2. /\ MarkedLines(o.at) \subseteq marks
        /\ s \in MarkedLines(o.at) /\ InLine(b, s, o.at)
        /\ o.size > LINE_SIZE => k \in MarkedLines(o.at)
        /\ o.at \in Nat /\ o.size \in Nat
    BY <1>5, <1>11, <2>1, MarkedLinesFacts, LiveBlock
  <2> HIDE DEF s
  <2>3. s \in Line /\ s \in marks /\ s \in Nat /\ s \in 0 .. LINE_COUNT
        /\ Block_line(b, s) \in Nat
    BY <1>4, <2>2
  <2>4. ~ (k < s)
    <3> SUFFICES ASSUME k < s PROVE FALSE
      OBVIOUS
    <3>1. Block_line(b, k) + LINE_SIZE <= Block_line(b, s)
      BY <1>3, <1>4, <2>3
    <3> QED  BY <1>2, <1>4, <1>5, <1>6, <2>1, <2>2, <2>3, <3>1 DEF InLine
  <2>5. s < l - 1
    <3>1. s <= k /\ s < limit
      BY <1>1, <1>4, <1>8, <2>3, <2>4
    <3>2. ~ (l - 1 <= s)
      BY <1>1, <2>3, <3>1
    <3> QED  BY <1>1, <2>3, <3>2
  <2>6. o.size <= LINE_SIZE
    BY <1>2, <1>9, <2>2
  <2>7. /\ Block_line(b, s) + LINE_SIZE <= Block_line(b, l - 1)
        /\ Block_line(b, l - 1) + LINE_SIZE <= x
        /\ Block_line(b, l - 1) \in Nat
    BY <1>1, <1>3, <1>4, <2>3, <2>5
  <2> QED  BY <1>2, <1>6, <2>1, <2>2, <2>3, <2>6, <2>7 DEF InLine
<1> QED  BY <1>10, <1>11 DEF DATA

\* The holes a block is left with, and their records.
LEMMA HolesLeft ==
    ASSUME HeapInv, MemoryType, HeaderType, LiveInv, NEW b \in Blocks,
           NEW marks \in SUBSET Line,
           \A o \in live : Block_from(o.at) = b => MarkedLines(o.at) \subseteq marks,
           Swept(b, Line \ marks), MemoryType',
           \A l \in HoleStarts(marks) :
              hole'[Block_line(b, l)] =
                 [limit |-> Block_line(b, HoleLimit(marks, l)),
                  next  |-> IF HoleNext(marks, l) = NULL THEN NULL
                            ELSE Block_line(b, HoleNext(marks, l))]
    PROVE  /\ \A l \in HoleStarts(marks) : HoleShape(hole', Block_line(b, l))
           /\ HoleStarts(marks) # {} =>
                 /\ Least(HoleStarts(marks)) \in Line
                 /\ ChainOK(memory', line_header', live', hole', b,
                            Block_line(b, Least(HoleStarts(marks))))
<1> DEFINE starts == HoleStarts(marks)
           S == {Block_line(b, l) : l \in starts}
           Limit(l) == Block_line(b, HoleLimit(marks, l))
           next(l) == HoleNext(marks, l)
<1>1. /\ b \in Nat /\ LINE_SIZE \in Nat /\ LINE_COUNT \in Nat /\ LINE_SIZE > 0
      /\ \A l \in Line : /\ l \in 0 .. LINE_COUNT /\ l \in Nat
                         /\ Block_line(b, l) \in Nat /\ Block_line(b, l) \in Address
                         /\ Block_contains(b, Block_line(b, l))
  <2>1. ASSUME NEW l \in Line
        PROVE  /\ Block_line(b, l) \in Nat /\ Block_line(b, l) \in Address
               /\ Block_contains(b, Block_line(b, l))
    <3>1. Block_line(b, l) \in Address /\ InLine(b, l, Block_line(b, l))
          /\ Block_line(b, l) \in Nat /\ b \in Nat
      BY LineStart, Numbers
    <3> QED  BY <3>1, IndexOf
  <2> QED  BY <2>1, Numbers, Units DEF Line
<1>2. \A l \in starts : l \in Line \ {0}
  BY DEF HoleStarts
<1>3. ASSUME NEW l \in starts
      PROVE  LET a == Block_line(b, l)
             IN /\ hole'[a] # NULL /\ hole'[a] \in HoleRecord
                /\ hole'[a].limit = Limit(l)
                /\ hole'[a].next # NULL =>
                      /\ hole'[a].next \in S /\ a < hole'[a].next
                      /\ Limit(l) <= hole'[a].next
                      /\ Block_contains(b, hole'[a].next)
  <2>1. /\ l \in Line /\ HoleLimit(marks, l) \in 0 .. LINE_COUNT
        /\ next(l) # NULL => /\ next(l) \in starts /\ next(l) \in Line
                             /\ l < next(l) /\ HoleLimit(marks, l) <= next(l)
    BY HoleFacts
  <2>2. Limit(l) \in Nat
    BY <2>1, Numbers
  <2> DEFINE a == Block_line(b, l)
             n == IF next(l) = NULL THEN NULL ELSE Block_line(b, next(l))
  <2>3. hole'[a] = [limit |-> Limit(l), next |-> n]
    OBVIOUS
  <2>4. n # NULL =>
           /\ n \in S /\ a < n /\ Limit(l) <= n /\ Block_contains(b, n) /\ n \in Address
    <3> SUFFICES ASSUME next(l) # NULL
                 PROVE  LET m == Block_line(b, next(l))
                        IN m \in S /\ a < m /\ Limit(l) <= m /\ Block_contains(b, m)
                           /\ m \in Address
      OBVIOUS
    <3> DEFINE k == next(l)
    <3>1. k \in starts /\ k \in Line /\ l < k /\ HoleLimit(marks, l) <= k
      BY <2>1
    <3> HIDE DEF k
    <3>2. Block_line(b, k) \in S
      BY <3>1
    <3>3. /\ Block_line(b, l) + LINE_SIZE <= Block_line(b, k)
          /\ Limit(l) <= Block_line(b, k)
      <4>1. l \in 0 .. LINE_COUNT /\ k \in 0 .. LINE_COUNT
        BY <1>1, <2>1, <3>1
      <4> QED  BY <1>1, <2>1, <3>1, <4>1, Lines
    <3>4. Block_line(b, k) \in Address /\ Block_contains(b, Block_line(b, k))
          /\ Block_line(b, k) \in Nat /\ Block_line(b, l) \in Nat
      BY <1>1, <2>1, <3>1
    <3>5. a < Block_line(b, k)
      BY <1>1, <3>3, <3>4
    <3> QED  BY <3>2, <3>3, <3>4, <3>5 DEF k
  <2>5. n \in Address \cup {NULL}
    BY <2>4
  <2> HIDE DEF n, S, Limit
  <2>6. hole'[a] \in HoleRecord
    BY <2>2, <2>3, <2>5 DEF HoleRecord
  <2>7. hole'[a] # NULL
    <3>1. hole'[a] \in [limit : Nat, next : Nat \cup {NULL}]
      BY <2>2, <2>3, <2>5, Numbers
    <3> QED  BY <3>1, SmallHeapAssumption
  <2>8. hole'[a].limit = Limit(l) /\ hole'[a].next = n
    BY <2>3
  <2> HIDE DEF a
  <2>9. /\ hole'[a] # NULL /\ hole'[a] \in HoleRecord
        /\ hole'[a].limit = Limit(l)
        /\ hole'[a].next # NULL =>
              /\ hole'[a].next \in S /\ a < hole'[a].next
              /\ Limit(l) <= hole'[a].next
              /\ Block_contains(b, hole'[a].next)
    BY <2>4, <2>6, <2>7, <2>8
  <2> QED  BY <2>9 DEF a
<1>4. ASSUME NEW l \in starts
      PROVE  HoleShape(hole', Block_line(b, l))
  BY <1>2, <1>3, <1>4 DEF HoleShape
<1>5. ASSUME NEW l \in starts
      PROVE  Region(memory', line_header', live', b, Block_line(b, l), Limit(l))
  <2>1. /\ l \in Line /\ l \notin marks /\ HoleLimit(marks, l) \in 0 .. LINE_COUNT
        /\ l < HoleLimit(marks, l) /\ l \in 0 .. LINE_COUNT
    BY <1>1, HoleFacts DEF HoleStarts
  <2>2. Block_start(b) <= Block_line(b, l) /\ Block_line(b, l) \in Nat
    BY <1>1, <2>1, Numbers
  <2>3. Block_line(b, l) <= Limit(l)
    <3> DEFINE k == HoleLimit(marks, l)
    <3>1. k \in 0 .. LINE_COUNT /\ l < k /\ k \in Nat /\ l \in Nat
      BY <1>1, <2>1
    <3> HIDE DEF k
    <3>2. Block_line(b, l) <= Block_line(b, k)
      BY <1>1, <2>1, <3>1, Lines
    <3> QED  BY <3>2 DEF k
  <2>4. Spare(memory', live', Block_line(b, l), Limit(l))
    BY HoleSpared DEF Swept
  <2>5. ASSUME NEW k \in Line, InLine(b, k, Block_line(b, l))
        PROVE  ~containsObject(line_header'[b][k])
    <3>1. k = l
      BY <2>1, <2>5, LineStart
    <3>2. line_header'[b][k] = EMPTY_LINE
      BY <2>1, <3>1 DEF Swept
    <3> QED  BY <3>2 DEF EMPTY_LINE, containsObject
  <2> QED  BY <2>1, <2>2, <2>3, <2>4, <2>5 DEF Region
<1>6. ASSUME starts # {}
      PROVE  /\ Least(starts) \in Line
             /\ ChainOK(memory', line_header', live', hole', b,
                        Block_line(b, Least(starts)))
  <2> DEFINE first == Least(starts)
  <2>1. first \in starts /\ \A l \in starts : first <= l
    <3>1. starts \in SUBSET Nat
      BY <1>1, <1>2
    <3> HIDE DEF starts
    <3> QED  BY <1>6, <3>1, LeastNumber
  <2> HIDE DEF first
  <2>2. first \in Line
    BY <1>2, <2>1
  <2>3. Block_line(b, first) \in S
    BY <2>1
  <2>4. S \subseteq Address
    BY <1>1, <1>2
  <2>5. ASSUME NEW a \in S
        PROVE  /\ Block_line(b, first) <= a
               /\ HoleOK(memory', line_header', live', hole', b, S, a)
    <3>1. PICK l \in starts : a = Block_line(b, l)
      OBVIOUS
    <3>2. l \in Line /\ first <= l
      BY <1>2, <2>1, <3>1
    <3>3. Block_line(b, first) <= Block_line(b, l)
      <4>1. l \in 0 .. LINE_COUNT /\ first \in 0 .. LINE_COUNT
        BY <1>1, <2>2, <3>2
      <4> QED  BY <1>1, <3>2, <4>1, Lines
    <3>4. /\ hole'[a] # NULL /\ hole'[a].limit = Limit(l)
          /\ hole'[a].next # NULL => hole'[a].next \in S /\ Limit(l) <= hole'[a].next
      BY <1>3, <3>1
    <3>5. Region(memory', line_header', live', b, a, Limit(l))
      BY <1>5, <3>1
    <3> HIDE DEF S, Limit
    <3> QED  BY <3>1, <3>2, <3>3, <3>4, <3>5 DEF HoleOK
  <2> HIDE DEF S
  <2>6. ChainOK(memory', line_header', live', hole', b, Block_line(b, first))
    BY <2>3, <2>4, <2>5 DEF ChainOK
  <2> QED  BY <2>2, <2>6 DEF first
<1> QED  BY <1>4, <1>6

LEMMA RecycleContents ==
    ASSUME IInv, Contents, pc = "sweep", RecycleBlock(sweeping), Passed
    PROVE  Contents'
<1> DEFINE b == sweeping
           marks == MarkedLinesOf(b)
           starts == HoleStarts(marks)
           record(l) == [limit |-> Block_line(b, HoleLimit(marks, l)),
                         next  |-> IF HoleNext(marks, l) = NULL THEN NULL
                                   ELSE Block_line(b, HoleNext(marks, l))]
<1>1. /\ TypeOK /\ LinesInv /\ LiveInv /\ HoleInv /\ HeapInv /\ MemoryType
      /\ SweepKeepsLive /\ HeadersType /\ HeaderType /\ marked \subseteq Address
  BY Parts DEF Contents, IInv, ShapeInv, TypeOK, HeadersType
<1>2. b \in Blocks /\ b \in Nat
  <2>1. sweeping \in MappedBlocks
    BY DEF IInv, ControlInv
  <2> QED  BY <1>1, <2>1, Mapped
<1>3. /\ line_header' = [line_header EXCEPT ![b] =
                            [l \in Line |-> IF l \in Line \ marks THEN EMPTY_LINE
                                            ELSE line_header[b][l]]]
      /\ hole' = [a \in Address |->
                     IF \E l \in starts : a = Block_line(b, l)
                     THEN record(Block_lineIndex(b, a)) ELSE hole[a]]
      /\ Forget(b, Line \ marks)
      /\ block_header' =
            IF starts = {}
            THEN [block_header EXCEPT ![b].flag = "unavailable"]
            ELSE [block_header EXCEPT ![b].flag = "recyclable",
                                      ![b].first_free_line = Least(starts)]
      /\ ListRecyclable(b, starts)
      /\ UNCHANGED <<free_list, heap_stop, live>>
  BY DEF RecycleBlock, Passed
<1>4. marks \in SUBSET Line /\ \A l \in Line : line_header[b][l].marked => l \in marks
  BY DEF MarkedLinesOf
<1>5. ASSUME NEW o \in live, Block_from(o.at) = b
      PROVE  /\ MarkedLines(o.at) \subseteq marks
             /\ Block_lineIndex(b, o.at) \notin Line \ marks
  <2>1. Block_from(o.at) >= sweeping
    BY <1>2, <1>5
  <2>2. \A l \in MarkedLines(o.at) : line_header[b][l].marked
    BY <1>1, <1>5, <2>1 DEF SweepKeepsLive
  <2>3. MarkedLines(o.at) \subseteq Line
        /\ Block_lineIndex(Block_from(o.at), o.at) \in MarkedLines(o.at)
    BY <1>1, MarkedLinesFacts
  <2>4. Block_lineIndex(b, o.at) \in MarkedLines(o.at)
    BY <1>5, <2>3
  <2> HIDE DEF marks
  <2> QED  BY <1>4, <2>2, <2>3, <2>4
<1> HIDE DEF b, marks, record
<1>6. starts \subseteq Line \ {0}
  BY DEF HoleStarts
<1>7. /\ \A a \in Address :
            memory'[a] = IF \E l \in Line \ marks : InLine(b, l, a) THEN DATA
                         ELSE memory[a]
      /\ MemoryType' /\ marked' \subseteq marked
  BY <1>1, <1>2, <1>3, <1>4, Forgotten
<1>8. \A c \in Blocks, l \in Line :
         line_header'[c][l] = IF c = b /\ l \in Line \ marks THEN EMPTY_LINE
                              ELSE line_header[c][l]
  BY <1>1, <1>2, <1>3 DEF HeaderType
<1> HIDE DEF starts
<1>9. \A l \in starts : /\ Block_line(b, l) \in Address
                        /\ Block_contains(b, Block_line(b, l))
                        /\ Block_lineIndex(b, Block_line(b, l)) = l
  <2> SUFFICES ASSUME NEW l \in starts
               PROVE  /\ Block_line(b, l) \in Address
                      /\ Block_contains(b, Block_line(b, l))
                      /\ Block_lineIndex(b, Block_line(b, l)) = l
    OBVIOUS
  <2>1. /\ l \in Line /\ Block_line(b, l) \in Address
        /\ InLine(b, l, Block_line(b, l)) /\ Block_line(b, l) \in Nat
    BY <1>2, <1>6, LineStart, Numbers
  <2> QED  BY <1>2, <2>1, IndexOf
<1>10. \A l \in starts : hole'[Block_line(b, l)] = record(l)
  BY <1>3, <1>9
<1>11. \A a \in Address : ~ (\E l \in starts : a = Block_line(b, l)) => hole'[a] = hole[a]
  BY <1>3
<1>12. Swept(b, Line \ marks)
  <2>1. \A a \in Address : ~Block_contains(b, a) => hole'[a] = hole[a]
    BY <1>9, <1>11
  <2> QED  BY <1>3, <1>7, <1>8, <2>1 DEF Swept
<1>13. /\ \A l \in starts : HoleShape(hole', Block_line(b, l))
       /\ starts # {} => /\ Least(starts) \in Line
                         /\ ChainOK(memory', line_header', live', hole', b,
                                    Block_line(b, Least(starts)))
  BY <1>1, <1>2, <1>4, <1>5, <1>7, <1>10, <1>12, HolesLeft DEF starts, record
<1>14. HoleInv'
  <2> SUFFICES ASSUME NEW a \in Address
               PROVE  HoleShape(hole', a)
    BY DEF HoleInv
  <2>1. CASE \E l \in starts : a = Block_line(b, l)
    BY <1>13, <2>1
  <2>2. CASE ~ \E l \in starts : a = Block_line(b, l)
    <3>1. hole'[a] = hole[a] /\ HoleShape(hole, a)
      BY <1>1, <1>11, <2>2 DEF HoleInv
    <3> QED  BY <3>1 DEF HoleShape
  <2> QED  BY <2>1, <2>2
<1>15. /\ HeadersType'
       /\ \A c \in Blocks : c # b => block_header'[c] = block_header[c]
       /\ starts # {} => block_header'[b].first_free_line = Least(starts)
  <2>1. CASE starts = {}
    <3>1. block_header' = [block_header EXCEPT ![b].flag = "unavailable"]
      BY <1>3, <2>1
    <3> QED  BY <1>1, <1>2, <2>1, <3>1 DEF HeadersType
  <2>2. CASE starts # {}
    <3>1. PICK f \in Line : f = Least(starts)
      BY <1>13, <2>2
    <3>2. block_header' = [block_header EXCEPT ![b].flag = "recyclable",
                                               ![b].first_free_line = f]
      BY <1>3, <2>2, <3>1
    <3> QED  BY <1>1, <1>2, <3>1, <3>2 DEF HeadersType
  <2> QED  BY <2>1, <2>2
<1>16. HeaderType'
  <2>1. EMPTY_LINE \in [marked : BOOLEAN, offset : 0 .. LINE_SIZE - 1 \cup {NULL}]
    BY DEF EMPTY_LINE
  <2> DEFINE g == [l \in Line |-> IF l \in Line \ marks THEN EMPTY_LINE
                                  ELSE line_header[b][l]]
  <2>2. g \in [Line -> [marked : BOOLEAN, offset : 0 .. LINE_SIZE - 1 \cup {NULL}]]
    BY <1>1, <1>2, <2>1 DEF HeaderType
  <2>3. line_header' = [line_header EXCEPT ![b] = g]
    BY <1>3
  <2> HIDE DEF g
  <2> QED  BY <1>1, <1>2, <2>2, <2>3 DEF HeaderType
<1>17. marked' \subseteq Address
  BY <1>1, <1>7
<1>18. \/ /\ recyclable_list' = Append(recyclable_list, b) /\ UNCHANGED free_list
          /\ ChainOK(memory', line_header', live', hole', b,
                     Block_line(b, block_header'[b].first_free_line))
       \/ UNCHANGED <<free_list, recyclable_list>>
  <2>1. CASE starts = {}
    BY <1>3, <2>1 DEF ListRecyclable
  <2>2. CASE starts # {}
    <3>1. recyclable_list' = Append(recyclable_list, b)
      BY <1>3, <2>2 DEF ListRecyclable
    <3>2. ChainOK(memory', line_header', live', hole', b,
                  Block_line(b, block_header'[b].first_free_line))
      BY <1>13, <1>15, <2>2
    <3> QED  BY <1>3, <3>1, <3>2
  <2> QED  BY <2>1, <2>2
<1>19. /\ \/ /\ b + BLOCK_SIZE < heap_stop
             /\ sweeping' = b + BLOCK_SIZE /\ pc' = "sweep"
          \/ sweeping' = NULL /\ pc' = "nextBlock"
       /\ UNCHANGED <<request, caller, collecting, local, allocated, status>>
  BY DEF Passed, b
<1>20. Line \ marks \in SUBSET Line
  OBVIOUS
<1> QED  BY <1>5, <1>7, <1>12, <1>14, <1>15, <1>16, <1>17, <1>18, <1>19, <1>20,
            SweptContents DEF b

LEMMA SweepContents ==
    ASSUME IInv, Contents, Sweep
    PROVE  Contents'
<1>1. /\ pc = "sweep"
      /\ IF block_header[sweeping].marked
         THEN RecycleBlock(sweeping) ELSE FreeBlock(sweeping)
  BY DEF Sweep, Running
<1>2. Passed
  BY DEF Sweep, Passed
<1>3. CASE block_header[sweeping].marked
  BY <1>1, <1>2, <1>3, RecycleContents
<1>4. CASE ~block_header[sweeping].marked
  BY <1>1, <1>2, <1>4, FreeContents
<1> QED  BY <1>3, <1>4
-----------------------------------------------------------------------------
(* The invariant holds from the start, and every step keeps it *)

LEMMA InitContents == Init => Contents
<1> SUFFICES ASSUME Init PROVE Contents
  OBVIOUS
<1>1. /\ heap_stop = INITIAL_BLOCKS * BLOCK_SIZE
      /\ block_header = [b \in Blocks |-> NEW_BLOCK]
      /\ line_header = [b \in Blocks |-> [l \in Line |-> EMPTY_LINE]]
      /\ recyclable_list = <<>>
      /\ memory = [a \in Address |-> 0]
      /\ hole = [a \in Address |-> NULL]
      /\ marked = {} /\ allocated = 0 /\ collecting = FALSE
      /\ pc = "idle" /\ request = NULL /\ caller = NULL /\ sweeping = NULL
      /\ live = {} /\ status = "running"
  BY DEF Init
<1>2. PICK n \in UNINIT_NEXT :
         local = [block |-> 0, cursor |-> Block_start(0),
                  limit |-> Block_stop(0), next |-> n,
                  overflow_block |-> BLOCK_SIZE,
                  overflow_cursor |-> Block_start(BLOCK_SIZE),
                  overflow_limit |-> Block_stop(BLOCK_SIZE)]
  BY DEF Init
<1>3. /\ local.block = 0 /\ local.cursor = Block_start(0)
      /\ local.limit = Block_stop(0) /\ local.next = n
      /\ local.overflow_block = BLOCK_SIZE
      /\ local.overflow_cursor = Block_start(BLOCK_SIZE)
      /\ local.overflow_limit = Block_stop(BLOCK_SIZE)
  BY <1>2
<1>4. IInv
  BY InitInvariant
<1>5. /\ MappedBlocks \subseteq Blocks /\ ListsInv
      /\ local.block \in Blocks /\ local.overflow_block \in Blocks
  BY <1>4 DEF IInv, ShapeInv, MappedBlocks
<1>6. heap_stop \in {i * BLOCK_SIZE : i \in 2 .. MAX_BLOCKS}
  BY <1>4 DEF IInv, ShapeInv, HeapInv
<1>7. free_list \in Seq(Blocks) /\ Range(free_list) \subseteq Blocks
  <2>1. free_list \in Seq(MappedBlocks)
    BY <1>5 DEF ListsInv
  <2>2. free_list \in Seq(Blocks)
    BY <1>5, <2>1
  <2> QED  BY <2>2 DEF Range
<1>8. /\ EMPTY_LINE \in [marked : BOOLEAN, offset : 0 .. LINE_SIZE - 1 \cup {NULL}]
      /\ ~containsObject(EMPTY_LINE)
      /\ NEW_BLOCK \in [marked : BOOLEAN, flag : {"free", "recyclable", "unavailable"},
                        first_free_line : Line]
      /\ NEW_BLOCK.flag = "free"
  BY Numbers DEF EMPTY_LINE, containsObject, NEW_BLOCK
<1>9. \A a \in Address : memory[a] = 0 /\ hole[a] = NULL
  BY <1>1
<1>10. 0 \in Size
  BY Units DEF Size
<1>11. TypeOK
  <2>1. {local.cursor, local.limit, local.overflow_cursor, local.overflow_limit}
           \subseteq Nat
    BY <1>3, <1>5, Numbers
  <2>2. local.next \in Address \cup {NULL}
    BY <1>3, SmallHeapAssumption DEF Address
  <2>3. block_header \in [Blocks -> [marked : BOOLEAN,
                                     flag : {"free", "recyclable", "unavailable"},
                                     first_free_line : Line]]
    BY <1>1, <1>8
  <2>4. line_header \in [Blocks -> [Line -> [marked : BOOLEAN,
                                   offset : 0 .. LINE_SIZE - 1 \cup {NULL}]]]
    BY <1>1, <1>8
  <2>5. memory \in [Address -> Size \cup {DATA}]
    BY <1>1, <1>10
  <2>6. recyclable_list \in Seq(Blocks)
    BY <1>1
  <2> QED  BY <1>1, <1>5, <1>6, <1>7, <1>9, <2>1, <2>2, <2>3, <2>4, <2>5, <2>6
           DEF TypeOK
<1>12. LinesInv
  <2> SUFFICES ASSUME NEW b \in Blocks, NEW l \in Line
               PROVE  LineShape(memory, line_header[b][l], Block_line(b, l))
    BY DEF LinesInv
  <2>1. ~containsObject(line_header[b][l])
    BY <1>1, <1>8
  <2>2. \A a \in Block_line(b, l) .. Block_line(b, l) + LINE_SIZE - 1 : ~ (memory[a] > 0)
    BY <1>9, LineCells
  <2> QED  BY <2>1, <2>2, BlankLine
<1>13. HoleInv
  BY <1>9 DEF HoleInv, HoleShape
<1>14. LiveInv /\ CallInv /\ MarkInv /\ SweepKeepsLive
  BY <1>1 DEF LiveInv, CallInv, MarkInv, SweepKeepsLive
<1>15. \A x, y : Spare(memory, live, x, y)
  BY <1>1, <1>9 DEF Spare
<1>16. FreeInv /\ RecyclableInv
  <2>1. Range(recyclable_list) = {}
    BY <1>1 DEF Range
  <2> QED  BY <1>15, <2>1 DEF FreeInv, RecyclableInv
<1>17. LocalInv
  <2>1. /\ Region(memory, line_header, live, local.block, local.cursor, local.limit)
        /\ Within(local.block, local.cursor, local.limit, hole)
    BY <1>3, <1>5, <1>11, <1>12, <1>13, <1>15, FreeRegion
  <2>2. block_header[local.block].flag = "free"
    BY <1>1, <1>5, <1>8
  <2> QED  BY <2>1, <2>2 DEF LocalInv, BumpOK
<1>18. OverflowInv
  <2>1. Region(memory, line_header, live, local.overflow_block,
               local.overflow_cursor, local.overflow_limit)
    BY <1>3, <1>5, <1>11, <1>12, <1>13, <1>15, FreeRegion
  <2> QED  BY <1>3, <2>1 DEF OverflowInv, OverflowOK
<1> QED  BY <1>11, <1>12, <1>13, <1>14, <1>16, <1>17, <1>18 DEF Contents

LEMMA NextContents == IInv /\ Contents /\ [Next]_vars => Contents'
<1> SUFFICES ASSUME IInv, Contents, [Next]_vars
             PROVE  Contents'
  OBVIOUS
<1>1. CASE Next
  BY <1>1, BumpStep, OverflowStep, NextHoleStep, WaitingSteps, TakeContents,
     OverflowBlockStep, GrowContents, RequestContents, UnmarkContents,
     MarkContents, SweepContents DEF Next, Step
<1>2. CASE UNCHANGED vars
  <2>1. /\ UNCHANGED <<heap, contents, control, local, allocated>>
        /\ status' = status
    BY <1>2 DEF vars
  <2>2. Outcome(status')
    BY <2>1 DEF Contents, TypeOK, Outcome
  <2> QED  BY <2>1, <2>2, Stays
<1> QED  BY <1>1, <1>2

LEMMA ContentsInvariant == Spec => [](IInv /\ Contents)
<1>1. Init => IInv /\ Contents
  BY InitInvariant, InitContents
<1>2. IInv /\ Contents /\ [Next]_vars => IInv' /\ Contents'
  BY NextInvariant, NextContents
<1> QED  BY <1>1, <1>2, PTL DEF Spec
-----------------------------------------------------------------------------
(* What follows *)

LEMMA RegionFree ==
    ASSUME NEW b \in Blocks, NEW x \in Nat, NEW y,
           Region(memory, line_header, live, b, x, y)
    PROVE  (x .. y - 1) \cap LiveCells = {}
<1>1. y \in Nat /\ y <= Block_stop(b) /\ Block_stop(b) \in Nat
  BY Numbers DEF Region
<1>2. ASSUME NEW a \in x .. y - 1, a \in LiveCells
      PROVE  FALSE
  <2>1. a \in Nat /\ x <= a /\ a < y
    BY <1>1
  <2>2. a \in Address
    BY <1>1, <2>1, Numbers
  <2>3. PICK o \in live : a \in Cells(o)
    BY <1>2 DEF LiveCells
  <2> QED  BY <2>1, <2>2, <2>3 DEF Region, Spare
<1> QED  BY <1>2

LEMMA ChainFree ==
    ASSUME TypeOK, HoleInv, NEW b \in Blocks, NEW x,
           ChainOK(memory, line_header, live, hole, b, x)
    PROVE  \A a \in Chain(x) : hole[a] # NULL /\ HoleRegion(a) \cap LiveCells = {}
<1>1. PICK S \in SUBSET Address :
         /\ x \in S
         /\ \A a \in S : x <= a /\ HoleOK(memory, line_header, live, hole, b, S, a)
  BY DEF ChainOK
<1>2. \A a \in Address : hole[a] \in HoleRecord \cup {NULL}
  BY DEF TypeOK
<1>3. ASSUME NEW a \in S
      PROVE  /\ hole[a] # NULL
             /\ hole[a].next # NULL => hole[a].next \in S /\ a < hole[a].next
  <2>1. HoleOK(memory, line_header, live, hole, b, S, a) /\ HoleShape(hole, a)
    BY <1>1 DEF HoleInv
  <2> QED  BY <2>1 DEF HoleOK, HoleShape
<1>4. Chain(x) \subseteq S
  BY <1>1, <1>2, <1>3, ChainFollows
<1>5. ASSUME NEW a \in S
      PROVE  HoleRegion(a) \cap LiveCells = {}
  <2>1. Region(memory, line_header, live, b, a, hole[a].limit) /\ a \in Nat
    BY <1>1, Numbers DEF HoleOK
  <2> QED  BY <2>1, RegionFree DEF HoleRegion
<1> QED  BY <1>3, <1>4, <1>5

\* Every variable has its type: in particular a word the collector reads as a
\* size is one or a zero, a hole record points into the heap, and the step after
\* a collection is one the caller waits at.
THEOREM TypeCorrect == Spec => []TypeOK
<1>1. Contents => TypeOK
  BY DEF Contents
<1> QED  BY <1>1, ContentsInvariant, PTL

\* Whatever was allocated, overwritten, forgotten and swept in a line, walking
\* its objects reads nothing but headers the allocator wrote.
THEOREM WalksReadHeaders == Spec => []HeadersWalkable
<1>1. Contents => HeadersWalkable
  <2> SUFFICES ASSUME Contents, NEW b \in MappedBlocks, NEW l \in Line,
                      NEW a \in Walk(b, l)
               PROVE  memory[a] # DATA
    BY DEF HeadersWalkable
  <2>1. MemoryType /\ b \in Blocks
    BY Parts DEF Contents, MappedBlocks
  <2>2. LineShape(memory, line_header[b][l], Block_line(b, l))
    BY <2>1 DEF Contents, LinesInv
  <2>3. a \in Heads(b, l)
    BY <2>1, <2>2, WalkFindsHeads
  <2> QED  BY <2>3 DEF Heads, DATA
<1> QED  BY <1>1, ContentsInvariant, PTL

\* Every pointer into an object in use, inner pointers included, is resolved to
\* that object, whose header is as it was written.
THEOREM ObjectsFound == Spec => []LiveObjectsFound
<1>1. IInv /\ Contents => LiveObjectsFound
  <2> SUFFICES ASSUME IInv, Contents, NEW o \in live
               PROVE  /\ memory[o.at] = o.size
                      /\ \A p \in o.at + OBJECT .. o.at + o.size - 1 :
                            FoundObject(p) = o.at
    BY DEF LiveObjectsFound
  <2>1. HeapInv /\ MemoryType /\ LinesInv /\ LiveInv
    BY Parts DEF IInv, ShapeInv, Contents
  <2>2. memory[o.at] = o.size
    BY <2>1, LiveBlock
  <2>3. \A p \in o.at + OBJECT .. o.at + o.size - 1 : FoundObject(p) = o.at
    BY <2>1, FoundLive
  <2> QED  BY <2>2, <2>3
<1> QED  BY <1>1, ContentsInvariant, PTL

\* Nothing that can be handed out, now or later, holds a word of an object in
\* use: not the holes the allocator is in or will follow, nor its overflow block,
\* nor any block in a list.
THEOREM FreeSpaceSpare == Spec => []FreeSpaceUnreferenced
<1>1. IInv /\ Contents => FreeSpaceUnreferenced
  <2> SUFFICES ASSUME IInv, Contents PROVE FreeSpaceUnreferenced
    OBVIOUS
  <2>1. /\ TypeOK /\ HoleInv /\ FreeInv /\ RecyclableInv /\ LocalInv
        /\ OverflowInv /\ LocalType(local)
    BY Parts DEF Contents
  <2>2. local.block \in Blocks /\ local.overflow_block \in Blocks
        /\ local.cursor \in Nat /\ local.overflow_cursor \in Nat
    BY <2>1 DEF LocalType
  <2> DEFINE bump == BumpOK(memory, line_header, live, hole,
                            block_header[local.block].flag, local)
  <2>3. ASSUME ~collecting
        PROVE  /\ bump
               /\ Region(memory, line_header, live, local.overflow_block,
                         local.overflow_cursor, local.overflow_limit)
    BY <2>1, <2>3 DEF LocalInv, OverflowInv, OverflowOK
  <2>4. ASSUME ~collecting, Block_contains(local.block, local.cursor)
        PROVE  BumpRegion \cap LiveCells = {}
    <3>1. Region(memory, line_header, live, local.block, local.cursor, local.limit)
      BY <2>3, <2>4 DEF BumpOK, Astray
    <3> QED  BY <2>2, <3>1, RegionFree DEF BumpRegion
  <2>5. ASSUME ~collecting
        PROVE  OverflowRegion \cap LiveCells = {}
    BY <2>2, <2>3, <2>5, RegionFree DEF OverflowRegion
  <2>6. ASSUME ~collecting, local.next # NULL, NextIsOwn
        PROVE  \A a \in Chain(local.next) :
                  hole[a] # NULL /\ HoleRegion(a) \cap LiveCells = {}
    <3>1. block_header[local.block].flag = "recyclable"
      BY <2>6 DEF NextIsOwn
    <3>2. ChainOK(memory, line_header, live, hole, local.block, local.next)
      BY <2>3, <2>6, <3>1 DEF BumpOK
    <3> QED  BY <2>1, <2>2, <3>2, ChainFree
  <2>7. ASSUME NEW i \in DOMAIN free_list
        PROVE  (Block_start(free_list[i]) .. Block_stop(free_list[i]) - 1)
                  \cap LiveCells = {}
    <3> DEFINE b == free_list[i]
    <3>0. free_list \in Seq(Blocks)
      BY <2>1 DEF TypeOK
    <3>1. b \in Blocks
      BY <3>0
    <3>2. b \in Range(free_list)
      BY DEF Range
    <3>3. Spare(memory, live, Block_start(b), Block_stop(b))
      BY <2>1, <3>2 DEF FreeInv
    <3> HIDE DEF b
    <3>4. Region(memory, line_header, live, b, Block_start(b), Block_stop(b))
      BY <2>1, <3>1, <3>3, FreeRegion DEF Contents
    <3>5. (Block_start(b) .. Block_stop(b) - 1) \cap LiveCells = {}
      BY <3>1, <3>4, RegionFree, Numbers
    <3> QED  BY <3>5 DEF b
  <2>8. ASSUME NEW i \in DOMAIN recyclable_list
        PROVE  \A a \in RecyclableHoles(recyclable_list[i]) :
                  hole[a] # NULL /\ HoleRegion(a) \cap LiveCells = {}
    <3> DEFINE b == recyclable_list[i]
    <3>0. recyclable_list \in Seq(Blocks)
      BY <2>1 DEF TypeOK
    <3>1. b \in Blocks
      BY <3>0
    <3>2. b \in Range(recyclable_list)
      BY DEF Range
    <3>3. ChainOK(memory, line_header, live, hole, b,
                  Block_line(b, block_header[b].first_free_line))
      BY <2>1, <3>2 DEF RecyclableInv
    <3> HIDE DEF b
    <3>4. \A a \in RecyclableHoles(b) : hole[a] # NULL /\ HoleRegion(a) \cap LiveCells = {}
      BY <2>1, <3>1, <3>3, ChainFree DEF RecyclableHoles
    <3> QED  BY <3>4 DEF b
  <2> QED  BY <2>4, <2>5, <2>6, <2>7, <2>8 DEF FreeSpaceUnreferenced
<1> QED  BY <1>1, ContentsInvariant, PTL

\* When the sweep comes to a block, the marks it decides from cover every object
\* in use, whatever the marked byte of a new object held.
THEOREM SweepsKeepLive == Spec => []SweepKeepsLive
<1>1. Contents => SweepKeepsLive
  BY DEF Contents
<1> QED  BY <1>1, ContentsInvariant, PTL
=============================================================================
