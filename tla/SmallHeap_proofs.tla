-------------------------- MODULE SmallHeap_proofs --------------------------
(***************************************************************************)
(* Who owns a block, in a small heap of any size and whatever survives a   *)
(* collection.  What blocks contain plays no part: of memory, holes and    *)
(* marks the proof uses nothing, of the headers only the flags.            *)
(***************************************************************************)
EXTENDS SmallHeap, SequenceTheorems, TLAPS

(* Addresses of blocks *)

LEMMA BlockSize == BLOCK_SIZE \in Nat \ {0}
<1> DEFINE a == LINE_COUNT + 1
           b == LINE_SIZE
<1>1. a \in Nat \ {0} /\ b \in Nat \ {0}
  BY GeometryAssumption
<1> HIDE DEF a, b
<1>2. a * b \in Nat \ {0}
  BY <1>1
<1> QED  BY <1>2 DEF BLOCK_SIZE, a, b

LEMMA Multiples ==
    ASSUME NEW i \in Nat, NEW j \in Nat
    PROVE  /\ i * BLOCK_SIZE \in Nat
           /\ (i + 1) * BLOCK_SIZE = i * BLOCK_SIZE + BLOCK_SIZE
           /\ (i + j) * BLOCK_SIZE = i * BLOCK_SIZE + j * BLOCK_SIZE
           /\ i <= j => i * BLOCK_SIZE <= j * BLOCK_SIZE
           /\ i * BLOCK_SIZE < j * BLOCK_SIZE => i < j
           /\ i * BLOCK_SIZE = j * BLOCK_SIZE => i = j
           /\ i * BLOCK_SIZE <= j * BLOCK_SIZE => i <= j
           /\ (i * BLOCK_SIZE) \div BLOCK_SIZE = i
<1>1. BLOCK_SIZE \in Nat \ {0}
  BY BlockSize
<1> QED  BY <1>1

LEMMA Quotient ==
    ASSUME NEW i \in Nat, NEW j \in Nat \ {0}
    PROVE  i \div j \in Nat
OBVIOUS

\* The end of the heap is that of a block.
HeapInv == \E n \in 2 .. MAX_BLOCKS : heap_stop = n * BLOCK_SIZE

LEMMA Mapped ==
    ASSUME HeapInv
    PROVE  /\ heap_stop \in Nat
           /\ \A b \in MappedBlocks : b \in Nat /\ b \in Blocks
           /\ 0 \in MappedBlocks
           /\ \A b \in MappedBlocks :
                 b + BLOCK_SIZE < heap_stop => b + BLOCK_SIZE \in MappedBlocks
           /\ \A b, c \in MappedBlocks : c < b + BLOCK_SIZE => c <= b
<1>1. PICK n \in 2 .. MAX_BLOCKS : heap_stop = n * BLOCK_SIZE
  BY DEF HeapInv
<1>2. MAX_BLOCKS \in Nat /\ n \in Nat /\ 2 <= n /\ n <= MAX_BLOCKS
  BY SmallHeapAssumption
<1>3. BLOCK_SIZE \in Nat /\ BLOCK_SIZE > 0
  BY BlockSize
<1>4. heap_stop \in Nat
  BY <1>1, <1>2, Multiples
<1>5. \A b \in MappedBlocks : b \in Nat /\ b \in Blocks
  BY <1>2, Multiples DEF MappedBlocks, Blocks
<1>6. 0 \in MappedBlocks
  <2>1. 0 = 0 * BLOCK_SIZE /\ 0 \in 0 .. MAX_BLOCKS - 1 /\ 0 < n
    BY <1>2, <1>3
  <2>2. 0 * BLOCK_SIZE < n * BLOCK_SIZE
    <3>1. n * BLOCK_SIZE \in Nat /\ (0 * BLOCK_SIZE = n * BLOCK_SIZE => 0 = n)
      BY <1>2, Multiples
    <3> QED  BY <1>2, <2>1, <3>1
  <2> QED  BY <1>1, <2>1, <2>2 DEF MappedBlocks, Blocks
<1>7. ASSUME NEW b \in MappedBlocks
      PROVE  /\ b + BLOCK_SIZE < heap_stop => b + BLOCK_SIZE \in MappedBlocks
             /\ \A c \in MappedBlocks : c < b + BLOCK_SIZE => c <= b
  <2>1. PICK i \in 0 .. MAX_BLOCKS - 1 : b = i * BLOCK_SIZE
    BY DEF MappedBlocks, Blocks
  <2>2. i \in Nat /\ i + 1 \in Nat
    BY <1>2
  <2>3. (i + 1) * BLOCK_SIZE = b + BLOCK_SIZE
    BY <2>1, <2>2, Multiples
  <2>4. ASSUME b + BLOCK_SIZE < heap_stop
        PROVE  b + BLOCK_SIZE \in MappedBlocks
    <3>1. i + 1 < n
      BY <1>1, <1>2, <2>2, <2>3, <2>4, Multiples
    <3>2. i + 1 \in 0 .. MAX_BLOCKS - 1
      BY <1>2, <2>2, <3>1
    <3> QED  BY <2>3, <2>4, <3>2 DEF MappedBlocks, Blocks
  <2>5. ASSUME NEW c \in MappedBlocks, c < b + BLOCK_SIZE
        PROVE  c <= b
    <3>1. PICK j \in 0 .. MAX_BLOCKS - 1 : c = j * BLOCK_SIZE
      BY DEF MappedBlocks, Blocks
    <3>2. j \in Nat
      BY <1>2
    <3>3. j < i + 1
      BY <2>2, <2>3, <2>5, <3>1, <3>2, Multiples
    <3>4. j <= i
      BY <2>2, <3>2, <3>3
    <3> QED  BY <2>1, <2>2, <3>1, <3>2, <3>4, Multiples
  <2> QED  BY <2>4, <2>5
<1> QED  BY <1>4, <1>5, <1>6, <1>7

\* The blocks that growSmall maps.
LEMMA Growth ==
    ASSUME HeapInv, NEW increment,
           increment = ROUND_TO_NEXT_MULTIPLE(
                          (SmallHeapSize * GROWTH_RATE) \div 100, BLOCK_SIZE),
           ~OverLimit(increment),
           heap_stop' = heap_stop + increment
    PROVE  /\ HeapInv' /\ heap_stop <= heap_stop'
           /\ increment \div BLOCK_SIZE \in Nat
           /\ increment \div BLOCK_SIZE = 0 => heap_stop' = heap_stop
           /\ \A i \in 1 .. increment \div BLOCK_SIZE :
                 LET b == heap_stop + (i - 1) * BLOCK_SIZE
                 IN b \in Blocks /\ heap_stop <= b /\ b < heap_stop'
           /\ \A i, j \in 1 .. increment \div BLOCK_SIZE :
                 heap_stop + (i - 1) * BLOCK_SIZE = heap_stop + (j - 1) * BLOCK_SIZE
                    => i = j
<1> DEFINE x == (SmallHeapSize * GROWTH_RATE) \div 100
           q == (x + BLOCK_SIZE - 1) \div BLOCK_SIZE
<1>1. PICK n \in 2 .. MAX_BLOCKS : heap_stop = n * BLOCK_SIZE
  BY DEF HeapInv
<1>2. MAX_BLOCKS \in Nat /\ n \in Nat /\ 2 <= n /\ n <= MAX_BLOCKS
      /\ LARGE_HEAP_SIZE \in Nat
  BY SmallHeapAssumption
<1>3. BLOCK_SIZE \in Nat /\ BLOCK_SIZE > 0 /\ heap_stop \in Nat
  BY BlockSize, Mapped
<1>4. q \in Nat
  <2>1. GROWTH_RATE \in Nat
    BY SmallHeapAssumption
  <2>2. SmallHeapSize * GROWTH_RATE \in Nat
    BY <1>3, <2>1 DEF SmallHeapSize
  <2> DEFINE y == SmallHeapSize * GROWTH_RATE
  <2> HIDE DEF y
  <2>3. y \div 100 \in Nat
    BY <2>2, Quotient DEF y
  <2>4. x \in Nat
    BY <2>3 DEF y
  <2> HIDE DEF x
  <2> QED  BY <1>3, <2>4
<1>5. increment = q * BLOCK_SIZE
  BY DEF ROUND_TO_NEXT_MULTIPLE
<1> HIDE DEF x, q
<1>6. increment \div BLOCK_SIZE = q
  BY <1>4, <1>5, Multiples
<1>a. increment \in Nat /\ MAX_BLOCKS * BLOCK_SIZE \in Nat
  <2>1. q * BLOCK_SIZE \in Nat
    BY <1>4, Multiples
  <2>2. MAX_BLOCKS * BLOCK_SIZE \in Nat
    BY <1>2, Multiples
  <2> QED  BY <1>5, <2>1, <2>2
<1>7. heap_stop' = (n + q) * BLOCK_SIZE /\ n + q \in Nat
  BY <1>1, <1>2, <1>4, <1>5, Multiples
<1>8. n + q <= MAX_BLOCKS
  <2>1. heap_stop + LARGE_HEAP_SIZE + increment
           <= LARGE_HEAP_SIZE + MAX_BLOCKS * BLOCK_SIZE
    <3>1. increment \in Nat /\ MAX_BLOCKS * BLOCK_SIZE \in Nat
      BY <1>a
    <3> QED  BY <1>2, <1>3, <3>1 DEF OverLimit, SmallHeapSize, MEMORY_LIMIT
  <2>2. (n + q) * BLOCK_SIZE <= MAX_BLOCKS * BLOCK_SIZE
    <3>1. increment \in Nat /\ MAX_BLOCKS * BLOCK_SIZE \in Nat
      BY <1>a
    <3> QED  BY <1>2, <1>3, <1>7, <2>1, <3>1
  <2> QED  BY <1>2, <1>7, <2>2, Multiples
<1>9. HeapInv' /\ heap_stop <= heap_stop'
  <2>1. n + q \in 2 .. MAX_BLOCKS
    BY <1>2, <1>4, <1>8
  <2>2. n * BLOCK_SIZE <= (n + q) * BLOCK_SIZE
    BY <1>2, <1>4, <1>7, Multiples
  <2> QED  BY <1>1, <1>7, <2>1, <2>2 DEF HeapInv
<1>10. ASSUME NEW i \in 1 .. q
       PROVE  /\ i - 1 \in Nat
              /\ heap_stop + (i - 1) * BLOCK_SIZE = (n + (i - 1)) * BLOCK_SIZE
              /\ heap_stop + (i - 1) * BLOCK_SIZE \in Blocks
              /\ heap_stop <= heap_stop + (i - 1) * BLOCK_SIZE
              /\ heap_stop + (i - 1) * BLOCK_SIZE < heap_stop'
  <2>1. i - 1 \in Nat /\ n + (i - 1) \in Nat /\ n + (i - 1) < n + q
        /\ n + (i - 1) \in 0 .. MAX_BLOCKS - 1
    BY <1>2, <1>4, <1>8
  <2>2. heap_stop + (i - 1) * BLOCK_SIZE = (n + (i - 1)) * BLOCK_SIZE
    BY <1>1, <1>2, <2>1, Multiples
  <2>3. /\ (n + (i - 1)) * BLOCK_SIZE < (n + q) * BLOCK_SIZE
        /\ n * BLOCK_SIZE <= (n + (i - 1)) * BLOCK_SIZE
    <3>0. n + (i - 1) <= n + q /\ n <= n + (i - 1)
      BY <1>2, <1>4, <2>1
    <3>1. /\ (n + (i - 1)) * BLOCK_SIZE \in Nat /\ (n + q) * BLOCK_SIZE \in Nat
          /\ n + (i - 1) <= n + q /\ n <= n + (i - 1)
      BY <1>7, <2>1, <3>0, Multiples
    <3>2. (n + (i - 1)) * BLOCK_SIZE # (n + q) * BLOCK_SIZE
      BY <1>4, <1>7, <2>1, Multiples
    <3>3. /\ (n + (i - 1)) * BLOCK_SIZE <= (n + q) * BLOCK_SIZE
          /\ n * BLOCK_SIZE <= (n + (i - 1)) * BLOCK_SIZE
      BY <1>2, <1>7, <2>1, <3>1, Multiples
    <3> QED  BY <3>1, <3>2, <3>3
  <2> QED  BY <1>1, <1>7, <2>1, <2>2, <2>3 DEF Blocks
<1>11. ASSUME NEW i \in 1 .. q, NEW j \in 1 .. q,
              heap_stop + (i - 1) * BLOCK_SIZE = heap_stop + (j - 1) * BLOCK_SIZE
       PROVE  i = j
  <2>1. (n + (i - 1)) * BLOCK_SIZE = (n + (j - 1)) * BLOCK_SIZE
    BY <1>10, <1>11
  <2>2. n + (i - 1) = n + (j - 1)
    BY <1>2, <1>10, <2>1, Multiples
  <2> QED  BY <1>2, <1>4, <2>2
<1>12. q = 0 => heap_stop' = heap_stop
  BY <1>3, <1>5
<1> QED  BY <1>4, <1>6, <1>9, <1>10, <1>11, <1>12
-----------------------------------------------------------------------------
(* The invariant *)

Header(h) ==
    [marked |-> h.marked, flag |-> h.flag, first_free_line |-> h.first_free_line]

Allocator(l) ==
    [block |-> l.block, cursor |-> l.cursor, limit |-> l.limit, next |-> l.next,
     overflow_block |-> l.overflow_block, overflow_cursor |-> l.overflow_cursor,
     overflow_limit |-> l.overflow_limit]

\* Every block has a header and the allocator has two blocks.
ShapeInv ==
    /\ HeapInv
    /\ block_header = [b \in Blocks |-> Header(block_header[b])]
    /\ local = Allocator(local)
    /\ local.block \in MappedBlocks /\ local.overflow_block \in MappedBlocks
    /\ collecting \in BOOLEAN

\* The blocks in the lists; what is not mapped yet will be free.
ListsInv ==
    /\ free_list \in Seq(MappedBlocks) /\ recyclable_list \in Seq(MappedBlocks)
    /\ IsInjective(free_list) /\ IsInjective(recyclable_list)
    /\ Range(free_list) \cap Range(recyclable_list) = {}
    /\ \A b \in Range(free_list) : block_header[b].flag = "free"
    /\ \A b \in Range(recyclable_list) : block_header[b].flag = "recyclable"
    /\ \A b \in Blocks \ MappedBlocks : block_header[b].flag = "free"

\* Which steps belong to a collection, and how far the sweep has come.
ControlInv ==
    /\ pc \in {"idle", "small", "overflow", "retryBlock"} => ~collecting
    /\ pc \in {"unmark", "mark", "sweep"} => collecting
    /\ collecting => caller \in {"idle", "retryBlock", "growFree"}
    /\ pc = "sweep" => /\ sweeping \in MappedBlocks
                       /\ \A b \in Listed : b < sweeping
    /\ status # "aborted"

\* A reset replaces the first block before the second.
OwnerInv ==
    /\ ~collecting => /\ local.block # local.overflow_block
                      /\ local.block \notin Listed
                      /\ local.overflow_block \notin Listed
    /\ pc \in {"nextFree", "growFree"} => local.block \notin Listed

\* When the heap is about to grow no collection is due, since one has just
\* ended or none was due before.
DueInv ==
    /\ pc \in {"growBlock", "growFree"} /\ free_list = <<>> => ~CollectionDue
    /\ collecting /\ pc \notin {"unmark", "mark"} => allocated = 0
    /\ pc = "retryBlock" => allocated = 0

\* A collection is due only after something was allocated.
Divisor == FREE_SPACE_DIVISOR <= BLOCK_SIZE

IInv == ShapeInv /\ ListsInv /\ ControlInv /\ OwnerInv /\ (Divisor => DueInv)

LEMMA Threshold ==
    ASSUME HeapInv, Divisor, allocated = 0
    PROVE  ~(allocated >= (SmallHeapSize + LARGE_HEAP_SIZE) \div FREE_SPACE_DIVISOR)
<1> DEFINE size == heap_stop + LARGE_HEAP_SIZE
<1>1. PICK n \in 2 .. MAX_BLOCKS : heap_stop = n * BLOCK_SIZE
  BY DEF HeapInv
<1>2. MAX_BLOCKS \in Nat /\ LARGE_HEAP_SIZE \in Nat /\ FREE_SPACE_DIVISOR \in Nat
      /\ FREE_SPACE_DIVISOR > 0 /\ n \in Nat /\ 1 <= n
  BY SmallHeapAssumption
<1>3. 1 * BLOCK_SIZE <= n * BLOCK_SIZE /\ 1 * BLOCK_SIZE = BLOCK_SIZE
  BY <1>2, Multiples, BlockSize
<1>4. size \in Nat /\ FREE_SPACE_DIVISOR <= size
  BY <1>1, <1>2, <1>3, Mapped, BlockSize DEF Divisor
<1> HIDE DEF size
<1>5. size \div FREE_SPACE_DIVISOR \in Nat /\ size \div FREE_SPACE_DIVISOR > 0
  BY <1>2, <1>4
<1>6. ~(0 >= size \div FREE_SPACE_DIVISOR)
  BY <1>5
<1> QED  BY <1>6 DEF SmallHeapSize, size
-----------------------------------------------------------------------------
(* Lists and headers *)

LEMMA Taken ==
    ASSUME NEW S, NEW s \in Seq(S), s # <<>>, IsInjective(s)
    PROVE  /\ Tail(s) \in Seq(S) /\ IsInjective(Tail(s))
           /\ Head(s) \in Range(s) /\ Head(s) \in S
           /\ Range(Tail(s)) = Range(s) \ {Head(s)}
<1> DEFINE t == Tail(s)
           n == Len(s)
<1>1. /\ t \in Seq(S)
      /\ n \in Nat \ {0} /\ DOMAIN s = 1 .. n
      /\ DOMAIN t = 1 .. n - 1
      /\ \A i \in 1 .. n - 1 : t[i] = s[i + 1]
      /\ Head(s) = s[1] /\ s[1] \in S
  OBVIOUS
<1> HIDE DEF t, n
<1>2. /\ \A i \in 1 .. n : i = 1 \/ (i - 1 \in 1 .. n - 1 /\ (i - 1) + 1 = i)
      /\ \A i \in 1 .. n - 1 : i + 1 \in 1 .. n /\ i + 1 # 1
      /\ \A i, j \in 1 .. n - 1 : i + 1 = j + 1 => i = j
      /\ 1 \in 1 .. n
  BY <1>1
<1>3. /\ \A x : x \in Range(t) <=> \E i \in 1 .. n - 1 : s[i + 1] = x
      /\ \A x : x \in Range(s) <=> \E i \in 1 .. n : s[i] = x
  BY <1>1 DEF Range
<1>4. \A i, j \in 1 .. n : s[i] = s[j] => i = j
  BY <1>1 DEF IsInjective
<1>5. IsInjective(t)
  <2>1. \A i, j \in 1 .. n - 1 : t[i] = t[j] => i = j
    BY <1>1, <1>2, <1>4
  <2> QED  BY <1>1, <2>1 DEF IsInjective
<1>6. \A x : x \in Range(t) => x \in Range(s) /\ x # s[1]
  BY <1>2, <1>3, <1>4
<1>7. \A x : x \in Range(s) /\ x # s[1] => x \in Range(t)
  BY <1>2, <1>3
<1> QED  BY <1>1, <1>2, <1>3, <1>5, <1>6, <1>7 DEF t

LEMMA Appended ==
    ASSUME NEW S, NEW s \in Seq(S), IsInjective(s), NEW x \in S, x \notin Range(s)
    PROVE  /\ Append(s, x) \in Seq(S) /\ IsInjective(Append(s, x))
           /\ Range(Append(s, x)) = Range(s) \cup {x}
<1> DEFINE t == Append(s, x)
           n == Len(s)
<1>1. /\ n \in Nat /\ DOMAIN s = 1 .. n
      /\ t \in Seq(S) /\ DOMAIN t = 1 .. n + 1
      /\ \A i \in 1 .. n : t[i] = s[i]
      /\ t[n + 1] = x
  OBVIOUS
<1> HIDE DEF t, n
<1>2. /\ \A i \in 1 .. n + 1 : i \in 1 .. n \/ i = n + 1
      /\ \A i \in 1 .. n : i \in 1 .. n + 1
      /\ n + 1 \in 1 .. n + 1
  BY <1>1
<1>3. \A i \in 1 .. n : s[i] # x
  BY <1>1 DEF Range
<1>4. IsInjective(t)
  <2>1. \A i, j \in 1 .. n + 1 : t[i] = t[j] => i = j
    BY <1>1, <1>2, <1>3 DEF IsInjective
  <2> QED  BY <1>1, <2>1 DEF IsInjective
<1>5. Range(t) = Range(s) \cup {x}
  BY <1>1, <1>2 DEF Range
<1> QED  BY <1>1, <1>4, <1>5 DEF t

LEMMA NewBlock == NEW_BLOCK = Header(NEW_BLOCK) /\ NEW_BLOCK.flag = "free"
BY Zenon DEF NEW_BLOCK, Header

\* Other than in the flag of one block the header does not change.
LEMMA Flagged ==
    ASSUME ShapeInv, NEW a \in Blocks, NEW f, NEW x,
           \/ block_header' = [block_header EXCEPT ![a].flag = f]
           \/ block_header' = [block_header EXCEPT ![a].flag = f,
                                                   ![a].first_free_line = x]
           \/ /\ f = "free" /\ block_header' = [block_header EXCEPT ![a] = NEW_BLOCK]
    PROVE  /\ block_header' = [b \in Blocks |-> Header(block_header'[b])]
           /\ block_header'[a].flag = f
           /\ \A b \in Blocks : b # a => block_header'[b].flag = block_header[b].flag
<1>1. /\ block_header[a] = Header(block_header[a])
      /\ DOMAIN block_header' = Blocks
      /\ \A b \in Blocks : b # a => block_header'[b] = block_header[b]
  BY DEF ShapeInv
<1>2. /\ block_header'[a] = Header(block_header'[a])
      /\ block_header'[a].flag = f
  <2>1. CASE block_header' = [block_header EXCEPT ![a].flag = f]
    <3>1. block_header'[a] = [block_header[a] EXCEPT !.flag = f]
      BY <2>1 DEF ShapeInv
    <3> QED  BY <1>1, <3>1 DEF Header
  <2>2. CASE block_header' = [block_header EXCEPT ![a].flag = f,
                                                  ![a].first_free_line = x]
    <3>1. block_header'[a] = [block_header[a] EXCEPT !.flag = f, !.first_free_line = x]
      BY <2>2 DEF ShapeInv
    <3> QED  BY <1>1, <3>1 DEF Header
  <2>3. CASE f = "free" /\ block_header' = [block_header EXCEPT ![a] = NEW_BLOCK]
    <3>1. block_header'[a] = NEW_BLOCK
      BY <2>3 DEF ShapeInv
    <3> QED  BY <2>3, <3>1, NewBlock
  <2> QED  BY <2>1, <2>2, <2>3
<1>3. block_header' = [b \in Blocks |-> Header(block_header'[b])]
  BY <1>1, <1>2 DEF ShapeInv, Header
<1> QED  BY <1>1, <1>2, <1>3

\* Nor does it if only marks change.
LEMMA Remarked ==
    ASSUME ShapeInv,
           block_header' = [b \in Blocks |-> block_header'[b]],
           \A b \in Blocks : \/ block_header'[b] = block_header[b]
                             \/ \E m \in BOOLEAN :
                                   block_header'[b] = [block_header[b] EXCEPT !.marked = m]
    PROVE  /\ block_header' = [b \in Blocks |-> Header(block_header'[b])]
           /\ \A b \in Blocks : block_header'[b].flag = block_header[b].flag
<1>1. ASSUME NEW b \in Blocks
      PROVE  /\ block_header'[b] = Header(block_header'[b])
             /\ block_header'[b].flag = block_header[b].flag
  <2>1. block_header[b] = Header(block_header[b])
    BY DEF ShapeInv
  <2>2. CASE block_header'[b] = block_header[b]
    BY <2>1, <2>2
  <2>3. ASSUME NEW m \in BOOLEAN, block_header'[b] = [block_header[b] EXCEPT !.marked = m]
        PROVE  /\ block_header'[b] = Header(block_header'[b])
               /\ block_header'[b].flag = block_header[b].flag
    BY <2>1, <2>3 DEF Header
  <2> QED  BY <2>2, <2>3
<1>2. block_header' = [b \in Blocks |-> Header(block_header'[b])]
  BY <1>1
<1> QED  BY <1>1, <1>2
-----------------------------------------------------------------------------
(* Steps that leave the blocks where they are *)

\* What is true of the new position when the blocks stay put.
Continues(to) ==
    /\ to # "sweep"
    /\ to \in {"idle", "small", "overflow", "retryBlock"} => ~collecting
    /\ to \in {"unmark", "mark"} => collecting
    /\ to \in {"nextFree", "growFree"} => local.block \notin Listed

LEMMA Quiet ==
    ASSUME IInv,
           UNCHANGED <<heap_stop, block_header, free_list, recyclable_list,
                       collecting, caller>>,
           local' = Allocator(local'),
           local'.block = local.block, local'.overflow_block = local.overflow_block,
           status' # "aborted", Continues(pc'),
           Divisor => DueInv'
    PROVE  IInv'
<1>1. MappedBlocks' = MappedBlocks /\ Listed' = Listed
  BY DEF MappedBlocks, Listed
<1>2. ShapeInv'
  BY <1>1 DEF IInv, ShapeInv, HeapInv
<1>3. ListsInv'
  BY <1>1 DEF IInv, ListsInv
<1>4. ControlInv'
  BY <1>1 DEF IInv, ControlInv, Continues
<1>5. OwnerInv'
  BY <1>1 DEF IInv, OwnerInv, Continues
<1> QED  BY <1>2, <1>3, <1>4, <1>5 DEF IInv, Divisor

\* Among them those that only go on to another step, or stop the program.
LEMMA Still ==
    ASSUME IInv,
           UNCHANGED <<heap_stop, block_header, free_list, recyclable_list,
                       collecting, caller, local, allocated>>,
           status' # "aborted", Continues(pc'),
           \/ pc' = pc
           \/ pc' \in {"small", "overflow", "nextBlock", "nextFree"}
           \/ pc' \in {"growBlock", "growFree"} /\ (Divisor => ~CollectionDue)
           \/ pc' = "mark" /\ pc = "unmark",
           pc \in {"unmark", "mark"} => pc' \in {"unmark", "mark"}
    PROVE  IInv'
<1>1. local' = Allocator(local')
  BY DEF IInv, ShapeInv, Allocator
<1>2. CollectionDue' = CollectionDue
  BY DEF CollectionDue, SmallHeapSize
<1>3. Divisor => DueInv'
  BY <1>2 DEF IInv, DueInv
<1> QED  BY <1>1, <1>3, Quiet

LEMMA AllocateStep ==
    ASSUME IInv, NEW b, NEW a, NEW limit, PlaceObject(b, a, limit),
           pc \in {"small", "overflow"}, status = "running",
           local' = Allocator(local'),
           local'.block = local.block, local'.overflow_block = local.overflow_block
    PROVE  IInv'
<1>1. ~collecting
  BY DEF IInv, ControlInv
<1>2. /\ UNCHANGED <<heap_stop, block_header, free_list, recyclable_list,
                      collecting, caller, status>>
      /\ pc' = "idle"
  BY DEF PlaceObject
<1>3. Continues(pc')
  BY <1>1, <1>2 DEF Continues
<1>4. Divisor => DueInv'
  BY <1>1, <1>2 DEF DueInv
<1>5. status' # "aborted"
  BY <1>2
<1> QED  BY <1>2, <1>3, <1>4, <1>5, Quiet

LEMMA AllocationSteps ==
    ASSUME IInv,
           \/ \E size \in SIZES : Malloc(size)
           \/ BumpAllocate \/ ChooseOverflow \/ FindNextHole \/ BlockExhausted
           \/ OverflowAllocate \/ OverflowExhausted
    PROVE  IInv'
<1>1. /\ local = Allocator(local)
      /\ pc \in {"idle", "small", "overflow"} => ~collecting
      /\ ~collecting => local.block \notin Listed
  BY DEF IInv, ShapeInv, ControlInv, OwnerInv
<1>2. ASSUME NEW size \in SIZES, Malloc(size)
      PROVE  IInv'
  <2>1. /\ UNCHANGED <<heap, local, allocated, collecting, caller, status>>
        /\ pc = "idle" /\ pc' = "small" /\ status = "running"
    BY <1>2 DEF Malloc, Running
  <2>2. Continues(pc')
    BY <1>1, <2>1 DEF Continues
  <2> QED  BY <2>1, <2>2, Still DEF heap
<1>3. CASE BumpAllocate
  <2>1. pc = "small" /\ status = "running"
    BY <1>3 DEF BumpAllocate, Running
  <2>2. CASE Block_contains(local.block, local.cursor)
    <3>1. /\ PlaceObject(local.block, local.cursor, local.limit)
          /\ local' = [local EXCEPT !.cursor = local.cursor + request]
      BY <1>3, <2>2 DEF BumpAllocate
    <3>2. /\ local' = Allocator(local')
          /\ local'.block = local.block /\ local'.overflow_block = local.overflow_block
      BY <1>1, <3>1 DEF Allocator
    <3> QED  BY <2>1, <3>1, <3>2, AllocateStep
  <2>3. CASE ~Block_contains(local.block, local.cursor)
    <3>1. Stop("assertion failed")
      BY <1>3, <2>3 DEF BumpAllocate
    <3>2. /\ UNCHANGED <<heap, local, allocated, collecting, caller, pc>>
          /\ status' # "aborted"
      BY <3>1 DEF Stop, control
    <3>3. Continues(pc')
      BY <1>1, <2>1, <3>2 DEF Continues
    <3> QED  BY <2>1, <3>2, <3>3, Still DEF heap
  <2> QED  BY <2>2, <2>3
<1>4. CASE OverflowAllocate
  <2>1. pc = "overflow" /\ status = "running"
    BY <1>4 DEF OverflowAllocate, Running
  <2>2. CASE Block_contains(local.overflow_block, local.overflow_cursor)
    <3>1. /\ PlaceObject(local.overflow_block, local.overflow_cursor,
                          local.overflow_limit)
          /\ local' = [local EXCEPT !.overflow_cursor = local.overflow_cursor + request]
      BY <1>4, <2>2 DEF OverflowAllocate
    <3>2. /\ local' = Allocator(local')
          /\ local'.block = local.block /\ local'.overflow_block = local.overflow_block
      BY <1>1, <3>1 DEF Allocator
    <3> QED  BY <2>1, <3>1, <3>2, AllocateStep
  <2>3. CASE ~Block_contains(local.overflow_block, local.overflow_cursor)
    <3>1. Stop("assertion failed")
      BY <1>4, <2>3 DEF OverflowAllocate
    <3>2. /\ UNCHANGED <<heap, local, allocated, collecting, caller, pc>>
          /\ status' # "aborted"
      BY <3>1 DEF Stop, control
    <3>3. Continues(pc')
      BY <1>1, <2>1, <3>2 DEF Continues
    <3> QED  BY <2>1, <3>2, <3>3, Still DEF heap
  <2> QED  BY <2>2, <2>3
<1>5. CASE ChooseOverflow \/ BlockExhausted \/ OverflowExhausted
  <2>1. /\ UNCHANGED <<heap, local, allocated, collecting, caller, status>>
        /\ pc \in {"small", "overflow"} /\ status = "running"
        /\ pc' \in {"overflow", "nextBlock", "nextFree"}
    BY <1>5 DEF ChooseOverflow, BlockExhausted, OverflowExhausted, Running, Goto
  <2>2. Continues(pc')
    BY <1>1, <2>1 DEF Continues
  <2> QED  BY <2>1, <2>2, Still DEF heap
<1>6. CASE FindNextHole
  <2>1. pc = "small" /\ status = "running"
    BY <1>6 DEF FindNextHole, Running
  <2>2. /\ UNCHANGED <<heap, allocated, collecting, caller, pc>>
        /\ status' # "aborted"
    BY <1>6, <2>1 DEF FindNextHole, Stop, control
  <2>3. Continues(pc')
    BY <1>1, <2>1, <2>2 DEF Continues
  <2>4. CASE local' = local
    BY <2>1, <2>2, <2>3, <2>4, Still DEF heap
  <2>5. CASE local' = [local EXCEPT !.cursor = local.next,
                                    !.limit = hole[local.next].limit,
                                    !.next = hole[local.next].next]
    <3>1. /\ local' = Allocator(local')
          /\ local'.block = local.block /\ local'.overflow_block = local.overflow_block
      BY <1>1, <2>5 DEF Allocator
    <3>2. Divisor => DueInv'
      BY <1>1, <2>1, <2>2 DEF DueInv
    <3> QED  BY <2>2, <2>3, <3>1, <3>2, Quiet DEF heap
  <2> QED  BY <1>6, <2>4, <2>5 DEF FindNextHole, Stop
<1> QED  BY <1>2, <1>3, <1>4, <1>5, <1>6
-----------------------------------------------------------------------------
(* Steps that take a block from a list *)

\* A list that loses its first block.
LEMMA TakenInv ==
    ASSUME ListsInv, HeapInv,
           UNCHANGED <<heap_stop, block_header>>,
           \/ /\ free_list # <<>> /\ free_list' = Tail(free_list)
              /\ UNCHANGED recyclable_list
           \/ /\ recyclable_list # <<>> /\ recyclable_list' = Tail(recyclable_list)
              /\ UNCHANGED free_list
    PROVE  /\ ListsInv' /\ MappedBlocks' = MappedBlocks
           /\ Listed' \subseteq Listed
           /\ UNCHANGED recyclable_list => Head(free_list) \in Listed \ Listed'
           /\ UNCHANGED free_list => Head(recyclable_list) \in Listed \ Listed'
<1>1. MappedBlocks' = MappedBlocks
  BY DEF MappedBlocks
<1>2. CASE /\ free_list # <<>> /\ free_list' = Tail(free_list)
           /\ UNCHANGED recyclable_list
  <2>1. /\ free_list' \in Seq(MappedBlocks) /\ IsInjective(free_list')
        /\ Head(free_list) \in Range(free_list)
        /\ Range(free_list') = Range(free_list) \ {Head(free_list)}
    BY <1>2, Taken DEF ListsInv
  <2>2. Tail(free_list) # free_list
    BY <2>1, <1>2
  <2> QED  BY <1>1, <1>2, <2>1, <2>2 DEF ListsInv, Listed
<1>3. CASE /\ recyclable_list # <<>> /\ recyclable_list' = Tail(recyclable_list)
           /\ UNCHANGED free_list
  <2>1. /\ recyclable_list' \in Seq(MappedBlocks) /\ IsInjective(recyclable_list')
        /\ Head(recyclable_list) \in Range(recyclable_list)
        /\ Range(recyclable_list') = Range(recyclable_list) \ {Head(recyclable_list)}
    BY <1>3, Taken DEF ListsInv
  <2>2. Tail(recyclable_list) # recyclable_list
    BY <2>1, <1>3
  <2> QED  BY <1>1, <1>3, <2>1, <2>2 DEF ListsInv, Listed
<1> QED  BY <1>2, <1>3

\* initCursor with the block it was given.
LEMMA CursorStep ==
    ASSUME IInv, NEW b \in MappedBlocks, InitCursor(b),
           block_header[b].flag \in {"free", "recyclable"},
           b \in Listed, b \notin Listed', Listed' \subseteq Listed,
           ListsInv', MappedBlocks' = MappedBlocks,
           pc \in {"nextBlock", "retryBlock", "growBlock"}, status = "running"
    PROVE  IInv'
<1>1. /\ UNCHANGED <<heap_stop, block_header, allocated, collecting, caller, status>>
      /\ pc' = IF collecting THEN "nextFree" ELSE "small"
      /\ InitFreeCursor(b) \/ InitHoleCursor(b)
  BY DEF InitCursor, Goto
<1>2. /\ local' = Allocator(local')
      /\ local'.block = b /\ local'.overflow_block = local.overflow_block
  <2>1. local = Allocator(local)
    BY DEF IInv, ShapeInv
  <2>2. CASE InitFreeCursor(b)
    BY <2>1, <2>2 DEF InitFreeCursor, Allocator
  <2>3. CASE InitHoleCursor(b)
    <3>1. PICK c, l, n : local' = [local EXCEPT !.block = b, !.cursor = c,
                                                 !.limit = l, !.next = n]
      BY <2>3 DEF InitHoleCursor
    <3> QED  BY <2>1, <3>1 DEF Allocator
  <2> QED  BY <1>1, <2>2, <2>3
<1>3. ShapeInv'
  BY <1>1, <1>2 DEF IInv, ShapeInv, HeapInv
<1>4. ControlInv'
  BY <1>1 DEF IInv, ControlInv
<1>5. OwnerInv'
  BY <1>1, <1>2 DEF IInv, OwnerInv
<1>6. Divisor => DueInv'
  BY <1>1 DEF IInv, DueInv
<1> QED  BY <1>3, <1>4, <1>5, <1>6 DEF IInv, Divisor

LEMMA TakeSteps ==
    ASSUME IInv, TakeRecyclable \/ TakeFree
    PROVE  IInv'
<1>1. HeapInv /\ ListsInv
  BY DEF IInv, ShapeInv
<1>2. CASE TakeRecyclable
  <2>1. /\ recyclable_list # <<>> /\ recyclable_list' = Tail(recyclable_list)
        /\ UNCHANGED <<free_list, heap_stop, block_header>>
        /\ InitCursor(Head(recyclable_list))
        /\ pc \in {"nextBlock", "retryBlock"} /\ status = "running"
    BY <1>2 DEF TakeRecyclable, InitCursor
  <2>2. /\ Head(recyclable_list) \in MappedBlocks
        /\ Head(recyclable_list) \in Range(recyclable_list)
    BY <1>1, <2>1, Taken DEF ListsInv
  <2>3. block_header[Head(recyclable_list)].flag = "recyclable"
    BY <1>1, <2>2 DEF ListsInv
  <2> QED  BY <1>1, <2>1, <2>2, <2>3, TakenInv, CursorStep
<1>3. CASE TakeFree
  <2>1. /\ free_list # <<>> /\ free_list' = Tail(free_list)
        /\ UNCHANGED <<recyclable_list, heap_stop, block_header>>
        /\ InitCursor(Head(free_list))
        /\ pc \in {"nextBlock", "growBlock"} /\ status = "running"
    BY <1>3 DEF TakeFree, InitCursor
  <2>2. Head(free_list) \in MappedBlocks /\ Head(free_list) \in Range(free_list)
    BY <1>1, <2>1, Taken DEF ListsInv
  <2>3. block_header[Head(free_list)].flag = "free"
    BY <1>1, <2>2 DEF ListsInv
  <2> QED  BY <1>1, <2>1, <2>2, <2>3, TakenInv, CursorStep
<1> QED  BY <1>2, <1>3

LEMMA TakeFreeForOverflowStep ==
    ASSUME IInv, TakeFreeForOverflow
    PROVE  IInv'
<1>1. /\ free_list # <<>> /\ free_list' = Tail(free_list)
      /\ UNCHANGED <<recyclable_list, heap_stop, block_header, allocated, status>>
      /\ pc \in {"nextFree", "growFree"} /\ status = "running"
      /\ IF collecting
         THEN pc' = caller /\ caller' = NULL /\ collecting' = FALSE
         ELSE pc' = "overflow" /\ UNCHANGED <<caller, collecting>>
  BY DEF TakeFreeForOverflow
<1> DEFINE b == Head(free_list)
<1>2. /\ ListsInv' /\ MappedBlocks' = MappedBlocks /\ Listed' \subseteq Listed
      /\ b \in Listed /\ b \notin Listed'
  BY <1>1, TakenInv DEF IInv, ShapeInv
<1>3. b \in MappedBlocks
  BY <1>1, Taken DEF IInv, ListsInv
<1> HIDE DEF b
<1>4. /\ local' = Allocator(local')
      /\ local'.block = local.block /\ local'.overflow_block = b
  <2>1. local' = [local EXCEPT !.overflow_block = b,
                               !.overflow_cursor = Block_start(b),
                               !.overflow_limit = Block_stop(b)]
    BY DEF TakeFreeForOverflow, b
  <2>2. local = Allocator(local)
    BY DEF IInv, ShapeInv
  <2> QED  BY <2>1, <2>2 DEF Allocator
<1>5. local.block \notin Listed
  BY <1>1 DEF IInv, OwnerInv
<1>6. /\ collecting' = FALSE
      /\ collecting => pc' \in {"idle", "retryBlock", "growFree"}
      /\ ~collecting => pc' = "overflow"
  BY <1>1 DEF IInv, ShapeInv, ControlInv
<1>7. ShapeInv'
  BY <1>1, <1>2, <1>3, <1>4, <1>6 DEF IInv, ShapeInv, HeapInv
<1>8. ControlInv'
  BY <1>1, <1>6 DEF IInv, ControlInv
<1>9. OwnerInv'
  BY <1>2, <1>4, <1>5 DEF OwnerInv
<1>10. ASSUME Divisor
       PROVE  DueInv'
  <2>1. CASE ~collecting
    BY <1>6, <2>1 DEF DueInv
  <2>2. CASE collecting
    <3>1. allocated = 0
      BY <1>1, <1>10, <2>2 DEF IInv, DueInv
    <3>2. SmallHeapSize' = SmallHeapSize /\ allocated' = 0
      BY <1>1, <3>1 DEF SmallHeapSize
    <3>3. ~(allocated >= (SmallHeapSize + LARGE_HEAP_SIZE) \div FREE_SPACE_DIVISOR)
      <4>1. HeapInv
        BY DEF IInv, ShapeInv
      <4> QED  BY <1>10, <3>1, <4>1, Threshold
    <3>4. ~CollectionDue'
      BY <1>1, <3>2, <3>3 DEF CollectionDue
    <3> QED  BY <1>6, <3>2, <3>4 DEF DueInv
  <2> QED  BY <2>1, <2>2 DEF IInv, ShapeInv
<1> QED  BY <1>2, <1>7, <1>8, <1>9, <1>10 DEF IInv, Divisor
-----------------------------------------------------------------------------
(* Growth *)

LEMMA GrowStep ==
    ASSUME IInv, Grow
    PROVE  IInv'
<1> DEFINE increment == ROUND_TO_NEXT_MULTIPLE(
                           (SmallHeapSize * GROWTH_RATE) \div 100, BLOCK_SIZE)
           k == increment \div BLOCK_SIZE
           new == [i \in 1 .. k |-> heap_stop + (i - 1) * BLOCK_SIZE]
<1>1. /\ pc \in {"growBlock", "growFree"} /\ status = "running"
      /\ free_list = <<>> /\ GrowSmall
  BY DEF Grow
<1>2. CASE OverLimit(increment)
  <2>1. Stop("out of memory")
    BY <1>1, <1>2 DEF GrowSmall
  <2>2. /\ UNCHANGED <<heap, local, allocated, collecting, caller, pc>>
        /\ status' # "aborted"
    BY <2>1 DEF Stop, control
  <2>3. Continues(pc')
    BY <1>1, <2>2 DEF Continues, IInv, OwnerInv
  <2> QED  BY <1>1, <2>2, <2>3, Still DEF heap
<1>3. CASE ~OverLimit(increment)
  <2>1. /\ heap_stop' = heap_stop + increment
        /\ free_list' = free_list \o new
        /\ UNCHANGED <<block_header, recyclable_list, control, local, allocated, status>>
    BY <1>1, <1>3 DEF GrowSmall
  <2>2. HeapInv /\ ListsInv /\ ShapeInv
    BY DEF IInv, ShapeInv
  <2>3. /\ HeapInv' /\ heap_stop <= heap_stop' /\ k \in Nat
        /\ k = 0 => heap_stop' = heap_stop
        /\ \A i \in 1 .. k : LET b == heap_stop + (i - 1) * BLOCK_SIZE
                            IN b \in Blocks /\ heap_stop <= b /\ b < heap_stop'
        /\ \A i, j \in 1 .. k :
              heap_stop + (i - 1) * BLOCK_SIZE = heap_stop + (j - 1) * BLOCK_SIZE
                 => i = j
    BY <1>3, <2>1, <2>2, Growth
  <2> HIDE DEF increment, k
  <2>4. heap_stop \in Nat /\ heap_stop' \in Nat
        /\ \A b \in MappedBlocks : b \in Nat
    <3>1. heap_stop \in Nat /\ \A b \in MappedBlocks : b \in Nat
      BY <2>2, Mapped
    <3>2. \A n \in 2 .. MAX_BLOCKS : n * BLOCK_SIZE \in Nat
      <4>1. MAX_BLOCKS \in Nat
        BY SmallHeapAssumption
      <4>2. \A n \in 2 .. MAX_BLOCKS : n \in Nat
        BY <4>1
      <4> QED  BY <4>2, Multiples
    <3> QED  BY <2>3, <3>1, <3>2 DEF HeapInv
  <2>5. MappedBlocks \subseteq MappedBlocks' /\ MappedBlocks' \subseteq Blocks
    BY <2>3, <2>4 DEF MappedBlocks
  <2>6. /\ new \in Seq(MappedBlocks') /\ IsInjective(new)
        /\ \A b \in Range(new) : b \in MappedBlocks' /\ b \notin MappedBlocks
    <3>1. \A i \in 1 .. k : new[i] \in MappedBlocks' /\ new[i] \notin MappedBlocks
      BY <2>3, <2>4 DEF MappedBlocks
    <3>2. new \in Seq(MappedBlocks') /\ DOMAIN new = 1 .. k
      BY <2>3, <3>1
    <3> QED  BY <2>3, <3>1, <3>2 DEF IsInjective, Range
  <2>7. free_list' = new
    BY <1>1, <2>1, <2>6, ConcatEmptySeq
  <2>8. ListsInv'
    <3>1. recyclable_list' \in Seq(MappedBlocks')
      <4>1. recyclable_list \in Seq(MappedBlocks)
        BY <2>2 DEF ListsInv
      <4> QED  BY <2>1, <2>5, <4>1
    <3>2. \A b \in Range(recyclable_list) : b \in MappedBlocks
      BY <2>2 DEF ListsInv, Range
    <3>3. \A b \in Range(new) : block_header[b].flag = "free"
      BY <2>2, <2>5, <2>6 DEF ListsInv
    <3>4. \A b \in Blocks \ MappedBlocks' : block_header[b].flag = "free"
      BY <2>2, <2>5 DEF ListsInv
    <3> HIDE DEF new
    <3> QED  BY <2>1, <2>2, <2>6, <2>7, <3>1, <3>2, <3>3, <3>4 DEF ListsInv
  <2> HIDE DEF new
  <2>9. ShapeInv'
    BY <2>1, <2>2, <2>3, <2>5 DEF ShapeInv, control
  <2>10. ControlInv'
    BY <1>1, <2>1 DEF IInv, ControlInv, control
  <2>11. OwnerInv'
    <3>1. local.block \in MappedBlocks /\ local.overflow_block \in MappedBlocks
      BY <2>2 DEF ShapeInv
    <3>2. Listed' = Range(new) \cup Range(recyclable_list)
      BY <2>1, <2>7 DEF Listed
    <3> QED  BY <2>1, <2>6, <3>1, <3>2 DEF IInv, OwnerInv, Listed, control
  <2>12. ASSUME Divisor
         PROVE  DueInv'
    <3>1. /\ ~CollectionDue
          /\ collecting => allocated = 0
      BY <1>1, <2>12 DEF IInv, DueInv
    <3>2. free_list' = <<>> => heap_stop' = heap_stop
      <4>1. new # <<>> \/ k = 0
        BY <2>3 DEF new
      <4> QED  BY <2>3, <2>7, <4>1
    <3>3. free_list' = <<>> => ~CollectionDue'
      BY <2>1, <3>1, <3>2 DEF CollectionDue, SmallHeapSize, control
    <3> QED  BY <1>1, <2>1, <3>1, <3>3 DEF DueInv, control
  <2> QED  BY <2>8, <2>9, <2>10, <2>11, <2>12 DEF IInv, Divisor
<1> QED  BY <1>2, <1>3
-----------------------------------------------------------------------------
(* A collection *)

LEMMA StartStep ==
    ASSUME IInv, NEW then \in {"idle", "retryBlock", "growFree"},
           StartCollection(then), status = "running"
    PROVE  IInv'
<1>1. /\ UNCHANGED <<heap_stop, block_header, free_list, recyclable_list,
                      local, allocated, status>>
      /\ collecting' = TRUE /\ caller' = then /\ pc' = "unmark"
  BY DEF StartCollection, heap
<1>2. MappedBlocks' = MappedBlocks
  BY <1>1 DEF MappedBlocks
<1>3. ShapeInv'
  BY <1>1, <1>2 DEF IInv, ShapeInv, HeapInv
<1>4. ListsInv'
  BY <1>1, <1>2 DEF IInv, ListsInv
<1>5. ControlInv' /\ OwnerInv' /\ DueInv'
  BY <1>1 DEF ControlInv, OwnerInv, DueInv
<1> QED  BY <1>3, <1>4, <1>5 DEF IInv, Divisor

LEMMA RequestSteps ==
    ASSUME IInv, NoBlock \/ NoFreeBlock \/ NothingRecycled \/ Collect
    PROVE  IInv'
<1>1. CASE NoBlock
  <2>1. pc = "nextBlock" /\ status = "running"
    BY <1>1 DEF NoBlock, Running
  <2>2. CASE CollectionDue
    BY <1>1, <2>1, <2>2, StartStep DEF NoBlock
  <2>3. CASE ~CollectionDue
    <3>1. /\ UNCHANGED <<heap, local, allocated, collecting, caller, status>>
          /\ pc' = "growBlock"
      BY <1>1, <2>3 DEF NoBlock, Goto
    <3> QED  BY <2>1, <2>3, <3>1, Still DEF Continues, heap
  <2> QED  BY <2>2, <2>3
<1>2. CASE NoFreeBlock
  <2>1. pc = "nextFree" /\ status = "running"
    BY <1>2 DEF NoFreeBlock, Running
  <2>2. CASE CollectionDue
    BY <1>2, <2>1, <2>2, StartStep DEF NoFreeBlock
  <2>3. CASE ~CollectionDue
    <3>1. /\ UNCHANGED <<heap, local, allocated, collecting, caller, status>>
          /\ pc' = "growFree"
      BY <1>2, <2>3 DEF NoFreeBlock, Goto
    <3>2. Continues(pc')
      BY <2>1, <3>1 DEF Continues, IInv, OwnerInv
    <3> QED  BY <2>1, <2>3, <3>1, <3>2, Still DEF heap
  <2> QED  BY <2>2, <2>3
<1>3. CASE NothingRecycled
  <2>1. /\ pc = "retryBlock" /\ status = "running"
        /\ UNCHANGED <<heap, local, allocated, collecting, caller, status>>
        /\ pc' = "growBlock"
    BY <1>3 DEF NothingRecycled, Running, Goto
  <2>2. ASSUME Divisor
        PROVE  ~CollectionDue
    <3>1. HeapInv /\ allocated = 0
      BY <2>1, <2>2 DEF IInv, ShapeInv, DueInv
    <3> QED  BY <2>2, <3>1, Threshold DEF CollectionDue
  <2>3. Continues(pc')
    BY <2>1 DEF Continues
  <2> QED  BY <2>1, <2>2, <2>3, Still DEF heap
<1>4. CASE Collect
  BY <1>4, StartStep DEF Collect, Running
<1> QED  BY <1>1, <1>2, <1>3, <1>4

\* Marking and unmarking leave the flags.
LEMMA RemarkedInv ==
    ASSUME IInv, UNCHANGED <<heap_stop, local, collecting>>,
           block_header' = [b \in Blocks |-> block_header'[b]],
           \A b \in Blocks : \/ block_header'[b] = block_header[b]
                             \/ \E m \in BOOLEAN :
                                   block_header'[b] = [block_header[b] EXCEPT !.marked = m],
           \/ UNCHANGED <<free_list, recyclable_list>>
           \/ free_list' = <<>> /\ recyclable_list' = <<>>
    PROVE  ShapeInv' /\ ListsInv' /\ MappedBlocks' = MappedBlocks
<1>1. MappedBlocks' = MappedBlocks
  BY DEF MappedBlocks
<1>2. /\ block_header' = [b \in Blocks |-> Header(block_header'[b])]
      /\ \A b \in Blocks : block_header'[b].flag = block_header[b].flag
  BY Remarked DEF IInv
<1>3. ShapeInv'
  BY <1>1, <1>2 DEF IInv, ShapeInv, HeapInv
<1>4. CASE UNCHANGED <<free_list, recyclable_list>>
  <2>1. \A b \in Range(free_list) \cup Range(recyclable_list) : b \in Blocks
    BY DEF IInv, ListsInv, Range, MappedBlocks
  <2>2. ListsInv'
    BY <1>1, <1>2, <1>4, <2>1 DEF IInv, ListsInv
  <2> QED  BY <1>1, <1>3, <2>2
<1>5. CASE free_list' = <<>> /\ recyclable_list' = <<>>
  <2>1. <<>> \in Seq(MappedBlocks') /\ IsInjective(<<>>) /\ Range(<<>>) = {}
    BY DEF IsInjective, Range
  <2>2. ListsInv'
    BY <1>1, <1>2, <1>5, <2>1 DEF IInv, ListsInv
  <2> QED  BY <1>1, <1>3, <2>2
<1> QED  BY <1>4, <1>5

LEMMA UnmarkStep ==
    ASSUME IInv, Unmark
    PROVE  IInv'
<1>1. /\ pc = "unmark" /\ pc' = "mark" /\ status = "running"
      /\ UNCHANGED <<heap_stop, free_list, recyclable_list, local, allocated,
                      collecting, caller, status>>
      /\ block_header' = [b \in Blocks |->
                             IF b \in MappedBlocks
                             THEN [block_header[b] EXCEPT !.marked = FALSE]
                             ELSE block_header[b]]
  BY DEF Unmark, Running, Goto
<1>2. collecting /\ caller \in {"idle", "retryBlock", "growFree"}
  BY <1>1 DEF IInv, ControlInv
<1>3. ShapeInv' /\ ListsInv'
  BY <1>1, RemarkedInv
<1>4. ControlInv' /\ OwnerInv' /\ DueInv'
  BY <1>1, <1>2 DEF ControlInv, OwnerInv, DueInv
<1> QED  BY <1>3, <1>4 DEF IInv, Divisor

LEMMA MarkStep ==
    ASSUME IInv, Mark
    PROVE  IInv'
<1>1. /\ pc = "mark" /\ pc' = "sweep" /\ status = "running"
      /\ UNCHANGED <<heap_stop, local, collecting, caller, status>>
      /\ allocated' = 0 /\ sweeping' = 0
      /\ free_list' = <<>> /\ recyclable_list' = <<>>
      /\ \E objects : MarkObjects(objects)
  BY DEF Mark, Running, ClearLists
<1>2. collecting /\ caller \in {"idle", "retryBlock", "growFree"}
  BY <1>1 DEF IInv, ControlInv
<1>3. PICK objects : MarkObjects(objects)
  BY <1>1
<1>4. block_header' = [b \in Blocks |->
                         IF \E a \in objects \ marked : Block_from(a) = b
                         THEN [block_header[b] EXCEPT !.marked = TRUE]
                         ELSE block_header[b]]
  BY <1>3 DEF MarkObjects
<1>5. ShapeInv' /\ ListsInv' /\ MappedBlocks' = MappedBlocks
  BY <1>1, <1>4, RemarkedInv
<1>6. 0 \in MappedBlocks
  BY Mapped DEF IInv, ShapeInv
<1>7. Listed' = {}
  BY <1>1 DEF Listed, Range
<1>8. ControlInv' /\ OwnerInv' /\ DueInv'
  BY <1>1, <1>2, <1>5, <1>6, <1>7 DEF ControlInv, OwnerInv, DueInv
<1> QED  BY <1>5, <1>8 DEF IInv, Divisor
-----------------------------------------------------------------------------
(* The sweep *)

\* The block that is swept was in no list, and joins one or none.
LEMMA SweptInv ==
    ASSUME ShapeInv, ListsInv, NEW b \in MappedBlocks, b \notin Listed,
           UNCHANGED <<heap_stop, local, collecting>>,
           FreeBlock(b) \/ RecycleBlock(b)
    PROVE  /\ ShapeInv' /\ ListsInv' /\ MappedBlocks' = MappedBlocks
           /\ Listed' \subseteq Listed \cup {b}
<1>1. MappedBlocks' = MappedBlocks /\ b \in Blocks
  BY DEF MappedBlocks
<1>2. \A c \in Range(free_list) \cup Range(recyclable_list) : c \in Blocks /\ c # b
  BY DEF ListsInv, Range, MappedBlocks, Listed
<1>3. b \notin Range(free_list) /\ b \notin Range(recyclable_list)
  BY DEF Listed
<1>4. ASSUME NEW f, block_header' = [c \in Blocks |-> Header(block_header'[c])],
             block_header'[b].flag = f,
             \A c \in Blocks : c # b => block_header'[c].flag = block_header[c].flag,
             \/ f = "free" /\ free_list' = Append(free_list, b)
                /\ UNCHANGED recyclable_list
             \/ f = "recyclable" /\ recyclable_list' = Append(recyclable_list, b)
                /\ UNCHANGED free_list
             \/ UNCHANGED <<free_list, recyclable_list>>
      PROVE  /\ ShapeInv' /\ ListsInv'
             /\ Listed' \subseteq Listed \cup {b}
  <2>1. ShapeInv'
    BY <1>1, <1>4 DEF ShapeInv, HeapInv
  <2>2. CASE f = "free" /\ free_list' = Append(free_list, b)
             /\ UNCHANGED recyclable_list
    <3>1. /\ free_list' \in Seq(MappedBlocks) /\ IsInjective(free_list')
          /\ Range(free_list') = Range(free_list) \cup {b}
      BY <1>3, <2>2, Appended DEF ListsInv
    <3>2. ListsInv'
      BY <1>1, <1>2, <1>4, <2>2, <3>1 DEF ListsInv
    <3> QED  BY <2>1, <2>2, <3>1, <3>2 DEF Listed
  <2>3. CASE f = "recyclable" /\ recyclable_list' = Append(recyclable_list, b)
             /\ UNCHANGED free_list
    <3>1. /\ recyclable_list' \in Seq(MappedBlocks) /\ IsInjective(recyclable_list')
          /\ Range(recyclable_list') = Range(recyclable_list) \cup {b}
      BY <1>3, <2>3, Appended DEF ListsInv
    <3>2. ListsInv'
      BY <1>1, <1>2, <1>4, <2>3, <3>1 DEF ListsInv
    <3> QED  BY <2>1, <2>3, <3>1, <3>2 DEF Listed
  <2>4. CASE UNCHANGED <<free_list, recyclable_list>>
    <3>1. ListsInv'
      BY <1>1, <1>2, <1>4, <2>4 DEF ListsInv
    <3> QED  BY <2>1, <2>4, <3>1 DEF Listed
  <2> QED  BY <1>4, <2>2, <2>3, <2>4
<1>5. CASE FreeBlock(b)
  <2>1. /\ block_header' = [block_header EXCEPT ![b] = NEW_BLOCK]
        /\ free_list' = Append(free_list, b) /\ UNCHANGED recyclable_list
    BY <1>5 DEF FreeBlock
  <2>2. /\ block_header' = [c \in Blocks |-> Header(block_header'[c])]
        /\ block_header'[b].flag = "free"
        /\ \A c \in Blocks : c # b => block_header'[c].flag = block_header[c].flag
    BY <1>1, <2>1, Flagged
  <2> QED  BY <1>1, <1>4, <2>1, <2>2
<1>6. CASE RecycleBlock(b)
  <2> DEFINE starts == HoleStarts(MarkedLinesOf(b))
  <2>1. /\ block_header' =
              IF starts = {}
              THEN [block_header EXCEPT ![b].flag = "unavailable"]
              ELSE [block_header EXCEPT ![b].flag = "recyclable",
                                        ![b].first_free_line = Least(starts)]
        /\ ListRecyclable(b, starts)
        /\ UNCHANGED free_list
    BY <1>6 DEF RecycleBlock
  <2> HIDE DEF starts
  <2>2. CASE starts = {}
    <3>1. /\ block_header' = [c \in Blocks |-> Header(block_header'[c])]
          /\ block_header'[b].flag = "unavailable"
          /\ \A c \in Blocks : c # b => block_header'[c].flag = block_header[c].flag
      BY <1>1, <2>1, <2>2, Flagged
    <3>2. UNCHANGED <<free_list, recyclable_list>>
      BY <2>1, <2>2 DEF ListRecyclable
    <3> QED  BY <1>1, <1>4, <3>1, <3>2
  <2>3. CASE starts # {}
    <3>1. /\ block_header' = [c \in Blocks |-> Header(block_header'[c])]
          /\ block_header'[b].flag = "recyclable"
          /\ \A c \in Blocks : c # b => block_header'[c].flag = block_header[c].flag
      BY <1>1, <2>1, <2>3, Flagged
    <3>2. recyclable_list' = Append(recyclable_list, b) /\ UNCHANGED free_list
      BY <2>1, <2>3 DEF ListRecyclable
    <3> QED  BY <1>1, <1>4, <3>1, <3>2
  <2> QED  BY <2>2, <2>3
<1> QED  BY <1>5, <1>6

LEMMA SweepStep ==
    ASSUME IInv, Sweep
    PROVE  IInv'
<1>1. /\ pc = "sweep" /\ status = "running"
      /\ FreeBlock(sweeping) \/ RecycleBlock(sweeping)
      /\ \/ /\ sweeping + BLOCK_SIZE < heap_stop
            /\ sweeping' = sweeping + BLOCK_SIZE /\ pc' = "sweep"
         \/ pc' = "nextBlock"
      /\ UNCHANGED <<heap_stop, local, collecting, caller, allocated, status>>
  BY DEF Sweep, Running
<1>2. /\ ShapeInv /\ ListsInv /\ HeapInv
      /\ sweeping \in MappedBlocks
      /\ \A b \in Listed : b < sweeping
      /\ collecting /\ caller \in {"idle", "retryBlock", "growFree"}
  BY <1>1 DEF IInv, ShapeInv, ControlInv
<1>3. /\ sweeping \in Nat /\ BLOCK_SIZE \in Nat \ {0} /\ heap_stop \in Nat
      /\ \A b \in Listed : b \in Nat
  <2>1. Listed \subseteq MappedBlocks
    BY <1>2 DEF ListsInv, Listed, Range
  <2> QED  BY <1>2, <2>1, Mapped, BlockSize
<1>4. sweeping \notin Listed
  BY <1>2, <1>3
<1>5. /\ ShapeInv' /\ ListsInv' /\ MappedBlocks' = MappedBlocks
      /\ Listed' \subseteq Listed \cup {sweeping}
  BY <1>1, <1>2, <1>4, SweptInv
<1>6. ControlInv'
  <2>1. CASE /\ sweeping + BLOCK_SIZE < heap_stop
             /\ sweeping' = sweeping + BLOCK_SIZE /\ pc' = "sweep"
    <3>1. sweeping' \in MappedBlocks'
      BY <1>2, <1>5, <2>1, Mapped
    <3>2. \A b \in Listed' : b < sweeping'
      BY <1>2, <1>3, <1>5, <2>1
    <3> QED  BY <1>1, <1>2, <2>1, <3>1, <3>2 DEF ControlInv
  <2>2. CASE pc' = "nextBlock"
    BY <1>1, <1>2, <2>2 DEF ControlInv
  <2> QED  BY <1>1, <2>1, <2>2
<1>7. OwnerInv'
  BY <1>1, <1>2 DEF OwnerInv
<1>8. Divisor => DueInv'
  BY <1>1, <1>2 DEF IInv, DueInv
<1> QED  BY <1>5, <1>6, <1>7, <1>8 DEF IInv, Divisor
-----------------------------------------------------------------------------
(* The invariant holds from the start, and every step keeps it *)

LEMMA InitInvariant == Init => IInv
<1> SUFFICES ASSUME Init PROVE IInv
  OBVIOUS
<1> DEFINE k == INITIAL_BLOCKS - 2
           s == [i \in 1 .. k |-> (i + 1) * BLOCK_SIZE]
<1>1. /\ heap_stop = INITIAL_BLOCKS * BLOCK_SIZE
      /\ block_header = [b \in Blocks |-> NEW_BLOCK]
      /\ free_list = s /\ recyclable_list = <<>>
      /\ \E next \in UNINIT_NEXT :
            local = [block |-> 0, cursor |-> Block_start(0),
                     limit |-> Block_stop(0), next |-> next,
                     overflow_block |-> BLOCK_SIZE,
                     overflow_cursor |-> Block_start(BLOCK_SIZE),
                     overflow_limit |-> Block_stop(BLOCK_SIZE)]
      /\ allocated = 0 /\ collecting = FALSE /\ pc = "idle" /\ status = "running"
  BY DEF Init
<1>2. /\ INITIAL_BLOCKS \in Nat /\ 2 <= INITIAL_BLOCKS
      /\ MAX_BLOCKS \in Nat /\ INITIAL_BLOCKS <= MAX_BLOCKS
      /\ k \in Nat /\ k + 2 = INITIAL_BLOCKS
      /\ BLOCK_SIZE \in Nat /\ BLOCK_SIZE > 0
  BY SmallHeapAssumption, BlockSize
<1> HIDE DEF k
<1>3. HeapInv
  <2>1. INITIAL_BLOCKS \in 2 .. MAX_BLOCKS
    BY <1>2
  <2> QED  BY <1>1, <2>1 DEF HeapInv
<1>4. ASSUME NEW i \in 0 .. INITIAL_BLOCKS - 1
      PROVE  i * BLOCK_SIZE \in MappedBlocks
  <2>1. i \in Nat /\ i < INITIAL_BLOCKS /\ i \in 0 .. MAX_BLOCKS - 1
    BY <1>2
  <2>2. i * BLOCK_SIZE <= INITIAL_BLOCKS * BLOCK_SIZE
        /\ i * BLOCK_SIZE # INITIAL_BLOCKS * BLOCK_SIZE
    <3>1. i <= INITIAL_BLOCKS /\ i # INITIAL_BLOCKS
      BY <1>2, <2>1
    <3> QED  BY <1>2, <2>1, <3>1, Multiples
  <2>3. i * BLOCK_SIZE \in Nat /\ INITIAL_BLOCKS * BLOCK_SIZE \in Nat
    BY <1>2, <2>1, Multiples
  <2>4. i * BLOCK_SIZE < heap_stop
    BY <1>1, <2>2, <2>3
  <2> QED  BY <2>1, <2>4 DEF MappedBlocks, Blocks
<1>5. /\ s \in Seq(MappedBlocks) /\ IsInjective(s) /\ DOMAIN s = 1 .. k
      /\ \A b \in Range(s) : b \in MappedBlocks /\ b # 0 /\ b # BLOCK_SIZE
  <2>1. ASSUME NEW i \in 1 .. k
        PROVE  /\ s[i] \in MappedBlocks /\ s[i] # 0 /\ s[i] # BLOCK_SIZE
               /\ \A j \in 1 .. k : s[i] = s[j] => i = j
    <3>1. i + 1 \in 0 .. INITIAL_BLOCKS - 1 /\ i + 1 \in Nat /\ i + 1 # 0 /\ i + 1 # 1
          /\ i \in Nat
      BY <1>2
    <3>2. 0 * BLOCK_SIZE = 0 /\ 1 * BLOCK_SIZE = BLOCK_SIZE
      BY <1>2
    <3>3. s[i] # 0 /\ s[i] # BLOCK_SIZE
      BY <3>1, <3>2, Multiples
    <3>4. ASSUME NEW j \in 1 .. k, s[i] = s[j]
          PROVE  i = j
      <4>1. j \in Nat /\ j + 1 \in Nat
        BY <1>2
      <4>2. i + 1 = j + 1
        BY <3>1, <3>4, <4>1, Multiples
      <4> QED  BY <3>1, <4>1, <4>2
    <3> QED  BY <1>4, <3>1, <3>3, <3>4
  <2>2. s \in [1 .. k -> MappedBlocks]
    BY <2>1
  <2> HIDE DEF s
  <2>3. s \in Seq(MappedBlocks) /\ DOMAIN s = 1 .. k
    BY <1>2, <2>2
  <2> QED  BY <2>1, <2>3 DEF IsInjective, Range
<1> HIDE DEF s
<1>6. block_header = [b \in Blocks |-> Header(block_header[b])]
  BY <1>1, NewBlock
<1>7. /\ local = Allocator(local)
      /\ local.block = 0 /\ local.overflow_block = BLOCK_SIZE
  BY <1>1 DEF Allocator
<1>8. /\ 0 \in MappedBlocks /\ BLOCK_SIZE \in MappedBlocks /\ BLOCK_SIZE # 0
  <2>1. 0 * BLOCK_SIZE = 0 /\ 1 * BLOCK_SIZE = BLOCK_SIZE
        /\ 0 \in 0 .. INITIAL_BLOCKS - 1 /\ 1 \in 0 .. INITIAL_BLOCKS - 1
    BY <1>2
  <2> QED  BY <1>2, <1>4, <2>1
<1>9. ShapeInv
  BY <1>1, <1>3, <1>6, <1>7, <1>8 DEF ShapeInv
<1>10. /\ <<>> \in Seq(MappedBlocks) /\ IsInjective(<<>>) /\ Range(<<>>) = {}
  BY DEF IsInjective, Range
<1>11. \A b \in Blocks : block_header[b].flag = "free"
  BY <1>1, NewBlock
<1>12. ListsInv
  <2>1. \A b \in Range(free_list) : b \in Blocks
    BY <1>1, <1>5 DEF MappedBlocks
  <2> QED  BY <1>1, <1>5, <1>10, <1>11, <2>1 DEF ListsInv
<1>13. ControlInv /\ DueInv
  BY <1>1 DEF ControlInv, DueInv
<1>14. OwnerInv
  BY <1>1, <1>5, <1>7, <1>8, <1>10 DEF OwnerInv, Listed
<1> QED  BY <1>9, <1>12, <1>13, <1>14 DEF IInv

LEMMA NextInvariant == IInv /\ [Next]_vars => IInv'
<1> SUFFICES ASSUME IInv, [Next]_vars
             PROVE  IInv'
  OBVIOUS
<1>1. CASE Next
  BY <1>1, AllocationSteps, TakeSteps, TakeFreeForOverflowStep, GrowStep,
     RequestSteps, UnmarkStep, MarkStep, SweepStep DEF Next, Step
<1>2. CASE UNCHANGED vars
  <2>1. MappedBlocks' = MappedBlocks /\ Listed' = Listed
        /\ CollectionDue' = CollectionDue
    BY <1>2 DEF vars, heap, control, MappedBlocks, Listed, CollectionDue, SmallHeapSize
  <2>2. ShapeInv' /\ ListsInv'
    BY <1>2, <2>1 DEF vars, heap, control, IInv, ShapeInv, HeapInv, ListsInv
  <2>3. ControlInv' /\ OwnerInv' /\ (Divisor => DueInv')
    BY <1>2, <2>1 DEF vars, heap, control, IInv, ControlInv, OwnerInv, DueInv
  <2> QED  BY <2>2, <2>3 DEF IInv, Divisor
<1> QED  BY <1>1, <1>2

LEMMA Invariant == Spec => []IInv
<1> QED  BY InitInvariant, NextInvariant, PTL DEF Spec
-----------------------------------------------------------------------------
(* What follows *)

\* However blocks are swept, reset, taken and mapped, each is in one list at
\* most, once, and neither block of the allocator is in a list while the program
\* runs: no memory is ever handed out twice.
THEOREM OwnedOnce == Spec => []BlockOwnership
<1>1. IInv => BlockOwnership
  <2> SUFFICES ASSUME IInv PROVE BlockOwnership
    OBVIOUS
  <2>1. Listed \subseteq MappedBlocks
    BY DEF IInv, ListsInv, Listed, Range
  <2> QED  BY <2>1 DEF IInv, ListsInv, OwnerInv, BlockOwnership
<1> QED  BY <1>1, Invariant, PTL

\* initCursor never reaches its abort: no block it is given is unavailable.
THEOREM UsableBlocks == Spec => []BlocksUsable
<1>1. IInv => BlocksUsable
  BY DEF IInv, ControlInv, BlocksUsable
<1> QED  BY <1>1, Invariant, PTL

\* growSmall runs only when no free block is left and no collection is due, as
\* long as the divisor does not exceed the words of a block: else a collection
\* is due again as soon as one has ended.
THEOREM GrowthLast ==
    ASSUME Divisor
    PROVE  Spec => GrowsLast
<1>1. IInv /\ [Next]_vars =>
        [heap_stop' # heap_stop => free_list = <<>> /\ ~CollectionDue]_vars
  <2> SUFFICES ASSUME IInv, Next, heap_stop' # heap_stop
               PROVE  free_list = <<>> /\ ~CollectionDue
    BY DEF vars, heap
  <2>1. Grow
    BY DEF Next, Step, Malloc, BumpAllocate, ChooseOverflow, FindNextHole,
           BlockExhausted, OverflowAllocate, OverflowExhausted, PlaceObject,
           TakeRecyclable, TakeFree, InitCursor, NoBlock, NoFreeBlock,
           NothingRecycled, Collect, StartCollection, TakeFreeForOverflow,
           Unmark, Mark, Sweep, Stop, heap
  <2>2. free_list = <<>> /\ pc \in {"growBlock", "growFree"}
    BY <2>1 DEF Grow
  <2> QED  BY <2>2 DEF IInv, DueInv
<1> QED  BY <1>1, Invariant, PTL DEF Spec, GrowsLast
=============================================================================
