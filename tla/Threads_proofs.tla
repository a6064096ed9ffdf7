---------------------------- MODULE Threads_proofs ----------------------------
(***************************************************************************)
(* What Threads promises of the lock, the array of local allocators and    *)
(* the ownership of blocks holds for any number of threads and blocks.     *)
(* The inductive invariant extends the ownership to the block that a       *)
(* thread was given and has not assigned yet, and to the first block of    *)
(* the allocator that is being reset.  It says nothing of ownership after  *)
(* a collection that overlapped a critical section, until the next one,    *)
(* which establishes it again whatever came before.                        *)
(***************************************************************************)
EXTENDS Threads, FiniteSetTheorems, SequenceTheorems, TLAPS

InCall(t) == pc[t] \in {"find", "find again", "unlink", "unlink late", "reset"}

Collects(t) == pc[t] \in {"reset", "reset unlocked"}

\* A collection without the lock has it when it has grown the heap for a reset.
LockInv ==
    /\ \A t \in THREADS : InCall(t) => owner = t
    /\ owner # NULL => \/ InCall(owner) \/ pc[owner] = "aborted"
                       \/ pc[owner] = "reset unlocked" /\ cursor.index <= array_size
    /\ \A t, u \in THREADS : Collects(t) /\ Collects(u) => t = u
    /\ \A t \in THREADS : Collects(t) => collecting
    /\ ~collecting => cursor = [index |-> 1, next |-> "block"]
    /\ \A t \in THREADS : pc[t] = "unlink late" => overlapped

ArrayInv ==
    /\ Len(buffer) > 0
    /\ \A i \in 1 .. array_size : buffer[i] \in THREADS
    /\ \A i, j \in 1 .. array_size : buffer[i] = buffer[j] => i = j
    /\ \A t \in THREADS :
          /\ pc[t] \in {"unborn", "dead", "register"} => t \notin Registered
          /\ pc[t] \in {"running", "reset unlocked"} => t \in Registered

\* Where a thread stands between GC_init_thread and the array, and the block
\* that it found.
CallInv ==
    /\ \A t \in THREADS \ Registered :
          \/ allocator[t]["block"] # NULL
          \/ allocator[t]["overflow"] = NULL /\ request[t] = "block"
    /\ \A t \in THREADS :
          /\ found[t] # NULL =>
                pc[t] \in {"unlink", "unlink late", "assign", "aborted"}
          /\ pc[t] \in {"unlink", "unlink late", "assign"} => found[t] # NULL
          /\ pc[t] \in {"unborn", "dead", "register", "running",
                        "reset unlocked"} => request[t] = "block"
          /\ pc[t] = "unlink" => /\ ListFor(request[t]) # <<>>
                                 /\ found[t] = Head(ListFor(request[t]))

ListsInv ==
    /\ free_list \in Seq(1 .. heap_size) /\ recyclable_list \in Seq(1 .. heap_size)
    /\ IsInjective(free_list) /\ IsInjective(recyclable_list)
    /\ Range(free_list) \cap Range(recyclable_list) = {}

\* The places of a thread that hold a block.
Places == Kinds \cup {"found"}

At(t, p) == IF p = "found" THEN found[t] ELSE allocator[t][p]

Resetting(t) ==
    /\ cursor.next = "overflow" /\ cursor.index \in 1 .. array_size
    /\ buffer[cursor.index] = t

\* Those whose block is the thread's alone.
Claimed(t, p) ==
    /\ t \notin stale /\ At(t, p) # NULL
    /\ IF p = "found" THEN pc[t] = "assign"
       ELSE ~Pending(t) \/ (p = "block" /\ Resetting(t))

ClaimsInv ==
    \A t \in THREADS, p \in Places : Claimed(t, p) =>
        /\ At(t, p) \in 1 .. heap_size /\ At(t, p) \notin Listed
        /\ \A u \in THREADS, q \in Places :
              Claimed(u, q) /\ At(u, q) = At(t, p) => u = t /\ q = p

IInv ==
    /\ TypeOK /\ LockInv /\ ArrayInv /\ CallInv
    /\ ~overlapped => ListsInv /\ ClaimsInv
-----------------------------------------------------------------------------
(* Lists *)

LEMMA Taken ==
    ASSUME NEW S, NEW s \in Seq(S), s # <<>>, IsInjective(s)
    PROVE  /\ Tail(s) \in Seq(S) /\ IsInjective(Tail(s))
           /\ Head(s) \in Range(s) /\ Head(s) \in S
           /\ Range(Tail(s)) = Range(s) \ {Head(s)}
<1> DEFINE t == Tail(s)
           n == Len(s)
<1>1. /\ t \in Seq(S)
      /\ n \in Nat \ {0} /\ DOMAIN s = 1 .. n
      /\ DOMAIN t = 1 .. n - 1
      /\ \A i \in 1 .. n - 1 : t[i] = s[i + 1]
      /\ Head(s) = s[1] /\ s[1] \in S
  OBVIOUS
<1> HIDE DEF t, n
<1>2. /\ \A i \in 1 .. n : i = 1 \/ (i - 1 \in 1 .. n - 1 /\ (i - 1) + 1 = i)
      /\ \A i \in 1 .. n - 1 : i + 1 \in 1 .. n /\ i + 1 # 1
      /\ \A i, j \in 1 .. n - 1 : i + 1 = j + 1 => i = j
  BY <1>1
<1>3. /\ \A x : x \in Range(t) <=> \E i \in 1 .. n - 1 : s[i + 1] = x
      /\ \A x : x \in Range(s) <=> \E i \in 1 .. n : s[i] = x
  BY <1>1 DEF Range
<1>4. \A i, j \in 1 .. n : s[i] = s[j] => i = j
  BY <1>1 DEF IsInjective
<1>5. IsInjective(t)
  <2>1. \A i, j \in 1 .. n - 1 : t[i] = t[j] => i = j
    BY <1>1, <1>2, <1>4
  <2> QED  BY <1>1, <2>1 DEF IsInjective
<1>6. \A x : x \in Range(t) => x \in Range(s) /\ x # s[1]
  <2>1. 1 \in 1 .. n
    BY <1>1
  <2> QED  BY <1>2, <1>3, <1>4, <2>1
<1>7. \A x : x \in Range(s) /\ x # s[1] => x \in Range(t)
  BY <1>2, <1>3
<1>8. s[1] \in Range(s)
  BY <1>1 DEF Range
<1> QED  BY <1>1, <1>5, <1>6, <1>7, <1>8 DEF t

\* The blocks that growSmall maps are new to every list.
LEMMA Extended ==
    ASSUME NEW n \in Nat, NEW c \in Nat, NEW s \in Seq(1 .. n), IsInjective(s)
    PROVE  /\ s \o NewBlocks(n, c) \in Seq(1 .. n + c)
           /\ IsInjective(s \o NewBlocks(n, c))
           /\ Range(s \o NewBlocks(n, c)) = Range(s) \cup (n + 1 .. n + c)
<1> DEFINE new == NewBlocks(n, c)
           t == s \o new
           m == Len(s)
<1>1. new \in Seq(1 .. n + c) /\ Len(new) = c /\ \A i \in 1 .. c : new[i] = n + i
  BY DEF NewBlocks
<1>2. s \in Seq(1 .. n + c)
  BY SeqMonotonic
<1>3. /\ m \in Nat /\ DOMAIN s = 1 .. m
      /\ t \in Seq(1 .. n + c) /\ Len(t) = m + c /\ DOMAIN t = 1 .. m + c
      /\ \A i \in 1 .. m + c : t[i] = IF i <= m THEN s[i] ELSE new[i - m]
      /\ \A i \in 1 .. m : s[i] \in 1 .. n
  <2>1. /\ m \in Nat /\ DOMAIN s = 1 .. m
        /\ \A i \in 1 .. m : s[i] \in 1 .. n
    OBVIOUS
  <2>2. /\ t \in Seq(1 .. n + c) /\ Len(t) = m + c
        /\ \A i \in 1 .. m + c : t[i] = IF i <= m THEN s[i] ELSE new[i - m]
    <3> HIDE DEF new
    <3> QED  BY <1>1, <1>2, ConcatProperties
  <2>3. DOMAIN t = 1 .. m + c
    <3> HIDE DEF t, m, new
    <3> QED  BY <2>2
  <2> QED  BY <2>1, <2>2, <2>3
<1> HIDE DEF t, m, new
<1>4. /\ \A i \in 1 .. m : i \in 1 .. m + c /\ t[i] = s[i]
      /\ \A i \in 1 .. m + c : i > m => t[i] = n + (i - m)
  BY <1>1, <1>3
<1>5. IsInjective(t)
  <2>1. ASSUME NEW i \in 1 .. m + c, NEW j \in 1 .. m + c, t[i] = t[j]
        PROVE  i = j
    <3>1. CASE i <= m /\ j <= m
      BY <1>3, <1>4, <2>1, <3>1 DEF IsInjective
    <3>2. CASE ~(i <= m /\ j <= m)
      BY <1>3, <1>4, <2>1, <3>2
    <3> QED  BY <3>1, <3>2
  <2> QED  BY <1>3, <2>1 DEF IsInjective
<1>6. Range(t) = Range(s) \cup (n + 1 .. n + c)
  <2>1. ASSUME NEW x \in Range(t)
        PROVE  x \in Range(s) \cup (n + 1 .. n + c)
    <3>1. PICK i \in 1 .. m + c : x = t[i]
      BY <1>3 DEF Range
    <3>2. CASE i <= m
      <4>1. i \in DOMAIN s /\ x = s[i]
        BY <1>3, <1>4, <3>1, <3>2
      <4> QED  BY <4>1 DEF Range
    <3>3. CASE i > m
      <4>1. i - m \in 1 .. c /\ t[i] = n + (i - m)
        BY <1>3, <1>4, <3>3
      <4> QED  BY <3>1, <4>1
    <3> QED  BY <1>3, <3>2, <3>3
  <2>2. ASSUME NEW x \in Range(s)
        PROVE  x \in Range(t)
    BY <1>3, <1>4 DEF Range
  <2>3. ASSUME NEW x \in n + 1 .. n + c
        PROVE  x \in Range(t)
    <3>1. m + (x - n) \in 1 .. m + c /\ m + (x - n) > m
      BY <1>3
    <3>2. t[m + (x - n)] = x
      BY <1>3, <1>4, <3>1
    <3> QED  BY <1>3, <3>1, <3>2 DEF Range
  <2> QED  BY <2>1, <2>2, <2>3
<1> QED  BY <1>3, <1>5, <1>6 DEF t, new

LEMMA Enumerated ==
    ASSUME NEW S, IsFiniteSet(S)
    PROVE  /\ SetToSeq(S) \in Seq(S)
           /\ IsInjective(SetToSeq(S))
           /\ Range(SetToSeq(S)) \subseteq S
<1> DEFINE n == Cardinality(S)
           s == SetToSeq(S)
<1>1. n \in Nat /\ \E f \in [1 .. n -> S] : IsInjective(f)
  BY FS_CardinalityType DEF ExistsBijection, Bijection, Injection
<1>2. s \in [1 .. n -> S] /\ IsInjective(s)
  BY <1>1 DEF SetToSeq
<1> QED  BY <1>1, <1>2, SeqDef DEF Range
-----------------------------------------------------------------------------
(* What the operations on lists and on the array do *)

LEMMA HeapSize ==
    ASSUME TypeOK
    PROVE  /\ heap_size \in Nat /\ heap_size <= MAX_BLOCKS
           /\ 1 .. heap_size \subseteq Blocks /\ NULL \notin 1 .. heap_size
<1>1. heap_size \in 1 .. MAX_BLOCKS
  BY DEF TypeOK, Blocks
<1>2. MAX_BLOCKS \in Nat /\ NULL \notin 1 .. MAX_BLOCKS
  BY ThreadsAssumption
<1> QED  BY <1>1, <1>2 DEF Blocks

LEMMA Cursor ==
    ASSUME TypeOK
    PROVE  /\ cursor.index \in Nat \ {0} /\ cursor.next \in Kinds
           /\ array_size \in Nat
<1>1. cursor \in [index : Nat \ {0}, next : Kinds]
  BY DEF TypeOK
<1>2. array_size \in 0 .. Len(buffer)
  BY DEF TypeOK
<1> QED  BY <1>1, <1>2

LEMMA Unlinked ==
    ASSUME TypeOK, ListsInv, NEW which \in Kinds,
           ListFor(which) # <<>>, Unlink(which)
    PROVE  /\ ListsInv' /\ heap_size' = heap_size
           /\ Head(ListFor(which)) \in Listed
           /\ Head(ListFor(which)) \in 1 .. heap_size
           /\ Listed' = Listed \ {Head(ListFor(which))}
<1>1. CASE which = "block" /\ recyclable_list # <<>>
  <2>1. /\ recyclable_list' = Tail(recyclable_list)
        /\ free_list' = free_list /\ heap_size' = heap_size
        /\ ListFor(which) = recyclable_list
    BY <1>1 DEF Unlink, ListFor
  <2>2. /\ recyclable_list' \in Seq(1 .. heap_size) /\ IsInjective(recyclable_list')
        /\ Head(recyclable_list) \in Range(recyclable_list)
        /\ Head(recyclable_list) \in 1 .. heap_size
        /\ Range(recyclable_list') = Range(recyclable_list) \ {Head(recyclable_list)}
    BY <1>1, <2>1, Taken DEF ListsInv
  <2> QED  BY <2>1, <2>2 DEF ListsInv, Listed
<1>2. CASE ~(which = "block" /\ recyclable_list # <<>>)
  <2>1. /\ free_list' = Tail(free_list) /\ free_list # <<>>
        /\ recyclable_list' = recyclable_list /\ heap_size' = heap_size
        /\ ListFor(which) = free_list
    BY <1>2 DEF Unlink, ListFor
  <2>2. /\ free_list' \in Seq(1 .. heap_size) /\ IsInjective(free_list')
        /\ Head(free_list) \in Range(free_list)
        /\ Head(free_list) \in 1 .. heap_size
        /\ Range(free_list') = Range(free_list) \ {Head(free_list)}
    BY <2>1, Taken DEF ListsInv
  <2> QED  BY <2>1, <2>2 DEF ListsInv, Listed
<1> QED  BY <1>1, <1>2

LEMMA UnlinkedType ==
    ASSUME TypeOK, NEW which \in Kinds, ListFor(which) # <<>>, Unlink(which)
    PROVE  /\ heap_size' = heap_size
           /\ free_list' \in Seq(1 .. heap_size')
           /\ recyclable_list' \in Seq(1 .. heap_size')
<1>1. /\ free_list \in Seq(1 .. heap_size) /\ recyclable_list \in Seq(1 .. heap_size)
  BY DEF TypeOK
<1>2. CASE which = "block" /\ recyclable_list # <<>>
  BY <1>1, <1>2, HeadTailProperties DEF Unlink
<1>3. CASE ~(which = "block" /\ recyclable_list # <<>>)
  <2>1. free_list # <<>>
    BY <1>3 DEF ListFor
  <2> QED  BY <1>1, <1>3, <2>1, HeadTailProperties DEF Unlink
<1> QED  BY <1>2, <1>3

LEMMA SeqRange ==
    ASSUME NEW S, NEW s \in Seq(S)
    PROVE  Range(s) \subseteq S
<1>1. DOMAIN s = 1 .. Len(s) /\ \A i \in 1 .. Len(s) : s[i] \in S
  BY LenProperties, ElementOfSeq
<1> QED  BY <1>1 DEF Range

LEMMA Grown ==
    ASSUME TypeOK, ListsInv, GrowSmall
    PROVE  /\ ListsInv' /\ heap_size' \in Blocks
           /\ 1 .. heap_size \subseteq 1 .. heap_size'
           /\ Listed' \cap (1 .. heap_size) \subseteq Listed
<1>1. /\ heap_size' = heap_size + GROWTH /\ heap_size' <= MAX_BLOCKS
      /\ free_list' = free_list \o NewBlocks(heap_size, GROWTH)
      /\ recyclable_list' = recyclable_list
      /\ heap_size \in Nat /\ heap_size >= 1 /\ GROWTH \in Nat
  <2>1. GROWTH \in Nat
    BY ThreadsAssumption
  <2>2. heap_size \in 1 .. MAX_BLOCKS
    BY DEF TypeOK, Blocks
  <2> QED  BY <2>1, <2>2, HeapSize DEF GrowSmall
<1>2. /\ free_list' \in Seq(1 .. heap_size') /\ IsInjective(free_list')
      /\ Range(free_list') = Range(free_list) \cup (heap_size + 1 .. heap_size')
  BY <1>1, Extended DEF ListsInv
<1>3. 1 .. heap_size \subseteq 1 .. heap_size' /\ heap_size' \in Blocks
  BY <1>1, ThreadsAssumption DEF Blocks
<1>4. recyclable_list' \in Seq(1 .. heap_size')
  BY <1>1, <1>3, SeqMonotonic DEF ListsInv
<1>5. /\ (heap_size + 1 .. heap_size') \cap (1 .. heap_size) = {}
      /\ Range(recyclable_list) \subseteq 1 .. heap_size
  <2>1. recyclable_list \in Seq(1 .. heap_size)
    BY DEF ListsInv
  <2>2. Range(recyclable_list) \subseteq 1 .. heap_size
    BY <2>1, SeqRange
  <2> QED  BY <1>1, <2>2
<1> QED  BY <1>1, <1>2, <1>3, <1>4, <1>5 DEF ListsInv, Listed

LEMMA GrownType ==
    ASSUME TypeOK, GrowSmall
    PROVE  /\ heap_size' \in Blocks
           /\ free_list' \in Seq(1 .. heap_size')
           /\ recyclable_list' \in Seq(1 .. heap_size')
<1> DEFINE new == NewBlocks(heap_size, GROWTH)
<1>1. /\ heap_size' = heap_size + GROWTH /\ heap_size' <= MAX_BLOCKS
      /\ free_list' = free_list \o new
      /\ recyclable_list' = recyclable_list
      /\ heap_size \in Nat /\ heap_size >= 1 /\ GROWTH \in Nat
  <2>1. GROWTH \in Nat
    BY ThreadsAssumption
  <2>2. heap_size \in 1 .. MAX_BLOCKS
    BY DEF TypeOK, Blocks
  <2> QED  BY <2>1, <2>2, HeapSize DEF GrowSmall
<1>2. 1 .. heap_size \subseteq 1 .. heap_size' /\ heap_size' \in Blocks
  BY <1>1, ThreadsAssumption DEF Blocks
<1>3. new \in Seq(1 .. heap_size')
  BY <1>1 DEF NewBlocks
<1>4. /\ free_list \in Seq(1 .. heap_size') /\ recyclable_list \in Seq(1 .. heap_size')
  BY <1>2, SeqMonotonic DEF TypeOK
<1> HIDE DEF new
<1>5. free_list \o new \in Seq(1 .. heap_size')
  BY <1>3, <1>4, ConcatProperties
<1> QED  BY <1>1, <1>2, <1>4, <1>5

ArrayOK ==
    /\ buffer \in Seq(THREADS \cup {GARBAGE}) /\ Len(buffer) > 0
    /\ array_size \in 0 .. Len(buffer)
    /\ \A i \in 1 .. array_size : buffer[i] \in THREADS
    /\ \A i, j \in 1 .. array_size : buffer[i] = buffer[j] => i = j

LEMMA Pushed ==
    ASSUME ArrayOK, NEW t \in THREADS \ Registered, Array_push(t)
    PROVE  ArrayOK' /\ Registered' = Registered \cup {t}
<1> DEFINE n == Len(buffer)
           grown == Resized
<1>1. n \in Nat \ {0} /\ array_size \in 0 .. n
  BY DEF ArrayOK
<1>2. /\ grown \in Seq(THREADS \cup {GARBAGE})
      /\ Len(grown) \in Nat /\ array_size + 1 \in 1 .. Len(grown)
      /\ \A i \in 1 .. array_size : grown[i] = buffer[i]
  <2>1. CASE array_size = n
    <3> DEFINE more == Garbage(n)
    <3>1. more \in Seq(THREADS \cup {GARBAGE}) /\ Len(more) = n
      BY <1>1 DEF Garbage
    <3>2. grown = buffer \o more
      BY <2>1 DEF Resized
    <3>3. buffer \in Seq(THREADS \cup {GARBAGE})
      BY DEF ArrayOK
    <3> HIDE DEF more, grown
    <3>4. /\ grown \in Seq(THREADS \cup {GARBAGE}) /\ Len(grown) = n + n
          /\ \A i \in 1 .. n : grown[i] = buffer[i]
      <4>1. /\ buffer \o more \in Seq(THREADS \cup {GARBAGE})
            /\ Len(buffer \o more) = Len(buffer) + Len(more)
            /\ \A i \in 1 .. Len(buffer) + Len(more) :
                  (buffer \o more)[i] = IF i <= Len(buffer) THEN buffer[i]
                                        ELSE more[i - Len(buffer)]
        BY <3>1, <3>3, ConcatProperties
      <4> QED  BY <1>1, <3>1, <3>2, <4>1
    <3> QED  BY <1>1, <2>1, <3>4
  <2>2. CASE array_size # n
    BY <1>1, <2>2 DEF Resized, ArrayOK
  <2> QED  BY <2>1, <2>2
<1>3. buffer' = [grown EXCEPT ![array_size + 1] = t] /\ array_size' = array_size + 1
  BY DEF Array_push
<1> HIDE DEF grown, n
<1>4. /\ buffer' \in Seq(THREADS \cup {GARBAGE}) /\ Len(buffer') = Len(grown)
      /\ buffer'[array_size + 1] = t
      /\ \A i \in 1 .. array_size : buffer'[i] = buffer[i]
  <2>1. /\ buffer' \in Seq(THREADS \cup {GARBAGE}) /\ Len(buffer') = Len(grown)
        /\ \A i \in 1 .. Len(grown) :
              buffer'[i] = IF i = array_size + 1 THEN t ELSE grown[i]
    BY <1>2, <1>3, ExceptSeq
  <2>2. \A i \in 1 .. array_size : i \in 1 .. Len(grown) /\ i # array_size + 1
    BY <1>1, <1>2
  <2> QED  BY <1>2, <2>1, <2>2
<1>5. /\ \A i \in 1 .. array_size + 1 : i \in 1 .. array_size \/ i = array_size + 1
      /\ \A i \in 1 .. array_size : i \in 1 .. array_size + 1
      /\ array_size + 1 \in 1 .. array_size + 1
  BY <1>1
<1>6. \A i \in 1 .. array_size : buffer[i] # t
  BY DEF Registered
<1>7. ArrayOK'
  <2>1. array_size' \in 0 .. Len(buffer') /\ Len(buffer') > 0
    BY <1>1, <1>2, <1>3, <1>4
  <2>2. \A i \in 1 .. array_size' : buffer'[i] \in THREADS
    BY <1>3, <1>4, <1>5 DEF ArrayOK
  <2>3. \A i, j \in 1 .. array_size' : buffer'[i] = buffer'[j] => i = j
    BY <1>3, <1>4, <1>5, <1>6 DEF ArrayOK
  <2> QED  BY <1>4, <2>1, <2>2, <2>3 DEF ArrayOK
<1>8. Registered' = Registered \cup {t}
  BY <1>3, <1>4, <1>5 DEF Registered
<1> QED  BY <1>7, <1>8

LEMMA Deleted ==
    ASSUME ArrayOK, NEW t \in Registered, Array_delete(t)
    PROVE  ArrayOK' /\ Registered' = Registered \ {t}
<1> DEFINE First(i) == buffer[i] = t /\ \A j \in 1 .. i - 1 : buffer[j] # t
           k == CHOOSE i \in 1 .. array_size : First(i)
           n == Len(buffer)
<1>1. n \in Nat \ {0} /\ array_size \in 0 .. n /\ array_size \in Nat
  BY DEF ArrayOK
<1>2. k \in 1 .. array_size /\ buffer[k] = t
  <2>1. PICK i \in 1 .. array_size : buffer[i] = t
    BY DEF Registered
  <2>2. \A j \in 1 .. i - 1 : j \in 1 .. array_size /\ j # i
    BY <1>1
  <2>3. First(i)
    BY <2>1, <2>2 DEF ArrayOK
  <2> QED  BY <2>1, <2>3
<1>3. buffer' = Shifted(k) /\ array_size' = array_size - 1
  BY DEF Array_delete
<1> HIDE DEF First, k, n
<1>4. /\ buffer' \in Seq(THREADS \cup {GARBAGE}) /\ Len(buffer') = n
      /\ \A j \in 1 .. n :
            buffer'[j] = IF j < k THEN buffer[j]
                         ELSE IF j < n THEN buffer[j + 1] ELSE GARBAGE
  <2>1. \A j \in 1 .. n : buffer[j] \in THREADS \cup {GARBAGE}
    BY DEF ArrayOK, n
  <2>2. buffer' = [j \in 1 .. n |-> IF j < k THEN buffer[j]
                                   ELSE IF j < n THEN buffer[j + 1] ELSE GARBAGE]
    BY <1>3 DEF Shifted, n
  <2>3. \A j \in 1 .. n : j < n => j + 1 \in 1 .. n
    BY <1>1
  <2>4. buffer' \in [1 .. n -> THREADS \cup {GARBAGE}]
    BY <2>1, <2>2, <2>3
  <2>5. buffer' \in Seq(THREADS \cup {GARBAGE})
    BY <1>1, <2>4, SeqDef
  <2> QED  BY <1>1, <2>2, <2>4, <2>5
\* Where each entry comes from.
<1>5. \A j \in 1 .. array_size - 1 :
         /\ buffer'[j] = IF j < k THEN buffer[j] ELSE buffer[j + 1]
         /\ j \in 1 .. array_size /\ j + 1 \in 1 .. array_size
  BY <1>1, <1>4
<1>6. \A j \in 1 .. array_size - 1 : buffer'[j] \in THREADS \ {t}
  <2> TAKE j \in 1 .. array_size - 1
  <2>1. CASE j < k
    BY <1>2, <1>5, <2>1 DEF ArrayOK
  <2>2. CASE ~(j < k)
    <3>1. j + 1 # k
      BY <1>1, <1>2, <2>2
    <3> QED  BY <1>2, <1>5, <2>2, <3>1 DEF ArrayOK
  <2> QED  BY <2>1, <2>2
<1>7. \A i, j \in 1 .. array_size - 1 : buffer'[i] = buffer'[j] => i = j
  <2> SUFFICES ASSUME NEW i \in 1 .. array_size - 1, NEW j \in 1 .. array_size - 1,
                      buffer'[i] = buffer'[j]
               PROVE  i = j
    OBVIOUS
  <2> DEFINE a == IF i < k THEN i ELSE i + 1
             b == IF j < k THEN j ELSE j + 1
  <2>1. a \in 1 .. array_size /\ b \in 1 .. array_size /\ buffer[a] = buffer[b]
    BY <1>5
  <2>2. a = b
    BY <2>1 DEF ArrayOK
  <2> QED  BY <1>1, <1>2, <2>2
<1>8. ArrayOK'
  BY <1>1, <1>2, <1>3, <1>4, <1>6, <1>7 DEF ArrayOK
<1>9. ASSUME NEW u \in Registered, u # t
      PROVE  u \in Registered'
  <2>1. PICK i \in 1 .. array_size : buffer[i] = u
    BY <1>9 DEF Registered
  <2>2. CASE i < k
    <3>1. i \in 1 .. array_size - 1
      BY <1>1, <1>2, <2>2
    <3> QED  BY <1>3, <1>5, <2>1, <2>2, <3>1 DEF Registered
  <2>3. CASE i > k
    <3>1. i - 1 \in 1 .. array_size - 1 /\ ~(i - 1 < k) /\ (i - 1) + 1 = i
      BY <1>1, <1>2, <2>3
    <3> QED  BY <1>3, <1>5, <2>1, <3>1 DEF Registered
  <2> QED  BY <1>1, <1>2, <1>9, <2>1, <2>2, <2>3
<1>10. ASSUME NEW u \in Registered'
       PROVE  u \in Registered \ {t}
  <2>1. PICK i \in 1 .. array_size - 1 : buffer'[i] = u
    BY <1>3 DEF Registered
  <2> QED  BY <1>5, <1>6, <2>1 DEF Registered
<1> QED  BY <1>8, <1>9, <1>10
-----------------------------------------------------------------------------
(* How claims change *)

\* No thread gets a block.
LEMMA ClaimsKept ==
    ASSUME ClaimsInv, 1 .. heap_size \subseteq 1 .. heap_size',
           Listed' \cap (1 .. heap_size) \subseteq Listed,
           \A t \in THREADS, p \in Places :
               Claimed(t, p)' => Claimed(t, p) /\ At(t, p)' = At(t, p)
    PROVE  ClaimsInv'
<1> SUFFICES ASSUME NEW t \in THREADS, NEW p \in Places, Claimed(t, p)'
             PROVE  /\ At(t, p)' \in 1 .. heap_size' /\ At(t, p)' \notin Listed'
                    /\ \A u \in THREADS, q \in Places :
                          Claimed(u, q)' /\ At(u, q)' = At(t, p)' => u = t /\ q = p
  BY DEF ClaimsInv
<1>1. /\ Claimed(t, p) /\ At(t, p)' = At(t, p)
      /\ At(t, p) \in 1 .. heap_size /\ At(t, p) \notin Listed
  BY DEF ClaimsInv
<1>2. ASSUME NEW u \in THREADS, NEW q \in Places,
             Claimed(u, q)', At(u, q)' = At(t, p)'
      PROVE  u = t /\ q = p
  <2>1. Claimed(u, q) /\ At(u, q) = At(t, p)
    BY <1>1, <1>2
  <2> QED  BY <1>1, <2>1 DEF ClaimsInv
<1> QED  BY <1>1, <1>2

\* A block is taken from a list for one place of a thread.
LEMMA ClaimsTaken ==
    ASSUME ClaimsInv, NEW v \in THREADS, NEW r \in Places, NEW b \in 1 .. heap_size,
           b \in Listed, Listed' = Listed \ {b}, heap_size' = heap_size,
           Claimed(v, r)' => At(v, r)' = b,
           \A t \in THREADS, p \in Places :
               Claimed(t, p)' /\ ~(t = v /\ p = r) =>
                   Claimed(t, p) /\ At(t, p)' = At(t, p)
    PROVE  ClaimsInv'
<1> SUFFICES ASSUME NEW t \in THREADS, NEW p \in Places, Claimed(t, p)'
             PROVE  /\ At(t, p)' \in 1 .. heap_size' /\ At(t, p)' \notin Listed'
                    /\ \A u \in THREADS, q \in Places :
                          Claimed(u, q)' /\ At(u, q)' = At(t, p)' => u = t /\ q = p
  BY DEF ClaimsInv
<1>1. \A u \in THREADS, q \in Places :
         Claimed(u, q)' =>
            \/ u = v /\ q = r /\ At(u, q)' = b
            \/ /\ ~(u = v /\ q = r) /\ Claimed(u, q) /\ At(u, q)' = At(u, q)
               /\ At(u, q) \in 1 .. heap_size /\ At(u, q) \notin Listed
               /\ At(u, q) # b
  BY DEF ClaimsInv
<1>2. ASSUME NEW u \in THREADS, NEW q \in Places,
             Claimed(u, q)', At(u, q)' = At(t, p)'
      PROVE  u = t /\ q = p
  <2>1. CASE u = v /\ q = r
    BY <1>1, <1>2, <2>1
  <2>2. CASE ~(u = v /\ q = r)
    <3>1. /\ Claimed(u, q) /\ At(u, q)' = At(u, q) /\ At(u, q) # b
      BY <1>1, <1>2, <2>2
    <3>2. ~(t = v /\ p = r) /\ Claimed(t, p) /\ At(t, p)' = At(t, p)
      BY <1>1, <1>2, <3>1
    <3>3. Claimed(u, q) /\ Claimed(t, p) /\ At(u, q) = At(t, p)
      BY <1>2, <3>1, <3>2
    <3> QED  BY <3>3 DEF ClaimsInv
  <2> QED  BY <2>1, <2>2
<1>3. At(t, p)' \in 1 .. heap_size' /\ At(t, p)' \notin Listed'
  BY <1>1
<1> QED  BY <1>2, <1>3

\* A thread goes on without its blocks changing, or the lists.
LEMMA ClaimsUndisturbed ==
    ASSUME ClaimsInv, UNCHANGED <<lists, collecting, array, cursor, allocator, stale>>,
           \A t \in THREADS : pc'[t] = "assign" => pc[t] = "assign" /\ found'[t] = found[t]
    PROVE  ClaimsInv'
<1>1. /\ UNCHANGED <<heap_size, free_list, recyclable_list, collecting, buffer,
                     array_size, cursor, allocator, stale>>
      /\ Listed' = Listed
  BY DEF lists, array, Listed
<1>2. \A t \in THREADS : Pending(t)' = Pending(t) /\ Resetting(t)' = Resetting(t)
  BY <1>1 DEF Pending, Resetting
<1>3. \A t \in THREADS, p \in Places :
         Claimed(t, p)' => Claimed(t, p) /\ At(t, p)' = At(t, p)
  BY <1>1, <1>2 DEF Claimed, At
<1> QED  BY <1>1, <1>3, ClaimsKept
-----------------------------------------------------------------------------
(* Each step keeps the invariant: threads that start, wait and lock *)

LEMMA InitInvariant ==
    ASSUME Init
    PROVE  IInv
<1>1. /\ INITIAL_BLOCKS \in Nat /\ INITIAL_BLOCKS # 0 /\ CAPACITY \in Nat
      /\ CAPACITY # 0 /\ MAX_BLOCKS \in Nat /\ INITIAL_BLOCKS <= MAX_BLOCKS
      /\ NULL \notin THREADS
  BY ThreadsAssumption
<1>2. /\ <<>> \in Seq(1 .. 0) /\ IsInjective(<<>>) /\ Range(<<>>) = {}
      /\ <<>> \in Seq(1 .. INITIAL_BLOCKS)
  BY DEF IsInjective, Range
<1>3. /\ free_list \in Seq(1 .. INITIAL_BLOCKS) /\ IsInjective(free_list)
      /\ recyclable_list \in Seq(1 .. INITIAL_BLOCKS)
      /\ IsInjective(recyclable_list) /\ Range(recyclable_list) = {}
  <2>1. free_list = [i \in 1 .. INITIAL_BLOCKS |-> 0 + i]
    BY DEF Init, NewBlocks
  <2>2. /\ DOMAIN free_list = 1 .. INITIAL_BLOCKS
        /\ \A i \in 1 .. INITIAL_BLOCKS : free_list[i] = i
        /\ free_list \in Seq(1 .. INITIAL_BLOCKS)
    BY <1>1, <2>1
  <2>3. IsInjective(free_list)
    BY <2>2 DEF IsInjective
  <2> QED  BY <1>2, <2>2, <2>3 DEF Init
<1>4. /\ buffer \in Seq(THREADS \cup {GARBAGE}) /\ Len(buffer) = CAPACITY
      /\ array_size = 0
  BY <1>1 DEF Init, Garbage
<1>5. Registered = {}
  BY <1>4 DEF Registered
<1>6. NoBlocks \in [Kinds -> Blocks \cup {NULL}]
      /\ NoBlocks["block"] = NULL /\ NoBlocks["overflow"] = NULL
  BY DEF NoBlocks, Kinds
<1>7. TypeOK
  <2>1. heap_size \in Blocks /\ array_size \in 0 .. Len(buffer)
    BY <1>1, <1>4 DEF Init, Blocks
  <2>2. /\ free_list \in Seq(1 .. heap_size)
        /\ recyclable_list \in Seq(1 .. heap_size)
    BY <1>3 DEF Init
  <2>3. /\ allocator \in [THREADS -> [Kinds -> Blocks \cup {NULL}]]
        /\ cursor \in [index : Nat \ {0}, next : Kinds]
        /\ request \in [THREADS -> Kinds]
    BY <1>6 DEF Init, Kinds
  <2> QED  BY <1>4, <2>1, <2>2, <2>3 DEF Init, TypeOK
<1>8. LockInv
  BY <1>1 DEF Init, LockInv, InCall, Collects
<1>9. ArrayInv
  BY <1>1, <1>4, <1>5 DEF Init, ArrayInv
<1>10. CallInv
  BY <1>6 DEF Init, CallInv
<1>11. ListsInv
  BY <1>3 DEF Init, ListsInv
<1>12. ClaimsInv
  BY <1>6 DEF Init, ClaimsInv, Claimed, At, Places, Kinds
<1> QED  BY <1>7, <1>8, <1>9, <1>10, <1>11, <1>12 DEF IInv

LEMMA StartStep ==
    ASSUME IInv, NEW t \in THREADS, Start(t)
    PROVE  IInv'
<1>1. /\ pc[t] \in {"unborn", "dead"} /\ pc' = [pc EXCEPT ![t] = "lock"]
      /\ UNCHANGED <<owner, heap_size, free_list, recyclable_list, collecting,
                     buffer, array_size, cursor, allocator, request, found, stale, overlapped>>
      /\ UNCHANGED <<lists, array>>
  BY DEF Start, Goto, lists, array, history
<1>2. Registered' = Registered
  BY <1>1 DEF Registered
<1>3. TypeOK'
  BY <1>1 DEF IInv, TypeOK
<1>4. LockInv'
  BY <1>1 DEF IInv, TypeOK, LockInv, InCall, Collects
<1>5. ArrayInv'
  BY <1>1, <1>2 DEF IInv, TypeOK, ArrayInv
<1>6. CallInv'
  BY <1>1, <1>2 DEF IInv, TypeOK, CallInv, ListFor
<1>7. ASSUME ~overlapped'
      PROVE  ListsInv' /\ ClaimsInv'
  <2>1. TypeOK /\ ListsInv /\ ClaimsInv
    BY <1>1, <1>7 DEF IInv
  <2>2. ListsInv'
    BY <1>1, <2>1 DEF ListsInv
  <2>3. ClaimsInv'
    BY <1>1, <2>1, ClaimsUndisturbed DEF TypeOK
  <2> QED  BY <2>2, <2>3
<1> QED  BY <1>3, <1>4, <1>5, <1>6, <1>7 DEF IInv

LEMMA ExhaustStep ==
    ASSUME IInv, NEW t \in THREADS, NEW which \in Kinds, Exhaust(t, which)
    PROVE  IInv'
<1>1. /\ pc[t] = "running" /\ pc' = [pc EXCEPT ![t] = "lock"]
      /\ request' = [request EXCEPT ![t] = which]
      /\ UNCHANGED <<owner, heap_size, free_list, recyclable_list, collecting,
                     buffer, array_size, cursor, allocator, found, stale, overlapped>>
      /\ UNCHANGED <<lists, array>>
  BY DEF Exhaust, Goto, lists, array, history
<1>2. Registered' = Registered /\ t \in Registered
  BY <1>1 DEF Registered, IInv, ArrayInv
<1>3. TypeOK'
  BY <1>1 DEF IInv, TypeOK
<1>4. LockInv'
  BY <1>1 DEF IInv, TypeOK, LockInv, InCall, Collects
<1>5. ArrayInv'
  BY <1>1, <1>2 DEF IInv, TypeOK, ArrayInv
<1>6. CallInv'
  BY <1>1, <1>2 DEF IInv, TypeOK, CallInv, ListFor
<1>7. ASSUME ~overlapped'
      PROVE  ListsInv' /\ ClaimsInv'
  <2>1. TypeOK /\ ListsInv /\ ClaimsInv
    BY <1>1, <1>7 DEF IInv
  <2>2. ListsInv'
    BY <1>1, <2>1 DEF ListsInv
  <2>3. ClaimsInv'
    BY <1>1, <2>1, ClaimsUndisturbed DEF TypeOK
  <2> QED  BY <2>2, <2>3
<1> QED  BY <1>3, <1>4, <1>5, <1>6, <1>7 DEF IInv

LEMMA LockStep ==
    ASSUME IInv, NEW t \in THREADS, Lock(t)
    PROVE  IInv'
<1>1. /\ pc[t] = "lock" /\ pc' = [pc EXCEPT ![t] = "find"]
      /\ owner = NULL /\ owner' = t
      /\ UNCHANGED <<heap_size, free_list, recyclable_list, collecting,
                     buffer, array_size, cursor, allocator, request, found, stale, overlapped>>
      /\ UNCHANGED <<lists, array>>
  BY DEF Lock, Free, Goto, lists, array, history
<1>2. Registered' = Registered /\ NULL \notin THREADS
  BY <1>1, ThreadsAssumption DEF Registered
<1>3. TypeOK'
  BY <1>1 DEF IInv, TypeOK
<1>4. LockInv'
  BY <1>1, <1>2 DEF IInv, TypeOK, LockInv, InCall, Collects
<1>5. ArrayInv'
  BY <1>1, <1>2 DEF IInv, TypeOK, ArrayInv
<1>6. CallInv'
  BY <1>1, <1>2 DEF IInv, TypeOK, CallInv, ListFor
<1>7. ASSUME ~overlapped'
      PROVE  ListsInv' /\ ClaimsInv'
  <2>1. TypeOK /\ ListsInv /\ ClaimsInv
    BY <1>1, <1>7 DEF IInv
  <2>2. ListsInv'
    BY <1>1, <2>1 DEF ListsInv
  <2>3. ClaimsInv'
    BY <1>1, <2>1, ClaimsUndisturbed DEF TypeOK
  <2> QED  BY <2>2, <2>3
<1> QED  BY <1>3, <1>4, <1>5, <1>6, <1>7 DEF IInv
-----------------------------------------------------------------------------
(* The steps under the lock *)

\* GC_lock excludes.
LEMMA Alone ==
    ASSUME IInv, NEW t \in THREADS, InCall(t)
    PROVE  /\ owner = t /\ \A u \in THREADS : InCall(u) => u = t
           /\ \A u \in THREADS : pc[u] = "unlink" => u = t
BY DEF IInv, LockInv, InCall

LEMMA ListHead ==
    ASSUME TypeOK, NEW which \in Kinds, ListFor(which) # <<>>
    PROVE  /\ Head(ListFor(which)) \in 1 .. heap_size
           /\ Head(ListFor(which)) \in Blocks
           /\ Head(ListFor(which)) # NULL
<1>1. Head(ListFor(which)) \in 1 .. heap_size
  <2>1. ListFor(which) \in Seq(1 .. heap_size)
    BY DEF TypeOK, ListFor
  <2> QED  BY <2>1, HeadTailProperties
<1> QED  BY <1>1, HeapSize

LEMMA ShiftStep ==
    ASSUME IInv, NEW t \in THREADS, Shift(t)
    PROVE  IInv'
<1> DEFINE b == Head(ListFor(request[t]))
<1>1. /\ pc[t] \in {"find", "find again"} /\ pc' = [pc EXCEPT ![t] = "unlink"]
      /\ found' = [found EXCEPT ![t] = b] /\ ListFor(request[t]) # <<>>
      /\ UNCHANGED <<owner, heap_size, free_list, recyclable_list, collecting,
                     buffer, array_size, cursor, allocator, request, stale, overlapped>>
      /\ UNCHANGED <<lists, array>>
  BY DEF Shift, Goto, lists, array, history
<1>2. Registered' = Registered /\ owner = t
  BY <1>1, Alone DEF Registered, InCall
<1>3. b \in Blocks /\ b # NULL
  BY <1>1, ListHead DEF IInv, TypeOK
<1>4. TypeOK'
  BY <1>1, <1>3 DEF IInv, TypeOK
<1>5. LockInv'
  BY <1>1, <1>2 DEF IInv, TypeOK, LockInv, InCall, Collects
<1>6. ArrayInv'
  BY <1>1, <1>2 DEF IInv, TypeOK, ArrayInv
<1>7. CallInv'
  BY <1>1, <1>2, <1>3 DEF IInv, TypeOK, CallInv, ListFor
<1>8. ASSUME ~overlapped'
      PROVE  ListsInv' /\ ClaimsInv'
  <2>1. TypeOK /\ ListsInv /\ ClaimsInv
    BY <1>1, <1>8 DEF IInv
  <2>2. ListsInv'
    BY <1>1, <2>1 DEF ListsInv
  <2>3. ClaimsInv'
    BY <1>1, <2>1, ClaimsUndisturbed DEF TypeOK
  <2> QED  BY <2>2, <2>3
<1> QED  BY <1>4, <1>5, <1>6, <1>7, <1>8 DEF IInv

LEMMA ReturnStep ==
    ASSUME IInv, NEW t \in THREADS, Return(t)
    PROVE  IInv'
<1>1. /\ pc[t] = "unlink" /\ pc' = [pc EXCEPT ![t] = "assign"]
      /\ owner' = NULL /\ Unlink(request[t]) /\ ListFor(request[t]) # <<>>
      /\ UNCHANGED <<collecting, buffer, array_size, cursor, allocator, request,
                     found, stale, overlapped>>
  BY DEF Return, Unlock, Goto, array, history
<1>2. /\ Registered' = Registered /\ owner = t
      /\ \A u \in THREADS : InCall(u) => u = t
  BY <1>1, Alone DEF Registered, InCall
<1>3. request[t] \in Kinds /\ found[t] = Head(ListFor(request[t]))
  BY <1>1 DEF IInv, CallInv, TypeOK
<1>4. TypeOK'
  <2>1. /\ heap_size' = heap_size
        /\ free_list' \in Seq(1 .. heap_size')
        /\ recyclable_list' \in Seq(1 .. heap_size')
    BY <1>1, <1>3, UnlinkedType DEF IInv
  <2> QED  BY <1>1, <2>1 DEF IInv, TypeOK
<1>5. LockInv'
  BY <1>1, <1>2 DEF IInv, TypeOK, LockInv, InCall, Collects
<1>6. ArrayInv'
  BY <1>1, <1>2 DEF IInv, TypeOK, ArrayInv
<1>7. CallInv'
  BY <1>1, <1>2 DEF IInv, TypeOK, CallInv, InCall
<1>8. ASSUME ~overlapped'
      PROVE  ListsInv' /\ ClaimsInv'
  <2>1. TypeOK /\ ListsInv /\ ClaimsInv
    BY <1>1, <1>8 DEF IInv
  <2>2. /\ ListsInv' /\ heap_size' = heap_size
        /\ found[t] \in Listed /\ found[t] \in 1 .. heap_size
        /\ Listed' = Listed \ {found[t]}
    BY <1>1, <1>3, <2>1, Unlinked
  <2>3. \A u \in THREADS : Pending(u)' = Pending(u) /\ Resetting(u)' = Resetting(u)
    BY <1>1 DEF Pending, Resetting
  <2>4. \A u \in THREADS, p \in Places :
           Claimed(u, p)' /\ ~(u = t /\ p = "found") =>
               Claimed(u, p) /\ At(u, p)' = At(u, p)
    BY <1>1, <2>1, <2>3 DEF Claimed, At, TypeOK
  <2>5. At(t, "found")' = found[t] /\ "found" \in Places
    BY <1>1 DEF At, Places
  <2>6. ClaimsInv'
    BY <2>1, <2>2, <2>4, <2>5, ClaimsTaken
  <2> QED  BY <2>2, <2>6
<1> QED  BY <1>4, <1>5, <1>6, <1>7, <1>8 DEF IInv

LEMMA SuffixesType ==
    ASSUME NEW S, NEW s \in Seq(S)
    PROVE  Suffixes(s) \subseteq Seq(S)
<1>1. ASSUME NEW l \in 1 .. Len(s)
      PROVE  SubSeq(s, l, Len(s)) \in Seq(S)
  BY <1>1, SubSeqProperties
<1>2. <<>> \in Seq(S)
  OBVIOUS
<1> QED  BY <1>1, <1>2 DEF Suffixes

LEMMA ReturnLateStep ==
    ASSUME IInv, NEW t \in THREADS, ReturnLate(t)
    PROVE  IInv'
<1>1. /\ pc[t] = "unlink late" /\ pc' = [pc EXCEPT ![t] = "assign"]
      /\ owner' = NULL
      /\ UNCHANGED <<heap_size, collecting, buffer, array_size, cursor, allocator,
                     request, found, stale, overlapped>>
  BY DEF ReturnLate, Unlock, Goto, array, history
<1>2. /\ Registered' = Registered /\ owner = t /\ overlapped
      /\ \A u \in THREADS : InCall(u) => u = t
  BY <1>1, Alone DEF Registered, InCall, IInv, LockInv
<1>3. TypeOK'
  <2>1. /\ free_list \in Seq(1 .. heap_size) /\ recyclable_list \in Seq(1 .. heap_size)
    BY DEF IInv, TypeOK
  <2>2. Following(found[t]) \subseteq Seq(1 .. heap_size)
    BY <2>1, SuffixesType DEF Following
  <2>3. /\ free_list' \in Seq(1 .. heap_size) /\ recyclable_list' \in Seq(1 .. heap_size)
    BY <2>1, <2>2 DEF ReturnLate
  <2> QED  BY <1>1, <2>3 DEF IInv, TypeOK
<1>4. LockInv'
  BY <1>1, <1>2 DEF IInv, TypeOK, LockInv, InCall, Collects
<1>5. ArrayInv'
  BY <1>1, <1>2 DEF IInv, TypeOK, ArrayInv
<1>6. CallInv'
  BY <1>1, <1>2 DEF IInv, TypeOK, CallInv, InCall
<1> QED  BY <1>1, <1>2, <1>3, <1>4, <1>5, <1>6 DEF IInv

\* A heap that grows, or cannot.
LEMMA GrowthStep ==
    ASSUME IInv, NEW t \in THREADS, owner \in {t, NULL}, owner' = t,
           \/ InCall(t) /\ pc[t] # "unlink"
           \/ pc[t] = "reset unlocked" /\ cursor.index <= array_size,
           GrowSmall \/ Abort,
           UNCHANGED <<collecting, array, cursor, allocator, request, found,
                       history>>
    PROVE  IInv'
<1>1. /\ UNCHANGED <<buffer, array_size, stale, overlapped>>
      /\ Registered' = Registered
      /\ \A u \in THREADS : Pending(u)' = Pending(u) /\ Resetting(u)' = Resetting(u)
  BY DEF array, history, Registered, Pending, Resetting
<1>2. /\ \A u \in THREADS : InCall(u) => u = t
      /\ \A u \in THREADS : pc[u] # "unlink"
  BY ThreadsAssumption DEF IInv, LockInv, InCall
<1>3. CASE GrowSmall
  <2>1. pc' = pc
    BY <1>3 DEF GrowSmall
  <2>2. TypeOK'
    <3>1. /\ heap_size' \in Blocks
          /\ free_list' \in Seq(1 .. heap_size')
          /\ recyclable_list' \in Seq(1 .. heap_size')
      BY <1>3, GrownType DEF IInv
    <3> QED  BY <1>1, <2>1, <3>1 DEF IInv, TypeOK
  <2>3. LockInv'
    BY <1>1, <1>2, <2>1 DEF IInv, LockInv, InCall, Collects
  <2>4. ArrayInv' /\ CallInv'
    BY <1>1, <1>2, <2>1 DEF IInv, ArrayInv, CallInv
  <2>5. ASSUME ~overlapped'
        PROVE  ListsInv' /\ ClaimsInv'
    <3>1. TypeOK /\ ListsInv /\ ClaimsInv
      BY <1>1, <2>5 DEF IInv
    <3>2. /\ ListsInv' /\ 1 .. heap_size \subseteq 1 .. heap_size'
          /\ Listed' \cap (1 .. heap_size) \subseteq Listed
      BY <1>3, <3>1, Grown
    <3>3. \A u \in THREADS, p \in Places :
             Claimed(u, p)' => Claimed(u, p) /\ At(u, p)' = At(u, p)
      BY <1>1, <2>1 DEF Claimed, At
    <3> QED  BY <3>1, <3>2, <3>3, ClaimsKept
  <2> QED  BY <2>2, <2>3, <2>4, <2>5 DEF IInv
<1>4. CASE Abort
  <2>1. /\ pc' = [u \in THREADS |-> "aborted"]
        /\ UNCHANGED <<heap_size, free_list, recyclable_list>>
        /\ Listed' = Listed
    BY <1>4 DEF Abort, lists, Listed
  <2>2. TypeOK'
    BY <1>1, <2>1 DEF IInv, TypeOK
  <2>a. \A u \in THREADS : pc'[u] = "aborted"
    BY <2>1
  <2>b. LockInv'
    BY <1>1, <2>a, ThreadsAssumption DEF IInv, TypeOK, LockInv, InCall, Collects
  <2>c. ArrayInv'
    BY <1>1, <2>1, <2>a DEF IInv, ArrayInv
  <2>d. CallInv'
    BY <1>1, <2>a DEF IInv, CallInv
  <2>3. ASSUME ~overlapped'
        PROVE  ListsInv' /\ ClaimsInv'
    <3>1. ListsInv /\ ClaimsInv
      BY <1>1, <2>3 DEF IInv
    <3>2. \A u \in THREADS, p \in Places :
             Claimed(u, p)' => Claimed(u, p) /\ At(u, p)' = At(u, p)
      BY <1>1, <2>1 DEF Claimed, At
    <3>3. ListsInv'
      BY <2>1, <3>1 DEF ListsInv
    <3>4. ClaimsInv'
      BY <2>1, <3>1, <3>2, ClaimsKept
    <3> QED  BY <3>3, <3>4
  <2> QED  BY <2>2, <2>b, <2>c, <2>d, <2>3 DEF IInv
<1> QED  BY <1>3, <1>4

\* The sweep: from the next state on no thread claims a block, whatever it had.
LEMMA SweptLists ==
    ASSUME IInv, Swept
    PROVE  ListsInv'
<1>1. PICK sweep \in SWEEPS :
         /\ free_list' = SetToSeq((1 .. heap_size) \ sweep.marked)
         /\ recyclable_list' = SetToSeq((1 .. heap_size) \cap sweep.holes)
  BY DEF Swept
<1> DEFINE F == (1 .. heap_size) \ sweep.marked
           R == (1 .. heap_size) \cap sweep.holes
<1>2. F \cap R = {}
  BY ThreadsAssumption
<1>3. IsFiniteSet(F) /\ IsFiniteSet(R)
  <2>1. IsFiniteSet(1 .. heap_size)
    BY HeapSize, FS_Interval DEF IInv
  <2> QED  BY <2>1, FS_Subset
<1>4. /\ free_list' \in Seq(F) /\ IsInjective(free_list')
      /\ Range(free_list') \subseteq F
      /\ recyclable_list' \in Seq(R) /\ IsInjective(recyclable_list')
      /\ Range(recyclable_list') \subseteq R
  BY <1>1, <1>3, Enumerated
<1>5. F \subseteq 1 .. heap_size /\ R \subseteq 1 .. heap_size
  OBVIOUS
<1>h. heap_size' = heap_size
  BY DEF Swept
<1> HIDE DEF F, R
<1>6. /\ free_list' \in Seq(1 .. heap_size)
      /\ recyclable_list' \in Seq(1 .. heap_size)
  BY <1>4, <1>5, SeqMonotonic
<1> QED  BY <1>h, <1>2, <1>4, <1>6 DEF ListsInv

LEMMA SweptClaims ==
    ASSUME IInv, Swept
    PROVE  ClaimsInv'
<1>1. /\ ~collecting /\ collecting' = TRUE
      /\ stale' = {u \in THREADS : Unknown(u)}
      /\ UNCHANGED <<buffer, array_size, cursor, allocator, found>>
      /\ cursor = [index |-> 1, next |-> "block"]
  BY DEF Swept, array, IInv, LockInv
<1>2. ASSUME NEW u \in THREADS, NEW p \in Places, Claimed(u, p)'
      PROVE  FALSE
  <2>1. ~Unknown(u)
    BY <1>1, <1>2 DEF Claimed
  <2>2. p \in Kinds /\ allocator[u][p] # NULL /\ p # "found"
    BY <1>1, <1>2, <2>1 DEF Claimed, At, Unknown, Places
  <2>3. CASE u \in Registered
    <3>1. Pending(u)' /\ ~Resetting(u)'
      BY <1>1, <2>3 DEF Pending, Resetting, Registered
    <3> QED  BY <1>2, <2>2, <3>1 DEF Claimed
  <2>4. CASE u \notin Registered
    BY <2>1, <2>2, <2>4 DEF Unknown, IInv, CallInv, Kinds
  <2> QED  BY <2>3, <2>4
<1> QED  BY <1>2 DEF ClaimsInv

LEMMA CollectStep ==
    ASSUME IInv, NEW t \in THREADS, Collect(t)
    PROVE  IInv'
<1>1. /\ pc[t] = "find" /\ ~collecting /\ collecting' = TRUE
      /\ pc' = [pc EXCEPT ![t] = "reset"] /\ overlapped' = FALSE
      /\ stale' = {u \in THREADS : Unknown(u)}
      /\ UNCHANGED <<owner, heap_size, buffer, array_size, cursor, allocator,
                     request, found>>
  BY DEF Collect, Swept, Goto, array
<1>2. /\ Registered' = Registered /\ owner = t
      /\ \A u \in THREADS : InCall(u) => u = t
      /\ \A u \in THREADS : pc[u] \notin {"unlink", "unlink late"}
  BY <1>1, Alone DEF Registered, InCall
<1>3. ListsInv' /\ ClaimsInv'
  BY SweptLists, SweptClaims DEF Collect
<1>4. TypeOK'
  <2>1. stale' \subseteq THREADS
    BY <1>1
  <2> QED  BY <1>1, <1>3, <2>1 DEF IInv, TypeOK, ListsInv
<1>5. LockInv'
  BY <1>1, <1>2, ThreadsAssumption DEF IInv, TypeOK, LockInv, InCall, Collects
<1>6. ArrayInv' /\ CallInv'
  BY <1>1, <1>2 DEF IInv, TypeOK, ArrayInv, CallInv
<1> QED  BY <1>3, <1>4, <1>5, <1>6 DEF IInv

LEMMA CollectUnlockedStep ==
    ASSUME IInv, NEW t \in THREADS, CollectUnlocked(t)
    PROVE  IInv'
<1>1. /\ pc[t] = "running" /\ ~collecting /\ collecting' = TRUE
      /\ pc' = [u \in THREADS |-> CASE u = t -> "reset unlocked"
                                   [] pc[u] = "unlink" -> "unlink late"
                                   [] OTHER -> pc[u]]
      /\ overlapped' = (owner # NULL)
      /\ stale' = {u \in THREADS : Unknown(u)}
      /\ UNCHANGED <<owner, heap_size, buffer, array_size, cursor, allocator,
                     request, found>>
  BY DEF CollectUnlocked, Swept, Free, array
<1>2. /\ Registered' = Registered /\ owner # t
      /\ \A u \in THREADS : ~Collects(u)
      /\ \A u \in THREADS : InCall(u) => owner = u
  BY <1>1, ThreadsAssumption DEF Registered, InCall, Collects, IInv, LockInv
<1>p. /\ pc'[t] = "reset unlocked"
      /\ \A u \in THREADS : u # t =>
            pc'[u] = IF pc[u] = "unlink" THEN "unlink late" ELSE pc[u]
  BY <1>1
<1>3. ListsInv' /\ ClaimsInv'
  BY SweptLists, SweptClaims DEF CollectUnlocked
<1>4. TypeOK'
  <2>1. stale' \subseteq THREADS /\ overlapped' \in BOOLEAN
    BY <1>1
  <2>2. pc' \in [THREADS -> {"unborn", "lock", "find", "find again", "unlink",
                            "unlink late", "assign", "register", "running",
                            "reset", "reset unlocked", "dead", "aborted"}]
    BY <1>1 DEF IInv, TypeOK
  <2> QED  BY <1>1, <1>3, <2>1, <2>2 DEF IInv, TypeOK, ListsInv
<1>5. LockInv'
  <2>1. \A u \in THREADS : InCall(u)' => InCall(u) /\ u # t
    BY <1>p DEF InCall
  <2>2. owner # NULL => InCall(owner)' \/ pc'[owner] = "aborted"
    <3>1. owner # NULL => /\ owner \in THREADS /\ owner # t
                          /\ InCall(owner) \/ pc[owner] = "aborted"
      BY <1>2 DEF IInv, TypeOK, LockInv, Collects
    <3>2. \A u \in THREADS \ {t} :
             pc[u] = "aborted" \/ InCall(u) => pc'[u] = "aborted" \/ InCall(u)'
      BY <1>p DEF InCall
    <3>3. owner' = owner
      BY <1>1
    <3> QED  BY <3>1, <3>2, <3>3 DEF InCall
  <2>3. \A u \in THREADS : Collects(u)' => u = t
    BY <1>p, <1>2 DEF Collects
  <2>4. \A u \in THREADS : pc'[u] = "unlink late" => overlapped'
    <3>1. \A u \in THREADS : pc'[u] = "unlink late" => InCall(u)
      BY <1>p DEF InCall
    <3> QED  BY <1>1, <1>2, <3>1, ThreadsAssumption
  <2> QED  BY <1>1, <1>2, <2>1, <2>2, <2>3, <2>4 DEF LockInv
<1>6. ArrayInv'
  <2>1. t \in Registered
    BY <1>1 DEF IInv, ArrayInv
  <2> QED  BY <1>1, <1>2, <1>p, <2>1 DEF IInv, ArrayInv
<1>7. CallInv'
  <2>1. request[t] = "block" /\ found[t] = NULL
    BY <1>1 DEF IInv, TypeOK, CallInv
  <2> QED  BY <1>1, <1>2, <1>p, <2>1 DEF IInv, CallInv
<1> QED  BY <1>3, <1>4, <1>5, <1>6, <1>7 DEF IInv

LEMMA ResetStep ==
    ASSUME IInv, NEW t \in THREADS, Reset(t)
    PROVE  IInv'
<1>0. PICK v, n, k : v = buffer[cursor.index] /\ n = cursor.next /\ k = cursor.index
  OBVIOUS
<1>1. PICK b : b = Head(ListFor(n))
  OBVIOUS
<1>2. /\ Collects(t) /\ owner \in {t, NULL} /\ owner' = IF pc[t] = "reset" THEN t ELSE NULL
      /\ k <= array_size /\ ListFor(n) # <<>> /\ Unlink(n)
      /\ allocator' = [allocator EXCEPT ![v][n] = b]
      /\ cursor' = NextReset
      /\ UNCHANGED <<collecting, buffer, array_size, pc, request, found,
                     stale, overlapped>>
  BY <1>0, <1>1 DEF Reset, Resets, Collects, array, calls, history
<1>3. /\ n \in Kinds /\ k \in 1 .. array_size /\ k \in Nat
      /\ v \in THREADS /\ v \in Registered /\ array_size \in Nat
  <2>1. n \in Kinds /\ k \in 1 .. array_size /\ k \in Nat /\ array_size \in Nat
    BY <1>0, <1>2, Cursor DEF IInv
  <2> QED  BY <1>0, <2>1 DEF IInv, ArrayInv, Registered
<1>4. /\ Registered' = Registered /\ collecting
      /\ \A u \in THREADS : InCall(u) => u = t /\ pc[t] = "reset"
      /\ \A u \in THREADS : pc[u] # "unlink"
  BY <1>2, ThreadsAssumption DEF Registered, InCall, Collects, IInv, LockInv
<1>5. /\ heap_size' = heap_size
      /\ free_list' \in Seq(1 .. heap_size')
      /\ recyclable_list' \in Seq(1 .. heap_size')
      /\ b # NULL /\ b \in Blocks
  BY <1>1, <1>2, <1>3, UnlinkedType, ListHead DEF IInv
<1>6. \/ /\ n = "block" /\ cursor' = [index |-> k, next |-> "overflow"]
         /\ cursor'.next = "overflow" /\ cursor'.index = k
      \/ /\ n = "overflow" /\ cursor' = [index |-> k + 1, next |-> "block"]
         /\ cursor'.next = "block" /\ cursor'.index = k + 1
  <2>1. cursor \in [index : Nat \ {0}, next : Kinds]
    BY DEF IInv, TypeOK
  <2>2. /\ n = "block" => cursor' = [index |-> k, next |-> "overflow"]
        /\ n # "block" => cursor' = [index |-> k + 1, next |-> "block"]
    BY <1>0, <1>2, <2>1 DEF NextReset
  <2> QED  BY <1>3, <2>2 DEF Kinds
<1>7. TypeOK'
  <2>1. cursor' \in [index : Nat \ {0}, next : Kinds]
    BY <1>3, <1>6 DEF Kinds
  <2>2. allocator' \in [THREADS -> [Kinds -> Blocks \cup {NULL}]]
    BY <1>2, <1>3, <1>5 DEF IInv, TypeOK
  <2> QED  BY <1>2, <1>5, <2>1, <2>2 DEF IInv, TypeOK
<1>8. LockInv'
  BY <1>2, <1>4, ThreadsAssumption DEF IInv, LockInv, InCall, Collects
<1>9. ArrayInv' /\ CallInv'
  BY <1>2, <1>3, <1>4 DEF IInv, TypeOK, ArrayInv, CallInv
<1>10. ASSUME ~overlapped'
       PROVE  ListsInv' /\ ClaimsInv'
  <2>0. TypeOK /\ ListsInv /\ ClaimsInv
    BY <1>2, <1>10 DEF IInv
  <2>l. /\ ListsInv' /\ b \in Listed /\ b \in 1 .. heap_size
        /\ Listed' = Listed \ {b}
    BY <1>1, <1>2, <1>3, <2>0, Unlinked
  <2>1. /\ At(v, n)' = b
        /\ \A u \in THREADS, p \in Places :
              ~(u = v /\ p = n) => At(u, p)' = At(u, p)
    <3>1. /\ allocator'[v][n] = b /\ "found" \notin Kinds
          /\ \A u \in THREADS, p \in Kinds :
                ~(u = v /\ p = n) => allocator'[u][p] = allocator[u][p]
      <4>1. allocator \in [THREADS -> [Kinds -> Blocks \cup {NULL}]]
        BY DEF IInv, TypeOK
      <4>2. /\ \A u \in THREADS : u # v => allocator'[u] = allocator[u]
            /\ allocator'[v] = [allocator[v] EXCEPT ![n] = b]
        BY <1>2, <1>3, <4>1
      <4>3. allocator[v] \in [Kinds -> Blocks \cup {NULL}]
        BY <1>3, <4>1
      <4> QED  BY <1>3, <4>2, <4>3 DEF Kinds
    <3>2. found' = found
      BY <1>2
    <3> QED  BY <1>3, <3>1, <3>2 DEF At, Places
  <2>2. ASSUME NEW u \in THREADS, NEW p \in Places, Claimed(u, p)', ~(u = v /\ p = n)
        PROVE  Claimed(u, p)
    <3>1. CASE p = "found"
      BY <1>2, <2>1, <2>2, <3>1 DEF Claimed
    <3>2. CASE p # "found" /\ n = "block"
      <4>1. Pending(u)' = Pending(u) /\ (Resetting(u)' => u = v)
        BY <1>0, <1>2, <1>6, <3>2 DEF Pending, Resetting
      <4> QED  BY <1>2, <2>1, <2>2, <3>2, <4>1 DEF Claimed
    <3>3. CASE p # "found" /\ n = "overflow"
      <4>1. ~Resetting(u)' /\ ~Pending(u)'
        BY <1>6, <2>2, <3>3 DEF Claimed, Resetting
      <4>2. CASE u = v
        <5>1. p = "block" /\ Resetting(u)
          BY <1>0, <1>3, <2>2, <3>3, <4>2 DEF Resetting, Places, Kinds
        <5> QED  BY <1>2, <2>1, <2>2, <3>3, <5>1 DEF Claimed
      <4>3. CASE u # v
        <5>1. \A i \in k .. array_size : i = k \/ i \in k + 1 .. array_size
          BY <1>3
        <5>2. ~Pending(u)
          BY <1>0, <1>2, <1>4, <1>6, <3>3, <4>1, <4>3, <5>1 DEF Pending
        <5> QED  BY <1>2, <2>1, <2>2, <3>3, <5>2 DEF Claimed
      <4> QED  BY <4>2, <4>3
    <3> QED  BY <1>3, <3>1, <3>2, <3>3 DEF Kinds
  <2>3. n \in Places
    BY <1>3 DEF Places
  <2> QED  BY <1>3, <1>5, <2>0, <2>l, <2>1, <2>2, <2>3, ClaimsTaken
<1> QED  BY <1>7, <1>8, <1>9, <1>10 DEF IInv

LEMMA EndCollectionStep ==
    ASSUME IInv, NEW t \in THREADS, EndCollection(t)
    PROVE  IInv'
<1>1. /\ Collects(t) /\ cursor.index > array_size
      /\ collecting' = FALSE /\ cursor' = [index |-> 1, next |-> "block"]
      /\ pc' = [pc EXCEPT ![t] = IF pc[t] = "reset" THEN "find again" ELSE "running"]
      /\ UNCHANGED <<owner, heap_size, free_list, recyclable_list, buffer,
                     array_size, allocator, request, found, stale, overlapped>>
  BY DEF EndCollection, Collects, Goto, lists, array, history
<1>c. /\ cursor' = [index |-> 1, next |-> "block"]
      /\ cursor'.next = "block" /\ ~collecting' /\ cursor.index > array_size
  BY <1>1
<1>p. /\ pc'[t] = IF pc[t] = "reset" THEN "find again" ELSE "running"
      /\ \A u \in THREADS : u # t => pc'[u] = pc[u]
  BY <1>1 DEF IInv, TypeOK
<1>2. /\ Registered' = Registered /\ Listed' = Listed
      /\ \A u \in THREADS : Collects(u) => u = t
      /\ pc[t] = "reset unlocked" => owner # t
  <2>1. ~(cursor.index <= array_size)
    <3>1. cursor.index \in Nat /\ array_size \in Nat
      BY Cursor DEF IInv
    <3> QED  BY <1>c, <3>1
  <2>2. pc[t] = "reset unlocked" => owner # t
    BY <2>1, ThreadsAssumption DEF IInv, LockInv, InCall
  <2> QED  BY <1>1, <2>2 DEF Registered, Listed, IInv, LockInv
<1>3. TypeOK'
  <2>1. 1 \in Nat \ {0} /\ "block" \in Kinds
    BY DEF Kinds
  <2>2. cursor' \in [index : Nat \ {0}, next : Kinds]
    BY <1>c, <2>1
  <2> QED  BY <1>1, <2>2 DEF IInv, TypeOK
<1>4. LockInv'
  <2>1. \A u \in THREADS : InCall(u)' <=> InCall(u)
    <3>1. \A u \in THREADS : u # t => (InCall(u)' <=> InCall(u))
      BY <1>p DEF InCall
    <3>2. pc[t] = "reset" \/ pc[t] = "reset unlocked"
      BY <1>1 DEF Collects
    <3>3. InCall(t)' <=> InCall(t)
      BY <1>p, <3>2 DEF InCall
    <3> QED  BY <3>1, <3>3
  <2>2. \A u \in THREADS : ~Collects(u)'
    BY <1>p, <1>2 DEF Collects
  <2>3. owner # NULL => InCall(owner)' \/ pc'[owner] = "aborted"
    BY <1>p, <1>1, <1>2, <2>1 DEF IInv, TypeOK, LockInv, Collects
  <2>4. \A u \in THREADS : pc'[u] = "unlink late" => pc[u] = "unlink late"
    BY <1>p
  <2> QED  BY <1>1, <1>c, <2>1, <2>2, <2>3, <2>4 DEF IInv, LockInv
<1>q. \A u \in THREADS :
         \/ u # t /\ pc'[u] = pc[u]
         \/ u = t /\ pc[u] = "reset" /\ pc'[u] = "find again"
         \/ u = t /\ pc[u] = "reset unlocked" /\ pc'[u] = "running"
  <2>1. pc[t] = "reset" \/ pc[t] = "reset unlocked"
    BY <1>1 DEF Collects
  <2> QED  BY <1>p, <2>1
<1>5. ArrayInv' /\ CallInv'
  <2>1. ArrayInv'
    BY <1>1, <1>2, <1>q DEF IInv, ArrayInv
  <2>2. /\ found[t] = NULL
        /\ pc[t] = "reset unlocked" => request[t] = "block"
    BY <1>q DEF IInv, CallInv
  <2>3. \A u \in THREADS : ListFor(request[u])' = ListFor(request[u])
    BY <1>1 DEF ListFor
  <2>4. \A u \in THREADS \ Registered' :
           \/ allocator'[u]["block"] # NULL
           \/ allocator'[u]["overflow"] = NULL /\ request'[u] = "block"
    BY <1>1, <1>2 DEF IInv, CallInv
  <2>5. \A u \in THREADS :
           /\ found'[u] # NULL =>
                 pc'[u] \in {"unlink", "unlink late", "assign", "aborted"}
           /\ pc'[u] \in {"unlink", "unlink late", "assign"} => found'[u] # NULL
           /\ pc'[u] \in {"unborn", "dead", "register", "running",
                          "reset unlocked"} => request'[u] = "block"
           /\ pc'[u] = "unlink" => /\ ListFor(request[u])' # <<>>
                                   /\ found'[u] = Head(ListFor(request[u])')
    <3>1. found' = found /\ request' = request
      BY <1>1
    <3> QED  BY <1>q, <2>2, <2>3, <3>1 DEF IInv, CallInv
  <2> QED  BY <2>1, <2>4, <2>5 DEF CallInv
<1>6. ASSUME ~overlapped'
      PROVE  ListsInv' /\ ClaimsInv'
  <2>0. ListsInv /\ ClaimsInv
    BY <1>1, <1>6 DEF IInv
  <2>1. \A u \in THREADS : ~Pending(u) /\ ~Pending(u)' /\ ~Resetting(u)'
    <3>1. cursor.index \in Nat /\ array_size \in Nat
      BY Cursor DEF IInv
    <3>2. \A i \in cursor.index .. array_size : FALSE
      BY <1>c, <3>1
    <3> QED  BY <1>c, <3>2 DEF Pending, Resetting
  <2>2. \A u \in THREADS, p \in Places :
           Claimed(u, p)' => Claimed(u, p) /\ At(u, p)' = At(u, p)
    <3>1. \A u \in THREADS, p \in Places : At(u, p)' = At(u, p)
      BY <1>1 DEF At
    <3>2. stale' = stale /\ \A u \in THREADS : pc'[u] = "assign" => pc[u] = "assign"
      BY <1>1, <1>q
    <3> QED  BY <2>1, <3>1, <3>2 DEF Claimed
  <2>3. ListsInv'
    BY <1>1, <2>0 DEF ListsInv
  <2>4. ClaimsInv'
    BY <1>1, <1>2, <2>0, <2>2, ClaimsKept
  <2> QED  BY <2>3, <2>4
<1> QED  BY <1>3, <1>4, <1>5, <1>6 DEF IInv
-----------------------------------------------------------------------------
(* The steps without the lock, and those of the array *)

LEMMA AssignStep ==
    ASSUME IInv, NEW t \in THREADS, Assign(t)
    PROVE  IInv'
<1>0. PICK n : n = request[t]
  OBVIOUS
<1>1. /\ pc[t] = "assign"
      /\ allocator' = [allocator EXCEPT ![t][n] = found[t]]
      /\ found' = [found EXCEPT ![t] = NULL]
      /\ IF t \in Registered
         THEN /\ pc' = [pc EXCEPT ![t] = "running"]
              /\ request' = [request EXCEPT ![t] = "block"]
         ELSE IF n = "block"
         THEN /\ pc' = [pc EXCEPT ![t] = "lock"]
              /\ request' = [request EXCEPT ![t] = "overflow"]
         ELSE /\ pc' = [pc EXCEPT ![t] = "register"]
              /\ request' = [request EXCEPT ![t] = "block"]
      /\ UNCHANGED <<owner, heap_size, free_list, recyclable_list, collecting,
                     buffer, array_size, cursor, stale, overlapped>>
  BY <1>0 DEF Assign, Goto, lists, array, history
<1>2. /\ Registered' = Registered /\ Listed' = Listed
      /\ n \in Kinds /\ n # "found" /\ found[t] # NULL /\ found[t] \in Blocks
  <2>1. /\ request \in [THREADS -> Kinds]
        /\ found \in [THREADS -> Blocks \cup {NULL}]
    BY DEF IInv, TypeOK
  <2>2. found[t] # NULL
    BY <1>1 DEF IInv, CallInv
  <2> QED  BY <1>0, <1>1, <2>1, <2>2 DEF Registered, Listed, Kinds
\* What the assignment changes.
<1>c. /\ allocator'[t][n] = found[t] /\ found'[t] = NULL
      /\ \A p \in Kinds : p # n => allocator'[t][p] = allocator[t][p]
      /\ \A u \in THREADS : u # t =>
            /\ allocator'[u] = allocator[u] /\ request'[u] = request[u]
            /\ found'[u] = found[u]
  <2>1. /\ request \in [THREADS -> Kinds]
        /\ found \in [THREADS -> Blocks \cup {NULL}]
        /\ allocator \in [THREADS -> [Kinds -> Blocks \cup {NULL}]]
    BY DEF IInv, TypeOK
  <2>2. /\ \A u \in THREADS : u # t => allocator'[u] = allocator[u]
        /\ allocator'[t] = [allocator[t] EXCEPT ![n] = found[t]]
    BY <1>1, <2>1
  <2>3. /\ allocator[t] \in [Kinds -> Blocks \cup {NULL}]
    BY <2>1
  <2> QED  BY <1>1, <1>2, <2>1, <2>2, <2>3
<1>3. TypeOK'
  <2>1. allocator' \in [THREADS -> [Kinds -> Blocks \cup {NULL}]]
    BY <1>1, <1>2 DEF IInv, TypeOK
  <2>2. /\ found' \in [THREADS -> Blocks \cup {NULL}]
        /\ request' \in [THREADS -> Kinds]
    BY <1>1 DEF IInv, TypeOK, Kinds
  <2> QED  BY <1>1, <2>1, <2>2 DEF IInv, TypeOK
<1>4. /\ pc'[t] \in {"running", "lock", "register"}
      /\ \A u \in THREADS : u # t => pc'[u] = pc[u]
  BY <1>1 DEF IInv, TypeOK
<1>5. LockInv'
  BY <1>1, <1>4, ThreadsAssumption DEF IInv, TypeOK, LockInv, InCall, Collects
<1>6. ArrayInv'
  <2>1. /\ pc'[t] = "running" => t \in Registered
        /\ pc'[t] = "register" => t \notin Registered
    <3>1. DOMAIN pc = THREADS
      BY DEF IInv, TypeOK
    <3> QED  BY <1>1, <3>1
  <2>2. \A u \in THREADS :
           /\ pc'[u] \in {"unborn", "dead", "register"} => u \notin Registered'
           /\ pc'[u] \in {"running", "reset unlocked"} => u \in Registered'
    BY <1>2, <1>4, <2>1 DEF IInv, ArrayInv
  <2>3. UNCHANGED <<buffer, array_size>>
    BY <1>1
  <2> QED  BY <2>2, <2>3 DEF IInv, ArrayInv
<1>7. CallInv'
  <2>1. pc'[t] \in {"running", "register"} => request'[t] = "block"
    <3>1. /\ request \in [THREADS -> Kinds] /\ DOMAIN pc = THREADS
      BY DEF IInv, TypeOK
    <3> QED  BY <1>1, <3>1
  <2>2. t \notin Registered => allocator'[t]["block"] # NULL
    <3>1. t \notin Registered =>
             \/ allocator[t]["block"] # NULL
             \/ allocator[t]["overflow"] = NULL /\ n = "block"
      BY <1>0 DEF IInv, CallInv
    <3> QED  BY <1>2, <1>c, <3>1 DEF Kinds
  <2>3. \A u \in THREADS \ Registered' :
           \/ allocator'[u]["block"] # NULL
           \/ allocator'[u]["overflow"] = NULL /\ request'[u] = "block"
    <3>1. \A u \in THREADS \ Registered :
             \/ allocator[u]["block"] # NULL
             \/ allocator[u]["overflow"] = NULL /\ request[u] = "block"
      BY DEF IInv, CallInv
    <3>2. \A u \in THREADS : u # t =>
             allocator'[u] = allocator[u] /\ request'[u] = request[u]
      BY <1>c
    <3>3. Registered' = Registered
      BY <1>2
    <3> QED  BY ONLY <2>2, <3>1, <3>2, <3>3
  <2>4. \A u \in THREADS :
           /\ found'[u] # NULL =>
                 pc'[u] \in {"unlink", "unlink late", "assign", "aborted"}
           /\ pc'[u] \in {"unlink", "unlink late", "assign"} => found'[u] # NULL
           /\ pc'[u] \in {"unborn", "dead", "register", "running",
                          "reset unlocked"} => request'[u] = "block"
           /\ pc'[u] = "unlink" => /\ ListFor(request[u]) # <<>>
                                   /\ found'[u] = Head(ListFor(request[u]))
                                   /\ request'[u] = request[u]
    BY <1>4, <1>c, <2>1 DEF IInv, CallInv
  <2>5. recyclable_list' = recyclable_list /\ free_list' = free_list
    BY <1>1
  <2> QED  BY ONLY <2>3, <2>4, <2>5 DEF CallInv, ListFor
<1>8. ~overlapped' => ListsInv'
  BY <1>1 DEF IInv, ListsInv
<1>9. ASSUME ~overlapped'
      PROVE  ClaimsInv'
  <2>0. ClaimsInv
    BY <1>1, <1>9 DEF IInv
  <2>1. \A u \in THREADS : Pending(u)' = Pending(u) /\ Resetting(u)' = Resetting(u)
    BY <1>1 DEF Pending, Resetting
  <2>2. ~Claimed(t, "found")'
    BY <1>4 DEF Claimed
  \* Where the block of a place was before.
  <2> DEFINE Before(u, p) == IF u = t /\ p = n THEN "found" ELSE p
  <2>3. ASSUME NEW u \in THREADS, NEW p \in Places, Claimed(u, p)'
        PROVE  /\ Before(u, p) \in Places /\ Claimed(u, Before(u, p))
               /\ At(u, p)' = At(u, Before(u, p))
               /\ u = t => p # "found"
    <3>1. CASE u = t /\ p = n
      <4>1. At(u, p)' = found[t] /\ At(u, "found") = found[t] /\ "found" \in Places
            /\ p # "found"
        BY <1>2, <1>c, <3>1 DEF At, Places
      <4> QED  BY <1>1, <1>2, <2>3, <3>1, <4>1 DEF Claimed
    <3>2. CASE ~(u = t /\ p = n)
      <4>1. u = t => p # "found"
        BY <2>2, <2>3
      <4>2. At(u, p)' = At(u, p)
        <5>1. p # "found" => p \in Kinds
          BY DEF Places
        <5> QED  BY <1>c, <3>2, <4>1, <5>1 DEF At
      <4> QED  BY <1>1, <1>4, <2>1, <2>3, <3>2, <4>1, <4>2 DEF Claimed
    <3> QED  BY <3>1, <3>2
  <2>4. ASSUME NEW u \in THREADS, NEW p \in Places, Claimed(u, p)'
        PROVE  /\ At(u, p)' \in 1 .. heap_size' /\ At(u, p)' \notin Listed'
               /\ \A w \in THREADS, q \in Places :
                     Claimed(w, q)' /\ At(w, q)' = At(u, p)' => w = u /\ q = p
    <3>1. /\ Before(u, p) \in Places /\ Claimed(u, Before(u, p))
          /\ At(u, p)' = At(u, Before(u, p)) /\ (u = t => p # "found")
      BY <2>3, <2>4
    <3>2. ASSUME NEW w \in THREADS, NEW q \in Places, Claimed(w, q)',
                 At(w, q)' = At(u, p)'
          PROVE  w = u /\ q = p
      <4>1. /\ Before(w, q) \in Places /\ Claimed(w, Before(w, q))
            /\ At(w, q)' = At(w, Before(w, q)) /\ (w = t => q # "found")
        BY <2>3, <3>2
      <4>2. At(w, Before(w, q)) = At(u, Before(u, p))
        BY <3>1, <3>2, <4>1
      <4> HIDE DEF Before
      <4>3. w = u /\ Before(w, q) = Before(u, p)
        BY <2>0, <3>1, <4>1, <4>2 DEF ClaimsInv
      <4> QED  BY <3>1, <4>1, <4>3 DEF Before
    <3> HIDE DEF Before
    <3> QED  BY <1>1, <1>2, <2>0, <3>1, <3>2 DEF ClaimsInv
  <2> QED  BY <2>4 DEF ClaimsInv
<1> QED  BY <1>3, <1>5, <1>6, <1>7, <1>8, <1>9 DEF IInv

LEMMA RegisterStep ==
    ASSUME IInv, NEW t \in THREADS, Register(t)
    PROVE  IInv'
<1>1. /\ pc[t] = "register" /\ owner = NULL /\ Array_push(t)
      /\ pc' = [pc EXCEPT ![t] = "running"]
      /\ UNCHANGED <<owner, heap_size, free_list, recyclable_list, collecting,
                     cursor, allocator, request, found, stale>>
      /\ overlapped' = (overlapped \/ collecting)
  BY DEF Register, Free, OverlapsResets, Goto, lists
<1>2. /\ t \notin Registered /\ ArrayOK
  BY <1>1 DEF IInv, LockInv, ArrayInv, ArrayOK, TypeOK
<1>3. ArrayOK' /\ Registered' = Registered \cup {t}
  BY <1>1, <1>2, Pushed
<1>4. TypeOK'
  BY <1>1, <1>3 DEF IInv, TypeOK, ArrayOK
<1>5. LockInv'
  BY <1>1, <1>2, ThreadsAssumption DEF IInv, TypeOK, LockInv, InCall, Collects
<1>6. ArrayInv'
  BY <1>1, <1>3 DEF IInv, TypeOK, ArrayInv, ArrayOK
<1>7. CallInv'
  BY <1>1, <1>3 DEF IInv, TypeOK, CallInv, ListFor
<1>8. ASSUME ~overlapped'
      PROVE  ListsInv' /\ ClaimsInv'
  <2>0. ~collecting /\ ListsInv /\ ClaimsInv
    BY <1>1, <1>8 DEF IInv
  <2>1. \A u \in THREADS, p \in Places :
           Claimed(u, p)' => Claimed(u, p) /\ At(u, p)' = At(u, p)
    BY <1>1, <2>0 DEF Claimed, At, Pending, IInv, TypeOK
  <2>2. ListsInv' /\ Listed' = Listed
    BY <1>1, <2>0 DEF ListsInv, Listed
  <2> QED  BY <1>1, <2>0, <2>1, <2>2, ClaimsKept
<1> QED  BY <1>4, <1>5, <1>6, <1>7, <1>8 DEF IInv

LEMMA UnregisterStep ==
    ASSUME IInv, NEW t \in THREADS, Unregister(t)
    PROVE  IInv'
<1>1. /\ pc[t] = "running" /\ owner = NULL /\ Array_delete(t)
      /\ pc' = [pc EXCEPT ![t] = "dead"]
      /\ allocator' = [allocator EXCEPT ![t] = NoBlocks]
      /\ stale' = stale \ {t}
      /\ UNCHANGED <<owner, heap_size, free_list, recyclable_list, collecting,
                     cursor, request, found>>
      /\ overlapped' = (overlapped \/ collecting)
  BY DEF Unregister, Free, OverlapsResets, Goto, lists
<1>2. /\ t \in Registered /\ ArrayOK
      /\ found[t] = NULL /\ request[t] = "block"
  BY <1>1 DEF IInv, LockInv, ArrayInv, ArrayOK, CallInv, TypeOK
<1>3. ArrayOK' /\ Registered' = Registered \ {t}
  BY <1>1, <1>2, Deleted
<1>4. NoBlocks \in [Kinds -> Blocks \cup {NULL}] /\ \A p \in Kinds : NoBlocks[p] = NULL
  BY DEF NoBlocks
<1>5. /\ allocator'[t] = NoBlocks
      /\ \A u \in THREADS : u # t => allocator'[u] = allocator[u] /\ pc'[u] = pc[u]
  BY <1>1 DEF IInv, TypeOK
<1>6. TypeOK'
  <2>1. allocator' \in [THREADS -> [Kinds -> Blocks \cup {NULL}]]
    BY <1>1, <1>4 DEF IInv, TypeOK
  <2> QED  BY <1>1, <1>3, <2>1 DEF IInv, TypeOK, ArrayOK
<1>7. LockInv'
  BY <1>1, <1>2, ThreadsAssumption DEF IInv, TypeOK, LockInv, InCall, Collects
<1>8. ArrayInv'
  BY <1>1, <1>3 DEF IInv, TypeOK, ArrayInv, ArrayOK
<1>9. CallInv'
  <2>1. \A u \in THREADS \ Registered' :
           \/ allocator'[u]["block"] # NULL
           \/ allocator'[u]["overflow"] = NULL /\ request'[u] = "block"
    <3>1. ASSUME NEW u \in THREADS \ Registered', u # t
          PROVE  \/ allocator'[u]["block"] # NULL
                 \/ allocator'[u]["overflow"] = NULL /\ request'[u] = "block"
      <4>1. u \in THREADS \ Registered
        BY <1>3, <3>1
      <4>2. allocator'[u] = allocator[u] /\ request' = request
        BY <1>1, <1>5, <3>1
      <4> QED  BY <4>1, <4>2 DEF IInv, CallInv
    <3>2. allocator'[t]["overflow"] = NULL /\ request'[t] = "block"
      <4>1. request' = request /\ "overflow" \in Kinds
        BY <1>1 DEF Kinds
      <4> QED  BY <1>2, <1>4, <1>5, <4>1
    <3> QED  BY <3>1, <3>2
  <2>2. \A u \in THREADS :
           /\ found'[u] # NULL =>
                 pc'[u] \in {"unlink", "unlink late", "assign", "aborted"}
           /\ pc'[u] \in {"unlink", "unlink late", "assign"} => found'[u] # NULL
           /\ pc'[u] \in {"unborn", "dead", "register", "running",
                          "reset unlocked"} => request'[u] = "block"
           /\ pc'[u] = "unlink" => /\ ListFor(request[u]) # <<>>
                                   /\ found'[u] = Head(ListFor(request[u]))
    BY <1>1, <1>2, <1>5 DEF IInv, TypeOK, CallInv
  <2> QED  BY <1>1, <2>1, <2>2 DEF CallInv, ListFor
<1>10. ASSUME ~overlapped'
       PROVE  ListsInv' /\ ClaimsInv'
  <2>0. ~collecting /\ ListsInv /\ ClaimsInv
    BY <1>1, <1>10 DEF IInv
  <2>1. \A p \in Places : At(t, p)' = NULL
    BY <1>1, <1>2, <1>4, <1>5 DEF At, Places
  <2>2. \A u \in THREADS, p \in Places :
           u # t => At(u, p)' = At(u, p)
    BY <1>1, <1>5 DEF At
  <2>3. \A u \in THREADS, p \in Places :
           Claimed(u, p)' => Claimed(u, p) /\ At(u, p)' = At(u, p)
    BY <1>1, <1>5, <2>0, <2>1, <2>2 DEF Claimed, Pending
  <2>4. ListsInv' /\ Listed' = Listed
    BY <1>1, <2>0 DEF ListsInv, Listed
  <2> QED  BY <1>1, <2>0, <2>3, <2>4, ClaimsKept
<1> QED  BY <1>6, <1>7, <1>8, <1>9, <1>10 DEF IInv
-----------------------------------------------------------------------------
(* The invariant *)

LEMMA NextInvariant ==
    ASSUME IInv, [Next]_vars
    PROVE  IInv'
<1>1. CASE Next
  <2>1. PICK t \in THREADS :
           \/ Start(t)
           \/ \E which \in Kinds : Exhaust(t, which)
           \/ Call(t) \/ CollectUnlocked(t) \/ Unregister(t)
    BY <1>1 DEF Next
  <2>2. CASE Start(t)
    BY <2>2, StartStep
  <2>3. CASE \E which \in Kinds : Exhaust(t, which)
    BY <2>3, ExhaustStep
  <2>4. CASE Unregister(t)
    BY <2>4, UnregisterStep
  <2>5. CASE Lock(t)
    BY <2>5, LockStep
  <2>6. CASE Register(t)
    BY <2>6, RegisterStep
  <2>7. CASE Shift(t)
    BY <2>7, ShiftStep
  <2>8. CASE Return(t)
    BY <2>8, ReturnStep
  <2>9. CASE Grow(t)
    <3>1. InCall(t) /\ pc[t] # "unlink"
      BY <2>9 DEF Grow, InCall
    <3>2. /\ GrowSmall \/ Abort
          /\ owner = t /\ owner' = t
          /\ UNCHANGED <<collecting, array, cursor, allocator, request, found,
                         history>>
      BY <2>9, <3>1, Alone DEF Grow
    <3> QED  BY <3>1, <3>2, GrowthStep
  <2>10. CASE Assign(t)
    BY <2>10, AssignStep
  <2>11. CASE Collect(t)
    BY <2>11, CollectStep
  <2>12. CASE Reset(t)
    BY <2>12, ResetStep
  <2>13. CASE GrowForReset(t)
    <3>1. \/ InCall(t) /\ pc[t] # "unlink"
          \/ pc[t] = "reset unlocked" /\ cursor.index <= array_size
      BY <2>13 DEF GrowForReset, Resets, InCall
    <3>2. /\ GrowSmall \/ Abort
          /\ owner \in {t, NULL} /\ owner' = t
          /\ UNCHANGED <<collecting, array, cursor, allocator, request, found,
                         history>>
      BY <2>13 DEF GrowForReset, Resets
    <3> QED  BY <3>1, <3>2, GrowthStep
  <2>14. CASE EndCollection(t)
    BY <2>14, EndCollectionStep
  <2>15. CASE ReturnLate(t)
    BY <2>15, ReturnLateStep
  <2>16. CASE CollectUnlocked(t)
    BY <2>16, CollectUnlockedStep
  <2> QED
    BY <2>1, <2>2, <2>3, <2>4, <2>5, <2>6, <2>7, <2>8, <2>9, <2>10, <2>11,
       <2>12, <2>13, <2>14, <2>15, <2>16 DEF Call
<1>2. CASE UNCHANGED vars
  <2>1. /\ UNCHANGED <<owner, heap_size, free_list, recyclable_list, collecting,
                       buffer, array_size, cursor, allocator, pc, request, found,
                       stale, overlapped>>
        /\ UNCHANGED <<lists, collecting, array, cursor, allocator, stale>>
        /\ Registered' = Registered
    BY <1>2 DEF vars, lists, array, calls, history, Registered
  <2>t. TypeOK'
    BY <2>1 DEF IInv, TypeOK
  <2>l. LockInv'
    <3>1. /\ owner' = owner /\ collecting' = collecting /\ pc' = pc
          /\ cursor' = cursor /\ overlapped' = overlapped
          /\ array_size' = array_size
      BY <2>1
    <3> QED  BY <3>1 DEF IInv, TypeOK, LockInv, InCall, Collects
  <2>2. ~overlapped' => ListsInv'
    BY <2>1 DEF IInv, ListsInv
  <2>3. ArrayInv' /\ CallInv'
    BY <2>1 DEF IInv, ArrayInv, CallInv, ListFor
  <2>4. ~overlapped' => ClaimsInv'
    BY <2>1, ClaimsUndisturbed DEF IInv
  <2> QED  BY <2>t, <2>l, <2>2, <2>3, <2>4 DEF IInv
<1> QED  BY <1>1, <1>2

LEMMA Invariant == Spec => []IInv
BY InitInvariant, NextInvariant, PTL DEF Spec

\* Every variable has its type: no step takes a block from a list that has
\* none, or writes outside of the array.
THEOREM TypeCorrect == Spec => []TypeOK
<1>1. IInv => TypeOK
  BY DEF IInv
<1> QED  BY <1>1, Invariant, PTL

\* The array of local allocators has every running thread's, once, and no
\* other (GC_init_thread, GC_deinit_thread, Array_push and Array_delete).
THEOREM ArrayExact == Spec => []RegisteredExact
<1>1. ASSUME IInv
      PROVE  RegisteredExact
  <2>1. GARBAGE \notin Registered
    <3>1. Registered \subseteq THREADS
      BY <1>1 DEF IInv, ArrayInv, Registered
    <3> QED  BY <3>1, ThreadsAssumption
  <2> QED  BY <1>1, <2>1 DEF IInv, ArrayInv, RegisteredExact
<1> QED  BY <1>1, Invariant, PTL

\* A thread that is in a block request, between GC_lock and GC_unlock, owns the
\* mutex, so that there is one at most, though collections without the lock take
\* it and give it back for their resets meanwhile.
Excluded == \A t \in THREADS : InCall(t) => owner = t

THEOREM MutualExclusion == Spec => []Excluded
<1>1. IInv => Excluded
  BY DEF IInv, LockInv, Excluded
<1> QED  BY <1>1, Invariant, PTL

\* No block has two owners (nextBlock, nextFreeBlock, LocalAllocator_reset),
\* but for the threads that a collection came upon between two steps, and after
\* a GC_collect_once without the lock that overlapped a critical section.
THEOREM OwnersApart == Spec => []OwnersDistinct
<1>1. ASSUME IInv, ~overlapped
      PROVE  OwnersDistinct
  <2>1. /\ IsInjective(free_list) /\ IsInjective(recyclable_list)
        /\ Range(free_list) \cap Range(recyclable_list) = {}
    BY <1>1 DEF IInv, ListsInv
  <2>2. \A t \in THREADS : allocator[t] \in [Kinds -> Blocks \cup {NULL}]
    BY <1>1 DEF IInv, TypeOK
  <2>3. \A t \in THREADS : \A b :
           b \in Held(t) <=> \E p \in Kinds : allocator[t][p] = b /\ b # NULL
    BY <2>2 DEF Held, Range
  <2>4. \A t \in THREADS \ stale, p \in Kinds :
           ~Pending(t) /\ allocator[t][p] # NULL =>
              Claimed(t, p) /\ At(t, p) = allocator[t][p] /\ p \in Places
    BY DEF Claimed, At, Places, Kinds
  <2>5. ASSUME NEW t \in THREADS \ stale, ~Pending(t)
        PROVE  /\ allocator[t]["block"] = allocator[t]["overflow"] => Held(t) = {}
               /\ Held(t) \cap Listed = {}
               /\ \A u \in THREADS \ (stale \cup {t}) :
                     ~Pending(u) => Held(t) \cap Held(u) = {}
    <3>1. \A p \in Kinds : allocator[t][p] # NULL =>
             /\ allocator[t][p] \notin Listed
             /\ \A u \in THREADS \ stale, q \in Kinds :
                   ~Pending(u) /\ allocator[u][q] = allocator[t][p] => u = t /\ q = p
      BY <1>1, <2>4, <2>5 DEF IInv, ClaimsInv
    <3>2. Held(t) \cap Listed = {}
      BY <2>3, <3>1
    <3>3. allocator[t]["block"] = allocator[t]["overflow"] => Held(t) = {}
      <4>1. "block" \in Kinds /\ "overflow" \in Kinds /\ "block" # "overflow"
            /\ \A p \in Kinds : p = "block" \/ p = "overflow"
        BY DEF Kinds
      <4> QED  BY <2>3, <2>5, <3>1, <4>1
    <3>4. \A u \in THREADS \ (stale \cup {t}) :
             ~Pending(u) => Held(t) \cap Held(u) = {}
      BY <2>3, <3>1
    <3> QED  BY <3>2, <3>3, <3>4
  <2> QED  BY <2>1, <2>5 DEF OwnersDistinct
<1>2. IInv => OwnersDistinct
  BY <1>1 DEF OwnersDistinct
<1> QED  BY <1>2, Invariant, PTL
=============================================================================
