-------------------------- MODULE LargeSpace_proofs --------------------------
(***************************************************************************)
(* Proofs about the large object space, for every size of the heap and     *)
(* every mix of requests.                                                  *)
(***************************************************************************)
EXTENDS LargeSpace, FiniteSetTheorems, TLAPS

\* Where the run of chunks that a sweep is absorbing ends.
Upper == IF limit = NULL THEN heap_stop ELSE limit

\* The chunks it has absorbed so far.
Between == {c \in Chunks : current < c /\ c < Upper}

\* The finalizers are running, one of them perhaps in a request.
Finalizing == Collecting /\ pc \in {"finalize", "allocate", "grow", "grown"}

\* The collection at hand has marked the chunks.
AfterMark == Finalizing \/ pc \in {"sweep", "absorb"}

SweepInv ==
    /\ AfterMark => \A o \in live : chunk[o.at].marked
    /\ borrowed # {} => Finalizing
    /\ pc = "sweep" => current = NULL \/ current \in Chunks
    /\ pc = "absorb" =>
          /\ current \in Chunks /\ ~chunk[current].marked
          /\ limit # NULL => limit \in Chunks /\ current < limit
          /\ chunk[current].next = NULL => limit = NULL
          /\ \A c \in Between : ~chunk[c].marked
          /\ count = Cardinality(Between)

GrownInv == pc = "grown" => Fitting # {}

\* The inductive invariant.
IInv == /\ TypeOK /\ ListTilesHeap /\ ObjectsKept
        /\ SweepInv /\ GrownInv
        /\ GrowthSuffices /\ MergeGrows

\* Where the sweep has got to.
Frontier == IF current = NULL THEN heap_stop ELSE current

\* What the sweep leaves behind: a chunk is free unless it was marked, and
\* the chunk that follows a free one is in use.
Swept(c) ==
    /\ chunk[c].allocated => chunk[c].marked
    /\ chunk[c].next # NULL => chunk[c].marked \/ chunk[chunk[c].next].marked

\* It holds of all the chunks before the frontier; the one at the frontier is
\* free while it absorbs others.  A marked chunk is allocated, unless a
\* finalizer freed it, as the marks of the last collection were cleared.
SweptInv ==
    /\ pc = "mark" => \A c \in Chunks : ~chunk[c].marked
    /\ AfterMark => \A c \in Chunks \ freed : chunk[c].marked => chunk[c].allocated
    /\ pc \in {"sweep", "absorb"} => \A c \in Chunks : c < Frontier => Swept(c)
    /\ pc = "absorb" => ~chunk[current].allocated
-----------------------------------------------------------------------------
(* Lemmas about the operators *)

\* The heap is finite, so is the set of its chunks.
LEMMA ChunksFinite ==
    ASSUME TypeOK, ListTilesHeap
    PROVE  IsFiniteSet(Chunks)
<1>1. heap_stop \in Nat /\ Chunks \subseteq Nat /\ chunk \in [Chunks -> Header]
  BY DEF TypeOK, ListType
<1>2. ASSUME NEW c \in Chunks
      PROVE  c \in 0 .. heap_stop
  <2>1. c \in Nat /\ chunk[c].size \in Nat /\ HEADER \in Nat
    BY <1>1, LayoutAssumption DEF Header
  <2>2. c + HEADER + chunk[c].size <= heap_stop
    BY DEF ListTilesHeap, ChunkStop
  <2> QED  BY <1>1, <2>1, <2>2
<1>3. IsFiniteSet(0 .. heap_stop)
  BY <1>1, FS_Interval
<1> QED  BY <1>2, <1>3, FS_Subset

LEMMA SmallModulus ==
    ASSUME NEW n \in Nat, NEW k \in Nat, n < k
    PROVE  n % k = n
  BY SMT

\* ChunkList_limit is the end of the heap as long as a chunk's size fits an
\* int.
LEMMA LimitIsHeapStop ==
    ASSUME TypeOK, ListTilesHeap, MEMORY_LIMIT <= INT_MAX
    PROVE  ListLimit = heap_stop
<1> DEFINE n == chunk[last].size + HEADER
<1>1. last \in Chunks /\ last \in Nat /\ chunk[last] \in Header
  BY DEF TypeOK, ListType
<1>2. n \in Nat /\ last + n = heap_stop
  <2>1. HEADER \in Nat /\ chunk[last].size \in Nat
    BY <1>1, LayoutAssumption DEF Header
  <2>2. ChunkStop(last) = heap_stop
    BY <1>1 DEF ListTilesHeap
  <2> QED  BY <1>1, <2>1, <2>2 DEF ChunkStop
<1>3. n <= INT_MAX /\ INT_MAX \in Nat /\ 2 * (INT_MAX + 1) \in Nat
  <2>1. heap_stop \in Nat /\ SMALL_HEAP_SIZE + heap_stop <= MEMORY_LIMIT
    BY DEF TypeOK, ListType
  <2>2. SMALL_HEAP_SIZE \in Nat /\ MEMORY_LIMIT \in Nat /\ INT_MAX \in Nat
    BY LayoutAssumption
  <2> HIDE DEF n
  <2> QED  BY <1>1, <1>2, <2>1, <2>2
<1>4. n % (2 * (INT_MAX + 1)) = n
  <2> DEFINE k == 2 * (INT_MAX + 1)
  <2>1. n \in Nat /\ k \in Nat
    BY <1>2, <1>3
  <2>2. n < k
    <3> HIDE DEF n
    <3> QED  BY <1>3, <2>1
  <2> HIDE DEF n, k
  <2>3. n % k = n
    BY <2>1, <2>2, SmallModulus
  <2> QED  BY <2>3 DEF k
<1>5. Chunk_size(last) = n
  BY <1>2, <1>3, <1>4 DEF Chunk_size, ToInt
<1> QED  BY <1>2, <1>5 DEF ListLimit

\* Growth rounds the request, with the headers it needs, up.
LEMMA GrowthCovers ==
    ASSUME NEW s \in SIZES
    PROVE  LET size == ROUND_TO_NEXT_MULTIPLE(NextPower(s + CHUNK), BLOCK_SIZE)
           IN size \in Nat /\ s + CHUNK <= size
<1> DEFINE p == NextPower(s + CHUNK)
<1>1. p \in POWERS /\ s + CHUNK <= p
  BY PowersAssumption DEF NextPower
<1>2. p \in Nat /\ s + CHUNK \in Nat
  <2>1. p \in Nat
    BY <1>1, PowersAssumption
  <2>2. s \in Nat /\ HEADER \in Nat /\ OBJECT \in Nat
    BY LayoutAssumption
  <2> QED  BY <2>1, <2>2 DEF CHUNK
<1> HIDE DEF p
<1>3. ROUND_TO_NEXT_MULTIPLE(p, BLOCK_SIZE) \in Nat
      /\ p <= ROUND_TO_NEXT_MULTIPLE(p, BLOCK_SIZE)
  <2>1. \A a \in Nat, b \in Nat \ {0} :
           /\ (a + b - 1) \div b \in Nat
           /\ a <= ((a + b - 1) \div b) * b
    BY SMT
  <2>2. \A a \in Nat, b \in Nat : a * b \in Nat
    BY SMT
  <2> QED  BY <1>2, <2>1, <2>2, LayoutAssumption DEF ROUND_TO_NEXT_MULTIPLE
<1> QED  BY <1>1, <1>2, <1>3 DEF p
-----------------------------------------------------------------------------
(* What the tiling says of one chunk *)

LEMMA Sizes ==
    /\ HEADER \in Nat /\ HEADER > 0 /\ OBJECT \in Nat /\ OBJECT > 0
    /\ CHUNK = HEADER + OBJECT /\ CHUNK_MIN_SIZE = 2 * CHUNK
    /\ \A s \in SIZES : s \in Nat /\ s > 0
    /\ \A n \in Nat : n # NULL
    /\ NULL # "idle" /\ NULL # "retry"
BY LayoutAssumption DEF CHUNK, CHUNK_MIN_SIZE

LEMMA ChunkFacts ==
    ASSUME TypeOK, ListTilesHeap, NEW c \in Chunks
    PROVE  /\ c \in Nat /\ c # NULL
           /\ chunk[c] \in Header
           /\ chunk[c].size \in Nat /\ OBJECT <= chunk[c].size
           /\ ChunkStop(c) = c + HEADER + chunk[c].size
           /\ ChunkStop(c) \in Nat /\ c < ChunkStop(c)
           /\ ChunkStop(c) <= heap_stop
           /\ chunk[c].next = NULL <=> c = last
           /\ c = last => ChunkStop(c) = heap_stop
           /\ c # last => /\ chunk[c].next = ChunkStop(c)
                          /\ ChunkStop(c) \in Chunks
<1>1. Chunks \subseteq Nat /\ chunk \in [Chunks -> Header]
  BY DEF TypeOK, ListType
<1>2. c \in Nat /\ c # NULL /\ chunk[c] \in Header /\ chunk[c].size \in Nat
  BY <1>1, Sizes DEF Header
<1>3. OBJECT <= chunk[c].size /\ ChunkStop(c) <= heap_stop
  BY DEF ListTilesHeap
<1>4. chunk[c].next = NULL <=> c = last
  BY DEF ListTilesHeap
<1>5. c = last => ChunkStop(c) = heap_stop
  BY <1>4 DEF ListTilesHeap
<1>6. c # last => chunk[c].next = ChunkStop(c) /\ ChunkStop(c) \in Chunks
  BY <1>4 DEF ListTilesHeap
<1>7. ChunkStop(c) = c + HEADER + chunk[c].size
  BY DEF ChunkStop
<1>8. ChunkStop(c) \in Nat /\ c < ChunkStop(c)
  BY <1>2, <1>7, Sizes
<1> QED  BY <1>2, <1>3, <1>4, <1>5, <1>6, <1>7, <1>8

\* Changing flags and marks leaves the tiling alone.
LEMMA SameTiling ==
    ASSUME ListTilesHeap, last \in Chunks,
           UNCHANGED <<first, last, list_size, heap_stop>>,
           Chunks' = Chunks,
           \A c \in Chunks : /\ chunk'[c].next = chunk[c].next
                            /\ chunk'[c].size = chunk[c].size
    PROVE  ListTilesHeap'
<1>1. \A c \in Chunks : ChunkStop(c)' = ChunkStop(c)
  BY DEF ChunkStop
<1>2. first' = 0 /\ chunk'[last'].next = NULL
  BY DEF ListTilesHeap
<1>3. list_size' = Cardinality(Chunks')
  BY DEF ListTilesHeap
<1>4. \A c, d \in Chunks' : c < d => ChunkStop(c)' <= d
  BY <1>1 DEF ListTilesHeap
<1>5. ASSUME NEW c \in Chunks'
      PROVE  /\ OBJECT <= chunk'[c].size
             /\ IF chunk'[c].next = NULL
                THEN c = last' /\ ChunkStop(c)' = heap_stop'
                ELSE chunk'[c].next \in Chunks' /\ chunk'[c].next = ChunkStop(c)'
             /\ ChunkStop(c)' <= heap_stop'
  BY <1>1 DEF ListTilesHeap
<1> QED  BY <1>2, <1>3, <1>4, <1>5 DEF ListTilesHeap
-----------------------------------------------------------------------------
(* Every step preserves the invariant *)

LEMMA InitIInv == Init => IInv
<1> SUFFICES ASSUME Init PROVE IInv
  OBVIOUS
<1>1. /\ Chunks = {0} /\ chunk[0] = NewChunk(INITIAL_SIZE - HEADER)
      /\ chunk \in [{0} -> Header]
  BY LayoutAssumption DEF Init, Chunks, NewChunk, Header, CHUNK
<1>2. TypeOK
  <2>1. ListType
    BY <1>1, LayoutAssumption DEF Init, ListType
  <2>2. CallType
    BY Sizes DEF Init, CallType, Collecting
  <2> QED  BY <2>1, <2>2 DEF TypeOK
<1>3. ListTilesHeap
  <2>1. Cardinality({0}) = 1
    BY FS_Singleton
  <2>2. ChunkStop(0) = INITIAL_SIZE /\ OBJECT <= chunk[0].size
    BY <1>1, LayoutAssumption DEF ChunkStop, NewChunk, CHUNK
  <2>3. chunk[0].next = NULL
    BY <1>1 DEF NewChunk
  <2>4. /\ first = 0 /\ last = 0 /\ list_size = 1 /\ heap_stop = INITIAL_SIZE
        /\ Chunks = {0}
    BY <1>1 DEF Init
  <2>5. \A c, d \in Chunks : c < d => ChunkStop(c) <= d
    BY <2>4
  <2>6. list_size = Cardinality(Chunks)
    BY <2>1, <2>4
  <2> HIDE DEF Chunks
  <2> QED  BY <2>2, <2>3, <2>4, <2>5, <2>6, LayoutAssumption DEF ListTilesHeap
<1>4. ObjectsKept /\ SweepInv /\ GrownInv /\ GrowthSuffices /\ MergeGrows
  BY DEF Init, ObjectsKept, SweepInv, AfterMark, Finalizing, GrownInv,
         GrowthSuffices, MergeGrows
<1> QED  BY <1>2, <1>3, <1>4 DEF IInv

\* The steps that leave the list and the sweep alone.
LEMMA ControlStep ==
    ASSUME IInv, UNCHANGED <<list, locals>>, TypeOK',
           live' \subseteq live, borrowed' = borrowed,
           pc' \in {"sweep", "absorb"} => pc' = pc,
           Finalizing' <=> Finalizing,
           pc' = "grown" => pc = "grown" /\ request' = request,
           status' \in {"running", "out of memory", status}
    PROVE  IInv'
<1>1. ListTilesHeap'
  BY DEF IInv, ListTilesHeap, list, ChunkStop, Chunks
<1>2. ObjectsKept'
  BY DEF IInv, ObjectsKept, list, Chunks
<1>3. SweepInv'
  BY DEF IInv, SweepInv, AfterMark, list, locals, Chunks, Between, Upper
<1>4. GrownInv'
  BY DEF IInv, GrownInv, list, Fitting, Chunks
<1>5. GrowthSuffices' /\ MergeGrows'
  BY DEF IInv, GrowthSuffices, MergeGrows
<1> QED  BY <1>1, <1>2, <1>3, <1>4, <1>5 DEF IInv

LEMMA MallocStep ==
    ASSUME IInv, NEW size \in SIZES, Malloc(size)
    PROVE  IInv'
<1>1. ListType'
  BY DEF IInv, TypeOK, ListType, Malloc, list, Chunks
<1>2. CallType'
  BY Sizes DEF IInv, TypeOK, CallType, Malloc, Running, Collecting, objects, locals
<1>3. Finalizing' <=> Finalizing
  BY DEF IInv, TypeOK, CallType, Malloc, Running, Finalizing, Collecting
<1> QED  BY <1>1, <1>2, <1>3, ControlStep DEF Malloc, Running, TypeOK, objects

LEMMA CollectionStep ==
    ASSUME IInv, Running("idle") \/ pc = "allocate", ~Collecting,
           NEW then \in {"idle", "retry"}, pc = "allocate" => then = "retry",
           pc = "idle" => then = "idle", StartCollection(then)
    PROVE  IInv'
<1>1. ListType'
  BY DEF IInv, TypeOK, ListType, StartCollection, list, Chunks
<1>2. CallType'
  BY Sizes DEF IInv, TypeOK, CallType, StartCollection, Running, Collecting,
               requests, locals
<1>3. live' \subseteq live
  BY DEF StartCollection
<1>4. ~Finalizing' /\ ~Finalizing
  BY DEF StartCollection, Finalizing
<1> QED  BY <1>1, <1>2, <1>3, <1>4, ControlStep DEF StartCollection, Running, TypeOK

LEMMA NoFitStep ==
    ASSUME IInv, NoFit
    PROVE  IInv'
<1>1. pc # "grown"
  BY DEF IInv, NoFit, GrownInv
<1>2. CASE pc = "allocate" /\ CollectionDue
  BY <1>2, CollectionStep DEF NoFit, CollectionDue
<1>3. CASE ~(pc = "allocate" /\ CollectionDue)
  <2>1. /\ pc' = "grow" /\ pc \in {"allocate", "retry"}
        /\ UNCHANGED <<list, allocated, live, borrowed, freed,
                     request, outer, caller, locals, status>>
    BY <1>1, <1>3 DEF NoFit, objects, requests
  <2>2. TypeOK'
    BY <2>1, Sizes
       DEF IInv, TypeOK, ListType, CallType, Collecting, list, locals, Chunks
  <2>3. Finalizing' <=> Finalizing
    BY <2>1 DEF IInv, TypeOK, CallType, Finalizing, Collecting
  <2> QED  BY <2>1, <2>2, <2>3, ControlStep
<1> QED  BY <1>2, <1>3

LEMMA SweepDoneStep ==
    ASSUME IInv, SweepDone
    PROVE  IInv'
<1>1. ListType'
  BY DEF IInv, TypeOK, ListType, SweepDone, list, Chunks
<1>2. CallType'
  BY Sizes DEF IInv, TypeOK, CallType, SweepDone, Running, Collecting, requests,
               locals
<1>3. pc' \in {"idle", "retry"}
  BY DEF IInv, TypeOK, CallType, SweepDone, Running, Collecting
<1>4. ~Finalizing' /\ ~Finalizing
  BY <1>3 DEF Finalizing, SweepDone, Running
<1> QED  BY <1>1, <1>2, <1>3, <1>4, ControlStep DEF SweepDone, Running, TypeOK

LEMMA StutterStep ==
    ASSUME IInv, UNCHANGED vars
    PROVE  IInv'
<1>1. /\ UNCHANGED list
      /\ allocated' = allocated /\ live' = live /\ borrowed' = borrowed
      /\ freed' = freed /\ pc' = pc /\ request' = request /\ outer' = outer
      /\ caller' = caller /\ current' = current /\ limit' = limit
      /\ count' = count /\ status' = status
  BY DEF vars, list, objects, requests, locals
<1>2. ListType'
  BY <1>1 DEF IInv, TypeOK, ListType, list, Chunks
<1>3. CallType'
  <2>1. CallType
    BY DEF IInv, TypeOK
  <2>2. Collecting' <=> Collecting
    BY <1>1 DEF Collecting
  <2>3. /\ allocated' \in Nat
        /\ live' \subseteq [at : Nat, size : SIZES]
        /\ borrowed' \subseteq [at : Nat, size : SIZES]
        /\ freed' \subseteq Nat
        /\ request' \in SIZES \cup {NULL} /\ outer' \in SIZES \cup {NULL}
        /\ current' \in Nat \cup {NULL} /\ limit' \in Nat \cup {NULL}
        /\ count' \in Nat
    BY ONLY <1>1, <2>1, Zenon DEF CallType
  <2>4. /\ pc' \in {"idle", "allocate", "retry", "grow", "grown", "unmark",
                    "mark", "finalize", "sweep", "absorb"}
        /\ pc' \in {"allocate", "retry", "grow", "grown"} => request' # NULL
        /\ pc' \in {"idle", "retry"} => ~Collecting'
        /\ pc' \in {"unmark", "mark", "finalize", "sweep", "absorb"} => Collecting'
    BY ONLY <1>1, <2>1, <2>2 DEF CallType
  <2>5. /\ caller' \in {"idle", "retry", NULL}
        /\ caller' = "retry" =>
              IF pc' \in {"allocate", "grow", "grown"} THEN outer' # NULL
              ELSE request' # NULL
        /\ status' \in {"running", "out of memory", "no luck",
                        "assertion failed"}
    BY ONLY <1>1, <2>1 DEF CallType
  <2> QED  BY ONLY <2>3, <2>4, <2>5, Zenon DEF CallType
<1>4. TypeOK' /\ (Finalizing' <=> Finalizing)
  BY ONLY <1>1, <1>2, <1>3 DEF TypeOK, Finalizing, Collecting
<1> QED  BY <1>1, <1>4, ControlStep DEF locals
\* The steps that change flags and marks only.
LEMMA FlagStep ==
    ASSUME IInv,
           UNCHANGED <<first, last, list_size, heap_stop>>,
           Chunks' = Chunks, chunk' \in [Chunks -> Header],
           \A c \in Chunks : /\ chunk'[c].next = chunk[c].next
                            /\ chunk'[c].size = chunk[c].size
    PROVE  ListType' /\ ListTilesHeap'
<1>1. ListType'
  BY DEF IInv, TypeOK, ListType
<1>2. ListTilesHeap'
  BY SameTiling DEF IInv, TypeOK, ListType
<1> QED  BY <1>1, <1>2

LEMMA FreeStep ==
    ASSUME IInv, NEW o \in live, Free(o)
    PROVE  IInv'
<1>1. /\ chunk \in [Chunks -> Header] /\ o.at \in Chunks
      /\ chunk' = [chunk EXCEPT ![o.at].allocated = FALSE]
      /\ live' = live \ {o}
      /\ pc = "idle" /\ pc' = "idle" /\ status' = status
      /\ UNCHANGED <<first, last, list_size, heap_stop, allocated, borrowed, freed,
                     request, outer, caller, locals>>
  BY DEF IInv, TypeOK, ListType, ObjectsKept, Free, Running, requests
<1>2. Chunks' = Chunks /\ chunk' \in [Chunks -> Header]
  BY <1>1 DEF Header, Chunks
<1>3. \A c \in Chunks : /\ chunk'[c].next = chunk[c].next
                        /\ chunk'[c].size = chunk[c].size
                        /\ c # o.at => chunk'[c] = chunk[c]
  BY <1>1 DEF Header
<1>4. ListType' /\ ListTilesHeap'
  BY <1>1, <1>2, <1>3, FlagStep
<1>5. CallType'
  BY <1>1 DEF IInv, TypeOK, CallType, Collecting, locals
<1>6. ObjectsKept'
  <2>1. ASSUME NEW p \in live' \cup borrowed'
        PROVE  p \in live \cup borrowed /\ p.at # o.at
    <3>1. borrowed = {}
      BY <1>1 DEF IInv, TypeOK, CallType, SweepInv, Finalizing
    <3> QED  BY <1>1, <2>1, <3>1 DEF IInv, ObjectsKept
  <2> QED  BY <1>1, <1>2, <1>3, <2>1 DEF IInv, ObjectsKept
<1>7. SweepInv' /\ GrownInv' /\ GrowthSuffices' /\ MergeGrows'
  BY <1>1 DEF IInv, TypeOK, CallType, Collecting, SweepInv, AfterMark, Finalizing,
              GrownInv, GrowthSuffices, MergeGrows
<1> QED  BY <1>4, <1>5, <1>6, <1>7 DEF IInv, TypeOK

LEMMA UnmarkStep ==
    ASSUME IInv, Unmark
    PROVE  IInv'
<1>1. /\ chunk \in [Chunks -> Header]
      /\ chunk' = [c \in Chunks |-> [chunk[c] EXCEPT !.marked = FALSE]]
      /\ pc = "unmark" /\ pc' = "mark" /\ status' = status
      /\ UNCHANGED <<first, last, list_size, heap_stop, allocated, live, borrowed, freed,
                     request, outer, caller, locals>>
  BY DEF IInv, TypeOK, ListType, Unmark, Running, objects, requests
<1>2. Chunks' = Chunks /\ chunk' \in [Chunks -> Header]
  BY <1>1 DEF Header, Chunks
<1>3. \A c \in Chunks : /\ chunk'[c].next = chunk[c].next
                        /\ chunk'[c].size = chunk[c].size
                        /\ chunk'[c].allocated = chunk[c].allocated
  BY <1>1 DEF Header
<1>4. ListType' /\ ListTilesHeap'
  BY <1>1, <1>2, <1>3, FlagStep
<1>5. CallType'
  BY <1>1 DEF IInv, TypeOK, CallType, Collecting, locals
<1>6. ObjectsKept'
  BY <1>1, <1>2, <1>3 DEF IInv, ObjectsKept
<1>7. SweepInv' /\ GrownInv' /\ GrowthSuffices' /\ MergeGrows'
  BY <1>1 DEF IInv, SweepInv, AfterMark, Finalizing, GrownInv, GrowthSuffices,
              MergeGrows
<1> QED  BY <1>4, <1>5, <1>6, <1>7 DEF IInv, TypeOK

\* Marking reaches every object in use.
LEMMA MarkStep ==
    ASSUME IInv, Mark
    PROVE  IInv'
<1>1. PICK inner \in BOOLEAN, spurious \in {{}} \cup {{p} : p \in SPURIOUS} :
         chunk' = [c \in Chunks |->
                      IF /\ chunk[c].allocated
                         /\ \E p \in Pointers(inner, spurious) :
                               Chunk_contains(c, p)
                      THEN [chunk[c] EXCEPT !.marked = TRUE]
                      ELSE chunk[c]]
  BY DEF Mark
<1>2. /\ chunk \in [Chunks -> Header] /\ first \in Chunks
      /\ pc = "mark" /\ pc' = "finalize" /\ status' = status
      /\ allocated' = 0
      /\ UNCHANGED <<first, last, list_size, heap_stop, live, borrowed, freed,
                     request, outer, caller, locals>>
  BY DEF IInv, TypeOK, ListType, Mark, Running, objects, requests
<1>3. Chunks' = Chunks /\ chunk' \in [Chunks -> Header]
  BY <1>1, <1>2 DEF Header, Chunks
<1>4. \A c \in Chunks : /\ chunk'[c].next = chunk[c].next
                        /\ chunk'[c].size = chunk[c].size
                        /\ chunk'[c].allocated = chunk[c].allocated
  BY <1>1, <1>2 DEF Header
<1>5. ListType' /\ ListTilesHeap'
  BY <1>2, <1>3, <1>4, FlagStep
<1>6. CallType'
  BY <1>2 DEF IInv, TypeOK, CallType, Collecting, locals
<1>7. ObjectsKept'
  BY <1>2, <1>3, <1>4 DEF IInv, ObjectsKept
<1>8. ASSUME NEW o \in live
      PROVE  chunk'[o.at].marked
  <2>1. /\ o.at \in Chunks /\ chunk[o.at].allocated
        /\ o.size + OBJECT <= chunk[o.at].size
    BY DEF IInv, ObjectsKept
  <2>2. o.size \in Nat /\ o.size > 0 /\ o.at \in Nat /\ chunk[o.at].size \in Nat
    BY <1>2, <2>1, Sizes DEF IInv, TypeOK, CallType, Header
  <2> DEFINE p == MutatorAddress(o.at) + IF inner THEN o.size - 1 ELSE 0
  <2>3. p \in Pointers(inner, spurious)
    BY DEF Pointers
  <2>4. Chunk_contains(o.at, p)
    BY <2>1, <2>2, Sizes DEF Chunk_contains, MutatorAddress, ChunkStop
  <2> HIDE DEF p
  <2>5. chunk'[o.at] = [chunk[o.at] EXCEPT !.marked = TRUE]
    BY <1>1, <2>1, <2>3, <2>4
  <2> QED  BY <1>2, <2>1, <2>5 DEF Header
<1>9. SweepInv'
  BY <1>2, <1>8 DEF IInv, SweepInv, Finalizing
<1>10. GrownInv' /\ GrowthSuffices' /\ MergeGrows'
  BY <1>2 DEF IInv, GrownInv, GrowthSuffices, MergeGrows
<1> QED  BY <1>5, <1>6, <1>7, <1>9, <1>10 DEF IInv, TypeOK

LEMMA FinalizerFreesStep ==
    ASSUME IInv, NEW f \in Chunks, FinalizerFrees(f)
    PROVE  IInv'
<1>1. /\ chunk \in [Chunks -> Header]
      /\ chunk' = [chunk EXCEPT ![f].allocated = FALSE]
      /\ live' = {o \in live : o.at # f}
      /\ borrowed' = {o \in borrowed : o.at # f}
      /\ freed' \subseteq freed \cup {f}
      /\ pc = "finalize" /\ pc' = "finalize" /\ status' = status
      /\ UNCHANGED <<first, last, list_size, heap_stop, allocated, request, outer,
                     caller, locals>>
  BY DEF IInv, TypeOK, ListType, FinalizerFrees, Running, requests
<1>2. Chunks' = Chunks /\ chunk' \in [Chunks -> Header]
  BY <1>1 DEF Header, Chunks
<1>3. \A c \in Chunks : /\ chunk'[c].next = chunk[c].next
                        /\ chunk'[c].size = chunk[c].size
                        /\ chunk'[c].marked = chunk[c].marked
                        /\ c # f => chunk'[c] = chunk[c]
  BY <1>1 DEF Header
<1>4. ListType' /\ ListTilesHeap'
  BY <1>1, <1>2, <1>3, FlagStep
<1>5. CallType'
  <2>1. f \in Nat
    BY DEF IInv, TypeOK, ListType
  <2> QED  BY <1>1, <2>1 DEF IInv, TypeOK, CallType, Collecting, locals
<1>6. ObjectsKept'
  <2>1. ASSUME NEW p \in live' \cup borrowed'
        PROVE  p \in live \cup borrowed /\ p.at # f
    BY <1>1
  <2> QED  BY <1>1, <1>2, <1>3, <2>1 DEF IInv, ObjectsKept
<1>7. SweepInv'
  <2>1. AfterMark
    BY <1>1 DEF IInv, TypeOK, CallType, AfterMark, Finalizing
  <2>2. \A o \in live : o.at \in Chunks /\ chunk[o.at].marked
    BY <2>1 DEF IInv, ObjectsKept, SweepInv
  <2>3. borrowed' # {} => Finalizing'
    BY <1>1 DEF IInv, SweepInv, Finalizing, Collecting
  <2> QED  BY <1>1, <1>3, <2>2, <2>3 DEF SweepInv
<1>8. GrownInv' /\ GrowthSuffices' /\ MergeGrows'
  BY <1>1 DEF IInv, GrownInv, GrowthSuffices, MergeGrows
<1> QED  BY <1>4, <1>5, <1>6, <1>7, <1>8 DEF IInv, TypeOK

LEMMA EndFinalizeStep ==
    ASSUME IInv, EndFinalize
    PROVE  IInv'
<1>1. /\ pc = "finalize" /\ pc' = "sweep" /\ status' = status
      /\ borrowed' = {} /\ current' = first
      /\ UNCHANGED <<list, allocated, live, freed, request, outer, caller, limit,
                     count>>
  BY DEF EndFinalize, Running, requests
<1>2. first \in Chunks /\ first \in Nat
  BY DEF IInv, TypeOK, ListType
<1>3. ListType' /\ ListTilesHeap'
  BY <1>1 DEF IInv, TypeOK, ListType, ListTilesHeap, list, Chunks, ChunkStop
<1>4. CallType'
  BY <1>1, <1>2 DEF IInv, TypeOK, CallType, Collecting
<1>5. ObjectsKept'
  BY <1>1 DEF IInv, ObjectsKept, list, Chunks
<1>6. SweepInv'
  <2>1. AfterMark
    BY <1>1 DEF IInv, TypeOK, CallType, AfterMark, Finalizing
  <2> QED  BY <1>1, <1>2, <2>1 DEF IInv, SweepInv, list, Chunks
<1>7. GrownInv' /\ GrowthSuffices' /\ MergeGrows'
  BY <1>1 DEF IInv, GrownInv, GrowthSuffices, MergeGrows
<1> QED  BY <1>3, <1>4, <1>5, <1>6, <1>7 DEF IInv, TypeOK
-----------------------------------------------------------------------------
(* The sweep *)

LEMMA SweepKeepStep ==
    ASSUME IInv, SweepKeep
    PROVE  IInv'
<1>1. /\ pc = "sweep" /\ pc' = "sweep" /\ status' = status
      /\ current # NULL /\ current' = chunk[current].next
      /\ UNCHANGED <<list, allocated, live, borrowed, freed,
                     request, outer, caller, limit, count>>
  BY DEF SweepKeep, Running, objects, requests
<1>2. current \in Chunks
  BY <1>1 DEF IInv, SweepInv
<1>3. /\ chunk[current].next \in Nat \cup {NULL}
      /\ chunk[current].next = NULL \/ chunk[current].next \in Chunks
  BY <1>2, ChunkFacts DEF IInv, Header
<1>4. ListType' /\ ListTilesHeap' /\ ObjectsKept'
  BY <1>1 DEF IInv, TypeOK, ListType, ListTilesHeap, ObjectsKept, list, Chunks,
              ChunkStop
<1>5. CallType'
  BY <1>1, <1>3 DEF IInv, TypeOK, CallType, Collecting
<1>6. SweepInv'
  BY <1>1, <1>3 DEF IInv, SweepInv, AfterMark, Finalizing, list, Chunks
<1>7. GrownInv' /\ GrowthSuffices' /\ MergeGrows'
  BY <1>1 DEF IInv, GrownInv, GrowthSuffices, MergeGrows
<1> QED  BY <1>4, <1>5, <1>6, <1>7 DEF IInv, TypeOK

\* An unmarked chunk holds no object in use; no chunk lies between it and the
\* next one.
LEMMA SweepFreeStep ==
    ASSUME IInv, SweepFree
    PROVE  IInv'
<1>1. /\ pc = "sweep" /\ pc' = "absorb" /\ status' = status
      /\ current # NULL /\ ~chunk[current].marked
      /\ chunk' = [chunk EXCEPT ![current].allocated = FALSE]
      /\ limit' = chunk[current].next /\ count' = 0
      /\ UNCHANGED <<first, last, list_size, heap_stop, allocated, live, borrowed, freed,
                     request, outer, caller, current>>
  BY DEF SweepFree, Running, objects, requests
<1>2. current \in Chunks /\ chunk \in [Chunks -> Header]
  BY <1>1 DEF IInv, SweepInv, TypeOK, ListType
<1>3. Chunks' = Chunks /\ chunk' \in [Chunks -> Header]
  BY <1>1, <1>2 DEF Header, Chunks
<1>4. \A c \in Chunks : /\ chunk'[c].next = chunk[c].next
                        /\ chunk'[c].size = chunk[c].size
                        /\ chunk'[c].marked = chunk[c].marked
                        /\ c # current => chunk'[c] = chunk[c]
  BY <1>1, <1>2 DEF Header
<1>5. ListType' /\ ListTilesHeap'
  BY <1>1, <1>3, <1>4, FlagStep
<1>6. /\ current \in Nat
      /\ limit' \in Nat \cup {NULL}
      /\ limit' # NULL => limit' \in Chunks /\ limit' = ChunkStop(current)
      /\ limit' = NULL => heap_stop = ChunkStop(current)
      /\ current < ChunkStop(current)
      /\ heap_stop # NULL
  BY <1>1, <1>2, ChunkFacts, Sizes DEF IInv, Header, TypeOK, ListType
<1>7. CallType'
  BY <1>1, <1>6 DEF IInv, TypeOK, CallType, Collecting
<1>8. ObjectsKept'
  <2>1. \A o \in live \cup borrowed : o.at \in Chunks /\ o.at # current
    BY <1>1 DEF IInv, ObjectsKept, SweepInv, AfterMark, Finalizing
  <2> QED  BY <1>1, <1>3, <1>4, <2>1 DEF IInv, ObjectsKept
<1>9. SweepInv'
  <2>1. \A o \in live : chunk'[o.at].marked
    BY <1>1, <1>4 DEF IInv, SweepInv, AfterMark, ObjectsKept
  <2>2. Upper' = ChunkStop(current)
    BY <1>1, <1>6 DEF Upper
  <2>3. ASSUME NEW c \in Chunks, current < c, c < ChunkStop(current)
        PROVE  FALSE
    <3>1. ChunkStop(current) <= c
      BY <1>2, <2>3 DEF IInv, ListTilesHeap
    <3> QED  BY <1>2, <2>3, <3>1, ChunkFacts DEF IInv
  <2>4. Between' = {}
    BY <1>1, <1>3, <2>2, <2>3 DEF Between
  <2>5. Cardinality({}) = 0
    BY FS_EmptySet
  <2>6. borrowed' = {}
    BY <1>1 DEF IInv, SweepInv, Finalizing
  <2> QED  BY <1>1, <1>2, <1>3, <1>4, <1>6, <2>1, <2>4, <2>5, <2>6 DEF SweepInv
<1>10. GrownInv' /\ GrowthSuffices' /\ MergeGrows'
  BY <1>1 DEF IInv, GrownInv, GrowthSuffices, MergeGrows
<1> QED  BY <1>5, <1>7, <1>8, <1>9, <1>10 DEF IInv, TypeOK

\* Absorbing a chunk adds it, and nothing else, to the run.
LEMMA AbsorbStep ==
    ASSUME IInv, Absorb
    PROVE  IInv'
<1>1. /\ pc = "absorb" /\ pc' = "absorb" /\ status' = status
      /\ limit # NULL /\ ~chunk[limit].marked
      /\ limit' = chunk[limit].next /\ count' = count + 1
      /\ UNCHANGED <<list, allocated, live, borrowed, freed,
                     request, outer, caller, current>>
      /\ Chunks' = Chunks /\ chunk' = chunk /\ heap_stop' = heap_stop
  BY DEF Absorb, Running, list, objects, requests, Chunks
<1>2. /\ limit \in Chunks /\ current < limit /\ current \in Chunks
      /\ chunk[current].next # NULL
  BY <1>1 DEF IInv, SweepInv
<1>3. /\ limit \in Nat /\ current \in Nat
      /\ limit' \in Nat \cup {NULL}
      /\ limit' # NULL => limit' \in Chunks /\ limit' = ChunkStop(limit)
      /\ limit' = NULL => heap_stop = ChunkStop(limit)
      /\ ChunkStop(limit) \in Nat /\ limit < ChunkStop(limit)
  BY <1>1, <1>2, ChunkFacts DEF IInv, Header
<1>4. ListType' /\ ListTilesHeap' /\ ObjectsKept'
  BY <1>1 DEF IInv, TypeOK, ListType, ListTilesHeap, ObjectsKept, list, ChunkStop
<1>5. CallType'
  <2>1. count \in Nat /\ count' = count + 1
    BY <1>1 DEF IInv, TypeOK, CallType
  <2>2. count' \in Nat
    BY <2>1
  <2> QED  BY <1>1, <1>3, <2>2 DEF IInv, TypeOK, CallType, Collecting
<1>6. SweepInv'
  <2>1. Upper = limit /\ Upper' = ChunkStop(limit)
    BY <1>1, <1>3 DEF Upper
  <2>2. ASSUME NEW c \in Chunks
        PROVE  c < ChunkStop(limit) <=> c < limit \/ c = limit
    <3>1. c \in Nat
      BY ChunkFacts DEF IInv
    <3>2. limit < c => ChunkStop(limit) <= c
      BY <1>2 DEF IInv, ListTilesHeap
    <3> QED  BY <1>3, <3>1, <3>2
  <2>3. Between' = Between \cup {limit} /\ limit \notin Between
    <3>1. Between = {c \in Chunks : current < c /\ c < limit}
      BY <2>1 DEF Between
    <3>2. Between' = {c \in Chunks : current < c /\ c < ChunkStop(limit)}
      BY <1>1, <2>1 DEF Between
    <3>3. ASSUME NEW c \in Chunks
          PROVE  c \in Between' <=> c \in Between \/ c = limit
      <4>1. c = limit => current < c
        BY <1>2
      <4> QED  BY <2>2, <3>1, <3>2, <4>1
    <3>4. limit \notin Between
      BY <1>3, <3>1
    <3> QED  BY <1>2, <3>1, <3>2, <3>3, <3>4
  <2>4. IsFiniteSet(Between)
    <3>1. Between \in SUBSET Chunks
      BY DEF Between
    <3> QED  BY <3>1, ChunksFinite, FS_Subset DEF IInv
  <2>5. Cardinality(Between') = Cardinality(Between) + 1
    BY <2>3, <2>4, FS_AddElement
  <2>6. \A c \in Between' : ~chunk[c].marked
    BY <1>1, <2>3 DEF IInv, SweepInv
  <2>7. limit' # NULL => current < limit'
    BY <1>2, <1>3
  <2> QED  BY <1>1, <1>2, <1>3, <2>5, <2>6, <2>7 DEF IInv, SweepInv, AfterMark, Finalizing
<1>7. GrownInv' /\ GrowthSuffices' /\ MergeGrows'
  BY <1>1 DEF IInv, GrownInv, GrowthSuffices, MergeGrows
<1> QED  BY <1>4, <1>5, <1>6, <1>7 DEF IInv, TypeOK

\* What the sweep merges up to is where the absorbed run ends.
LEMMA MergeLimit ==
    ASSUME IInv, MEMORY_LIMIT <= INT_MAX
    PROVE  (IF limit = NULL THEN ListLimit ELSE limit) = Upper
BY LimitIsHeapStop DEF IInv, Upper

\* Merging: the chunk at `current' takes the run over, whole chunks of it.
LEMMA MergeStep ==
    ASSUME IInv, pc = "absorb", limit # chunk[current].next,
           MergeUpTo(current, Upper)
    PROVE  IInv'
<1> DEFINE size == ToSize(Upper - current - HEADER)
           kept == {d \in Chunks : d <= current \/ d >= Upper}
<1>1. /\ current \in Chunks /\ ~chunk[current].marked
      /\ limit # NULL => limit \in Chunks /\ current < limit
      /\ chunk[current].next # NULL
      /\ \A c \in Between : ~chunk[c].marked
      /\ count = Cardinality(Between)
  BY DEF IInv, SweepInv
<1>2. /\ current \in Nat /\ chunk[current] \in Header
      /\ chunk[current].size \in Nat /\ OBJECT <= chunk[current].size
      /\ current # last
      /\ ChunkStop(current) = current + HEADER + chunk[current].size
      /\ ChunkStop(current) \in Chunks
      /\ chunk[current].next = ChunkStop(current)
      /\ \A c \in Chunks : /\ c \in Nat
                          /\ ChunkStop(c) \in Nat /\ c < ChunkStop(c)
                          /\ ChunkStop(c) <= heap_stop
      /\ heap_stop \in Nat
  BY <1>1, ChunkFacts DEF IInv, TypeOK, ListType
<1>3. /\ Upper \in Nat /\ ChunkStop(current) < Upper /\ Upper <= heap_stop
      /\ limit = NULL => Upper = heap_stop
      /\ limit # NULL => Upper = limit
  <2>1. CASE limit = NULL
    BY <1>2, <2>1 DEF Upper
  <2>2. CASE limit # NULL
    <3>1. ChunkStop(current) <= limit /\ ChunkStop(current) \in Nat
      BY <1>1, <1>2, <2>2 DEF IInv, ListTilesHeap
    <3>2. ChunkStop(current) # limit
      BY <1>2
    <3>3. limit \in Nat /\ ChunkStop(limit) \in Nat /\ limit < ChunkStop(limit)
          /\ ChunkStop(limit) <= heap_stop
      BY <1>1, <1>2, <2>2
    <3>4. limit <= heap_stop /\ ChunkStop(current) < limit
      BY <1>2, <3>1, <3>2, <3>3
    <3>5. Upper = limit
      BY <2>2 DEF Upper
    <3> QED  BY <2>2, <3>3, <3>4, <3>5
  <2> QED  BY <2>1, <2>2
<1>4. size = Upper - current - HEADER /\ size > chunk[current].size /\ size \in Nat
  <2>1. SIZE_MODULUS \in Nat /\ heap_stop < SIZE_MODULUS /\ HEADER \in Nat
    <3>1. SMALL_HEAP_SIZE + heap_stop <= MEMORY_LIMIT
      BY DEF IInv, TypeOK, ListType
    <3>2. /\ SMALL_HEAP_SIZE \in Nat /\ MEMORY_LIMIT \in Nat
          /\ SIZE_MODULUS \in Nat /\ SIZE_MODULUS > MEMORY_LIMIT
      BY LayoutAssumption
    <3> QED  BY <1>2, <3>1, <3>2, Sizes
  <2>2. /\ Upper - current - HEADER \in Nat
        /\ Upper - current - HEADER > chunk[current].size
        /\ Upper - current - HEADER < SIZE_MODULUS
    BY <1>2, <1>3, <2>1
  <2> QED  BY <2>1, <2>2, SmallModulus DEF ToSize
<1> HIDE DEF size
<1>5. /\ chunk' = [d \in kept |->
                      IF d = current
                      THEN [chunk[current] EXCEPT !.next = limit, !.size = size]
                      ELSE chunk[d]]
      /\ last' = IF limit = NULL THEN current ELSE last
      /\ list_size' = list_size - count
      /\ current' = limit /\ limit' = NULL /\ count' = 0 /\ pc' = "sweep"
      /\ UNCHANGED <<first, heap_stop, allocated, live, borrowed, freed,
                     request, outer, caller, status>>
  BY <1>4 DEF MergeUpTo, NextChunk, size, objects, requests
<1> PICK k \in Chunks : k = current
  BY <1>1
<1>6. /\ Chunks' = kept /\ k \in kept /\ kept \subseteq Chunks
      /\ chunk'[k].next = limit /\ chunk'[k].size = size
      /\ \A d \in kept : d # k => chunk'[d] = chunk[d]
  <2>1. k \in kept /\ kept \subseteq Chunks
    BY <1>2
  <2>2. Chunks' = kept
    BY <1>5 DEF Chunks
  <2>3. chunk'[k] = [chunk[k] EXCEPT !.next = limit, !.size = size]
    BY <1>5, <2>1
  <2>4. \A d \in kept : d # k => chunk'[d] = chunk[d]
    BY <1>5
  <2> QED  BY <1>2, <2>1, <2>2, <2>3, <2>4 DEF Header
<1>7. ChunkStop(k)' = Upper
      /\ \A d \in kept : d # k => ChunkStop(d)' = ChunkStop(d)
  <2>1. k + HEADER + size = Upper
    BY <1>2, <1>3, <1>4, Sizes
  <2>2. ChunkStop(k)' = Upper
    BY <1>6, <2>1 DEF ChunkStop
  <2>3. \A d \in kept : d # k => ChunkStop(d)' = ChunkStop(d)
    BY <1>6 DEF ChunkStop
  <2> QED  BY <2>2, <2>3
<1>8. Chunks = kept \cup Between /\ kept \cap Between = {}
  <2>1. \A d \in Chunks : d \in kept <=> d \notin Between
    BY <1>2, <1>3 DEF Between
  <2> QED  BY <1>6, <2>1 DEF Between
<1> HIDE DEF kept
<1>9. list_size' = Cardinality(kept)
  <2>1. /\ IsFiniteSet(Chunks) /\ kept \in SUBSET Chunks
        /\ Between \in SUBSET Chunks
    BY <1>6, ChunksFinite DEF IInv, Between
  <2>2. IsFiniteSet(kept) /\ IsFiniteSet(Between)
    BY <2>1, FS_Subset
  <2>3. Cardinality(Chunks) = Cardinality(kept) + Cardinality(Between)
                              - Cardinality(kept \cap Between)
    BY <1>8, <2>2, FS_Union
  <2>4. Cardinality(kept \cap Between) = 0
    BY <1>8, FS_EmptySet
  <2>5. Cardinality(kept) \in Nat /\ Cardinality(Between) \in Nat
    BY <2>2, FS_CardinalityType
  <2>6. list_size = Cardinality(Chunks)
    BY DEF IInv, ListTilesHeap
  <2> QED  BY <1>1, <1>5, <2>3, <2>4, <2>5, <2>6
<1>10. PICK n \in Nat : n = list_size'
  <2>1. IsFiniteSet(kept)
    BY <1>6, ChunksFinite, FS_Subset DEF IInv
  <2> QED  BY <1>9, <2>1, FS_CardinalityType
<1>11. limit # NULL => limit \in kept
  BY <1>1, <1>2, <1>3 DEF kept
<1>12. last' \in kept /\ chunk'[last'].next = NULL
  <2>1. CASE limit = NULL
    BY <1>5, <1>6, <2>1
  <2>2. CASE limit # NULL
    <3>1. last \in Chunks /\ last \in Nat /\ ChunkStop(last) = heap_stop
          /\ chunk[last].next = NULL
      BY <1>2, ChunkFacts DEF IInv, TypeOK, ListType
    <3>2. last >= limit
      <4>1. last < limit => ChunkStop(last) <= limit
        BY <1>1, <2>2, <3>1 DEF IInv, ListTilesHeap
      <4>2. /\ limit \in Nat /\ ChunkStop(limit) \in Nat /\ heap_stop \in Nat
            /\ limit < ChunkStop(limit) /\ ChunkStop(limit) <= heap_stop
        BY <1>1, <1>2, <2>2
      <4>3. ~(last < limit)
        BY <3>1, <4>1, <4>2
      <4> QED  BY <3>1, <4>2, <4>3
    <3>3. last \in kept
      BY <1>3, <2>2, <3>1, <3>2 DEF kept
    <3> QED  BY <1>2, <1>5, <1>6, <2>2, <3>1, <3>3
  <2> QED  BY <2>1, <2>2
<1>13. first' \in kept /\ first' = 0
  <2>1. first = 0 /\ first \in Chunks
    BY DEF IInv, TypeOK, ListType, ListTilesHeap
  <2> QED  BY <1>2, <1>5, <2>1 DEF kept
<1>14. chunk' \in [kept -> Header]
  <2>1. chunk \in [Chunks -> Header]
    BY DEF IInv, TypeOK, ListType
  <2>2. limit \in Nat \cup {NULL}
    BY <1>1, <1>2
  <2>3. [chunk[current] EXCEPT !.next = limit, !.size = size] \in Header
    BY <1>2, <1>4, <2>2 DEF Header
  <2> QED  BY <1>5, <1>6, <2>1, <2>3
<1>15. ListType'
  BY <1>5, <1>6, <1>10, <1>12, <1>13, <1>14 DEF IInv, TypeOK, ListType
<1>16. ASSUME NEW d \in kept
       PROVE  /\ OBJECT <= chunk'[d].size
              /\ IF chunk'[d].next = NULL
                 THEN d = last' /\ ChunkStop(d)' = heap_stop'
                 ELSE chunk'[d].next \in kept /\ chunk'[d].next = ChunkStop(d)'
              /\ ChunkStop(d)' <= heap_stop'
  <2>1. CASE d = k
    <3>1. OBJECT <= size
      BY <1>2, <1>4, Sizes
    <3> QED  BY <1>3, <1>5, <1>6, <1>7, <1>11, <2>1, <3>1
  <2>2. CASE d # k
    <3>1. chunk'[d] = chunk[d] /\ ChunkStop(d)' = ChunkStop(d) /\ d \in Chunks
      BY <1>6, <1>7, <2>2
    <3>2. /\ OBJECT <= chunk[d].size /\ ChunkStop(d) <= heap_stop
          /\ chunk[d].next = NULL <=> d = last
          /\ d = last => ChunkStop(d) = heap_stop
          /\ d # last => chunk[d].next = ChunkStop(d) /\ ChunkStop(d) \in Chunks
          /\ d \in Nat /\ ChunkStop(d) \in Nat /\ d < ChunkStop(d)
      BY <3>1, ChunkFacts DEF IInv
    <3>3. d # last => ChunkStop(d) \in kept
      <4>1. d < current => ChunkStop(d) <= current
        BY <1>1, <3>1 DEF IInv, ListTilesHeap
      <4>2. d < current \/ d >= Upper
        BY <1>2, <1>3, <2>2, <3>2 DEF kept
      <4> QED  BY <1>2, <1>3, <3>2, <4>1, <4>2 DEF kept
    <3>4. d = last => last' = last
      <4>1. d = last => limit # NULL
        <5> SUFFICES ASSUME d = last, limit = NULL PROVE FALSE
          OBVIOUS
        <5>1. ChunkStop(d) = heap_stop /\ Upper = heap_stop
          BY <1>3, <3>2
        <5>2. d < current
          BY <1>2, <1>3, <2>2, <3>2, <5>1 DEF kept
        <5>3. ChunkStop(d) <= current
          BY <1>1, <3>1, <5>2 DEF IInv, ListTilesHeap
        <5>4. current < heap_stop
          BY <1>1, <1>2, <1>3
        <5> QED  BY <1>2, <5>1, <5>3, <5>4
      <4> QED  BY <1>5, <4>1
    <3> QED  BY <1>5, <3>1, <3>2, <3>3, <3>4
  <2> QED  BY <2>1, <2>2
<1>17. ASSUME NEW c \in kept, NEW d \in kept, c < d
       PROVE  ChunkStop(c)' <= d
  <2>1. CASE c = k
    <3>1. d >= Upper
      BY <1>2, <1>17, <2>1 DEF kept
    <3> QED  BY <1>7, <2>1, <3>1
  <2>2. CASE c # k
    <3>1. ChunkStop(c) <= d
      BY <1>6, <1>17 DEF IInv, ListTilesHeap
    <3> QED  BY <1>7, <2>2, <3>1
  <2> QED  BY <2>1, <2>2
<1>18. ListTilesHeap'
  BY <1>6, <1>9, <1>12, <1>13, <1>16, <1>17 DEF ListTilesHeap
<1>19. CallType'
  <2>1. limit \in Nat \cup {NULL}
    BY <1>1, <1>2
  <2>2. Collecting /\ Collecting'
    BY <1>5 DEF IInv, TypeOK, CallType, Collecting
  <2> QED  BY <1>5, <2>1, <2>2 DEF IInv, TypeOK, CallType
<1>20. ASSUME NEW o \in live \cup borrowed
       PROVE  o.at \in kept /\ o.at # k /\ chunk'[o.at] = chunk[o.at]
  <2>1. o.at \in Chunks /\ chunk[o.at].marked
    BY DEF IInv, ObjectsKept, SweepInv, AfterMark, Finalizing
  <2> QED  BY <1>1, <1>6, <1>8, <2>1
<1>21. ObjectsKept'
  BY <1>5, <1>6, <1>20 DEF IInv, ObjectsKept
<1>22. SweepInv'
  BY <1>5, <1>6, <1>11, <1>20 DEF IInv, SweepInv, AfterMark, Finalizing
<1>23. GrownInv' /\ GrowthSuffices' /\ MergeGrows'
  BY <1>5 DEF IInv, GrownInv, GrowthSuffices, MergeGrows
<1> QED  BY <1>15, <1>18, <1>19, <1>21, <1>22, <1>23 DEF IInv, TypeOK

LEMMA AbsorbDoneStep ==
    ASSUME IInv, MEMORY_LIMIT <= INT_MAX, AbsorbDone
    PROVE  IInv'
<1>1. CASE limit # chunk[current].next
  BY <1>1, MergeLimit, MergeStep DEF AbsorbDone, Running
<1>2. CASE limit = chunk[current].next
  <2>1. /\ pc = "absorb" /\ pc' = "sweep" /\ status' = status
        /\ current' = limit /\ limit' = NULL /\ count' = 0
        /\ UNCHANGED <<list, allocated, live, borrowed, freed, request, outer,
                       caller>>
    BY <1>2 DEF AbsorbDone, NextChunk, Running, objects, requests
  <2>2. limit # NULL => limit \in Chunks
    BY <2>1 DEF IInv, SweepInv
  <2>3. ListType' /\ ListTilesHeap' /\ ObjectsKept'
    BY <2>1 DEF IInv, TypeOK, ListType, ListTilesHeap, ObjectsKept, list, Chunks,
                ChunkStop
  <2>4. CallType'
    BY <2>1 DEF IInv, TypeOK, CallType, Collecting
  <2>5. SweepInv'
    BY <2>1, <2>2 DEF IInv, SweepInv, AfterMark, Finalizing, list, Chunks
  <2>6. GrownInv' /\ GrowthSuffices' /\ MergeGrows'
    BY <2>1 DEF IInv, GrownInv, GrowthSuffices, MergeGrows
  <2> QED  BY <2>3, <2>4, <2>5, <2>6 DEF IInv, TypeOK
<1> QED  BY <1>1, <1>2
-----------------------------------------------------------------------------
(* Allocation and growth *)

\* The request takes the whole chunk.
LEMMA WholeChunk ==
    ASSUME IInv, NEW c \in Chunks,
           chunk' = [chunk EXCEPT ![c].allocated = TRUE],
           UNCHANGED <<first, last, list_size, heap_stop>>
    PROVE  /\ ListType' /\ ListTilesHeap'
           /\ Chunks' = Chunks
           /\ chunk'[c].allocated /\ chunk'[c].size = chunk[c].size
           /\ \A d \in Chunks : d # c => chunk'[d] = chunk[d]
<1>1. chunk \in [Chunks -> Header]
  BY DEF IInv, TypeOK, ListType
<1>2. Chunks' = Chunks /\ chunk' \in [Chunks -> Header]
  BY <1>1 DEF Header, Chunks
<1>3. /\ chunk'[c].allocated
      /\ \A d \in Chunks : /\ chunk'[d].next = chunk[d].next
                           /\ chunk'[d].size = chunk[d].size
                           /\ d # c => chunk'[d] = chunk[d]
  BY <1>1 DEF Header
<1>4. ListType' /\ ListTilesHeap'
  BY <1>2, <1>3, FlagStep
<1> QED  BY <1>2, <1>3, <1>4

SplitsOff(c, size, rest) ==
    /\ chunk' = [d \in Chunks \cup {rest} |->
                   IF d = c
                   THEN [chunk[c] EXCEPT !.size = size, !.next = rest,
                                         !.allocated = TRUE]
                   ELSE IF d = rest
                   THEN [NewChunk(chunk[c].size - size - HEADER) EXCEPT
                           !.next = IF c = last THEN NULL ELSE chunk[c].next]
                   ELSE chunk[d]]
    /\ last' = IF c = last THEN rest ELSE last
    /\ list_size' = list_size + 1

\* The request takes the start of the chunk, and the rest becomes a chunk.
LEMMA SplitChunk ==
    ASSUME IInv, NEW c \in Chunks, NEW size \in Nat, NEW rest,
           size >= OBJECT, rest = c + HEADER + size,
           chunk[c].size - size >= CHUNK_MIN_SIZE,
           SplitsOff(c, size, rest),
           UNCHANGED <<first, heap_stop>>
    PROVE  /\ ListType' /\ ListTilesHeap'
           /\ Chunks' = Chunks \cup {rest} /\ rest \notin Chunks
           /\ chunk'[c].allocated /\ chunk'[c].size = size
           /\ ~chunk'[rest].marked
           /\ \A d \in Chunks : d # c => chunk'[d] = chunk[d]
<1> DEFINE remaining == chunk[c].size - size
           new == Chunks \cup {rest}
           next == IF c = last THEN NULL ELSE chunk[c].next
<1>0. /\ last' = (IF c = last THEN rest ELSE last)
      /\ list_size' = list_size + 1
      /\ chunk' = [d \in new |-> chunk'[d]]
  BY DEF SplitsOff
<1>1. /\ c \in Nat /\ chunk[c] \in Header /\ chunk[c].size \in Nat
      /\ ChunkStop(c) = c + HEADER + chunk[c].size /\ ChunkStop(c) \in Nat
      /\ ChunkStop(c) <= heap_stop
      /\ c = last => ChunkStop(c) = heap_stop
      /\ c # last => chunk[c].next = ChunkStop(c) /\ ChunkStop(c) \in Chunks
  BY ChunkFacts DEF IInv
<1>2. /\ remaining \in Nat /\ remaining - HEADER \in Nat
      /\ remaining - HEADER >= OBJECT
      /\ rest \in Nat /\ c < rest /\ rest < ChunkStop(c)
      /\ rest + HEADER + (remaining - HEADER) = ChunkStop(c)
  BY <1>1, Sizes
<1> HIDE DEF remaining
<1>3. rest \notin Chunks
  <2> SUFFICES ASSUME rest \in Chunks PROVE FALSE
    OBVIOUS
  <2>1. ChunkStop(c) <= rest
    BY <1>2 DEF IInv, ListTilesHeap
  <2> QED  BY <1>1, <1>2, <2>1
<1>4. next = NULL \/ next \in Nat
  BY <1>1
<1>5. NewChunk(remaining - HEADER) \in Header
  BY <1>2 DEF NewChunk, Header
<1>6. /\ Chunks' = new
      /\ chunk'[c] = [chunk[c] EXCEPT !.size = size, !.next = rest,
                                     !.allocated = TRUE]
      /\ chunk'[rest] = [NewChunk(remaining - HEADER) EXCEPT !.next = next]
      /\ \A d \in Chunks : d # c => chunk'[d] = chunk[d]
  BY <1>2, <1>3 DEF Chunks, remaining, SplitsOff
<1> HIDE DEF next
<1>7. /\ chunk'[c] \in Header /\ chunk'[c].size = size
      /\ chunk'[c].next = rest /\ chunk'[c].allocated
  BY <1>1, <1>2, <1>6 DEF Header
<1>8. /\ chunk'[rest] \in Header /\ chunk'[rest].size = remaining - HEADER
      /\ chunk'[rest].next = next /\ ~chunk'[rest].marked
  BY <1>2, <1>4, <1>5, <1>6 DEF Header, NewChunk
<1>9. chunk' \in [new -> Header]
  <2>1. chunk \in [Chunks -> Header]
    BY DEF IInv, TypeOK, ListType
  <2>2. \A d \in new : chunk'[d] \in Header
    BY <1>6, <1>7, <1>8, <2>1
  <2> QED  BY <1>0, <2>2
<1>10. /\ ChunkStop(c)' = rest /\ ChunkStop(rest)' = ChunkStop(c)
       /\ \A d \in Chunks : d # c => ChunkStop(d)' = ChunkStop(d)
  BY <1>2, <1>6, <1>7, <1>8 DEF ChunkStop
<1>11. list_size' = Cardinality(new)
  <2>1. IsFiniteSet(Chunks) /\ list_size = Cardinality(Chunks)
    BY ChunksFinite DEF IInv, ListTilesHeap
  <2> QED  BY <1>0, <1>3, <2>1, FS_AddElement
<1>12. first' \in new /\ first' = 0 /\ last' \in new
  BY <1>0 DEF IInv, TypeOK, ListType, ListTilesHeap
<1>13. ListType'
  <2>1. list_size' \in Nat /\ new \subseteq Nat
    BY <1>0, <1>2 DEF IInv, TypeOK, ListType
  <2> QED  BY <1>6, <1>9, <1>12, <2>1 DEF IInv, TypeOK, ListType
<1>14. ASSUME NEW d \in Chunks, d # c
       PROVE  /\ d \in Nat /\ OBJECT <= chunk'[d].size
              /\ chunk'[d].next = NULL <=> d = last
              /\ d = last => ChunkStop(d)' = heap_stop
              /\ d # last => /\ chunk'[d].next = ChunkStop(d)'
                             /\ ChunkStop(d)' \in Chunks
              /\ ChunkStop(d)' <= heap_stop /\ ChunkStop(d)' \in Nat
              /\ d < c => ChunkStop(d)' <= c
              /\ c < d => ChunkStop(c) <= d
  <2>1. chunk'[d] = chunk[d] /\ ChunkStop(d)' = ChunkStop(d)
    BY <1>6, <1>10, <1>14
  <2>2. (d < c => ChunkStop(d) <= c) /\ (c < d => ChunkStop(c) <= d)
    BY DEF IInv, ListTilesHeap
  <2> QED  BY <2>1, <2>2, ChunkFacts DEF IInv
<1>15. ASSUME NEW d \in new
       PROVE  /\ OBJECT <= chunk'[d].size
              /\ IF chunk'[d].next = NULL
                 THEN d = last' /\ ChunkStop(d)' = heap_stop'
                 ELSE chunk'[d].next \in new /\ chunk'[d].next = ChunkStop(d)'
              /\ ChunkStop(d)' <= heap_stop'
  <2>1. CASE d = c
    BY <1>1, <1>2, <1>7, <1>10, <2>1, Sizes DEF IInv, TypeOK, ListType
  <2>2. CASE d = rest
    BY <1>0, <1>1, <1>2, <1>8, <1>10, <2>2, Sizes DEF next
  <2>3. CASE d # c /\ d # rest
    <3>1. d \in Chunks
      BY <2>3
    <3>2. d = last => last' = last
      BY <1>0, <2>3
    <3> QED  BY <1>14, <2>3, <3>1, <3>2
  <2> QED  BY <2>1, <2>2, <2>3
<1>16. chunk'[last'].next = NULL
  <2>1. CASE c = last
    BY <1>0, <1>8, <2>1 DEF next
  <2>2. CASE c # last
    BY <1>0, <1>14, <2>2 DEF IInv, TypeOK, ListType
  <2> QED  BY <2>1, <2>2
<1>17. ASSUME NEW d \in new, NEW e \in new, d < e
       PROVE  ChunkStop(d)' <= e
  <2>1. CASE d = c
    <3>1. CASE e = rest
      BY <1>2, <1>10, <2>1, <3>1
    <3>2. CASE e # rest
      <4>1. e \in Chunks /\ e # c /\ c < e
        BY <1>1, <1>17, <2>1, <3>2
      <4>2. ChunkStop(c) <= e /\ e \in Nat
        BY <1>14, <4>1
      <4> QED  BY <1>1, <1>2, <1>10, <2>1, <4>2
    <3> QED  BY <3>1, <3>2
  <2>2. CASE d = rest
    <3>1. e \in Chunks /\ e # c /\ c < e
      BY <1>1, <1>2, <1>17, <2>2, ChunkFacts DEF IInv
    <3> QED  BY <1>10, <1>14, <2>2, <3>1
  <2>3. CASE d # c /\ d # rest
    <3>1. d \in Chunks
      BY <2>3
    <3>2. CASE e = rest
      <4>1. d < c
        <5>1. c < d => ChunkStop(c) <= d
          BY <1>14, <2>3, <3>1
        <5> QED  BY <1>1, <1>2, <1>14, <1>17, <2>3, <3>1, <3>2, <5>1
      <4>2. ChunkStop(d)' <= c /\ ChunkStop(d)' \in Nat
        BY <1>14, <2>3, <3>1, <4>1
      <4> QED  BY <1>1, <1>2, <3>2, <4>2
    <3>3. CASE e # rest
      <4>1. ChunkStop(d) <= e
        BY <1>17, <3>1, <3>3 DEF IInv, ListTilesHeap
      <4> QED  BY <1>10, <2>3, <3>1, <4>1
    <3> QED  BY <3>2, <3>3
  <2> QED  BY <2>1, <2>2, <2>3
<1> HIDE DEF new
<1>18. ListTilesHeap'
  BY <1>6, <1>11, <1>12, <1>15, <1>16, <1>17 DEF ListTilesHeap
<1> QED  BY <1>3, <1>6, <1>7, <1>8, <1>13, <1>18 DEF new

\* The request takes a free chunk, whole or the start of it.
TakesFor(o) ==
    /\ ListType' /\ ListTilesHeap' /\ Chunks \subseteq Chunks'
    /\ o.at \in Chunks /\ o.at \in Nat /\ ~chunk[o.at].allocated
    /\ o.size \in SIZES /\ o \in [at : Nat, size : SIZES]
    /\ chunk'[o.at].allocated /\ o.size + OBJECT <= chunk'[o.at].size
    /\ \A d \in Chunks : d # o.at => chunk'[d] = chunk[d]
    /\ \A d \in Chunks' \ Chunks : ~chunk'[d].marked
    /\ freed' = freed \ {o.at}
    /\ IF Collecting THEN borrowed' = borrowed \cup {o} /\ live' = live
       ELSE live' = live \cup {o} /\ borrowed' = borrowed

LEMMA Taken ==
    ASSUME IInv, TryAllocate
    PROVE  \E o : TakesFor(o) /\ o.size = request
<1>1. PICK c \in Fitting :
         /\ SplitAndAllocate(c)
         /\ IF Collecting
            THEN borrowed' = borrowed \cup {[at |-> c, size |-> request]}
                   /\ live' = live
            ELSE live' = live \cup {[at |-> c, size |-> request]}
                   /\ borrowed' = borrowed
         /\ freed' = freed \ {c}
  BY DEF TryAllocate
<1> DEFINE size == request + OBJECT
           new == [at |-> c, size |-> request]
<1>2. /\ pc \in {"allocate", "retry", "grown"}
      /\ UNCHANGED <<first, heap_stop>>
  BY DEF TryAllocate
<1>3. /\ c \in Chunks /\ ~chunk[c].allocated /\ size <= chunk[c].size
      /\ request \in SIZES /\ request \in Nat
      /\ size \in Nat /\ size >= OBJECT
  <2>1. request \in SIZES
    BY <1>2, Sizes DEF IInv, TypeOK, CallType
  <2> QED  BY <2>1, Sizes DEF Fitting
<1>4. c \in Nat /\ chunk[c].size \in Nat
  BY <1>3, ChunkFacts DEF IInv
<1> HIDE DEF size
<1>5. /\ ListType' /\ ListTilesHeap' /\ Chunks \subseteq Chunks'
      /\ chunk'[c].allocated /\ size <= chunk'[c].size
      /\ \A d \in Chunks : d # c => chunk'[d] = chunk[d]
      /\ \A d \in Chunks' \ Chunks : ~chunk'[d].marked
  <2>1. CASE chunk[c].size - size < CHUNK_MIN_SIZE
    <3>1. /\ chunk' = [chunk EXCEPT ![c].allocated = TRUE]
          /\ UNCHANGED <<first, last, list_size, heap_stop>>
      BY <1>1, <1>2, <2>1 DEF SplitAndAllocate, size
    <3> QED  BY <1>3, <3>1, WholeChunk
  <2>2. CASE ~(chunk[c].size - size < CHUNK_MIN_SIZE)
    <3>1. PICK rest : rest = c + HEADER + size
      OBVIOUS
    <3>2. SplitsOff(c, size, rest)
      BY <1>1, <2>2, <3>1 DEF SplitAndAllocate, SplitsOff, size
    <3>3. chunk[c].size - size >= CHUNK_MIN_SIZE
      BY <1>3, <1>4, <2>2, Sizes
    <3>4. UNCHANGED <<first, heap_stop>>
      BY <1>2
    <3>5. /\ ListType' /\ ListTilesHeap'
          /\ Chunks' = Chunks \cup {rest} /\ rest \notin Chunks
          /\ chunk'[c].allocated /\ chunk'[c].size = size
          /\ ~chunk'[rest].marked
          /\ \A d \in Chunks : d # c => chunk'[d] = chunk[d]
      BY <1>3, <3>1, <3>2, <3>3, <3>4, SplitChunk
    <3> QED  BY <1>3, <3>5
  <2> QED  BY <2>1, <2>2
<1>6. new \in [at : Nat, size : SIZES] /\ new.at = c /\ new.size = request
  BY <1>3, <1>4
<1>7. TakesFor(new)
  BY <1>1, <1>3, <1>4, <1>5, <1>6 DEF TakesFor, size
<1> QED  BY <1>6, <1>7

LEMMA TryAllocateStep ==
    ASSUME IInv, TryAllocate
    PROVE  IInv'
<1>1. PICK o : TakesFor(o) /\ o.size = request
  BY Taken
<1>2. /\ pc' = (IF Collecting THEN "finalize" ELSE "idle")
      /\ request' = outer /\ outer' = NULL
      /\ allocated' = allocated + request
      /\ pc \in {"allocate", "retry", "grown"} /\ status' = status
      /\ UNCHANGED <<caller, current, limit, count>>
  BY DEF TryAllocate, locals
<1>3. ListType' /\ ListTilesHeap'
  BY <1>1 DEF TakesFor
<1>4. CallType'
  <2>1. allocated' \in Nat
    <3>1. allocated \in Nat /\ request \in Nat
      BY <1>1, Sizes DEF IInv, TypeOK, CallType, TakesFor
    <3> QED  BY <1>2, <3>1
  <2>2. /\ live' \subseteq [at : Nat, size : SIZES]
        /\ borrowed' \subseteq [at : Nat, size : SIZES]
        /\ freed' \subseteq Nat
    <3>1. /\ live \subseteq [at : Nat, size : SIZES]
          /\ borrowed \subseteq [at : Nat, size : SIZES]
          /\ freed \subseteq Nat
      BY DEF IInv, TypeOK, CallType
    <3> QED  BY <1>1, <3>1 DEF TakesFor
  <2>3. /\ request' \in SIZES \cup {NULL} /\ outer' \in SIZES \cup {NULL}
        /\ pc' \in {"finalize", "idle"}
        /\ pc' = "finalize" <=> Collecting'
        /\ caller' = "retry" => request' # NULL
    BY <1>2, Sizes DEF IInv, TypeOK, CallType, Collecting
  <2>4. /\ caller' \in {"idle", "retry", NULL} /\ count' \in Nat
        /\ current' \in Nat \cup {NULL} /\ limit' \in Nat \cup {NULL}
        /\ status' \in {"running", "out of memory", "no luck",
                        "assertion failed"}
    BY <1>2 DEF IInv, TypeOK, CallType
  <2> QED  BY <2>1, <2>2, <2>3, <2>4 DEF CallType
<1>5. /\ \A p \in live \cup borrowed : p.at # o.at
      /\ live' \cup borrowed' = live \cup borrowed \cup {o}
  BY <1>1 DEF IInv, ObjectsKept, TakesFor
<1>6. ObjectsKept'
  <2>1. ASSUME NEW p \in live' \cup borrowed'
        PROVE  /\ p.at \in Chunks' /\ chunk'[p.at].allocated
               /\ p.size + OBJECT <= chunk'[p.at].size
    <3>1. CASE p \in live \cup borrowed
      BY <1>1, <1>5, <3>1 DEF IInv, ObjectsKept, TakesFor
    <3>2. CASE p = o
      BY <1>1, <3>2 DEF TakesFor
    <3> QED  BY <1>5, <3>1, <3>2
  <2>2. \A p, q \in live' \cup borrowed' : p.at = q.at => p = q
    BY <1>5 DEF IInv, ObjectsKept
  <2> QED  BY <2>1, <2>2 DEF ObjectsKept
<1>7. SweepInv'
  <2>1. ASSUME AfterMark'
        PROVE  \A p \in live' : chunk'[p.at].marked
    <3>1. Collecting /\ Finalizing
      BY <1>2, <2>1 DEF IInv, TypeOK, CallType, AfterMark, Finalizing, Collecting
    <3>2. live' = live /\ \A p \in live : /\ p.at # o.at /\ p.at \in Chunks
                                          /\ chunk[p.at].marked
      BY <1>1, <1>5, <3>1 DEF IInv, ObjectsKept, SweepInv, AfterMark, TakesFor
    <3> QED  BY <1>1, <3>2 DEF TakesFor
  <2>2. ASSUME borrowed' # {}
        PROVE  Finalizing'
    <3>1. Collecting
      BY <1>1, <2>2 DEF IInv, SweepInv, Finalizing, TakesFor
    <3> QED  BY <1>2, <3>1 DEF Finalizing, Collecting
  <2> QED  BY <1>2, <2>1, <2>2 DEF SweepInv
<1>8. GrownInv' /\ GrowthSuffices' /\ MergeGrows'
  BY <1>2 DEF IInv, GrownInv, GrowthSuffices, MergeGrows
<1> QED  BY <1>3, <1>4, <1>6, <1>7, <1>8 DEF IInv, TypeOK

\* A chunk is pushed at the end of the heap.
LEMMA PushChunk ==
    ASSUME IInv, NEW size \in Nat, size >= CHUNK,
           SMALL_HEAP_SIZE + heap_stop + size <= MEMORY_LIMIT,
           heap_stop' = heap_stop + size,
           chunk' = [c \in Chunks \cup {heap_stop} |->
                       IF c = heap_stop THEN NewChunk(size - HEADER)
                       ELSE IF c = last
                       THEN [chunk[c] EXCEPT !.next = heap_stop]
                       ELSE chunk[c]],
           last' = heap_stop,
           list_size' = list_size + 1,
           UNCHANGED first
    PROVE  /\ ListType' /\ ListTilesHeap'
           /\ Chunks' = Chunks \cup {heap_stop}
           /\ chunk'[heap_stop] = NewChunk(size - HEADER)
           /\ \A c \in Chunks : /\ chunk'[c].size = chunk[c].size
                                /\ chunk'[c].allocated = chunk[c].allocated
                                /\ chunk'[c].marked = chunk[c].marked
<1> DEFINE new == Chunks \cup {heap_stop}
<1>1. PICK h \in Nat : h = heap_stop
  BY DEF IInv, TypeOK, ListType
<1>2. \A c \in Chunks : /\ c \in Nat /\ c < h /\ ChunkStop(c) <= h
                        /\ ChunkStop(c) \in Nat
                        /\ chunk[c] \in Header
  <2> SUFFICES ASSUME NEW c \in Chunks
               PROVE  /\ c \in Nat /\ c < h /\ ChunkStop(c) <= h
                      /\ ChunkStop(c) \in Nat /\ chunk[c] \in Header
    OBVIOUS
  <2>1. /\ c \in Nat /\ ChunkStop(c) \in Nat /\ c < ChunkStop(c)
        /\ ChunkStop(c) <= heap_stop /\ chunk[c] \in Header
    BY ChunkFacts DEF IInv
  <2> QED  BY <1>1, <2>1
<1>3. h \notin Chunks
  BY <1>2
<1>4. /\ size - HEADER \in Nat /\ size - HEADER >= OBJECT
      /\ NewChunk(size - HEADER) \in Header
      /\ NewChunk(size - HEADER).next = NULL
      /\ NewChunk(size - HEADER).size = size - HEADER
  BY Sizes DEF NewChunk, Header
<1>5. last \in Chunks
  BY DEF IInv, TypeOK, ListType
<1>6. /\ Chunks' = new /\ chunk'[h] = NewChunk(size - HEADER)
      /\ chunk'[last] = [chunk[last] EXCEPT !.next = h]
      /\ \A c \in Chunks : c # last => chunk'[c] = chunk[c]
  BY <1>1, <1>3, <1>5 DEF Chunks
<1>7. \A c \in Chunks : /\ chunk'[c] \in Header
                        /\ chunk'[c].size = chunk[c].size
                        /\ chunk'[c].allocated = chunk[c].allocated
                        /\ chunk'[c].marked = chunk[c].marked
                        /\ chunk'[c].next = IF c = last THEN h
                                            ELSE chunk[c].next
  BY <1>1, <1>2, <1>5, <1>6 DEF Header
<1>8. /\ \A c \in Chunks : ChunkStop(c)' = ChunkStop(c)
      /\ ChunkStop(h)' = h + size
  BY <1>1, <1>4, <1>6, <1>7, Sizes DEF ChunkStop
<1>9. chunk' \in [new -> Header]
  <2>1. \A c \in new : chunk'[c] \in Header
    BY <1>1, <1>4, <1>6, <1>7
  <2>2. chunk' = [c \in new |-> chunk'[c]]
    OBVIOUS
  <2> QED  BY <2>1, <2>2
<1>10. list_size' = Cardinality(new)
  <2>1. IsFiniteSet(Chunks) /\ list_size = Cardinality(Chunks)
    BY ChunksFinite DEF IInv, ListTilesHeap
  <2> QED  BY <1>1, <1>3, <2>1, FS_AddElement
<1>11. first' \in new /\ first' = 0 /\ last' \in new
  BY DEF IInv, TypeOK, ListType, ListTilesHeap
<1>12. ListType'
  <2>1. /\ list_size' \in Nat /\ heap_stop' \in Nat /\ new \subseteq Nat
        /\ SMALL_HEAP_SIZE + heap_stop' <= MEMORY_LIMIT
    <3>1. SMALL_HEAP_SIZE \in Nat /\ MEMORY_LIMIT \in Nat
      BY LayoutAssumption
    <3>2. list_size \in Nat /\ Chunks \subseteq Nat
      BY DEF IInv, TypeOK, ListType
    <3> QED  BY <1>1, <3>1, <3>2
  <2> QED  BY <1>6, <1>9, <1>11, <2>1 DEF ListType
<1>13. ASSUME NEW c \in new
       PROVE  /\ OBJECT <= chunk'[c].size
              /\ IF chunk'[c].next = NULL
                 THEN c = last' /\ ChunkStop(c)' = heap_stop'
                 ELSE chunk'[c].next \in new /\ chunk'[c].next = ChunkStop(c)'
              /\ ChunkStop(c)' <= heap_stop'
  <2>1. CASE c = h
    BY <1>1, <1>4, <1>6, <1>8, <2>1
  <2>2. CASE c # h
    <3>1. c \in Chunks
      BY <1>1, <2>2
    <3>2. /\ OBJECT <= chunk[c].size
          /\ c = last => ChunkStop(c) = h
          /\ c # last => /\ chunk[c].next = ChunkStop(c)
                         /\ ChunkStop(c) \in Chunks
      BY <1>1, <3>1, ChunkFacts DEF IInv
    <3>3. chunk'[c].next \in new /\ chunk'[c].next = ChunkStop(c)'
      <4>1. ChunkStop(c)' = ChunkStop(c)
        BY <1>8, <3>1
      <4>2. CASE c = last
        BY <1>1, <1>7, <3>1, <3>2, <4>1, <4>2
      <4>3. CASE c # last
        BY <1>1, <1>7, <3>1, <3>2, <4>1, <4>3
      <4> QED  BY <4>2, <4>3
    <3>4. chunk'[c].next # NULL
      BY <1>2, <1>8, <3>1, <3>3, Sizes
    <3>5. ChunkStop(c)' <= heap_stop'
      BY <1>1, <1>2, <1>8, <3>1
    <3> QED  BY <1>7, <3>1, <3>2, <3>3, <3>4, <3>5
  <2> QED  BY <2>1, <2>2
<1>14. ASSUME NEW c \in new, NEW d \in new, c < d
       PROVE  ChunkStop(c)' <= d
  <2>1. c \in Chunks
    <3>1. c # h
      BY <1>1, <1>2, <1>14
    <3> QED  BY <1>1, <3>1
  <2>2. CASE d = h
    BY <1>2, <1>8, <2>1, <2>2
  <2>3. CASE d # h
    BY <1>1, <1>8, <1>14, <2>1, <2>3 DEF IInv, ListTilesHeap
  <2> QED  BY <2>2, <2>3
<1>15. chunk'[last'].next = NULL
  BY <1>1, <1>4, <1>6
<1> HIDE DEF new
<1>16. ListTilesHeap'
  BY <1>6, <1>10, <1>11, <1>13, <1>14, <1>15 DEF ListTilesHeap
<1> QED  BY <1>1, <1>6, <1>7, <1>12, <1>16 DEF new

\* The heap grows by a chunk that the request fits in.
LEMMA Grown ==
    ASSUME IInv, GrowLarge, status' = "running"
    PROVE  /\ ListType' /\ ListTilesHeap'
           /\ Chunks' = Chunks \cup {heap_stop}
           /\ ~chunk'[heap_stop].allocated /\ ~chunk'[heap_stop].marked
           /\ request + OBJECT <= chunk'[heap_stop].size
           /\ \A c \in Chunks : /\ chunk'[c].size = chunk[c].size
                                /\ chunk'[c].allocated = chunk[c].allocated
                                /\ chunk'[c].marked = chunk[c].marked
           /\ pc' = "grown"
           /\ UNCHANGED <<allocated, live, borrowed, freed, request, outer, caller,
                          current, limit, count, status>>
<1> DEFINE size == ROUND_TO_NEXT_MULTIPLE(NextPower(request + CHUNK), BLOCK_SIZE)
<1>1. /\ request \in SIZES /\ request \in Nat
      /\ heap_stop \in Nat /\ Chunks \subseteq Nat
  <2>1. request \in SIZES
    BY Sizes DEF GrowLarge, Running, IInv, TypeOK, CallType
  <2>2. heap_stop \in Nat /\ Chunks \subseteq Nat
    BY DEF IInv, TypeOK, ListType
  <2> QED  BY <2>1, <2>2, Sizes
<1>2. size \in Nat /\ request + CHUNK <= size /\ CHUNK <= size
  <2>1. size \in Nat /\ request + CHUNK <= size
    BY <1>1, GrowthCovers
  <2> HIDE DEF size
  <2> QED  BY <1>1, <2>1, Sizes
<1>3. ~(SMALL_HEAP_SIZE + heap_stop + size > MEMORY_LIMIT)
  BY DEF GrowLarge, ExceedsLimit, Stop
<1>4. /\ heap_stop' = heap_stop + size
      /\ chunk' = [c \in Chunks \cup {heap_stop} |->
                     IF c = heap_stop THEN NewChunk(size - HEADER)
                     ELSE IF c = last
                     THEN [chunk[c] EXCEPT !.next = heap_stop]
                     ELSE chunk[c]]
      /\ last' = heap_stop /\ list_size' = list_size + 1
      /\ pc' = "grown"
      /\ UNCHANGED <<first, allocated, live, borrowed, freed, request, outer,
                     caller, current, limit, count, status>>
  BY <1>3 DEF GrowLarge, ExceedsLimit, objects, requests, locals
<1> HIDE DEF size
<1>5. /\ ListType' /\ ListTilesHeap'
      /\ Chunks' = Chunks \cup {heap_stop}
      /\ chunk'[heap_stop] = NewChunk(size - HEADER)
      /\ \A c \in Chunks : /\ chunk'[c].size = chunk[c].size
                           /\ chunk'[c].allocated = chunk[c].allocated
                           /\ chunk'[c].marked = chunk[c].marked
  <2>1. SMALL_HEAP_SIZE + heap_stop + size <= MEMORY_LIMIT
    BY <1>1, <1>2, <1>3, LayoutAssumption
  <2> QED  BY <1>2, <1>4, <2>1, PushChunk
<1>6. /\ ~chunk'[heap_stop].allocated /\ ~chunk'[heap_stop].marked
      /\ chunk'[heap_stop].size = size - HEADER
  BY <1>5 DEF NewChunk
<1>7. request + OBJECT <= size - HEADER
  BY <1>1, <1>2, Sizes
<1> QED  BY <1>4, <1>5, <1>6, <1>7

LEMMA GrowStep ==
    ASSUME IInv, GrowLarge
    PROVE  IInv'
<1>1. pc = "grow" /\ status = "running"
  BY DEF GrowLarge, Running
<1>2. CASE status' # "running"
  <2>1. /\ status' = "out of memory"
        /\ UNCHANGED <<list, allocated, live, borrowed, freed, pc, request, outer,
                       caller, locals>>
    BY <1>1, <1>2 DEF GrowLarge, Stop, objects, requests
  <2>2. TypeOK'
    BY <2>1 DEF IInv, TypeOK, ListType, CallType, Collecting, list, locals, Chunks
  <2> QED  BY <2>1, <2>2, ControlStep DEF Finalizing, Collecting
<1>3. CASE status' = "running"
  <2>1. /\ ListType' /\ ListTilesHeap'
        /\ Chunks' = Chunks \cup {heap_stop}
        /\ ~chunk'[heap_stop].allocated
        /\ request + OBJECT <= chunk'[heap_stop].size
        /\ \A c \in Chunks : /\ chunk'[c].size = chunk[c].size
                             /\ chunk'[c].allocated = chunk[c].allocated
                             /\ chunk'[c].marked = chunk[c].marked
        /\ pc' = "grown"
        /\ UNCHANGED <<allocated, live, borrowed, freed, request, outer, caller,
                       current, limit, count, status>>
    BY <1>3, Grown
  <2>2. CallType'
    BY <1>1, <2>1 DEF IInv, TypeOK, CallType, Collecting
  <2>3. ObjectsKept'
    BY <2>1 DEF IInv, ObjectsKept
  <2>4. GrownInv'
    BY <2>1 DEF GrownInv, Fitting
  <2>5. SweepInv'
    <3>1. AfterMark' => AfterMark
      BY <1>1, <2>1 DEF AfterMark, Finalizing, Collecting
    <3>2. Finalizing' <=> Finalizing
      BY <1>1, <2>1 DEF Finalizing, Collecting
    <3> QED  BY <2>1, <3>1, <3>2 DEF IInv, SweepInv, ObjectsKept
  <2>6. GrowthSuffices' /\ MergeGrows'
    BY <2>1 DEF IInv, GrowthSuffices, MergeGrows
  <2> QED  BY <2>1, <2>2, <2>3, <2>4, <2>5, <2>6 DEF IInv, TypeOK
<1> QED  BY <1>2, <1>3

LEMMA NextStep ==
    ASSUME IInv, MEMORY_LIMIT <= INT_MAX, [Next]_vars
    PROVE  IInv'
<1>1. CASE TryAllocate
  BY <1>1, TryAllocateStep
<1>2. CASE NoFit
  BY <1>2, NoFitStep
<1>3. CASE GrowLarge
  BY <1>3, GrowStep
<1>4. CASE Unmark
  BY <1>4, UnmarkStep
<1>5. CASE Mark
  BY <1>5, MarkStep
<1>6. CASE SweepKeep
  BY <1>6, SweepKeepStep
<1>7. CASE SweepFree
  BY <1>7, SweepFreeStep
<1>8. CASE Absorb
  BY <1>8, AbsorbStep
<1>9. CASE AbsorbDone
  BY <1>9, AbsorbDoneStep
<1>10. CASE SweepDone
  BY <1>10, SweepDoneStep
<1>11. CASE \E size \in SIZES : Malloc(size)
  BY <1>11, MallocStep
<1>12. CASE \E o \in live : Free(o)
  BY <1>12, FreeStep
<1>13. CASE Collect
  BY <1>13, CollectionStep DEF Collect, Running, IInv, TypeOK, CallType
<1>14. CASE EndFinalize
  BY <1>14, EndFinalizeStep
<1>15. CASE \E c \in Chunks : FinalizerFrees(c)
  BY <1>15, FinalizerFreesStep
<1>16. CASE UNCHANGED vars
  BY <1>16, StutterStep
<1> QED
  BY <1>1, <1>2, <1>3, <1>4, <1>5, <1>6, <1>7, <1>8, <1>9, <1>10, <1>11, <1>12,
     <1>13, <1>14, <1>15, <1>16 DEF Next, Step
-----------------------------------------------------------------------------
(* What the sweep has dealt with *)

\* Between a chunk and the next one, or the end of the heap, there is none.
LEMMA NothingBetween ==
    ASSUME IInv, NEW c \in Chunks, NEW d \in Chunks,
           d < IF chunk[c].next = NULL THEN heap_stop ELSE chunk[c].next
    PROVE  d < c \/ d = c
<1>1. /\ c \in Nat /\ ChunkStop(c) \in Nat
      /\ d \in Nat /\ ChunkStop(d) \in Nat /\ d < ChunkStop(d)
      /\ ChunkStop(d) <= heap_stop /\ heap_stop \in Nat
      /\ d < ChunkStop(c)
  BY ChunkFacts DEF IInv, TypeOK, ListType
<1>2. c < d => ChunkStop(c) <= d
  BY DEF IInv, ListTilesHeap
<1> QED  BY <1>1, <1>2

LEMMA InitSwept == Init => SweptInv
BY DEF Init, SweptInv, AfterMark, Finalizing, Collecting

\* Until a collection unmarks the chunks there is nothing to show.
LEMMA OutsideSwept ==
    ASSUME pc' # "mark", ~AfterMark'
    PROVE  SweptInv'
BY DEF SweptInv, AfterMark

\* Nor is there much before the sweep begins.
LEMMA FinalizingSwept ==
    ASSUME Finalizing',
           \A c \in (Chunks \ freed)' : chunk'[c].marked => chunk'[c].allocated
    PROVE  SweptInv'
BY DEF SweptInv, Finalizing

LEMMA StutterSwept ==
    ASSUME SweptInv, UNCHANGED <<chunk, heap_stop, freed, pc, caller, current>>
    PROVE  SweptInv'
BY DEF SweptInv, Swept, Frontier, Chunks, AfterMark, Finalizing, Collecting

LEMMA MallocSwept ==
    ASSUME IInv, SweptInv, NEW size \in SIZES, Malloc(size)
    PROVE  SweptInv'
<1>1. /\ pc' = "allocate" /\ pc \in {"idle", "finalize"}
      /\ Chunks' = Chunks
      /\ UNCHANGED <<chunk, freed, caller>>
  BY DEF Malloc, Running, list, objects, Chunks
<1>2. CASE AfterMark'
  <2>1. Finalizing' /\ AfterMark
    BY <1>1, <1>2 DEF IInv, TypeOK, CallType, AfterMark, Finalizing, Collecting
  <2>2. \A c \in (Chunks \ freed)' : chunk'[c].marked => chunk'[c].allocated
    BY <1>1, <2>1 DEF SweptInv
  <2> QED  BY <2>1, <2>2, FinalizingSwept
<1>3. CASE ~AfterMark'
  BY <1>1, <1>3, OutsideSwept
<1> QED  BY <1>2, <1>3

\* What finalizers allocate is allocated, whether it is marked or not.
LEMMA TryAllocateSwept ==
    ASSUME IInv, SweptInv, TryAllocate
    PROVE  SweptInv'
<1>1. PICK o : TakesFor(o) /\ o.size = request
  BY Taken
<1>2. /\ pc \in {"allocate", "retry", "grown"} /\ caller' = caller
      /\ pc' = IF Collecting THEN "finalize" ELSE "idle"
  BY DEF TryAllocate
<1>3. CASE Collecting
  <2>1. Finalizing' /\ AfterMark
    BY <1>2, <1>3 DEF IInv, TypeOK, CallType, AfterMark, Finalizing, Collecting
  <2>2. ASSUME NEW c \in (Chunks \ freed)', chunk'[c].marked
        PROVE  chunk'[c].allocated
    <3>1. c \in Chunks /\ (c = o.at \/ c \notin freed)
      BY <1>1, <2>2 DEF TakesFor
    <3> QED  BY <1>1, <2>1, <2>2, <3>1 DEF SweptInv, TakesFor
  <2> QED  BY <2>1, <2>2, FinalizingSwept
<1>4. CASE ~Collecting
  <2>1. pc' = "idle" /\ ~Collecting'
    BY <1>2, <1>4 DEF Collecting
  <2> QED  BY <2>1, OutsideSwept DEF AfterMark, Finalizing
<1> QED  BY <1>3, <1>4

LEMMA GrowSwept ==
    ASSUME IInv, SweptInv, GrowLarge
    PROVE  SweptInv'
<1>1. CASE status' # "running"
  BY <1>1, StutterSwept DEF GrowLarge, Running, Stop, list, objects, locals
<1>2. CASE status' = "running"
  <2>1. /\ pc = "grow" /\ pc' = "grown"
        /\ Chunks' = Chunks \cup {heap_stop}
        /\ ~chunk'[heap_stop].marked
        /\ \A c \in Chunks : /\ chunk'[c].allocated = chunk[c].allocated
                             /\ chunk'[c].marked = chunk[c].marked
        /\ UNCHANGED <<freed, caller>>
    BY <1>2, Grown DEF GrowLarge, Running
  <2>2. CASE AfterMark'
    <3>1. Finalizing' /\ AfterMark
      BY <2>1, <2>2 DEF AfterMark, Finalizing, Collecting
    <3>2. \A c \in (Chunks \ freed)' : chunk'[c].marked => chunk'[c].allocated
      BY <2>1, <3>1 DEF SweptInv
    <3> QED  BY <3>1, <3>2, FinalizingSwept
  <2>3. CASE ~AfterMark'
    BY <2>1, <2>3, OutsideSwept
  <2> QED  BY <2>2, <2>3
<1> QED  BY <1>1, <1>2

LEMMA NoFitSwept ==
    ASSUME IInv, SweptInv, NoFit
    PROVE  SweptInv'
<1>1. pc # "grown" /\ pc \in {"allocate", "retry"}
  BY DEF IInv, NoFit, GrownInv
<1>2. CASE pc = "allocate" /\ CollectionDue
  <2>1. pc' = "unmark"
    BY <1>2 DEF NoFit, StartCollection
  <2> QED  BY <2>1, OutsideSwept DEF AfterMark, Finalizing
<1>3. CASE ~(pc = "allocate" /\ CollectionDue)
  <2>1. /\ pc' = "grow" /\ Chunks' = Chunks
        /\ UNCHANGED <<chunk, freed, caller>>
    BY <1>1, <1>3 DEF NoFit, list, objects, Chunks
  <2>2. CASE AfterMark'
    <3>1. Finalizing' /\ AfterMark
      BY <1>1, <2>1, <2>2
         DEF IInv, TypeOK, CallType, AfterMark, Finalizing, Collecting
    <3>2. \A c \in (Chunks \ freed)' : chunk'[c].marked => chunk'[c].allocated
      BY <2>1, <3>1 DEF SweptInv
    <3> QED  BY <3>1, <3>2, FinalizingSwept
  <2>3. CASE ~AfterMark'
    BY <2>1, <2>3, OutsideSwept
  <2> QED  BY <2>2, <2>3
<1> QED  BY <1>2, <1>3

LEMMA FinalizerFreesSwept ==
    ASSUME IInv, SweptInv, NEW f \in Chunks, FinalizerFrees(f)
    PROVE  SweptInv'
<1>1. /\ chunk \in [Chunks -> Header]
      /\ chunk' = [chunk EXCEPT ![f].allocated = FALSE]
      /\ freed' = IF chunk[f].marked THEN freed \cup {f} ELSE freed
      /\ pc = "finalize" /\ pc' = "finalize" /\ caller' = caller
  BY DEF IInv, TypeOK, ListType, FinalizerFrees, Running
<1>2. Finalizing' /\ AfterMark
  BY <1>1 DEF IInv, TypeOK, CallType, AfterMark, Finalizing, Collecting
<1>3. /\ Chunks' = Chunks /\ chunk'[f].marked = chunk[f].marked
      /\ \A c \in Chunks : c # f => chunk'[c] = chunk[c]
  BY <1>1 DEF Chunks, Header
<1>4. \A c \in (Chunks \ freed)' : chunk'[c].marked => chunk'[c].allocated
  BY <1>1, <1>2, <1>3 DEF SweptInv
<1> QED  BY <1>2, <1>4, FinalizingSwept

LEMMA EndFinalizeSwept ==
    ASSUME IInv, SweptInv, EndFinalize
    PROVE  SweptInv'
<1>1. /\ pc = "finalize" /\ pc' = "sweep" /\ current' = first /\ first = 0
      /\ chunk' = chunk /\ freed' = freed /\ Chunks' = Chunks
      /\ Chunks \subseteq Nat
  BY DEF IInv, TypeOK, ListType, ListTilesHeap, EndFinalize, Running, list, Chunks
<1>2. AfterMark
  BY <1>1 DEF IInv, TypeOK, CallType, AfterMark, Finalizing
<1>3. \A c \in Chunks : ~(c < Frontier')
  BY <1>1, Sizes DEF Frontier
<1> QED  BY <1>1, <1>2, <1>3 DEF SweptInv

LEMMA UnmarkSwept ==
    ASSUME IInv, Unmark
    PROVE  SweptInv'
<1>1. /\ chunk \in [Chunks -> Header] /\ pc' = "mark"
      /\ chunk' = [c \in Chunks |-> [chunk[c] EXCEPT !.marked = FALSE]]
  BY DEF IInv, TypeOK, ListType, Unmark
<1>2. \A c \in Chunks' : ~chunk'[c].marked
  BY <1>1 DEF Chunks, Header
<1> QED  BY <1>1, <1>2 DEF SweptInv, AfterMark, Finalizing

LEMMA MarkSwept ==
    ASSUME IInv, SweptInv, Mark
    PROVE  SweptInv'
<1>1. PICK found \in SUBSET Chunks :
         /\ \A c \in found : chunk[c].allocated
         /\ chunk' = [c \in Chunks |-> IF c \in found
                                       THEN [chunk[c] EXCEPT !.marked = TRUE]
                                       ELSE chunk[c]]
  <2>1. PICK inner \in BOOLEAN, spurious \in {{}} \cup {{p} : p \in SPURIOUS} :
           chunk' = [c \in Chunks |->
                        IF /\ chunk[c].allocated
                           /\ \E p \in Pointers(inner, spurious) :
                                 Chunk_contains(c, p)
                        THEN [chunk[c] EXCEPT !.marked = TRUE]
                        ELSE chunk[c]]
    BY DEF Mark
  <2> DEFINE found == {c \in Chunks : /\ chunk[c].allocated
                                      /\ \E p \in Pointers(inner, spurious) :
                                            Chunk_contains(c, p)}
  <2> WITNESS found \in SUBSET Chunks
  <2> QED  BY <2>1
<1>2. /\ chunk \in [Chunks -> Header] /\ Chunks' = Chunks
      /\ pc = "mark" /\ pc' = "finalize" /\ caller' = caller
  BY <1>1 DEF IInv, TypeOK, ListType, Mark, Running, Chunks
<1>3. \A c \in Chunks : chunk'[c].marked => chunk'[c].allocated
  BY <1>1, <1>2 DEF SweptInv, Header
<1>4. Finalizing'
  BY <1>2 DEF IInv, TypeOK, CallType, Finalizing, Collecting
<1> QED  BY <1>2, <1>3, <1>4, FinalizingSwept

\* The frontier passes the chunk at `current'.
LEMMA SweepKeepSwept ==
    ASSUME IInv, SweptInv, SweepKeep
    PROVE  SweptInv'
<1>1. /\ pc = "sweep" /\ pc' = "sweep" /\ current # NULL
      /\ chunk[current].marked /\ current' = chunk[current].next
      /\ chunk' = chunk /\ heap_stop' = heap_stop /\ Chunks' = Chunks
      /\ freed' = freed
  BY DEF SweepKeep, Running, list, objects, Chunks
<1>2. current \in Chunks
  BY <1>1 DEF IInv, SweepInv
<1>3. ASSUME NEW c \in Chunks, c < Frontier'
      PROVE  Swept(c)
  <2>1. c < current \/ c = current
    BY <1>1, <1>2, <1>3, NothingBetween DEF Frontier
  <2>2. CASE c < current
    BY <1>1, <2>2 DEF SweptInv, Frontier
  <2>3. CASE c = current
    BY <1>1, <2>3 DEF Swept
  <2> QED  BY <2>1, <2>2, <2>3
<1> QED  BY <1>1, <1>3 DEF SweptInv, Swept, AfterMark

LEMMA SweepFreeSwept ==
    ASSUME IInv, SweptInv, SweepFree
    PROVE  SweptInv'
<1>1. /\ pc = "sweep" /\ pc' = "absorb" /\ current # NULL
      /\ ~chunk[current].marked /\ current' = current
      /\ chunk' = [chunk EXCEPT ![current].allocated = FALSE]
      /\ heap_stop' = heap_stop /\ freed' = freed
  BY DEF SweepFree, Running, objects
<1>2. /\ current \in Chunks /\ chunk \in [Chunks -> Header]
      /\ Chunks \subseteq Nat
  BY <1>1 DEF IInv, SweepInv, TypeOK, ListType
<1>3. /\ Chunks' = Chunks /\ ~chunk'[current].allocated
      /\ \A c \in Chunks : /\ chunk'[c].next = chunk[c].next
                           /\ chunk'[c].marked = chunk[c].marked
                           /\ c # current => chunk'[c] = chunk[c]
  BY <1>1, <1>2 DEF Header, Chunks
<1>4. Frontier' = Frontier /\ Frontier = current
  BY <1>1 DEF Frontier
<1>5. ASSUME NEW c \in Chunks \ freed
      PROVE  chunk'[c].marked => chunk'[c].allocated
  BY <1>1, <1>3 DEF SweptInv, AfterMark
<1>6. ASSUME NEW c \in Chunks, c < current
      PROVE  Swept(c)'
  <2>1. Swept(c) /\ c # current
    BY <1>1, <1>2, <1>4, <1>6 DEF SweptInv
  <2>2. chunk[c].next = NULL \/ chunk[c].next \in Chunks
    BY ChunkFacts DEF IInv
  <2> QED  BY <1>3, <2>1, <2>2 DEF Swept
<1> QED  BY <1>1, <1>3, <1>4, <1>5, <1>6 DEF SweptInv

LEMMA AbsorbSwept ==
    ASSUME SweptInv, Absorb
    PROVE  SweptInv'
<1>1. UNCHANGED <<chunk, heap_stop, freed, pc, caller, current>>
  BY DEF Absorb, Running, list, objects
<1> QED  BY <1>1, StutterSwept

\* The merged chunk is followed by a marked one; those it absorbed are gone.
LEMMA MergeSwept ==
    ASSUME IInv, SweptInv, pc = "absorb",
           limit # NULL => chunk[limit].marked,
           MergeUpTo(current, Upper), MergeGrows'
    PROVE  SweptInv'
<1> DEFINE size == ToSize(Upper - current - HEADER)
           kept == {d \in Chunks : d <= current \/ d >= Upper}
<1>1. /\ chunk' = [d \in kept |->
                      IF d = current
                      THEN [chunk[current] EXCEPT !.next = limit, !.size = size]
                      ELSE chunk[d]]
      /\ current' = limit /\ pc' = "sweep" /\ heap_stop' = heap_stop
      /\ freed' = freed
  BY DEF MergeUpTo, NextChunk, Stop, MergeGrows, objects
<1> HIDE DEF size
<1>2. /\ current \in Chunks /\ ~chunk[current].marked
      /\ ~chunk[current].allocated
      /\ limit # NULL => limit \in Chunks /\ current < limit
  BY DEF IInv, SweepInv, SweptInv
<1>3. /\ chunk[current] \in Header /\ chunk \in [Chunks -> Header]
      /\ Chunks \subseteq Nat /\ current \in Nat /\ current # NULL
      /\ heap_stop \in Nat
  BY <1>2, Sizes DEF IInv, TypeOK, ListType
<1>4. /\ Chunks' = kept /\ current \in kept /\ kept \subseteq Chunks
      /\ chunk'[current].next = limit
      /\ ~chunk'[current].marked /\ ~chunk'[current].allocated
      /\ chunk'[current].marked = chunk[current].marked
      /\ \A d \in kept : d # current => chunk'[d] = chunk[d]
  <2>1. current \in kept /\ kept \subseteq Chunks
    BY <1>2, <1>3
  <2>2. Chunks' = kept
    BY <1>1 DEF Chunks
  <2>3. chunk'[current] = [chunk[current] EXCEPT !.next = limit, !.size = size]
    BY <1>1, <2>1
  <2>4. \A d \in kept : d # current => chunk'[d] = chunk[d]
    BY <1>1
  <2> QED  BY <1>2, <1>3, <2>1, <2>2, <2>3, <2>4 DEF Header
<1>5. /\ Upper \in Nat /\ Frontier' = Upper
      /\ limit # NULL => limit \in kept /\ limit # current /\ Upper = limit
  <2>1. CASE limit = NULL
    BY <1>1, <1>3, <2>1 DEF Upper, Frontier
  <2>2. CASE limit # NULL
    <3>1. limit \in Nat /\ limit # current
      BY <1>2, <1>3, <2>2
    <3> QED  BY <1>1, <1>2, <2>2, <3>1 DEF Upper, Frontier
  <2> QED  BY <2>1, <2>2
<1>6. \A c \in kept \ freed : chunk'[c].marked => chunk'[c].allocated
  BY <1>4 DEF SweptInv, AfterMark
<1>7. ASSUME NEW c \in kept, c < Upper
      PROVE  Swept(c)'
  <2>1. CASE c = current
    <3>1. limit # NULL => chunk'[limit].marked
      BY <1>4, <1>5
    <3> QED  BY <1>4, <2>1, <3>1 DEF Swept
  <2>2. CASE c # current
    <3>1. c \in Nat /\ c < current
      BY <1>3, <1>4, <1>5, <1>7, <2>2
    <3>2. Swept(c)
      BY <1>2, <1>3, <1>4, <3>1 DEF SweptInv, Frontier
    <3>3. chunk'[c] = chunk[c]
      BY <1>4, <2>2
    <3>4. chunk[c].next # NULL =>
             chunk[c].next \in kept
               /\ chunk[c].next \in Chunks /\ chunk[c].next <= current
      <4>1. ChunkStop(c) <= current
        BY <1>2, <1>4, <3>1 DEF IInv, ListTilesHeap
      <4>2. chunk[c].next # NULL => chunk[c].next = ChunkStop(c)
                                    /\ ChunkStop(c) \in Chunks
        BY <1>4, ChunkFacts DEF IInv
      <4> QED  BY <4>1, <4>2
    <3>5. chunk[c].next # NULL =>
             chunk'[chunk[c].next].marked = chunk[chunk[c].next].marked
      <4>1. chunk'[current].marked = chunk[current].marked
        BY <1>2, <1>4
      <4> QED  BY <1>4, <3>4, <4>1
    <3> QED  BY <3>2, <3>3, <3>5 DEF Swept
  <2> QED  BY <2>1, <2>2
<1> HIDE DEF kept
<1> QED  BY <1>1, <1>4, <1>5, <1>6, <1>7 DEF SweptInv

LEMMA AbsorbDoneSwept ==
    ASSUME IInv, IInv', SweptInv, MEMORY_LIMIT <= INT_MAX, AbsorbDone
    PROVE  SweptInv'
<1>1. pc = "absorb" /\ (limit # NULL => chunk[limit].marked)
  BY DEF AbsorbDone, Running
<1>2. CASE limit # chunk[current].next
  <2>1. MergeGrows'
    BY DEF IInv
  <2> QED  BY <1>1, <1>2, <2>1, MergeLimit, MergeSwept DEF AbsorbDone
<1>3. CASE limit = chunk[current].next
  <2>1. /\ pc' = "sweep" /\ current' = limit /\ chunk' = chunk
        /\ heap_stop' = heap_stop /\ Chunks' = Chunks /\ freed' = freed
    BY <1>3 DEF AbsorbDone, NextChunk, list, objects, Chunks
  <2>2. /\ current \in Chunks /\ current # NULL
        /\ ~chunk[current].allocated
    BY <1>1, ChunkFacts DEF IInv, SweepInv, SweptInv
  <2>3. ASSUME NEW c \in Chunks, c < Frontier'
        PROVE  Swept(c)
    <3>1. c < current \/ c = current
      BY <1>3, <2>1, <2>2, <2>3, NothingBetween DEF Frontier
    <3>2. CASE c < current
      BY <1>1, <2>2, <3>2 DEF SweptInv, Frontier
    <3>3. CASE c = current
      BY <1>1, <1>3, <2>2, <3>3 DEF Swept
    <3> QED  BY <3>1, <3>2, <3>3
  <2> QED  BY <1>1, <2>1, <2>3 DEF SweptInv, Swept, AfterMark
<1> QED  BY <1>2, <1>3

LEMMA SweptStep ==
    ASSUME IInv, IInv', SweptInv, MEMORY_LIMIT <= INT_MAX, [Next]_vars
    PROVE  SweptInv'
<1>1. CASE TryAllocate
  BY <1>1, TryAllocateSwept
<1>2. CASE NoFit
  BY <1>2, NoFitSwept
<1>3. CASE GrowLarge
  BY <1>3, GrowSwept
<1>4. CASE SweepDone
  <2>1. pc' \in {"idle", "retry"}
    BY <1>4 DEF IInv, TypeOK, CallType, SweepDone, Running, Collecting
  <2> QED  BY <2>1, OutsideSwept DEF AfterMark, Finalizing
<1>5. CASE \E size \in SIZES : Malloc(size)
  BY <1>5, MallocSwept
<1>6. CASE (\E o \in live : Free(o)) \/ Collect
  <2>1. pc' \in {"idle", "unmark"}
    BY <1>6 DEF Free, Collect, Running, StartCollection
  <2> QED  BY <2>1, OutsideSwept DEF AfterMark, Finalizing
<1>7. CASE Unmark
  BY <1>7, UnmarkSwept
<1>8. CASE Mark
  BY <1>8, MarkSwept
<1>9. CASE \E c \in Chunks : FinalizerFrees(c)
  BY <1>9, FinalizerFreesSwept
<1>10. CASE EndFinalize
  BY <1>10, EndFinalizeSwept
<1>11. CASE SweepKeep
  BY <1>11, SweepKeepSwept
<1>12. CASE SweepFree
  BY <1>12, SweepFreeSwept
<1>13. CASE Absorb
  BY <1>13, AbsorbSwept
<1>14. CASE AbsorbDone
  BY <1>14, AbsorbDoneSwept
<1>15. CASE UNCHANGED vars
  BY <1>15, StutterSwept DEF vars, list, objects, locals
<1> QED
  BY <1>1, <1>2, <1>3, <1>4, <1>5, <1>6, <1>7, <1>8, <1>9, <1>10, <1>11, <1>12,
     <1>13, <1>14, <1>15 DEF Next, Step
-----------------------------------------------------------------------------
(* Theorems: for every heap whose chunks' sizes fit an int *)

LEMMA Invariant == ASSUME MEMORY_LIMIT <= INT_MAX PROVE Spec => []IInv
<1>1. Init => IInv
  BY InitIInv
<1>2. IInv /\ [Next]_vars => IInv'
  BY NextStep
<1> QED  BY <1>1, <1>2, PTL DEF Spec

\* The types, and the call structure: what a call is doing always has the
\* request and the continuation it needs.
THEOREM TypeCorrect == ASSUME MEMORY_LIMIT <= INT_MAX PROVE Spec => []TypeOK
<1>1. IInv => TypeOK
  BY DEF IInv
<1> QED  BY <1>1, Invariant, PTL

\* The chunks tile the large heap at every step of allocation, growth,
\* GC_free and collection: what ChunkList_validate checks.
THEOREM HeapTiled == ASSUME MEMORY_LIMIT <= INT_MAX PROVE Spec => []ListTilesHeap
<1>1. IInv => ListTilesHeap
  BY DEF IInv
<1> QED  BY <1>1, Invariant, PTL

\* An object the program can reach keeps its chunk and all of its memory,
\* through splits, GC_free of others, marking, sweeping and merging.
THEOREM ObjectsSafe == ASSUME MEMORY_LIMIT <= INT_MAX PROVE Spec => []ObjectsKept
<1>1. IInv => ObjectsKept
  BY DEF IInv
<1> QED  BY <1>1, Invariant, PTL

\* growLarge makes enough room for the request it grows for: allocateLarge
\* never gets to "seriously? no luck".
THEOREM GrowthIsEnough == ASSUME MEMORY_LIMIT <= INT_MAX PROVE Spec => []GrowthSuffices
<1>1. IInv => GrowthSuffices
  BY DEF IInv
<1> QED  BY <1>1, Invariant, PTL

\* The assertion of ChunkList_merge never fails.
THEOREM MergesGrow == ASSUME MEMORY_LIMIT <= INT_MAX PROVE Spec => []MergeGrows
<1>1. IInv => MergeGrows
  BY DEF IInv
<1> QED  BY <1>1, Invariant, PTL

\* A sweep merges all it can: when it is done no two neighbours are both free,
\* and a chunk is allocated exactly if the marking found it -- but for the
\* marked chunks that finalizers freed between the marking and the sweep.
THEOREM SweepMerges == ASSUME MEMORY_LIMIT <= INT_MAX PROVE Spec => []SweepIsComplete
<1>1. Init => IInv /\ SweptInv
  BY InitIInv, InitSwept
<1>2. IInv /\ SweptInv /\ [Next]_vars => (IInv /\ SweptInv)'
  BY NextStep, SweptStep
<1>3. IInv /\ SweptInv => SweepIsComplete
  <2> SUFFICES ASSUME IInv, SweptInv, pc = "sweep", current = NULL,
                      NEW c \in Chunks \ freed
               PROVE  /\ chunk[c].allocated <=> chunk[c].marked
                      /\ chunk[c].next \notin freed \cup {NULL} =>
                            chunk[c].allocated \/ chunk[chunk[c].next].allocated
    BY DEF SweepIsComplete, Running
  <2>1. c < Frontier
    <3>1. /\ c \in Nat /\ ChunkStop(c) \in Nat /\ c < ChunkStop(c)
          /\ ChunkStop(c) <= heap_stop /\ heap_stop \in Nat
      BY ChunkFacts DEF IInv, TypeOK, ListType
    <3> QED  BY <3>1 DEF Frontier
  <2>2. /\ Swept(c)
        /\ \A d \in Chunks \ freed : chunk[d].marked => chunk[d].allocated
    BY <2>1 DEF SweptInv, AfterMark
  <2>3. chunk[c].next # NULL => chunk[c].next \in Chunks
    BY ChunkFacts DEF IInv
  <2> QED  BY <2>2, <2>3 DEF Swept
<1> QED  BY <1>1, <1>2, <1>3, PTL DEF Spec
=============================================================================
