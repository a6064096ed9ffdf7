-------------------------- MODULE Collection_proofs ---------------------------
(***************************************************************************)
(* The safety properties of Collection hold for any objects, roots and     *)
(* sizes.  While marking runs, what is marked is reachable, and whatever   *)
(* has been reached is on the stack, being scanned, or has been scanned to *)
(* its end, so that the marked objects are closed when the stack is empty. *)
(* From then on only objects which are not in use change.                  *)
(***************************************************************************)
EXTENDS Collection, SequenceTheorems, TLAPS

\* The regions to scan: the roots and the marked objects that hold pointers.
ToScan == RootRegions \cup (marked \ atomic)

\* The words of r before n lead to marked objects.
ScannedBefore(r, n) ==
    \A i \in 1 .. SIZE[r] : i < n => memory[<<r, i>>] \in marked \cup {NULL}

\* Every region to scan is on the stack, being scanned, or scanned.
NothingForgotten ==
    \A r \in ToScan :
        \/ r \in Range(stack)
        \/ r = region /\ ScannedBefore(r, sp)
        \/ ScannedBefore(r, SIZE[r] + 1)

MarkInv ==
    /\ \A c \in Cells : memory[c] \in allocated \cup {NULL}
    /\ marked \subseteq allocated \cap Reachable
    /\ Range(stack) \subseteq ToScan
    /\ region \in ToScan \cup {NULL}
    /\ NothingForgotten

\* What is reachable stays marked, though a finalizer may free a large object
\* of it; the entries of the table that deleteIf has passed are those it keeps.
FinalizeInv ==
    /\ Reachable \subseteq marked
    /\ Reachable \ LARGE \subseteq allocated
    /\ finalizers \cap marked \subseteq Reachable
    /\ finalizers \ (todo \cup {finalizing}) \subseteq Reachable
    /\ finalizing # NULL => finalizing \in finalizers \ (todo \cup Reachable)

ProgramInv ==
    /\ held \cup freeing \subseteq allocated
    /\ held \cap finalized = {}
    /\ freeing \subseteq finalized /\ freeing \cap finalizers = {}
    /\ pc # "program" => held \cup freeing \subseteq Reachable
    /\ finalizers \subseteq allocated
    /\ finalized \cap finalizers \subseteq {finalizing}
    /\ \A o \in allocated : o \in atomic <=> o \in pointerFree

IInv ==
    /\ TypeOK
    /\ sp # 0
    /\ ProgramInv
    /\ IsInjective(stack) /\ region \notin Range(stack)
    /\ pc = "program" => memory = NoWords
    /\ pc # "mark" => stack = <<>> /\ region = NULL
    /\ pc # "finalize" => todo = {} /\ finalizing = NULL
    /\ pc = "mark" => MarkInv
    /\ pc = "finalize" => FinalizeInv
-----------------------------------------------------------------------------
(* The stack *)

LEMMA Pushed ==
    ASSUME NEW S, NEW s \in Seq(S), NEW x \in S
    PROVE  /\ Append(s, x) \in Seq(S)
           /\ Range(Append(s, x)) = Range(s) \cup {x}
           /\ IsInjective(s) /\ x \notin Range(s) => IsInjective(Append(s, x))
<1> DEFINE t == Append(s, x)
<1>1. /\ t \in Seq(S)
      /\ DOMAIN t = 1 .. Len(s) + 1 /\ DOMAIN s = 1 .. Len(s)
      /\ Len(s) \in Nat
      /\ \A i \in 1 .. Len(s) : t[i] = s[i]
      /\ t[Len(s) + 1] = x
  OBVIOUS
<1> HIDE DEF t
<1>2. /\ \A y : y \in Range(t) <=> \E i \in 1 .. Len(s) + 1 : t[i] = y
      /\ \A y : y \in Range(s) <=> \E i \in 1 .. Len(s) : s[i] = y
  BY <1>1 DEF Range
<1>3. /\ \A i \in 1 .. Len(s) + 1 : i \in 1 .. Len(s) \/ i = Len(s) + 1
      /\ \A i \in 1 .. Len(s) : i \in 1 .. Len(s) + 1
      /\ Len(s) + 1 \in 1 .. Len(s) + 1
  BY <1>1
<1>4. Range(t) = Range(s) \cup {x}
  BY <1>1, <1>2, <1>3
<1>5. ASSUME IsInjective(s), x \notin Range(s)
      PROVE  IsInjective(t)
  <2>1. \A i \in 1 .. Len(s) : s[i] # x
    BY <1>2, <1>5
  <2> QED  BY <1>1, <1>3, <1>5, <2>1 DEF IsInjective
<1> QED  BY <1>1, <1>4, <1>5 DEF t

LEMMA Popped ==
    ASSUME NEW S, NEW s \in Seq(S), s # <<>>, IsInjective(s)
    PROVE  LET t == SubSeq(s, 1, Len(s) - 1)
           IN /\ t \in Seq(S) /\ IsInjective(t)
              /\ s[Len(s)] \in S /\ s[Len(s)] \notin Range(t)
              /\ Range(s) = Range(t) \cup {s[Len(s)]}
<1> DEFINE t == SubSeq(s, 1, Len(s) - 1)
           n == Len(s)
<1>1. /\ n \in Nat \ {0} /\ DOMAIN s = 1 .. n /\ s[n] \in S
      /\ t \in Seq(S) /\ DOMAIN t = 1 .. n - 1
      /\ \A i \in 1 .. n - 1 : t[i] = s[i]
  OBVIOUS
<1> HIDE DEF t, n
<1>2. /\ \A i \in 1 .. n : i \in 1 .. n - 1 \/ i = n
      /\ \A i \in 1 .. n - 1 : i \in 1 .. n /\ i # n
      /\ n \in 1 .. n
  BY <1>1
<1>3. /\ \A x : x \in Range(t) <=> \E i \in 1 .. n - 1 : t[i] = x
      /\ \A x : x \in Range(s) <=> \E i \in 1 .. n : s[i] = x
  BY <1>1 DEF Range
<1>4. \A i, j \in 1 .. n : s[i] = s[j] => i = j
  BY <1>1 DEF IsInjective
<1>5. Range(s) = Range(t) \cup {s[n]}
  BY <1>1, <1>2, <1>3
<1>6. s[n] \notin Range(t)
  BY <1>1, <1>2, <1>3, <1>4
<1>7. IsInjective(t)
  BY <1>1, <1>2, <1>4 DEF IsInjective
<1> QED  BY <1>1, <1>5, <1>6, <1>7 DEF t, n
-----------------------------------------------------------------------------
(* Reachable objects *)

LEMMA CellsOfRegion ==
    ASSUME NEW r \in Regions, NEW i \in 1 .. SIZE[r]
    PROVE  <<r, i>> \in Cells
BY DEF Cells

LEMMA RootsAreApart ==
    /\ RootRegions \subseteq Regions /\ OBJECTS \subseteq Regions
    /\ RootRegions \cap OBJECTS = {} /\ NULL \notin RootRegions
    /\ NULL \notin OBJECTS
    /\ \A r \in Regions : SIZE[r] \in Nat
BY RegionsAssumption DEF Regions

\* Reachable is the least closed set of objects.
LEMMA ReachableLeast ==
    ASSUME NEW objects \in SUBSET OBJECTS, Closed(objects)
    PROVE  Reachable \subseteq objects
BY DEF Reachable

LEMMA ReachableClosed ==
    ASSUME TypeOK
    PROVE  Reachable \subseteq OBJECTS /\ Closed(Reachable)
<1>1. Reachable \subseteq OBJECTS
  BY DEF Reachable
<1>2. ASSUME NEW r \in RootRegions \cup Reachable, NEW o \in Targets(r)
      PROVE  o \in Reachable
  <2>1. PICK i \in 1 .. SIZE[r] : o = memory[<<r, i>>] /\ o # NULL
    BY <1>2 DEF Targets
  <2>2. <<r, i>> \in Cells
    BY <1>1, CellsOfRegion, RootsAreApart
  <2>3. o \in OBJECTS
    BY <2>1, <2>2 DEF TypeOK
  <2>4. ASSUME NEW objects \in SUBSET OBJECTS, Closed(objects)
        PROVE  o \in objects
    <3>1. r \in RootRegions \cup objects
      BY <1>2, <2>4, ReachableLeast
    <3> QED  BY <1>2, <2>4, <3>1 DEF Closed
  <2> QED  BY <2>3, <2>4 DEF Reachable
<1> QED  BY <1>1, <1>2 DEF Closed

LEMMA ReachableUnchanged ==
    ASSUME UNCHANGED <<memory, pointerFree>>
    PROVE  Reachable' = Reachable
BY DEF Reachable, Closed, Targets
-----------------------------------------------------------------------------
(* Calls of the program *)

LEMMA InitInvariant ==
    ASSUME Init
    PROVE  IInv
<1>1. NoWords \in [Cells -> OBJECTS \cup {NULL}]
  BY DEF NoWords
<1>2. /\ \A S : <<>> \in Seq(S)
      /\ IsInjective(<<>>) /\ Range(<<>>) = {}
  BY DEF IsInjective, Range
<1> QED  BY <1>1, <1>2 DEF Init, IInv, TypeOK, ProgramInv

\* A call between two collections leaves the collector alone.
LEMMA ProgramStep ==
    ASSUME IInv, pc = "program", ProgramInv',
           UNCHANGED <<memory, marking, pc, finalization>>,
           allocated' \subseteq OBJECTS, atomic' \subseteq OBJECTS,
           marked' \subseteq OBJECTS, finalizers' \subseteq OBJECTS,
           freeing' \subseteq OBJECTS, held' \subseteq OBJECTS,
           pointerFree' \subseteq OBJECTS, finalized' \subseteq OBJECTS
    PROVE  IInv'
<1>1. UNCHANGED <<memory, stack, region, sp, pc, todo, finalizing>>
  BY DEF marking, finalization
<1>2. stack = <<>> /\ todo = {}
  BY DEF IInv
<1>3. \A S : <<>> \in Seq(S)
  OBVIOUS
<1>4. TypeOK'
  BY <1>1, <1>2, <1>3 DEF IInv, TypeOK
<1> QED  BY <1>1, <1>4 DEF IInv

LEMMA MallocStep ==
    ASSUME IInv, NEW o \in OBJECTS, NEW isAtomic \in BOOLEAN, Malloc(o, isAtomic)
    PROVE  IInv'
<1>1. marked' \subseteq OBJECTS /\ atomic' \subseteq OBJECTS
      /\ pointerFree' \subseteq OBJECTS
  BY DEF Malloc, Allocate, IInv, TypeOK
<1>2. ProgramInv'
  BY DEF Malloc, Allocate, finalization, IInv, TypeOK, ProgramInv
<1> QED  BY <1>1, <1>2, ProgramStep DEF Malloc, Allocate, IInv, TypeOK

LEMMA ReallocStep ==
    ASSUME IInv, NEW old \in OBJECTS, NEW new \in OBJECTS, Realloc(old, new)
    PROVE  IInv'
<1>1. marked' \subseteq OBJECTS /\ atomic' \subseteq OBJECTS
      /\ pointerFree' \subseteq OBJECTS /\ finalizers' \subseteq OBJECTS
  BY DEF Realloc, Allocate, MovedFinalizers, IInv, TypeOK
<1>2. /\ old \in held /\ old \in allocated /\ new \notin allocated
      /\ old # new /\ old \notin finalized
      /\ old \in atomic <=> old \in pointerFree
  BY DEF Realloc, Allocate, IInv, ProgramInv
<1>3. ProgramInv'
  BY <1>2
  DEF Realloc, Allocate, ReallocAtomic, MovedFinalizers, finalization, IInv,
      TypeOK, ProgramInv
<1> QED  BY <1>1, <1>3, ProgramStep DEF Realloc, Allocate, IInv, TypeOK

LEMMA FreeStep ==
    ASSUME IInv, NEW o \in OBJECTS, Free(o)
    PROVE  IInv'
<1>1. ProgramInv'
  BY DEF Free, Deallocated, finalization, IInv, TypeOK, ProgramInv
<1>2. /\ allocated' \subseteq OBJECTS /\ finalizers' \subseteq OBJECTS
      /\ finalized' \subseteq OBJECTS /\ held' \subseteq OBJECTS
      /\ freeing' \subseteq OBJECTS
  BY DEF Free, Deallocated, IInv, TypeOK
<1> QED  BY <1>1, <1>2, ProgramStep DEF Free, IInv, TypeOK

LEMMA FreeReturnsStep ==
    ASSUME IInv, NEW o \in OBJECTS, FreeReturns(o)
    PROVE  IInv'
<1>1. ProgramInv'
  BY DEF FreeReturns, finalization, IInv, TypeOK, ProgramInv
<1> QED  BY <1>1, ProgramStep DEF FreeReturns, IInv, TypeOK

LEMMA RegisterStep ==
    ASSUME IInv, NEW o \in OBJECTS, RegisterFinalizer(o)
    PROVE  IInv'
<1>1. ProgramInv'
  BY DEF RegisterFinalizer, finalization, IInv, TypeOK, ProgramInv
<1> QED  BY <1>1, ProgramStep DEF RegisterFinalizer, IInv, TypeOK
-----------------------------------------------------------------------------
(* Marking *)

LEMMA BeginStep ==
    ASSUME IInv, BeginCollection
    PROVE  IInv'
<1>1. PICK words \in [UsedCells -> allocated \cup {NULL}] :
         memory' = [c \in Cells |-> IF c \in UsedCells THEN words[c] ELSE NULL]
  BY DEF BeginCollection
<1>2. \A c \in Cells : memory'[c] \in allocated \cup {NULL}
  BY <1>1
<1>3. TypeOK'
  <2>1. memory' \in [Cells -> OBJECTS \cup {NULL}]
    BY <1>1, <1>2 DEF IInv, TypeOK
  <2>2. ROOTS \in Seq(RootRegions \cup (OBJECTS \ atomic))
    BY RegionsAssumption, SeqMonotonic
  <2> QED
    BY <2>1, <2>2
    DEF BeginCollection, Unmarked, finalization, IInv, TypeOK
<1>4. ProgramInv'
  BY DEF BeginCollection, finalization, IInv, ProgramInv
<1>5. /\ stack' = ROOTS /\ marked' = {} /\ pc = "program" /\ pc' = "mark"
      /\ UNCHANGED <<allocated, atomic, region, sp, todo, finalizing>>
      /\ region = NULL
  BY DEF BeginCollection, Unmarked, finalization, IInv
<1>6. IsInjective(ROOTS) /\ NULL \notin Range(ROOTS)
  BY RegionsAssumption, RootsAreApart DEF RootRegions
<1>7. MarkInv'
  BY <1>2, <1>5 DEF MarkInv, NothingForgotten, ToScan, RootRegions
<1> QED
  BY <1>3, <1>4, <1>5, <1>6, <1>7 DEF IInv

LEMMA PopStep ==
    ASSUME IInv, PopRegion
    PROVE  IInv'
<1> DEFINE top == stack[Len(stack)]
<1>1. /\ pc = "mark" /\ region = NULL /\ stack # <<>>
      /\ region' = top /\ sp' = 1
      /\ UNCHANGED <<allocated, atomic, finalizers, freeing, held, pointerFree,
                     finalized, marked, memory, pc, todo, finalizing>>
  BY DEF PopRegion, program, finalization
<1>2. /\ stack' \in Seq(RootRegions \cup (OBJECTS \ atomic)) /\ IsInjective(stack')
      /\ top \in RootRegions \cup (OBJECTS \ atomic) /\ top \notin Range(stack')
      /\ Range(stack) = Range(stack') \cup {top}
  BY <1>1, Popped DEF PopRegion, IInv, TypeOK
<1> HIDE DEF top
<1>3. TypeOK'
  BY <1>1, <1>2, RootsAreApart DEF IInv, TypeOK
<1>4. Reachable' = Reachable /\ ToScan' = ToScan
  BY <1>1, ReachableUnchanged DEF ToScan
<1>5. MarkInv'
  <2>1. ScannedBefore(region, sp)'
    BY <1>1 DEF ScannedBefore
  <2>2. \A r : ScannedBefore(r, SIZE[r] + 1)' <=> ScannedBefore(r, SIZE[r] + 1)
    BY <1>1 DEF ScannedBefore
  <2>3. NULL \notin ToScan
    BY RootsAreApart DEF ToScan, IInv, TypeOK
  <2>4. NothingForgotten'
    BY <1>1, <1>2, <1>4, <2>1, <2>2, <2>3 DEF NothingForgotten, IInv, MarkInv
  <2> QED  BY <1>1, <1>2, <1>4, <2>4 DEF IInv, MarkInv
<1>6. ProgramInv'
  BY <1>1, <1>4 DEF IInv, ProgramInv
<1> QED  BY <1>1, <1>2, <1>3, <1>5, <1>6 DEF IInv

\* The word that is scanned leads to a reachable object, if to any.
LEMMA WordReachable ==
    ASSUME IInv, pc = "mark", region # NULL, sp <= SIZE[region]
    PROVE  /\ memory[<<region, sp>>] \in allocated \cup {NULL}
           /\ memory[<<region, sp>>] # NULL => memory[<<region, sp>>] \in Reachable
<1>1. region \in ToScan /\ region \in Regions /\ region \in RootRegions \cup Reachable
  BY RootsAreApart DEF IInv, MarkInv, ToScan, TypeOK
<1>2. sp \in 1 .. SIZE[region]
  BY <1>1, RootsAreApart DEF IInv, TypeOK
<1>3. memory[<<region, sp>>] \in allocated \cup {NULL}
  BY <1>1, <1>2, CellsOfRegion DEF IInv, MarkInv
<1>4. region \notin pointerFree
  BY <1>1, RootsAreApart DEF IInv, TypeOK, ProgramInv, MarkInv, ToScan
<1>5. ASSUME memory[<<region, sp>>] # NULL
      PROVE  memory[<<region, sp>>] \in Targets(region)
  BY <1>2, <1>4, <1>5 DEF Targets
<1>6. Closed(Reachable)
  BY ReachableClosed DEF IInv
<1> QED  BY <1>1, <1>3, <1>5, <1>6 DEF Closed

LEMMA ScanStep ==
    ASSUME IInv, ScanWord
    PROVE  IInv'
<1>1. /\ pc = "mark" /\ region # NULL
      /\ UNCHANGED <<allocated, atomic, finalizers, freeing, held, pointerFree,
                     finalized, memory, pc, todo, finalizing>>
  BY DEF ScanWord, program, finalization
<1>2. Reachable' = Reachable
  BY <1>1, ReachableUnchanged
<1>3. ProgramInv'
  BY <1>1, <1>2 DEF IInv, ProgramInv
<1>4. region \in ToScan /\ region \in Regions /\ SIZE[region] \in Nat
  BY <1>1, RootsAreApart DEF IInv, MarkInv, ToScan, TypeOK
<1>5. \A r \in ToScan : r \in Regions /\ SIZE[r] \in Nat
  BY RootsAreApart DEF ToScan, IInv, TypeOK
<1>6. CASE sp <= SIZE[region]
  <2> DEFINE word == memory[<<region, sp>>]
  <2>1. Mark(word) /\ sp' = sp + 1 /\ region' = region
    BY <1>6 DEF ScanWord
  <2>2. word \in allocated \cup {NULL} /\ (word # NULL => word \in Reachable)
    BY <1>1, <1>6, WordReachable
  <2> HIDE DEF word
  <2>3. /\ stack' \in Seq(RootRegions \cup (OBJECTS \ atomic))
        /\ IsInjective(stack') /\ region \notin Range(stack')
        /\ Range(stack) \subseteq Range(stack')
        /\ marked \subseteq marked' /\ marked' \subseteq allocated \cap Reachable
        /\ word \in marked' \cup {NULL}
        /\ ToScan' = ToScan \cup Range(stack')
    <3>1. CASE word # NULL /\ word \notin marked /\ word \notin atomic
      <4>1. marked' = marked \cup {word} /\ stack' = Append(stack, word)
        BY <2>1, <3>1 DEF Mark, ScanObject
      <4>2. word \in RootRegions \cup (OBJECTS \ atomic)
        BY <2>2, <3>1 DEF IInv, TypeOK
      <4>3. word \notin ToScan
        BY <2>2, <3>1, RootsAreApart DEF ToScan, IInv, TypeOK
      <4>4. word \notin Range(stack) /\ word # region
        BY <1>1, <1>4, <4>3 DEF IInv, MarkInv
      <4>5. /\ stack' \in Seq(RootRegions \cup (OBJECTS \ atomic))
            /\ IsInjective(stack') /\ Range(stack') = Range(stack) \cup {word}
        BY <4>1, <4>2, <4>4, Pushed DEF IInv, TypeOK
      <4>6. ToScan' = ToScan \cup {word}
        BY <1>1, <3>1, <4>1 DEF ToScan
      <4> QED
        BY <1>1, <2>2, <3>1, <4>1, <4>4, <4>5, <4>6 DEF IInv, MarkInv
    <3>2. CASE word # NULL /\ word \notin marked /\ word \in atomic
      <4>1. marked' = marked \cup {word} /\ stack' = stack
        BY <2>1, <3>2 DEF Mark, ScanObject
      <4>2. ToScan' = ToScan
        BY <1>1, <3>2, <4>1 DEF ToScan
      <4> QED  BY <2>2, <3>2, <4>1, <4>2, <1>1 DEF IInv, TypeOK, MarkInv
    <3>3. CASE word = NULL \/ word \in marked
      <4>1. marked' = marked /\ stack' = stack /\ ToScan' = ToScan
        BY <1>1, <2>1, <3>3 DEF Mark, ToScan
      <4> QED  BY <3>3, <4>1, <1>1 DEF IInv, TypeOK, MarkInv
    <3> QED  BY <3>1, <3>2, <3>3
  <2>4. TypeOK' /\ sp' # 0
    BY <1>1, <2>1, <2>3 DEF IInv, TypeOK
  <2>5. NothingForgotten'
    <3>1. ASSUME NEW r \in ToScan, NEW n, ScannedBefore(r, n)
          PROVE  \A i \in 1 .. SIZE[r] :
                     i < n => memory'[<<r, i>>] \in marked' \cup {NULL}
      BY <1>1, <2>3, <3>1 DEF ScannedBefore
    <3>2. ASSUME ScannedBefore(region, sp)
          PROVE  ScannedBefore(region, sp)'
      <4>1. \A i \in 1 .. SIZE[region] : i < sp' => i < sp \/ i = sp
        BY <1>4, <2>1 DEF IInv, TypeOK
      <4>2. memory'[<<region, sp>>] \in marked' \cup {NULL}
        BY <1>1, <2>3 DEF word
      <4>3. \A i \in 1 .. SIZE[region] :
               i < sp => memory'[<<region, i>>] \in marked' \cup {NULL}
        BY <1>4, <3>1, <3>2
      <4> QED  BY <2>1, <4>1, <4>2, <4>3 DEF ScannedBefore
    <3>3. ASSUME NEW r \in ToScan, ScannedBefore(r, SIZE[r] + 1)
          PROVE  ScannedBefore(r, SIZE[r] + 1)'
      BY <3>1, <3>3 DEF ScannedBefore
    <3> QED
      BY <1>1, <2>1, <2>3, <3>2, <3>3 DEF NothingForgotten, IInv, MarkInv
  <2>6. MarkInv'
    BY <1>1, <1>2, <1>4, <2>1, <2>3, <2>5 DEF IInv, MarkInv
  <2> QED  BY <1>1, <1>3, <2>1, <2>3, <2>4, <2>6 DEF IInv
<1>7. CASE ~(sp <= SIZE[region])
  <2>1. region' = NULL /\ sp' = 1 /\ UNCHANGED <<marked, stack>>
    BY <1>7 DEF ScanWord
  <2>2. TypeOK' /\ ToScan' = ToScan
    BY <1>1, <2>1 DEF IInv, TypeOK, ToScan
  <2>3. ASSUME NEW r \in ToScan, ScannedBefore(r, SIZE[r] + 1)
        PROVE  ScannedBefore(r, SIZE[r] + 1)'
    BY <1>1, <2>1, <2>3 DEF ScannedBefore
  <2>4. ASSUME ScannedBefore(region, sp)
        PROVE  ScannedBefore(region, SIZE[region] + 1)
    <3>1. \A i \in 1 .. SIZE[region] : i < sp
      BY <1>4, <1>7 DEF IInv, TypeOK
    <3> QED  BY <2>4, <3>1 DEF ScannedBefore
  <2>5. NothingForgotten'
    BY <1>1, <1>4, <2>1, <2>2, <2>3, <2>4 DEF NothingForgotten, IInv, MarkInv
  <2>6. MarkInv'
    BY <1>1, <1>2, <2>1, <2>2, <2>5 DEF IInv, MarkInv
  <2>7. NULL \notin Range(stack)
    BY <1>1, RootsAreApart DEF IInv, MarkInv, ToScan, TypeOK
  <2> QED  BY <1>1, <1>3, <2>1, <2>2, <2>6, <2>7 DEF IInv
<1> QED  BY <1>6, <1>7

\* When the stack is empty the marked objects are closed, and so all that is
\* reachable is among them.
LEMMA MarkedIsReachable ==
    ASSUME IInv, pc = "mark", region = NULL, stack = <<>>
    PROVE  marked = Reachable
<1>1. ASSUME NEW r \in RootRegions \cup marked, NEW o \in Targets(r)
      PROVE  o \in marked
  <2>1. r \notin pointerFree
    BY DEF Targets
  <2>2. r \in ToScan /\ r \in Regions /\ SIZE[r] \in Nat
    BY <2>1, RootsAreApart DEF ToScan, IInv, MarkInv, ProgramInv, TypeOK
  <2>3. Range(stack) = {} /\ r # NULL
    BY <2>2, RegionsAssumption DEF Range
  <2>4. ScannedBefore(r, SIZE[r] + 1)
    BY <2>2, <2>3 DEF IInv, MarkInv, NothingForgotten
  <2>5. PICK i \in 1 .. SIZE[r] : o = memory[<<r, i>>] /\ o # NULL
    BY DEF Targets
  <2>6. i < SIZE[r] + 1
    BY <2>2
  <2> QED  BY <2>4, <2>5, <2>6 DEF ScannedBefore
<1>2. Closed(marked) /\ marked \in SUBSET OBJECTS
  BY <1>1 DEF Closed, IInv, TypeOK
<1> QED  BY <1>2, ReachableLeast DEF IInv, MarkInv

LEMMA EndMarkStep ==
    ASSUME IInv, EndMark
    PROVE  IInv'
<1>1. /\ pc = "mark" /\ region = NULL /\ stack = <<>>
      /\ todo' = finalizers /\ pc' = "finalize" /\ finalizing = NULL
      /\ UNCHANGED <<allocated, atomic, finalizers, freeing, held, pointerFree,
                     finalized, marked, memory, stack, region, sp, finalizing>>
  BY DEF EndMark, program, marking, IInv
<1>2. Reachable' = Reachable /\ marked = Reachable
  BY <1>1, ReachableUnchanged, MarkedIsReachable
<1>3. TypeOK'
  BY <1>1 DEF IInv, TypeOK
<1>4. ProgramInv'
  BY <1>1, <1>2 DEF IInv, ProgramInv
<1>5. FinalizeInv'
  BY <1>1, <1>2 DEF IInv, MarkInv, FinalizeInv
<1> QED  BY <1>1, <1>3, <1>4, <1>5 DEF IInv
-----------------------------------------------------------------------------
(* Finalizers and the sweep *)

LEMMA CallStep ==
    ASSUME IInv, NEW o \in OBJECTS, CallFinalizer(o)
    PROVE  IInv'
<1>1. /\ pc = "finalize" /\ finalizing = NULL /\ o \in todo /\ todo' = todo \ {o}
      /\ UNCHANGED <<allocated, atomic, finalizers, freeing, held, pointerFree,
                     marked, memory, stack, region, sp, pc>>
      /\ IF o \notin marked
         THEN finalizing' = o /\ finalized' = finalized \cup {o}
         ELSE UNCHANGED <<finalizing, finalized>>
  BY DEF CallFinalizer, Passed, marking
<1>2. Reachable' = Reachable
  BY <1>1, ReachableUnchanged
<1>3. TypeOK'
  BY <1>1 DEF IInv, TypeOK
<1>4. o \in finalizers /\ (o \notin marked => o \notin held /\ o \notin Reachable)
  BY <1>1 DEF IInv, TypeOK, FinalizeInv, ProgramInv
<1>5. ProgramInv'
  BY <1>1, <1>2, <1>4, RootsAreApart DEF IInv, TypeOK, ProgramInv
<1>6. FinalizeInv'
  BY <1>1, <1>2, <1>4, RootsAreApart DEF IInv, TypeOK, FinalizeInv
<1> QED  BY <1>1, <1>3, <1>5, <1>6 DEF IInv

LEMMA FinalizerAllocatesStep ==
    ASSUME IInv, NEW o \in OBJECTS, FinalizerAllocates(o)
    PROVE  IInv'
<1>1. /\ finalizing # NULL /\ o \notin allocated /\ pc = "finalize"
      /\ atomic' = (IF o \in pointerFree THEN atomic \cup {o} ELSE atomic \ {o})
      /\ marked' \ {o} = marked \ {o} /\ marked' \subseteq OBJECTS
      /\ o \in LARGE => marked' = marked
      /\ finalized' = finalized \ {o}
      /\ allocated' = allocated \cup {o}
      /\ UNCHANGED <<finalizers, freeing, held, pointerFree, memory, stack, region,
                     sp, pc, todo, finalizing>>
  BY DEF FinalizerAllocates, Allocate, marking, finalization, IInv, TypeOK
<1>2. /\ o \notin finalizers /\ o \notin held /\ o \notin freeing
      /\ o \in Reachable => o \in LARGE
  BY <1>1 DEF IInv, FinalizeInv, ProgramInv
<1>3. Reachable' = Reachable
  BY <1>1, ReachableUnchanged
<1>4. stack = <<>> /\ \A S : <<>> \in Seq(S)
  BY <1>1 DEF IInv
<1>5. TypeOK'
  BY <1>1, <1>4 DEF IInv, TypeOK
<1>6. ProgramInv'
  BY <1>1, <1>2, <1>3 DEF IInv, ProgramInv
<1>7. FinalizeInv'
  BY <1>1, <1>2, <1>3 DEF IInv, FinalizeInv
<1> QED  BY <1>1, <1>5, <1>6, <1>7 DEF IInv

LEMMA FinalizerFreesStep ==
    ASSUME IInv, NEW o \in OBJECTS, FinalizerFrees(o)
    PROVE  IInv'
<1>1. /\ finalizing # NULL /\ pc = "finalize"
      /\ o \in LARGE /\ o \notin finalizers /\ o \notin freeing
      /\ allocated' = allocated \ {o} /\ held' = held \ {o}
      /\ UNCHANGED <<atomic, finalizers, freeing, pointerFree, finalized, marked,
                     memory, stack, region, sp, pc, todo, finalizing>>
  BY DEF FinalizerFrees, marking, finalization, IInv
<1>2. Reachable' = Reachable
  BY <1>1, ReachableUnchanged
<1>3. TypeOK'
  BY <1>1 DEF IInv, TypeOK
<1>4. ProgramInv'
  BY <1>1, <1>2 DEF IInv, ProgramInv, FinalizeInv
<1>5. FinalizeInv'
  BY <1>1, <1>2 DEF IInv, FinalizeInv
<1> QED  BY <1>1, <1>3, <1>4, <1>5 DEF IInv

LEMMA FinalizerReturnsStep ==
    ASSUME IInv, FinalizerReturns
    PROVE  IInv'
<1>1. /\ finalizing # NULL /\ pc = "finalize" /\ finalizing' = NULL
      /\ finalizers' = finalizers \ {finalizing}
      /\ UNCHANGED <<allocated, atomic, freeing, held, pointerFree, finalized,
                     marked, memory, stack, region, sp, pc, todo>>
  BY DEF FinalizerReturns, Deleted, marking, IInv
<1>2. Reachable' = Reachable
  BY <1>1, ReachableUnchanged
<1>3. TypeOK'
  BY <1>1 DEF IInv, TypeOK, FinalizeInv
<1>4. ProgramInv'
  BY <1>1, <1>2 DEF IInv, ProgramInv
<1>5. FinalizeInv'
  BY <1>1, <1>2 DEF IInv, FinalizeInv
<1> QED  BY <1>1, <1>3, <1>4, <1>5 DEF IInv

LEMMA SweepStep ==
    ASSUME IInv, Sweep
    PROVE  IInv'
<1>1. PICK kept \in SUBSET (OBJECTS \ LARGE) :
         allocated' = allocated \cap (marked \cup kept)
  BY DEF Sweep, Swept
<1>2. /\ pc = "finalize" /\ finalizing = NULL /\ todo = {}
      /\ memory' = NoWords /\ pc' = "program"
      /\ UNCHANGED <<atomic, finalizers, freeing, held, pointerFree, finalized,
                     marked, stack, region, sp, todo, finalizing>>
  BY DEF Sweep, marking, finalization
<1>3. NoWords \in [Cells -> OBJECTS \cup {NULL}]
  BY DEF NoWords
<1>4. TypeOK'
  BY <1>1, <1>2, <1>3 DEF IInv, TypeOK
<1>5. finalizers \subseteq Reachable /\ held \cup freeing \subseteq Reachable
  BY <1>2, RootsAreApart DEF IInv, TypeOK, FinalizeInv, ProgramInv
<1>6. ProgramInv'
  BY <1>1, <1>2, <1>5 DEF IInv, ProgramInv, FinalizeInv
<1> QED  BY <1>2, <1>4, <1>6 DEF IInv
-----------------------------------------------------------------------------
LEMMA NextInvariant ==
    ASSUME IInv, [Next]_vars
    PROVE  IInv'
<1>1. CASE Program
  BY <1>1, MallocStep, ReallocStep, FreeStep, FreeReturnsStep, RegisterStep,
     BeginStep
  DEF Program
<1>2. CASE Finalizer
  BY <1>2, FinalizerAllocatesStep, FinalizerFreesStep, FinalizerReturnsStep
  DEF Finalizer
<1>3. CASE Collector
  BY <1>3, PopStep, ScanStep, EndMarkStep, CallStep, SweepStep DEF Collector
<1>4. CASE UNCHANGED vars
  <2>1. UNCHANGED <<allocated, atomic, finalizers, freeing, held, pointerFree,
                    finalized, marked, memory, stack, region, sp, pc, todo, finalizing>>
    BY <1>4 DEF vars, program, marking, finalization
  <2>2. Reachable' = Reachable
    BY <2>1, ReachableUnchanged
  <2> QED
    BY <2>1, <2>2
    DEF IInv, TypeOK, ProgramInv, MarkInv, FinalizeInv, NothingForgotten, ToScan,
        ScannedBefore
<1> QED  BY <1>1, <1>2, <1>3, <1>4 DEF Next

LEMMA Invariant == Spec => []IInv
<1>1. Init => IInv
  BY InitInvariant
<1>2. IInv /\ [Next]_vars => IInv'
  BY NextInvariant
<1> QED  BY <1>1, <1>2, PTL DEF Spec
-----------------------------------------------------------------------------
(* What follows from it *)

\* The state of GC_Collector_collect and of the calls of immix.c stays well
\* typed, and the stack holds roots and objects that are not atomic only.
THEOREM TypeCorrect == Spec => []TypeOK
<1>1. IInv => TypeOK
  BY DEF IInv
<1> QED  BY <1>1, Invariant, PTL

\* GC_Collector_mark ends with exactly the reachable objects marked, for every
\* graph of objects and whatever was marked before.
THEOREM MarksReachable == Spec => []MarkingExact
<1>1. IInv => MarkingExact
  BY MarkedIsReachable DEF MarkingExact
<1> QED  BY <1>1, Invariant, PTL

\* Every region is scanned at most once in a collection, so that no more
\* regions are on the stack than there are.
THEOREM OneScan == Spec => []ScannedOnce
<1>1. IInv => ScannedOnce
  BY DEF IInv, ScannedOnce
<1> QED  BY <1>1, Invariant, PTL

\* What the program can reach is never swept, and neither is an object whose
\* finalizer GC_free is calling.
THEOREM NothingLost == Spec => []LiveKept
<1>1. IInv => LiveKept
  BY DEF IInv, ProgramInv, LiveKept
<1> QED  BY <1>1, Invariant, PTL

\* The table of finalizers has entries for objects that exist, and a finalizer
\* runs for one that is unreachable, was not finalized and is not yet freed.
THEOREM FinalizersInTime == Spec => []FinalizersValid
<1>1. IInv => FinalizersValid
  BY DEF IInv, ProgramInv, FinalizeInv, FinalizersValid
<1> QED  BY <1>1, Invariant, PTL

\* A finalizer is called once, by GC_free or by the first collection that finds
\* its object unreachable.
THEOREM CalledOnce == Spec => FinalizedOnce
<1>1. ASSUME IInv, Next, NEW o \in finalized
      PROVE  /\ o \in freeing' => o \in freeing
             /\ finalizing' = o => finalizing = o
  <2>1. o \in OBJECTS /\ o # NULL /\ o \notin held
        /\ (o \in finalizers => o = finalizing)
    BY <1>1, RootsAreApart DEF IInv, TypeOK, ProgramInv
  <2>2. CASE Program
    BY <2>1, <2>2
    DEF Program, Malloc, Realloc, Free, FreeReturns, RegisterFinalizer,
        BeginCollection, finalization
  <2>3. CASE Finalizer
    BY <2>1, <2>3
    DEF Finalizer, FinalizerAllocates, FinalizerFrees, FinalizerReturns,
        finalization
  <2>4. CASE \E p \in OBJECTS : CallFinalizer(p)
    BY <1>1, <2>1, <2>4 DEF CallFinalizer, IInv, TypeOK
  <2>5. CASE PopRegion \/ ScanWord \/ EndMark \/ Sweep
    BY <2>5 DEF PopRegion, ScanWord, EndMark, Sweep, program, finalization
  <2> QED  BY <1>1, <2>2, <2>3, <2>4, <2>5 DEF Next, Collector
<1>2. ASSUME IInv, Sweep
      PROVE  finalizers \subseteq Reachable
  BY <1>2, RootsAreApart DEF Sweep, IInv, TypeOK, FinalizeInv
<1>3. IInv /\ [Next]_vars =>
         [/\ \A o \in OBJECTS :
                o \in finalized => /\ o \in freeing' => o \in freeing
                                   /\ finalizing' = o => finalizing = o
          /\ Sweep => finalizers \subseteq Reachable]_vars
  BY <1>1, <1>2
<1> QED  BY <1>3, Invariant, PTL DEF Spec, FinalizedOnce
=============================================================================
