------------------------- MODULE RecycleLoop_proofs -------------------------
(***************************************************************************)
(* The loop over the lines of a block records the holes that module Holes  *)
(* defines, for a block of any number of lines and any marks.              *)
(***************************************************************************)
EXTENDS RecycleLoop, TLAPS

\* The hole that was opened last.
LastHole == IF hole # NULL THEN hole ELSE previous_hole

\* What the loop has done with the lines before line_index.
HeadersInv == cleared = {l \in Line : l < line_index /\ l \notin marks}

\* A hole is opened as soon as it starts.
OpenedInv == DOMAIN holes = {l \in HoleStarts(marks) : l < line_index}

LastInv ==
    IF DOMAIN holes = {}
    THEN hole = NULL /\ previous_hole = NULL
    ELSE LastHole \in DOMAIN holes /\ \A h \in DOMAIN holes : h <= LastHole

\* While a hole is open its lines are free; while none is, the line before is
\* marked, or the only free one before a marked line.
ScanInv ==
    IF hole # NULL
    THEN /\ \A l \in Line : hole <= l /\ l < line_index => l \notin marks
         /\ holes[hole].limit = NULL
    ELSE \/ line_index = 0 \/ line_index = LINE_COUNT
         \/ line_index - 1 \in marks \/ line_index \in marks

LimitsInv ==
    \A h \in DOMAIN holes :
        h # hole => holes[h].limit = HoleLimit(marks, h) /\ holes[h].limit \in Nat

NextsInv ==
    \A h \in DOMAIN holes :
        holes[h].next = IF h = LastHole THEN NULL ELSE HoleNext(marks, h)

FirstInv ==
    IF DOMAIN holes = {}
    THEN first_free_line_index = INVALID_LINE_INDEX
    ELSE /\ first_free_line_index \in DOMAIN holes
         /\ \A h \in DOMAIN holes : first_free_line_index <= h

\* The lines of the holes so far, the open one without its limit.
CoverInv ==
    /\ \A l \in Line :
          0 < l /\ l < line_index /\ l \notin marks /\ l - 1 \notin marks =>
             \E h \in DOMAIN holes : h <= l /\ (h = hole \/ l < holes[h].limit)
    /\ \A h \in DOMAIN holes : h # hole =>
          \A l \in Line : h <= l /\ l < holes[h].limit => l \notin marks

LoopInv == /\ HeadersInv /\ OpenedInv /\ LastInv /\ ScanInv
           /\ LimitsInv /\ NextsInv /\ FirstInv /\ CoverInv

IInv == /\ TypeOK /\ (flag = NULL => LoopInv)
        /\ HolesRecorded /\ HolesAreSpareLines
-----------------------------------------------------------------------------
LEMMA LineFacts ==
    /\ LINE_COUNT \in Nat /\ LINE_COUNT > 0
    /\ Line = 0 .. LINE_COUNT - 1
    /\ \A n \in Int : n # NULL
    /\ NULL \notin {"recyclable", "unavailable"}
    /\ INVALID_LINE_INDEX = -1
BY GeometryAssumption, NullAssumption DEF Line, INVALID_LINE_INDEX

LEMMA LeastIs ==
    ASSUME NEW S, S \subseteq Int, NEW x \in S, \A y \in S : x <= y
    PROVE  Least(S) = x
<1>1. \A z \in S : (\A y \in S : z <= y) => z = x
  OBVIOUS
<1> QED  BY <1>1 DEF Least

\* A hole ends at the first marked line after it.
LEMMA LimitIs ==
    ASSUME marks \subseteq Line, NEW h \in Line, NEW m \in 0 .. LINE_COUNT,
           h < m, m = LINE_COUNT \/ m \in marks,
           \A l \in Line : h <= l /\ l < m => l \notin marks
    PROVE  HoleLimit(marks, h) = m
<1> DEFINE S == {l \in marks : l > h} \cup {LINE_COUNT}
<1>1. S \subseteq Int /\ m \in S
  <2>1. Line \subseteq Int /\ LINE_COUNT \in Int
    BY LineFacts
  <2>2. m \in marks => m > h
    BY LineFacts
  <2> QED  BY <2>1, <2>2
<1>2. ASSUME NEW l \in S PROVE m <= l
  <2>1. CASE l = LINE_COUNT
    BY <2>1, LineFacts
  <2>2. CASE l \in marks /\ l > h
    <3>1. l \in Line /\ l \in Int /\ h \in Int /\ m \in Int
      BY <2>2, LineFacts
    <3> QED  BY <2>2, <3>1
  <2> QED  BY <2>1, <2>2
<1> HIDE DEF S
<1>3. Least(S) = m
  BY <1>1, <1>2, LeastIs
<1> QED  BY <1>3 DEF HoleLimit, S

\* The hole after one is the first to start after it.
LEMMA NextIs ==
    ASSUME NEW h \in Line, NEW n \in HoleStarts(marks), h < n,
           \A l \in HoleStarts(marks) : h < l => n <= l
    PROVE  HoleNext(marks, h) = n
<1> DEFINE after == {l \in HoleStarts(marks) : l > h}
<1>1. after \subseteq Int /\ n \in after
  BY LineFacts DEF HoleStarts
<1>2. \A l \in after : n <= l
  OBVIOUS
<1> HIDE DEF after
<1>3. Least(after) = n /\ after # {}
  BY <1>1, <1>2, LeastIs
<1> QED  BY <1>3 DEF HoleNext, after

LEMMA InitIInv == Init => IInv
<1> SUFFICES ASSUME Init PROVE IInv
  OBVIOUS
<1>1. DOMAIN holes = {}
  BY DEF Init
<1>2. TypeOK
  BY <1>1, LineFacts DEF Init, TypeOK
<1>3. LoopInv
  BY <1>1, LineFacts DEF Init, LoopInv, HeadersInv, OpenedInv, LastInv, ScanInv,
     LimitsInv, NextsInv, FirstInv, CoverInv, HoleStarts
<1> QED  BY <1>2, <1>3 DEF IInv, Init, HolesRecorded, HolesAreSpareLines
-----------------------------------------------------------------------------
LEMMA MarkedLineStep ==
    ASSUME IInv, MarkedLine
    PROVE  IInv'
<1>1. /\ flag = NULL /\ line_index < LINE_COUNT /\ line_index \in marks
      /\ line_index \in Nat /\ marks \subseteq Line /\ DOMAIN holes \subseteq Line
      /\ hole \in Line \cup {NULL}
      /\ line_index' = line_index + 1
      /\ UNCHANGED <<marks, cleared, first_free_line_index, flag>>
  BY LineFacts DEF IInv, TypeOK, MarkedLine, InLoop
<1>2. LoopInv
  BY <1>1 DEF IInv
<1>3. /\ hole' = NULL
      /\ DOMAIN holes' = DOMAIN holes
      /\ hole # NULL => /\ previous_hole' = hole /\ hole \in DOMAIN holes
                        /\ holes' = [holes EXCEPT ![hole].limit = line_index]
      /\ hole = NULL => UNCHANGED <<previous_hole, holes>>
  BY <1>2 DEF MarkedLine, LoopInv, LastInv, LastHole
<1>4. /\ \A h \in DOMAIN holes : holes'[h].next = holes[h].next
      /\ \A h \in DOMAIN holes : h # hole => holes'[h].limit = holes[h].limit
      /\ hole # NULL => holes'[hole].limit = line_index
  BY <1>3 DEF IInv, TypeOK, HoleRecord
<1>5. LastHole' = LastHole
  BY <1>1, <1>3, LineFacts DEF LastHole
<1>6. TypeOK'
  <2>1. holes' \in [DOMAIN holes' -> HoleRecord]
    <3>1. line_index \in 0 .. LINE_COUNT
      BY <1>1, LineFacts
    <3> QED  BY <1>3, <3>1 DEF IInv, TypeOK, HoleRecord
  <2> QED  BY <1>1, <1>3, <2>1, LineFacts DEF IInv, TypeOK
<1>7. HeadersInv'
  BY <1>1, <1>2, LineFacts DEF LoopInv, HeadersInv
<1>8. OpenedInv'
  BY <1>1, <1>2, <1>3, LineFacts DEF LoopInv, OpenedInv, HoleStarts
<1>9. LastInv'
  BY <1>2, <1>3, <1>5 DEF LoopInv, LastInv
<1>10. ScanInv'
  BY <1>1, <1>3 DEF ScanInv
<1>11. LimitsInv'
  <2> SUFFICES ASSUME NEW h \in DOMAIN holes
               PROVE  /\ holes'[h].limit = HoleLimit(marks, h)
                      /\ holes'[h].limit \in Nat
    BY <1>1, <1>3 DEF LimitsInv
  <2>1. CASE h # hole
    BY <1>2, <1>4, <2>1 DEF LoopInv, LimitsInv
  <2>2. CASE h = hole
    <3>1. h \in Line /\ h < line_index /\ hole # NULL
      BY <1>1, <1>2, <2>2, LineFacts DEF LoopInv, OpenedInv
    <3>2. \A l \in Line : h <= l /\ l < line_index => l \notin marks
      BY <1>2, <2>2, <3>1 DEF LoopInv, ScanInv
    <3>3. HoleLimit(marks, h) = line_index
      BY <1>1, <3>1, <3>2, LimitIs, LineFacts
    <3> QED  BY <1>1, <1>4, <2>2, <3>1, <3>3
  <2> QED  BY <2>1, <2>2
<1>12. NextsInv' /\ FirstInv'
  BY <1>1, <1>2, <1>3, <1>4, <1>5 DEF LoopInv, NextsInv, FirstInv
<1>13. CoverInv'
  <2>1. ASSUME NEW l \in Line, 0 < l, l < line_index', l \notin marks,
               l - 1 \notin marks
        PROVE  \E h \in DOMAIN holes : h <= l /\ l < holes'[h].limit
    <3>1. l < line_index
      BY <1>1, <2>1, LineFacts
    <3>2. PICK h \in DOMAIN holes : h <= l /\ (h = hole \/ l < holes[h].limit)
      BY <1>2, <2>1, <3>1 DEF LoopInv, CoverInv
    <3>3. h = hole => hole # NULL
      BY <1>1, <3>2, LineFacts
    <3> QED  BY <1>4, <3>1, <3>2, <3>3
  <2>2. ASSUME NEW h \in DOMAIN holes, NEW l \in Line, h <= l,
               l < holes'[h].limit
        PROVE  l \notin marks
    <3>1. h = hole => hole # NULL
      BY <1>1, LineFacts
    <3>2. CASE h = hole
      BY <1>2, <1>4, <2>2, <3>1, <3>2 DEF LoopInv, ScanInv
    <3>3. CASE h # hole
      BY <1>2, <1>4, <2>2, <3>3 DEF LoopInv, CoverInv
    <3> QED  BY <3>2, <3>3
  <2> QED  BY <1>1, <1>3, <2>1, <2>2 DEF CoverInv
<1> QED
  BY <1>1, <1>6, <1>7, <1>8, <1>9, <1>10, <1>11, <1>12, <1>13
     DEF IInv, LoopInv, HolesRecorded, HolesAreSpareLines

LEMMA ClearLineStep ==
    ASSUME IInv, ClearLine
    PROVE  IInv'
<1>1. /\ flag = NULL /\ line_index < LINE_COUNT /\ line_index \notin marks
      /\ line_index \in Nat /\ marks \subseteq Line /\ cleared \subseteq Line
      /\ hole \in Line \cup {NULL} /\ ~OpensHole
      /\ cleared' = cleared \cup {line_index}
      /\ line_index' = line_index + 1
      /\ UNCHANGED <<marks, hole, previous_hole, holes, first_free_line_index,
                     flag>>
  BY LineFacts DEF IInv, TypeOK, ClearLine, InLoop
<1>2. LoopInv
  BY <1>1 DEF IInv
<1>3. TypeOK'
  BY <1>1, LineFacts DEF IInv, TypeOK
<1>4. HeadersInv'
  BY <1>1, <1>2, LineFacts DEF LoopInv, HeadersInv
<1>5. line_index \notin HoleStarts(marks)
  <2> SUFFICES ASSUME line_index \in HoleStarts(marks) PROVE FALSE
    OBVIOUS
  <2>1. /\ line_index > 0 /\ line_index - 1 \notin marks
        /\ line_index > 1 => line_index - 2 \in marks
    BY <1>1, LineFacts DEF HoleStarts
  <2>2. hole # NULL
    BY <1>1, <1>2, <2>1 DEF LoopInv, ScanInv
  <2>3. hole \in HoleStarts(marks) /\ hole < line_index
    BY <1>2, <2>2 DEF LoopInv, OpenedInv, LastInv, LastHole
  <2>4. hole \in Line /\ hole > 0 /\ hole - 1 \notin marks
    BY <2>3, LineFacts DEF HoleStarts
  <2>5. hole <= line_index - 2 => line_index - 2 \notin marks
    BY <1>1, <1>2, <2>2, <2>4, LineFacts DEF LoopInv, ScanInv
  <2>6. hole = line_index - 1 => line_index - 2 = hole - 1
    BY <1>1, <2>4, LineFacts
  <2>7. line_index > 1 /\ (hole <= line_index - 2 \/ hole = line_index - 1)
    BY <1>1, <2>3, <2>4, LineFacts
  <2> QED  BY <2>1, <2>4, <2>5, <2>6, <2>7
<1>6. OpenedInv'
  BY <1>1, <1>2, <1>5, LineFacts DEF LoopInv, OpenedInv, HoleStarts
<1>7. ScanInv'
  BY <1>1, <1>2, LineFacts DEF LoopInv, ScanInv, OpensHole
<1>8. LastInv' /\ LimitsInv' /\ NextsInv' /\ FirstInv'
  BY <1>1, <1>2 DEF LoopInv, LastInv, LimitsInv, NextsInv, FirstInv, LastHole
<1>9. CoverInv'
  <2>1. ASSUME NEW l \in Line, 0 < l, l < line_index', l \notin marks,
               l - 1 \notin marks
        PROVE  \E h \in DOMAIN holes : h <= l /\ (h = hole \/ l < holes[h].limit)
    <3>1. CASE l < line_index
      BY <1>2, <2>1, <3>1 DEF LoopInv, CoverInv
    <3>2. CASE l = line_index
      <4>1. hole # NULL
        BY <1>1, <1>2, <2>1, <3>2 DEF LoopInv, ScanInv
      <4>2. hole \in DOMAIN holes /\ hole < line_index
        BY <1>2, <4>1 DEF LoopInv, OpenedInv, LastInv, LastHole
      <4> QED  BY <1>1, <3>2, <4>1, <4>2, LineFacts
    <3> QED  BY <1>1, <2>1, <3>1, <3>2, LineFacts
  <2> QED  BY <1>1, <1>2, <2>1 DEF LoopInv, CoverInv
<1> QED
  BY <1>1, <1>3, <1>4, <1>6, <1>7, <1>8, <1>9
     DEF IInv, LoopInv, HolesRecorded, HolesAreSpareLines

LEMMA OpenHoleStep ==
    ASSUME IInv, OpenHole
    PROVE  IInv'
<1> DEFINE start == line_index + 1
<1>1. /\ flag = NULL /\ line_index < LINE_COUNT /\ line_index \notin marks
      /\ line_index \in Nat /\ marks \subseteq Line /\ cleared \subseteq Line
      /\ DOMAIN holes \subseteq Line
      /\ hole = NULL /\ line_index # LINE_COUNT - 1 /\ start \notin marks
      /\ cleared' = cleared \cup {line_index, start}
      /\ hole' = start
      /\ line_index' = start + 1
      /\ UNCHANGED <<marks, previous_hole, flag>>
  BY LineFacts DEF IInv, TypeOK, OpenHole, InLoop, OpensHole
<1>2. LoopInv
  BY <1>1 DEF IInv
<1>3. /\ line_index \in Line /\ start \in Line /\ start \in Nat
      /\ start # NULL /\ start # INVALID_LINE_INDEX
  BY <1>1, LineFacts
<1>4. line_index = 0 \/ line_index - 1 \in marks
  BY <1>1, <1>2 DEF LoopInv, ScanInv
<1>5. start \in HoleStarts(marks) /\ line_index \notin HoleStarts(marks)
  BY <1>1, <1>3, <1>4, LineFacts DEF HoleStarts
<1>6. start \notin DOMAIN holes /\ \A h \in DOMAIN holes : h < start
  BY <1>1, <1>2, <1>3, LineFacts DEF LoopInv, OpenedInv
<1>7. /\ DOMAIN holes' = DOMAIN holes \cup {start}
      /\ holes'[start] = [limit |-> NULL, next |-> NULL]
      /\ \A h \in DOMAIN holes :
            holes'[h] = IF h = previous_hole THEN [holes[h] EXCEPT !.next = start]
                        ELSE holes[h]
  BY <1>6 DEF OpenHole
<1>8. \A h \in DOMAIN holes :
         /\ holes'[h] \in HoleRecord
         /\ holes'[h].limit = holes[h].limit
         /\ holes'[h].next = IF h = previous_hole THEN start ELSE holes[h].next
  BY <1>3, <1>7 DEF IInv, TypeOK, HoleRecord
<1>9. first_free_line_index' = IF first_free_line_index = INVALID_LINE_INDEX
                               THEN start ELSE first_free_line_index
  BY DEF OpenHole
<1> HIDE DEF start
<1>10. TypeOK'
  <2>1. \A h \in DOMAIN holes' : holes'[h] \in HoleRecord
    BY <1>7, <1>8 DEF HoleRecord
  <2>2. holes' = [h \in DOMAIN holes' |-> holes'[h]]
    BY DEF OpenHole
  <2>3. holes' \in [DOMAIN holes' -> HoleRecord]
    BY <2>1, <2>2
  <2>4. line_index' \in 0 .. LINE_COUNT
    BY <1>1, <1>3, LineFacts
  <2> QED  BY <1>1, <1>3, <1>7, <1>9, <2>3, <2>4 DEF IInv, TypeOK
<1>11. HeadersInv'
  <2>1. \A l \in Line : l < line_index' <=> l < line_index \/ l = line_index \/ l = start
    BY <1>1, LineFacts DEF start
  <2> QED  BY <1>1, <1>2, <1>3, <2>1 DEF LoopInv, HeadersInv
<1>12. OpenedInv'
  <2>1. \A l \in Line : l < line_index' <=> l < line_index \/ l = line_index \/ l = start
    BY <1>1, LineFacts DEF start
  <2>2. HoleStarts(marks) \subseteq Line
    BY DEF HoleStarts
  <2>3. \A l : l \in DOMAIN holes <=> l \in HoleStarts(marks) /\ l < line_index
    BY <1>2 DEF LoopInv, OpenedInv
  <2>4. \A l : l \in DOMAIN holes' <=> l \in HoleStarts(marks) /\ l < line_index'
    BY <1>5, <1>7, <2>1, <2>2, <2>3
  <2> QED  BY <1>1, <2>4 DEF OpenedInv
<1>13. LastHole' = start
  BY <1>1, <1>3 DEF LastHole
<1>14. LastInv'
  <2>1. \A h \in DOMAIN holes' : h <= start
    BY <1>1, <1>3, <1>6, <1>7, LineFacts
  <2> QED  BY <1>7, <1>13, <2>1 DEF LastInv
<1>15. ScanInv'
  <2>1. \A l \in Line : start <= l /\ l < line_index' => l = start
    BY <1>1, <1>3, LineFacts
  <2> QED  BY <1>1, <1>3, <1>7, <2>1 DEF ScanInv
<1>16. LimitsInv'
  BY <1>1, <1>2, <1>3, <1>7, <1>8, LineFacts DEF LoopInv, LimitsInv
<1>17. NextsInv'
  <2> SUFFICES ASSUME NEW h \in DOMAIN holes'
               PROVE  holes'[h].next = IF h = start THEN NULL
                                       ELSE HoleNext(marks, h)
    BY <1>1, <1>13 DEF NextsInv
  <2>1. CASE h = start
    BY <1>7, <2>1
  <2>2. CASE h # start /\ h = previous_hole
    <3>1. h \in DOMAIN holes /\ h \in Line /\ h < start
      BY <1>1, <1>6, <1>7, <2>2
    <3>2. \A g \in DOMAIN holes : g <= h
      BY <1>1, <1>2, <2>2, <3>1 DEF LoopInv, LastInv, LastHole
    <3>3. ASSUME NEW l \in HoleStarts(marks), h < l
          PROVE  start <= l
      <4>1. l \in Line /\ l # line_index
        BY <1>5 DEF HoleStarts
      <4>2. l < line_index => l <= h
        BY <1>2, <3>2 DEF LoopInv, OpenedInv
      <4> QED  BY <1>1, <3>1, <3>3, <4>1, <4>2, LineFacts DEF start
    <3>4. HoleNext(marks, h) = start
      BY <1>5, <3>1, <3>3, NextIs
    <3> QED  BY <1>8, <2>2, <3>1, <3>4
  <2>3. CASE h # start /\ h # previous_hole
    <3>1. h \in DOMAIN holes /\ h # LastHole
      BY <1>1, <1>7, <2>3 DEF LastHole
    <3> QED  BY <1>2, <1>8, <2>3, <3>1 DEF LoopInv, NextsInv
  <2> QED  BY <2>1, <2>2, <2>3
<1>18. FirstInv'
  <2>1. CASE DOMAIN holes = {}
    <3>1. first_free_line_index' = start
      BY <1>2, <1>9, <2>1 DEF LoopInv, FirstInv
    <3>2. DOMAIN holes' = {start} /\ start <= start
      BY <1>3, <1>7, <2>1
    <3> QED  BY <3>1, <3>2 DEF FirstInv
  <2>2. CASE DOMAIN holes # {}
    <3>1. /\ first_free_line_index \in DOMAIN holes
          /\ \A h \in DOMAIN holes : first_free_line_index <= h
      BY <1>2, <2>2 DEF LoopInv, FirstInv
    <3>2. PICK f \in Line : f = first_free_line_index
      BY <1>1, <3>1
    <3>3. first_free_line_index' = f
      BY <1>9, <3>2, LineFacts
    <3>4. f \in DOMAIN holes' /\ \A h \in DOMAIN holes' : f <= h
      BY <1>3, <1>6, <1>7, <3>1, <3>2, LineFacts
    <3> QED  BY <1>7, <3>3, <3>4 DEF FirstInv
  <2> QED  BY <2>1, <2>2
<1>19. CoverInv'
  <2>1. ASSUME NEW l \in Line, 0 < l, l < line_index', l \notin marks,
               l - 1 \notin marks
        PROVE  \E h \in DOMAIN holes' :
                  h <= l /\ (h = start \/ l < holes'[h].limit)
    <3>1. CASE l < line_index
      <4>1. PICK h \in DOMAIN holes : h <= l /\ (h = hole \/ l < holes[h].limit)
        BY <1>2, <2>1, <3>1 DEF LoopInv, CoverInv
      <4>2. h # hole
        BY <1>1, LineFacts
      <4> QED  BY <1>7, <1>8, <4>1, <4>2
    <3>2. CASE l = start
      BY <1>3, <1>7, <3>2
    <3>3. l < line_index \/ l = line_index \/ l = start
      BY <1>1, <1>3, <2>1, LineFacts DEF start
    <3> QED  BY <1>4, <2>1, <3>1, <3>2, <3>3
  <2>2. ASSUME NEW h \in DOMAIN holes', h # start, NEW l \in Line, h <= l,
               l < holes'[h].limit
        PROVE  l \notin marks
    <3>1. h \in DOMAIN holes /\ h # hole
      BY <1>1, <1>7, <2>2, LineFacts
    <3> QED  BY <1>2, <1>8, <2>2, <3>1 DEF LoopInv, CoverInv
  <2> QED  BY <1>1, <2>1, <2>2 DEF CoverInv
<1> QED
  BY <1>1, <1>10, <1>11, <1>12, <1>14, <1>15, <1>16, <1>17, <1>18, <1>19
     DEF IInv, LoopInv, HolesRecorded, HolesAreSpareLines

LEMMA FinishStep ==
    ASSUME IInv, Finish
    PROVE  IInv'
<1>1. /\ flag = NULL /\ line_index = LINE_COUNT /\ marks \subseteq Line
      /\ hole \in Line \cup {NULL} /\ DOMAIN holes \subseteq Line
      /\ UNCHANGED <<marks, cleared, line_index, hole, previous_hole,
                     first_free_line_index>>
  BY DEF IInv, TypeOK, Finish
<1>2. LoopInv
  BY <1>1 DEF IInv
<1>3. hole # NULL => hole \in DOMAIN holes /\ holes[hole].limit = NULL
  BY <1>2 DEF LoopInv, LastInv, LastHole, ScanInv
<1>4. holes' = IF hole # NULL THEN [holes EXCEPT ![hole].limit = LINE_COUNT]
               ELSE holes
  BY <1>3 DEF Finish
<1>5. /\ DOMAIN holes' = DOMAIN holes
      /\ holes' \in [DOMAIN holes -> HoleRecord]
      /\ \A h \in DOMAIN holes : holes'[h].next = holes[h].next
      /\ \A h \in DOMAIN holes : h # hole => holes'[h].limit = holes[h].limit
      /\ hole # NULL => holes'[hole].limit = LINE_COUNT
  <2>1. LINE_COUNT \in 0 .. LINE_COUNT
    BY LineFacts
  <2> QED  BY <1>3, <1>4, <2>1 DEF IInv, TypeOK, HoleRecord
<1>6. DOMAIN holes = HoleStarts(marks)
  BY <1>1, <1>2, LineFacts DEF LoopInv, OpenedInv, HoleStarts
<1>7. cleared = Line \ marks
  BY <1>1, <1>2, LineFacts DEF LoopInv, HeadersInv
<1>8. flag' = IF DOMAIN holes = {} THEN "unavailable" ELSE "recyclable"
  <2>1. DOMAIN holes = {} <=> first_free_line_index = INVALID_LINE_INDEX
    BY <1>1, <1>2, LineFacts DEF LoopInv, FirstInv
  <2> QED  BY <2>1 DEF Finish
<1>9. TypeOK'
  BY <1>1, <1>5, <1>8 DEF IInv, TypeOK
<1>10. \A h \in DOMAIN holes : holes'[h].limit = HoleLimit(marks, h)
  <2> TAKE h \in DOMAIN holes
  <2>1. CASE h # hole
    BY <1>2, <1>5, <2>1 DEF LoopInv, LimitsInv
  <2>2. CASE h = hole
    <3>1. h \in Line /\ h < LINE_COUNT /\ hole # NULL
      BY <1>1, <2>2, LineFacts
    <3>2. \A l \in Line : h <= l /\ l < LINE_COUNT => l \notin marks
      BY <1>1, <1>2, <2>2, <3>1 DEF LoopInv, ScanInv
    <3>3. HoleLimit(marks, h) = LINE_COUNT
      BY <1>1, <3>1, <3>2, LimitIs, LineFacts
    <3> QED  BY <1>5, <2>2, <3>1, <3>3
  <2> QED  BY <2>1, <2>2
<1>11. \A h \in DOMAIN holes : holes'[h].next = HoleNext(marks, h)
  <2> TAKE h \in DOMAIN holes
  <2>1. CASE h # LastHole
    BY <1>2, <1>5, <2>1 DEF LoopInv, NextsInv
  <2>2. CASE h = LastHole
    <3>1. holes'[h].next = NULL
      BY <1>2, <1>5, <2>2 DEF LoopInv, NextsInv
    <3>2. \A l \in HoleStarts(marks) : ~(l > h)
      BY <1>1, <1>2, <1>6, <2>2, LineFacts DEF LoopInv, LastInv
    <3> QED  BY <3>1, <3>2 DEF HoleNext
  <2> QED  BY <2>1, <2>2
<1>12. DOMAIN holes # {} => first_free_line_index = Least(DOMAIN holes)
  <2>1. DOMAIN holes \subseteq Int
    BY <1>1, LineFacts
  <2> QED  BY <1>2, <2>1, LeastIs DEF LoopInv, FirstInv
<1>13. \A h \in DOMAIN holes :
          holes'[h] = [limit |-> HoleLimit(marks, h), next |-> HoleNext(marks, h)]
  BY <1>5, <1>10, <1>11 DEF HoleRecord
<1>14. HolesRecorded'
  BY <1>1, <1>5, <1>6, <1>7, <1>8, <1>12, <1>13 DEF HolesRecorded
<1>15. HolesAreSpareLines'
  <2>1. ASSUME NEW h \in DOMAIN holes, NEW l \in Line, h <= l,
               l < holes'[h].limit
        PROVE  0 < l /\ l \notin marks /\ l - 1 \notin marks
    <3>1. h \in Line /\ 0 < h /\ h \notin marks /\ h - 1 \notin marks
      BY <1>6, LineFacts DEF HoleStarts
    <3>2. h = hole => hole # NULL
      BY <1>1, LineFacts
    <3>3. \A m \in Line : h <= m /\ m <= l => m \notin marks
      <4> SUFFICES ASSUME NEW m \in Line, h <= m, m <= l PROVE m \notin marks
        OBVIOUS
      <4>1. CASE h = hole
        BY <1>1, <1>2, <3>2, <4>1, LineFacts DEF LoopInv, ScanInv
      <4>2. CASE h # hole
        <5>1. holes'[h].limit = holes[h].limit /\ holes[h].limit \in Nat
          BY <1>2, <1>5, <4>2 DEF LoopInv, LimitsInv
        <5>2. m < holes[h].limit
          BY <2>1, <5>1, LineFacts
        <5> QED  BY <1>2, <4>2, <5>2 DEF LoopInv, CoverInv
      <4> QED  BY <4>1, <4>2
    <3>4. l # h => l - 1 \in Line /\ h <= l - 1 /\ l - 1 <= l
      BY <2>1, <3>1, LineFacts
    <3>5. l <= l /\ 0 < l
      BY <2>1, <3>1, LineFacts
    <3> QED  BY <2>1, <3>1, <3>3, <3>4, <3>5
  <2>2. ASSUME NEW l \in Line, 0 < l, l \notin marks, l - 1 \notin marks
        PROVE  \E h \in DOMAIN holes : h <= l /\ l < holes'[h].limit
    <3>1. l < line_index
      BY <1>1, LineFacts
    <3>2. PICK h \in DOMAIN holes : h <= l /\ (h = hole \/ l < holes[h].limit)
      BY <1>2, <2>2, <3>1 DEF LoopInv, CoverInv
    <3>3. h = hole => hole # NULL
      BY <1>1, LineFacts
    <3> QED  BY <1>1, <1>5, <3>1, <3>2, <3>3
  <2>3. \A l \in Line : l \in Line \ {0} <=> 0 < l
    BY LineFacts
  <2>4. \A l \in Line :
           (\E h \in DOMAIN holes' : h <= l /\ l < holes'[h].limit)
             <=> l \in Line \ {0} /\ l \notin marks /\ l - 1 \notin marks
    BY <1>5, <2>1, <2>2, <2>3
  <2> QED  BY <1>1, <2>4 DEF HolesAreSpareLines
<1> QED  BY <1>1, <1>8, <1>9, <1>14, <1>15, LineFacts DEF IInv

LEMMA NextStep ==
    ASSUME IInv, [Next]_vars
    PROVE  IInv'
<1>1. CASE MarkedLine
  BY <1>1, MarkedLineStep
<1>2. CASE OpenHole
  BY <1>2, OpenHoleStep
<1>3. CASE ClearLine
  BY <1>3, ClearLineStep
<1>4. CASE Finish
  BY <1>4, FinishStep
<1>5. CASE UNCHANGED vars
  <2>1. TypeOK' /\ HolesRecorded' /\ HolesAreSpareLines'
    BY <1>5 DEF IInv, TypeOK, HolesRecorded, HolesAreSpareLines, vars
  <2>2. flag = NULL => LoopInv'
    BY <1>5 DEF IInv, LoopInv, HeadersInv, OpenedInv, LastInv, LastHole, ScanInv,
       LimitsInv, NextsInv, FirstInv, CoverInv, vars
  <2> QED  BY <1>5, <2>1, <2>2 DEF IInv, vars
<1> QED  BY <1>1, <1>2, <1>3, <1>4, <1>5 DEF Next
-----------------------------------------------------------------------------
(* Theorems *)

LEMMA Invariant == Spec => []IInv
<1>1. Init => IInv
  BY InitIInv
<1>2. IInv /\ [Next]_vars => IInv'
  BY NextStep
<1> QED  BY <1>1, <1>2, PTL DEF Spec

\* The index stays within the block, although the loop's body moves it too.
THEOREM TypeCorrect == Spec => []TypeOK
<1>1. IInv => TypeOK
  BY DEF IInv
<1> QED  BY <1>1, Invariant, PTL

\* The single pass of recycleBlocks over the lines of a block finds the holes
\* that module Holes defines, in order, each with its limit.
THEOREM RecordsHoles == Spec => []HolesRecorded
<1>1. IInv => HolesRecorded
  BY DEF IInv
<1> QED  BY <1>1, Invariant, PTL

\* Those holes are all the free lines but those that follow a marked one.
THEOREM HolesSpare == Spec => []HolesAreSpareLines
<1>1. IInv => HolesAreSpareLines
  BY DEF IInv
<1> QED  BY <1>1, Invariant, PTL
=============================================================================
