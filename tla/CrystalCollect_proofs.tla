------------------------ MODULE CrystalCollect_proofs -------------------------
(***************************************************************************)
(* The safety properties of CrystalCollect hold for any number of fibers.  *)
(* The inductive invariant adds, to what FiberPlaces says of all fibers,   *)
(* where the collector stands in each of its steps: it runs or is queued   *)
(* only with a fiber pending, but for its first turn.                      *)
(***************************************************************************)
EXTENDS CrystalCollect, TLAPS

CollectorInv ==
    /\ pc[COLLECTOR] \in {"spawned", "asleep", "collect", "resumed pending"}
    /\ COLLECTOR \in waiting => pc[COLLECTOR] = "collect"
    /\ pending # NULL =>
          COLLECTOR = current \/ COLLECTOR \in Queued \cup waiting
    /\ COLLECTOR = current \/ COLLECTOR \in Queued \cup waiting =>
          pending # NULL \/ pc[COLLECTOR] = "spawned"
    /\ pc[COLLECTOR] = "spawned" =>
          /\ COLLECTOR = current \/ COLLECTOR \in Queued
          /\ COLLECTOR = current /\ COLLECTOR \in Queued <=> pending # NULL
    /\ pc[COLLECTOR] = "collect" => answer = "begun" /\ pending # NULL

RequestInv ==
    /\ \A f, g \in PROGRAM :
          pc[f] = "requested" /\ pc[g] = "requested" => f = g
    /\ \A f \in PROGRAM :
          pc[f] = "requested" => lock /\ (f = current \/ f = pending)
    /\ lock => \E f \in PROGRAM : pc[f] = "requested"
    /\ pending # NULL => pc[pending] = "requested"
    /\ \A f \in PROGRAM :
          f = current /\ pc[f] = "requested" => answer = "done"

ProgramInv ==
    /\ pc[MAIN] # "unborn"
    /\ \A f \in PROGRAM :
          /\ pc[f] \in {"unborn", "program", "requested", "dead"}
          /\ pc[f] \notin {"unborn", "dead"}
                <=> f = current \/ f = pending \/ f \in Queued \cup waiting

PlacesInv ==
    /\ IsInjective(runnables)
    /\ \A f \in Fibers :
          /\ f = current => f \notin waiting /\ f # pending
          /\ f = current /\ f \in Queued => pc[f] = "spawned"
          /\ f \in Queued => f \notin waiting /\ f # pending
          /\ f \in waiting => f # pending
    /\ current = NULL => runnables = <<>> /\ waiting # {}

AliveInv == CollectorInv /\ RequestInv /\ ProgramInv /\ PlacesInv

IInv ==
    /\ TypeOK
    /\ Alive => AliveInv
    /\ ~Alive => current = NULL /\ waiting = {} /\ \A f \in Fibers : pc[f] = "dead"
-----------------------------------------------------------------------------
(* The queue *)

\* Appending a fiber that is not in the queue keeps its fibers apart.
LEMMA Appended ==
    ASSUME NEW s \in Seq(Fibers), NEW f \in Fibers
    PROVE  /\ Append(s, f) \in Seq(Fibers)
           /\ Range(Append(s, f)) = Range(s) \cup {f}
           /\ IsInjective(s) /\ f \notin Range(s) => IsInjective(Append(s, f))
<1> DEFINE t == Append(s, f)
<1>1. /\ t \in Seq(Fibers)
      /\ DOMAIN t = 1 .. Len(s) + 1 /\ DOMAIN s = 1 .. Len(s)
      /\ Len(s) \in Nat
      /\ \A i \in 1 .. Len(s) : t[i] = s[i]
      /\ t[Len(s) + 1] = f
  OBVIOUS
<1> HIDE DEF t
<1>2. Range(t) = Range(s) \cup {f}
  <2>1. \A x : x \in Range(t) <=> \E i \in 1 .. Len(s) + 1 : t[i] = x
    BY <1>1 DEF Range
  <2>2. \A x : x \in Range(s) <=> \E i \in 1 .. Len(s) : s[i] = x
    BY <1>1 DEF Range
  <2>3. \A i \in 1 .. Len(s) + 1 : i \in 1 .. Len(s) \/ i = Len(s) + 1
    BY <1>1
  <2>4. Len(s) + 1 \in 1 .. Len(s) + 1 /\ 1 .. Len(s) \subseteq 1 .. Len(s) + 1
    BY <1>1
  <2> QED  BY <1>1, <2>1, <2>2, <2>3, <2>4
<1>3. ASSUME IsInjective(s), f \notin Range(s)
      PROVE  IsInjective(t)
  <2>1. \A i \in 1 .. Len(s) : s[i] # f
    BY <1>1, <1>3 DEF Range
  <2> QED  BY <1>1, <1>3, <2>1 DEF IsInjective
<1> QED  BY <1>1, <1>2, <1>3 DEF t

\* Taking the first fiber from the queue.
LEMMA Taken ==
    ASSUME NEW s \in Seq(Fibers), s # <<>>, IsInjective(s)
    PROVE  /\ Tail(s) \in Seq(Fibers) /\ IsInjective(Tail(s))
           /\ Head(s) \in Range(s) /\ Head(s) \in Fibers
           /\ Range(Tail(s)) = Range(s) \ {Head(s)}
<1> DEFINE t == Tail(s)
<1>1. /\ t \in Seq(Fibers)
      /\ Len(s) \in Nat \ {0} /\ DOMAIN s = 1 .. Len(s)
      /\ DOMAIN t = 1 .. Len(s) - 1
      /\ \A i \in 1 .. Len(s) - 1 : t[i] = s[i + 1]
      /\ Head(s) = s[1] /\ s[1] \in Fibers
  OBVIOUS
<1> HIDE DEF t
<1>2. IsInjective(t)
  <2>1. \A i, j \in 1 .. Len(s) - 1 :
           i + 1 \in 1 .. Len(s) /\ j + 1 \in 1 .. Len(s) /\ (i + 1 = j + 1 => i = j)
    BY <1>1
  <2>2. \A i, j \in 1 .. Len(s) : s[i] = s[j] => i = j
    BY <1>1 DEF IsInjective
  <2>3. \A i, j \in 1 .. Len(s) - 1 : t[i] = t[j] => i = j
    BY <1>1, <2>1, <2>2
  <2> QED  BY <1>1, <2>3 DEF IsInjective
<1>3. Range(t) = Range(s) \ {s[1]}
  <2>1. \A x : x \in Range(t) <=> \E i \in 1 .. Len(s) - 1 : s[i + 1] = x
    BY <1>1 DEF Range
  <2>2. \A x : x \in Range(s) <=> \E i \in 1 .. Len(s) : s[i] = x
    BY <1>1 DEF Range
  <2>3. \A i \in 1 .. Len(s) : i = 1 \/ (i - 1 \in 1 .. Len(s) - 1 /\ (i - 1) + 1 = i)
    BY <1>1
  <2>4. \A i \in 1 .. Len(s) - 1 : i + 1 \in 1 .. Len(s) /\ i + 1 # 1
    BY <1>1
  <2>5. \A i, j \in 1 .. Len(s) : s[i] = s[j] => i = j
    BY <1>1 DEF IsInjective
  <2>6. \A x : x \in Range(t) => x \in Range(s) /\ x # s[1]
    BY <1>1, <2>1, <2>2, <2>4, <2>5
  <2>7. \A x : x \in Range(s) /\ x # s[1] => x \in Range(t)
    BY <2>1, <2>2, <2>3
  <2> QED  BY <2>6, <2>7
<1>4. s[1] \in Range(s)
  BY <1>1 DEF Range
<1> QED  BY <1>1, <1>2, <1>3, <1>4 DEF t

\* What the scheduler does: run the first fiber of the queue, or the event
\* loop when there is none.
LEMMA Rescheduled ==
    ASSUME runnables \in Seq(Fibers), IsInjective(runnables), Reschedule
    PROVE  /\ runnables' \in Seq(Fibers) /\ IsInjective(runnables')
           /\ \/ /\ current' = NULL /\ runnables' = <<>>
                 /\ Queued = {} /\ Queued' = {}
              \/ /\ current' \in Fibers /\ current' \in Queued
                 /\ Queued' = Queued \ {current'}
<1>1. CASE runnables = <<>>
  BY <1>1 DEF Reschedule, Queued, Range
<1>2. CASE runnables # <<>>
  BY <1>2, Taken DEF Reschedule, Queued
<1> QED  BY <1>1, <1>2
-----------------------------------------------------------------------------
(* Each step keeps the invariant. *)

\* A fiber runs, or waits for an event, only while the program lives.
LEMMA RunningAlive ==
    ASSUME IInv, NEW f \in Fibers, f = current \/ f \in waiting
    PROVE  Alive /\ AliveInv
BY FibersAssumption DEF IInv

LEMMA InitInvariant ==
    ASSUME Init
    PROVE  IInv
<1>1. PICK ahead \in {<<>>} \cup {<<f>> : f \in PROGRAM \ {MAIN}} :
         runnables = Append(ahead, COLLECTOR)
  BY DEF Init
<1>2. COLLECTOR \in Fibers /\ MAIN \in Fibers /\ PROGRAM \subseteq Fibers
  BY FibersAssumption DEF Fibers
<1>3. /\ ahead \in Seq(Fibers) /\ IsInjective(ahead)
      /\ Range(ahead) \subseteq PROGRAM \ {MAIN}
  <2>1. CASE ahead = <<>>
    BY <2>1 DEF IsInjective, Range
  <2>2. CASE \E f \in PROGRAM \ {MAIN} : ahead = <<f>>
    <3>1. PICK f \in PROGRAM \ {MAIN} : ahead = <<f>>
      BY <2>2
    <3>2. /\ <<f>> \in Seq(Fibers) /\ DOMAIN <<f>> = {1} /\ <<f>>[1] = f
      BY <1>2
    <3> QED  BY <3>1, <3>2 DEF IsInjective, Range
  <2> QED  BY <1>1, <2>1, <2>2
<1>4. /\ runnables \in Seq(Fibers) /\ IsInjective(runnables)
      /\ Queued = Range(ahead) \cup {COLLECTOR}
  BY <1>1, <1>2, <1>3, Appended, FibersAssumption DEF Queued
<1>5. TypeOK
  BY <1>2, <1>4 DEF Init, TypeOK
<1>6. AliveInv
  BY <1>2, <1>3, <1>4, FibersAssumption
  DEF Init, AliveInv, CollectorInv, RequestInv, ProgramInv, PlacesInv, Fibers
<1>7. Alive
  BY <1>2, FibersAssumption DEF Alive, Init
<1> QED  BY <1>5, <1>6, <1>7 DEF IInv

LEMMA EventStep ==
    ASSUME IInv, NEW f \in Fibers, Event(f)
    PROVE  IInv'
<1>1. Alive /\ AliveInv
  BY RunningAlive DEF Event
<1>2. Queued' = Queued /\ Alive'
  BY <1>1 DEF Event, Queued, Alive
<1>3. TypeOK'
  BY DEF Event, IInv, TypeOK
<1>4. Queued = {}
  BY <1>1, FibersAssumption DEF Event, AliveInv, PlacesInv, Queued, Range
<1>5. AliveInv'
  BY <1>1, <1>2, <1>4, FibersAssumption
  DEF Event, AliveInv, CollectorInv, RequestInv, ProgramInv, PlacesInv, Fibers
<1> QED  BY <1>2, <1>3, <1>5 DEF IInv

LEMMA SpawnStep ==
    ASSUME IInv, NEW f \in PROGRAM, NEW new \in PROGRAM, Spawn(f, new)
    PROVE  IInv'
<1>1. Alive /\ AliveInv /\ f # new /\ f \in Fibers /\ new \in Fibers
  BY RunningAlive DEF Spawn, Runs, Fibers
<1>2. new \notin Queued /\ new \notin waiting /\ new # current /\ new # pending
  BY <1>1 DEF Spawn, AliveInv, ProgramInv
<1>3. /\ runnables' \in Seq(Fibers) /\ IsInjective(runnables')
      /\ Queued' = Queued \cup {new}
  BY <1>1, <1>2, Appended DEF Spawn, Queued, IInv, TypeOK, AliveInv, PlacesInv
<1>4. TypeOK'
  BY <1>1, <1>3 DEF Spawn, IInv, TypeOK
<1>5. Alive'
  BY <1>1, FibersAssumption DEF Spawn, Alive, IInv, TypeOK, Fibers
<1>6. AliveInv'
  BY <1>1, <1>2, <1>3, FibersAssumption
  DEF Spawn, Runs, AliveInv, CollectorInv, RequestInv, ProgramInv, PlacesInv,
      IInv, TypeOK, Fibers
<1> QED  BY <1>4, <1>5, <1>6 DEF IInv

LEMMA EnqueueStep ==
    ASSUME IInv, NEW f \in PROGRAM, NEW other \in Fibers, Enqueue(f, other)
    PROVE  IInv'
<1>1. Alive /\ AliveInv /\ f \in Fibers
  BY RunningAlive DEF Enqueue, Runs, Fibers
<1>2. other \notin Queued /\ other # current /\ other # pending
  BY <1>1 DEF Enqueue, AliveInv, PlacesInv
<1>3. /\ runnables' \in Seq(Fibers) /\ IsInjective(runnables')
      /\ Queued' = Queued \cup {other}
  BY <1>1, <1>2, Appended DEF Enqueue, Queued, IInv, TypeOK, AliveInv, PlacesInv
<1>4. TypeOK' /\ Alive'
  BY <1>1, <1>3 DEF Enqueue, IInv, TypeOK, Alive
<1>5. AliveInv'
  BY <1>1, <1>2, <1>3, FibersAssumption
  DEF Enqueue, Runs, AliveInv, CollectorInv, RequestInv, ProgramInv, PlacesInv,
      Fibers
<1> QED  BY <1>4, <1>5 DEF IInv

\* A fiber of the program that waits, of its own accord or because its request
\* was refused.
LEMMA WaitStep ==
    ASSUME IInv, NEW f \in PROGRAM, Suspend(f) \/ Refused(f)
    PROVE  IInv'
<1>1. Alive /\ AliveInv /\ f \in Fibers /\ current = f /\ pc[f] = "program"
  BY RunningAlive DEF Suspend, Refused, Runs, Fibers
<1>2. /\ Reschedule /\ waiting' = waiting \cup {f}
      /\ UNCHANGED <<pc, lock, pending, collecting, answer>>
  BY DEF Suspend, Refused, Wait
<1>3. runnables \in Seq(Fibers) /\ IsInjective(runnables)
  BY <1>1 DEF IInv, TypeOK, AliveInv, PlacesInv
<1>4. /\ runnables' \in Seq(Fibers) /\ IsInjective(runnables')
      /\ \/ /\ current' = NULL /\ runnables' = <<>>
            /\ Queued = {} /\ Queued' = {}
         \/ /\ current' \in Fibers /\ current' \in Queued
            /\ Queued' = Queued \ {current'}
  BY <1>2, <1>3, Rescheduled
<1>5. TypeOK' /\ Alive'
  BY <1>1, <1>2, <1>4 DEF IInv, TypeOK, Alive
<1>6. AliveInv'
  BY <1>1, <1>2, <1>4, FibersAssumption
  DEF AliveInv, CollectorInv, RequestInv, ProgramInv, PlacesInv, Fibers
<1> QED  BY <1>5, <1>6 DEF IInv

LEMMA DieStep ==
    ASSUME IInv, NEW f \in PROGRAM, Die(f)
    PROVE  IInv'
<1>1. Alive /\ AliveInv /\ f \in Fibers /\ current = f /\ pc[f] = "program"
  BY RunningAlive DEF Die, Runs, Fibers
<1>2. runnables \in Seq(Fibers) /\ IsInjective(runnables)
  BY <1>1 DEF IInv, TypeOK, AliveInv, PlacesInv
<1>3. /\ runnables' \in Seq(Fibers) /\ IsInjective(runnables')
      /\ \/ /\ current' = NULL /\ runnables' = <<>>
            /\ Queued = {} /\ Queued' = {}
         \/ /\ current' \in Fibers /\ current' \in Queued
            /\ Queued' = Queued \ {current'}
  BY <1>2, Rescheduled DEF Die
<1>4. TypeOK' /\ Alive'
  BY <1>1, <1>3, FibersAssumption DEF Die, IInv, TypeOK, Alive, Fibers
<1>5. /\ f # MAIN /\ f # COLLECTOR /\ MAIN \in Fibers
      /\ UNCHANGED <<waiting, lock, pending, collecting, answer>>
      /\ pc' = [pc EXCEPT ![f] = "dead"]
  BY FibersAssumption DEF Die, Fibers
<1>6. CollectorInv' /\ RequestInv' /\ ProgramInv'
  BY <1>1, <1>3, <1>5, FibersAssumption
  DEF AliveInv, CollectorInv, RequestInv, ProgramInv, PlacesInv, IInv, TypeOK,
      Fibers
<1>7. PlacesInv'
  \* Somebody is left: the main fiber, or the collector with it pending.
  <2>1. Queued = {} => waiting # {}
    BY <1>1, <1>5, FibersAssumption
    DEF Alive, AliveInv, ProgramInv, CollectorInv, IInv, TypeOK
  <2> QED
    BY <1>1, <1>3, <1>5, <2>1, FibersAssumption
    DEF AliveInv, PlacesInv, ProgramInv, IInv, TypeOK, Fibers
<1> QED  BY <1>4, <1>6, <1>7 DEF IInv, AliveInv

\* While no request is served, none is pending and the collector is parked or
\* has not had its first turn.
LEMMA RequestStep ==
    ASSUME IInv, NEW f \in PROGRAM, Request(f)
    PROVE  IInv'
<1>1. /\ Alive /\ AliveInv /\ f \in Fibers
      /\ current = f /\ pc[f] = "program" /\ f # COLLECTOR
      /\ COLLECTOR \in Fibers
  BY RunningAlive, FibersAssumption DEF Request, Runs, Fibers
<1>2. /\ Queued' = Queued
      /\ lock' = TRUE /\ pending' = f /\ current' = COLLECTOR
      /\ pc' = [pc EXCEPT ![f] = "requested"]
      /\ UNCHANGED <<runnables, waiting, collecting>>
      /\ answer' = "none"
  BY DEF Request, Queued
<1>3. /\ pending = NULL
      /\ \A g \in PROGRAM : pc[g] # "requested"
  BY <1>1 DEF Request, Granted, AliveInv, RequestInv, IInv, TypeOK
<1>4. TypeOK' /\ Alive'
  BY <1>1, <1>2, FibersAssumption DEF IInv, TypeOK, Alive, Fibers
<1>5. CollectorInv' /\ RequestInv'
  BY <1>1, <1>2, <1>3, FibersAssumption
  DEF AliveInv, CollectorInv, RequestInv, ProgramInv, PlacesInv, IInv, TypeOK,
      Fibers
<1>6. ProgramInv' /\ PlacesInv'
  BY <1>1, <1>2, <1>3, FibersAssumption
  DEF AliveInv, CollectorInv, ProgramInv, PlacesInv, IInv, TypeOK, Fibers
<1> QED  BY <1>4, <1>5, <1>6 DEF IInv, AliveInv

LEMMA ResumedStep ==
    ASSUME IInv, NEW f \in PROGRAM, Resumed(f)
    PROVE  IInv'
<1>1. /\ Alive /\ AliveInv /\ f \in Fibers
      /\ current = f /\ pc[f] = "requested" /\ f # COLLECTOR
  BY RunningAlive, FibersAssumption DEF Resumed, Runs, Fibers
<1>2. /\ Queued' = Queued
      /\ lock' = FALSE
      /\ pc' = [pc EXCEPT ![f] = "program"]
      /\ UNCHANGED <<current, runnables, waiting, pending, collecting, answer>>
  BY DEF Resumed, Queued
<1>3. pending = NULL
  BY <1>1 DEF AliveInv, RequestInv, PlacesInv, IInv, TypeOK
<1>4. TypeOK' /\ Alive'
  BY <1>1, <1>2, FibersAssumption DEF IInv, TypeOK, Alive, Fibers
<1>5. AliveInv'
  BY <1>1, <1>2, <1>3, FibersAssumption
  DEF AliveInv, CollectorInv, RequestInv, ProgramInv, PlacesInv, IInv, TypeOK,
      Fibers
<1> QED  BY <1>4, <1>5 DEF IInv
-----------------------------------------------------------------------------
(* The collector *)

LEMMA FirstSleepStep ==
    ASSUME IInv, FirstSleep
    PROVE  IInv'
<1>1. /\ Alive /\ AliveInv /\ COLLECTOR \in Fibers /\ COLLECTOR # MAIN
      /\ MAIN \in PROGRAM /\ MAIN \in Fibers
      /\ current = COLLECTOR /\ pc[COLLECTOR] = "spawned"
  BY RunningAlive, FibersAssumption DEF FirstSleep, Runs, Fibers
<1>2. runnables \in Seq(Fibers) /\ IsInjective(runnables)
  BY <1>1 DEF IInv, TypeOK, AliveInv, PlacesInv
<1>3. /\ runnables' \in Seq(Fibers) /\ IsInjective(runnables')
      /\ \/ /\ current' = NULL /\ runnables' = <<>>
            /\ Queued = {} /\ Queued' = {}
         \/ /\ current' \in Fibers /\ current' \in Queued
            /\ Queued' = Queued \ {current'}
  BY <1>2, Rescheduled DEF FirstSleep
<1>4. /\ UNCHANGED <<waiting, lock, pending, collecting, answer>>
      /\ pc' = [pc EXCEPT ![COLLECTOR] = "asleep"]
  BY DEF FirstSleep
<1>5. TypeOK' /\ Alive'
  BY <1>1, <1>3, <1>4 DEF IInv, TypeOK, Alive
<1>6. CollectorInv' /\ RequestInv' /\ ProgramInv'
  BY <1>1, <1>3, <1>4, FibersAssumption
  DEF AliveInv, CollectorInv, RequestInv, ProgramInv, PlacesInv, IInv, TypeOK,
      Fibers
<1>7. PlacesInv'
  <2>1. Queued = {} => waiting # {}
    BY <1>1, FibersAssumption DEF Alive, AliveInv, ProgramInv, CollectorInv
  <2> QED
    BY <1>1, <1>3, <1>4, <2>1, FibersAssumption
    DEF AliveInv, CollectorInv, PlacesInv, IInv, TypeOK, Fibers
<1> QED  BY <1>5, <1>6, <1>7 DEF IInv, AliveInv

LEMMA CollectOnceStep ==
    ASSUME IInv, CollectOnce
    PROVE  IInv'
<1>1. /\ Alive /\ AliveInv /\ COLLECTOR \in Fibers /\ COLLECTOR # MAIN
      /\ MAIN \in Fibers /\ current = COLLECTOR /\ pc[COLLECTOR] # "spawned"
  BY RunningAlive, FibersAssumption DEF CollectOnce, Runs, Fibers
<1>2. /\ Queued' = Queued
      /\ pc' = [pc EXCEPT ![COLLECTOR] = "collect"]
      /\ answer' = "begun" /\ collecting' = TRUE
      /\ UNCHANGED <<current, runnables, waiting, lock, pending>>
  BY DEF CollectOnce, Queued
<1>3. TypeOK' /\ Alive'
  BY <1>1, <1>2 DEF IInv, TypeOK, Alive
<1>4. AliveInv'
  BY <1>1, <1>2, FibersAssumption
  DEF AliveInv, CollectorInv, RequestInv, ProgramInv, PlacesInv, IInv, TypeOK,
      Fibers
<1> QED  BY <1>3, <1>4 DEF IInv

LEMMA FinalizerWaitsStep ==
    ASSUME IInv, FinalizerWaits
    PROVE  IInv'
<1>1. /\ Alive /\ AliveInv /\ COLLECTOR \in Fibers
      /\ current = COLLECTOR /\ pc[COLLECTOR] = "collect"
  BY RunningAlive, FibersAssumption DEF FinalizerWaits, Runs, Fibers
<1>2. /\ Reschedule /\ waiting' = waiting \cup {COLLECTOR}
      /\ UNCHANGED <<pc, lock, pending, collecting, answer>>
  BY DEF FinalizerWaits, Wait
<1>3. runnables \in Seq(Fibers) /\ IsInjective(runnables)
  BY <1>1 DEF IInv, TypeOK, AliveInv, PlacesInv
<1>4. /\ runnables' \in Seq(Fibers) /\ IsInjective(runnables')
      /\ \/ /\ current' = NULL /\ runnables' = <<>>
            /\ Queued = {} /\ Queued' = {}
         \/ /\ current' \in Fibers /\ current' \in Queued
            /\ Queued' = Queued \ {current'}
  BY <1>2, <1>3, Rescheduled
<1>5. TypeOK' /\ Alive'
  BY <1>1, <1>2, <1>4 DEF IInv, TypeOK, Alive
<1>6. AliveInv'
  <2>1. CollectorInv'
    BY <1>1, <1>2, <1>4, FibersAssumption
    DEF AliveInv, CollectorInv, PlacesInv, Fibers
  <2>2. RequestInv'
    BY <1>1, <1>2, <1>4, FibersAssumption
    DEF AliveInv, CollectorInv, RequestInv, PlacesInv, Fibers
  <2>3. ProgramInv'
    BY <1>1, <1>2, <1>4, FibersAssumption
    DEF AliveInv, ProgramInv, PlacesInv, Fibers
  <2>4. PlacesInv'
    BY <1>1, <1>2, <1>4, FibersAssumption DEF AliveInv, CollectorInv, PlacesInv
  <2> QED  BY <2>1, <2>2, <2>3, <2>4 DEF AliveInv
<1> QED  BY <1>5, <1>6 DEF IInv

\* A fiber is always pending, so that the collector never sleeps again.
LEMMA CollectedStep ==
    ASSUME IInv, Collected
    PROVE  IInv'
<1>1. /\ Alive /\ AliveInv /\ COLLECTOR \in Fibers /\ COLLECTOR # MAIN
      /\ MAIN \in Fibers /\ current = COLLECTOR /\ pc[COLLECTOR] = "collect"
  BY RunningAlive, FibersAssumption DEF Collected, Runs, Fibers
<1>2. pending # NULL /\ pending \in PROGRAM /\ answer = "begun"
  BY <1>1 DEF AliveInv, CollectorInv, IInv, TypeOK
<1>3. /\ Queued' = Queued
      /\ pending' = NULL /\ current' = pending
      /\ pc' = [pc EXCEPT ![COLLECTOR] = "resumed pending"]
      /\ answer' = "done" /\ collecting' = FALSE
      /\ UNCHANGED <<runnables, waiting, lock>>
  BY <1>2 DEF Collected, Serve, Queued
<1>4. TypeOK' /\ Alive'
  BY <1>1, <1>2, <1>3 DEF IInv, TypeOK, Alive, Fibers
<1>5. AliveInv'
  BY <1>1, <1>2, <1>3, FibersAssumption
  DEF AliveInv, CollectorInv, RequestInv, ProgramInv, PlacesInv, IInv, TypeOK,
      Fibers
<1> QED  BY <1>4, <1>5 DEF IInv

LEMMA CrashStep ==
    ASSUME IInv, Crash
    PROVE  IInv'
<1>1. TypeOK'
  <2>1. <<>> \in Seq(Fibers)
    OBVIOUS
  <2> QED  BY <2>1 DEF Crash, IInv, TypeOK
<1>2. ~Alive' /\ current' = NULL /\ waiting' = {}
      /\ \A f \in Fibers : pc'[f] = "dead"
  BY FibersAssumption DEF Crash, Alive, Fibers
<1> QED  BY <1>1, <1>2 DEF IInv

LEMMA NextInvariant ==
    ASSUME IInv, [Next]_vars
    PROVE  IInv'
<1>1. ASSUME NEW f \in PROGRAM, ProgramStep(f)
      PROVE  IInv'
  BY <1>1, SpawnStep, EnqueueStep, WaitStep, DieStep, RequestStep, ResumedStep
  DEF ProgramStep
<1>2. CASE CollectorStep
  BY <1>2, FirstSleepStep, CollectOnceStep, FinalizerWaitsStep, CollectedStep,
     CrashStep DEF CollectorStep
<1>3. ASSUME NEW f \in Fibers, Event(f)
      PROVE  IInv'
  BY <1>3, EventStep
<1>4. CASE UNCHANGED vars
  BY <1>4
  DEF vars, IInv, TypeOK, Alive, AliveInv, CollectorInv, RequestInv, ProgramInv,
      PlacesInv, Queued
<1> QED  BY <1>1, <1>2, <1>3, <1>4 DEF Next

LEMMA Invariant == Spec => []IInv
<1>1. Init => IInv
  BY InitInvariant
<1>2. IInv /\ [Next]_vars => IInv'
  BY NextInvariant
<1> QED  BY <1>1, <1>2, PTL DEF Spec
-----------------------------------------------------------------------------
(* What follows from it *)

\* immix.cr:59: after every collection a fiber is pending, and it is one that
\* waits in GC.collect, so that collector_loop never goes to sleep instead.
THEOREM PendingFound == Spec => []AlwaysPending
<1>1. IInv => AlwaysPending
  BY FibersAssumption
  DEF IInv, TypeOK, AliveInv, CollectorInv, RequestInv, AlwaysPending, Fibers
<1> QED  BY <1>1, Invariant, PTL

\* @@lock of GC.collect is set exactly while one fiber waits in it, for every
\* number of fibers.
THEOREM OneAtATime == Spec => []OneRequest
<1>1. IInv => OneRequest
  BY DEF IInv, AliveInv, RequestInv, OneRequest
<1> QED  BY <1>1, Invariant, PTL

\* No fiber is lost by GC.collect and collector_loop, or resumed from two
\* sides, for every number of fibers.
THEOREM NoFiberLost == Spec => []FiberPlaces
<1>1. IInv => FiberPlaces
  BY FibersAssumption
  DEF IInv, TypeOK, AliveInv, CollectorInv, ProgramInv, PlacesInv, FiberPlaces,
      Fibers
<1> QED  BY <1>1, Invariant, PTL

\* A fiber whose GC.collect was granted goes on only after a collection that
\* began after its call.
THEOREM ServedByOwnCollection == Spec => RequestServed
<1>1. IInv /\ [Next]_vars =>
         [\A f \in PROGRAM : Resumed(f) => answer = "done"]_vars
  BY FibersAssumption, RunningAlive
  DEF IInv, AliveInv, RequestInv, Resumed, Runs, Fibers
<1> QED  BY <1>1, Invariant, PTL DEF Spec, RequestServed
=============================================================================
