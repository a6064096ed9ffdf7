--------------------------- MODULE CrystalCollect ---------------------------
(***************************************************************************)
(* GC.collect of the Crystal binding (src/immix.cr): the fibers of the     *)
(* program share one thread, and a collection runs on a fiber of its own,  *)
(* so that the stack of the fiber that asks for it can be scanned like all *)
(* others.  The asking fiber takes a flag, leaves itself in @@pending and  *)
(* resumes the collector, which resumes it when the collection is done.    *)
(*                                                                         *)
(* Fibers and their scheduler are Crystal's: a fiber runs until it resumes *)
(* another or waits; a waiting fiber is queued by another fiber, or        *)
(* resumed by the event loop, which runs when the queue is empty.          *)
(***************************************************************************)
EXTENDS Sequences, Naturals, Functions

CONSTANTS PROGRAM,      \* the fibers of the program
          MAIN,         \* the one that runs first; the program ends with it
          COLLECTOR,    \* GC_IMMIX_COLLECTOR
          NULL

Fibers == PROGRAM \cup {COLLECTOR}

ASSUME FibersAssumption == /\ MAIN \in PROGRAM
                           /\ COLLECTOR \notin PROGRAM
                           /\ NULL \notin Fibers

VARIABLES
    current,        \* the fiber that runs, NULL in the event loop
    runnables,      \* the queue of the scheduler
    waiting,        \* the fibers that wait for an event
    pc,             \* where each fiber goes on when it runs
    lock, pending,  \* @@lock and @@pending
    collecting,     \* whether GC_collect_once is running
    answer          \* history: what became of the last request granted

vars == <<current, runnables, waiting, pc, lock, pending, collecting, answer>>

Queued == Range(runnables)

\* The collector was spawned when the binding was loaded, and stands in the
\* queue behind a fiber that was spawned before, if there is one.
Init ==
    /\ current = MAIN
    /\ \E ahead \in {<<>>} \cup {<<f>> : f \in PROGRAM \ {MAIN}} :
          runnables = Append(ahead, COLLECTOR)
    /\ waiting = {}
    /\ pc = [f \in Fibers |-> IF f = COLLECTOR THEN "spawned"
                              ELSE IF f \in Queued \cup {MAIN} THEN "program"
                              ELSE "unborn"]
    /\ lock = FALSE /\ pending = NULL
    /\ collecting = FALSE
    /\ answer = "none"
-----------------------------------------------------------------------------
(* The scheduler *)

Reschedule ==
    IF runnables = <<>>
    THEN current' = NULL /\ UNCHANGED runnables
    ELSE current' = Head(runnables) /\ runnables' = Tail(runnables)

\* Fiber.yield, sleep with a time, reading from a socket.
Wait(f) == waiting' = waiting \cup {f} /\ Reschedule

Event(f) ==
    /\ current = NULL
    /\ f \in waiting
    /\ current' = f
    /\ waiting' = waiting \ {f}
    /\ UNCHANGED <<runnables, pc, lock, pending, collecting, answer>>
-----------------------------------------------------------------------------
(* The fibers of the program *)

Runs(f, step) == current = f /\ pc[f] = step

Spawn(f, new) ==
    /\ Runs(f, "program")
    /\ pc[new] = "unborn"
    /\ pc' = [pc EXCEPT ![new] = "program"]
    /\ runnables' = Append(runnables, new)
    /\ UNCHANGED <<current, waiting, lock, pending, collecting, answer>>

\* As sending on a channel does for the receiver.
Enqueue(f, other) ==
    /\ Runs(f, "program")
    /\ other \in waiting
    /\ waiting' = waiting \ {other}
    /\ runnables' = Append(runnables, other)
    /\ UNCHANGED <<current, pc, lock, pending, collecting, answer>>

Suspend(f) ==
    /\ Runs(f, "program")
    /\ Wait(f)
    /\ UNCHANGED <<pc, lock, pending, collecting, answer>>

Die(f) ==
    /\ Runs(f, "program") /\ f # MAIN
    /\ pc' = [pc EXCEPT ![f] = "dead"]
    /\ Reschedule
    /\ UNCHANGED <<waiting, lock, pending, collecting, answer>>

\* Without the flag.
MutantGranted == TRUE

\* @@lock.test_and_set
Granted == ~lock

\* The fiber does not say that it waits.
MutantRequest(f) ==
    /\ Runs(f, "program")
    /\ Granted
    /\ lock' = TRUE
    /\ pc' = [pc EXCEPT ![f] = "requested"]
    /\ current' = COLLECTOR
    /\ answer' = "none"
    /\ UNCHANGED <<runnables, waiting, pending, collecting>>

\* GC.collect resumes the collector, wherever that is suspended ...
Request(f) ==
    /\ Runs(f, "program")
    /\ Granted
    /\ lock' = TRUE
    /\ pending' = f
    /\ pc' = [pc EXCEPT ![f] = "requested"]
    /\ current' = COLLECTOR
    /\ answer' = "none"
    /\ UNCHANGED <<runnables, waiting, collecting>>

\* ... but if another request is being served it only yields.
Refused(f) ==
    /\ Runs(f, "program")
    /\ ~Granted
    /\ Wait(f)
    /\ UNCHANGED <<pc, lock, pending, collecting, answer>>

\* The flag stays set.
MutantResumed(f) ==
    /\ Runs(f, "requested")
    /\ pc' = [pc EXCEPT ![f] = "program"]
    /\ UNCHANGED <<current, runnables, waiting, lock, pending, collecting,
                   answer>>

\* ... and clears the flag when it is resumed.
Resumed(f) ==
    /\ Runs(f, "requested")
    /\ lock' = FALSE
    /\ pc' = [pc EXCEPT ![f] = "program"]
    /\ UNCHANGED <<current, runnables, waiting, pending, collecting, answer>>
-----------------------------------------------------------------------------
(* collector_loop *)

\* It collects at once.
MutantFirstSleep ==
    /\ Runs(COLLECTOR, "spawned")
    /\ pc' = [pc EXCEPT ![COLLECTOR] = "asleep"]
    /\ UNCHANGED <<current, runnables, waiting, lock, pending, collecting,
                   answer>>

\* The first thing it does is to sleep, without a time: nothing but a direct
\* resume, or a place in the queue it still has, makes it go on.
FirstSleep ==
    /\ Runs(COLLECTOR, "spawned")
    /\ pc' = [pc EXCEPT ![COLLECTOR] = "asleep"]
    /\ Reschedule
    /\ UNCHANGED <<waiting, lock, pending, collecting, answer>>

\* It goes on after the sleep, or after it resumed the last fiber it served.
CollectOnce ==
    /\ Runs(COLLECTOR, "asleep") \/ Runs(COLLECTOR, "resumed pending")
    /\ pc' = [pc EXCEPT ![COLLECTOR] = "collect"]
    /\ collecting' = TRUE
    /\ answer' = "begun"
    /\ UNCHANGED <<current, runnables, waiting, lock, pending>>

\* A finalizer of the program runs in the collection; it may wait, or ask for
\* a collection itself, which is refused.
FinalizerWaits ==
    /\ Runs(COLLECTOR, "collect")
    /\ Wait(COLLECTOR)
    /\ UNCHANGED <<pc, lock, pending, collecting, answer>>

\* The collector queues itself before it resumes the fiber.
MutantServe ==
    IF pending # NULL
    THEN /\ pending' = NULL
         /\ current' = pending
         /\ pc' = [pc EXCEPT ![COLLECTOR] = "resumed pending"]
         /\ runnables' = Append(runnables, COLLECTOR)
    ELSE /\ pc' = [pc EXCEPT ![COLLECTOR] = "asleep"]
         /\ Reschedule
         /\ UNCHANGED pending

Serve ==
    IF pending # NULL
    THEN /\ pending' = NULL
         /\ current' = pending
         /\ pc' = [pc EXCEPT ![COLLECTOR] = "resumed pending"]
         /\ UNCHANGED runnables
    ELSE /\ pc' = [pc EXCEPT ![COLLECTOR] = "asleep"]
         /\ Reschedule
         /\ UNCHANGED pending

Collected ==
    /\ Runs(COLLECTOR, "collect")
    /\ collecting' = FALSE
    /\ answer' = IF answer = "begun" THEN "done" ELSE answer
    /\ Serve
    /\ UNCHANGED <<waiting, lock>>

\* A finalizer raises: the loop rescues and aborts.
Crash ==
    /\ Runs(COLLECTOR, "collect")
    /\ current' = NULL /\ waiting' = {} /\ runnables' = <<>>
    /\ pc' = [f \in Fibers |-> "dead"]
    /\ UNCHANGED <<lock, pending, collecting, answer>>
-----------------------------------------------------------------------------
ProgramStep(f) ==
    \/ \E g \in PROGRAM : Spawn(f, g)
    \/ \E g \in Fibers : Enqueue(f, g)
    \/ Suspend(f) \/ Die(f)
    \/ Request(f) \/ Refused(f) \/ Resumed(f)

CollectorStep ==
    FirstSleep \/ CollectOnce \/ FinalizerWaits \/ Collected \/ Crash

Next ==
    \/ \E f \in PROGRAM : ProgramStep(f)
    \/ CollectorStep
    \/ \E f \in Fibers : Event(f)

Spec == Init /\ [][Next]_vars

\* The program does not compute for ever, nor do its fibers wake each other
\* for ever: when they run again and again, so does the event loop.
ProgramIsIdle == []<>(current \in PROGRAM) => []<>(current = NULL)

\* Every event that a fiber waits for comes, and a finalizer waits for
\* finitely many.
FairSpec ==
    /\ Spec /\ ProgramIsIdle
    /\ WF_vars(\E f \in PROGRAM : Resumed(f))
    /\ \A f \in Fibers : SF_vars(Event(f))
    /\ WF_vars(FirstSleep) /\ WF_vars(CollectOnce) /\ SF_vars(Collected)
-----------------------------------------------------------------------------
Alive == pc[MAIN] # "dead"

\* Every variable has its type.
TypeOK ==
    /\ current \in Fibers \cup {NULL}
    /\ runnables \in Seq(Fibers)
    /\ waiting \subseteq Fibers
    /\ pc \in [Fibers -> {"unborn", "spawned", "program", "requested",
                          "asleep", "collect", "resumed pending", "dead"}]
    /\ lock \in BOOLEAN
    /\ pending \in PROGRAM \cup {NULL}
    /\ collecting \in BOOLEAN
    /\ answer \in {"none", "begun", "done"}

\* immix.cr:59: the collector finds a pending fiber after every collection,
\* and it is one that waits in GC.collect.
AlwaysPending ==
    pc[COLLECTOR] = "collect" =>
        pending \in PROGRAM /\ pc[pending] = "requested"

\* The flag is set exactly while one fiber is between test_and_set and clear,
\* so a request is not refused for ever once one was served.
OneRequest ==
    Alive => /\ \A f, g \in PROGRAM :
                    pc[f] = "requested" /\ pc[g] = "requested" => f = g
             /\ lock <=> \E f \in PROGRAM : pc[f] = "requested"

\* No fiber is lost and none can be resumed from two sides: each stands in
\* one place, where @@pending is a place (only the collector may run while it
\* is queued, when the first request comes before its turn), and the collector
\* is parked only when nobody is pending.  So the event loop never runs for
\* nothing.
FiberPlaces ==
    Alive =>
        /\ IsInjective(runnables)
        /\ \A f \in Fibers :
              /\ f = current => f \notin waiting \cup {pending}
              /\ f = current /\ f \in Queued => pc[f] = "spawned"
              /\ f \in Queued => f \notin waiting \cup {pending}
              /\ f \in waiting => f # pending
        /\ \A f \in PROGRAM :
              pc[f] \notin {"unborn", "dead"}
                <=> f \in {current, pending} \cup Queued \cup waiting
        /\ pending # NULL => COLLECTOR \in {current} \cup Queued \cup waiting
        /\ current = NULL => runnables = <<>> /\ waiting # {}

\* GC.collect, when its flag was free, returns after a collection that began
\* after the call.
RequestServed ==
    [][\A f \in PROGRAM : Resumed(f) => answer = "done"]_vars

\* A fiber that asked for a collection goes on, or a finalizer crashes.
RequestsReturn ==
    \A f \in PROGRAM :
        pc[f] = "requested" ~> pc[f] \in {"program", "dead"}
=============================================================================
