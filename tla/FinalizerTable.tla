--------------------------- MODULE FinalizerTable ---------------------------
(***************************************************************************)
(* What the global allocator expects of the table of finalizers: a map     *)
(* from objects to callbacks.  A callback is registered, or taken out with *)
(* its object when that is freed or moved; and after marking, the callback *)
(* of every unreachable object that has one is called with it, once.       *)
(***************************************************************************)
CONSTANTS KEYS,     \* the addresses of objects
          VALUES,   \* the callbacks
          NULL

VARIABLES
    finalizers,     \* the callback of each object that has one
    doomed,         \* the unreachable objects, while finalizeObjects runs
    result          \* what the last call returned, or passed to a callback

vars == <<finalizers, doomed, result>>

Init ==
    /\ finalizers = [k \in {} |-> NULL]
    /\ doomed = NULL
    /\ result = NULL

Without(k) == [o \in DOMAIN finalizers \ {k} |-> finalizers[o]]

Register(k, v) ==
    /\ doomed = NULL
    /\ finalizers' = [o \in DOMAIN finalizers \cup {k} |->
                        IF o = k THEN v ELSE finalizers[o]]
    /\ result' = NULL
    /\ UNCHANGED doomed

Take(k) ==
    /\ doomed = NULL
    /\ result' = IF k \in DOMAIN finalizers THEN finalizers[k] ELSE NULL
    /\ finalizers' = Without(k)
    /\ UNCHANGED doomed

Collect ==
    /\ doomed = NULL
    /\ \E unreachable \in SUBSET KEYS : doomed' = unreachable
    /\ result' = NULL
    /\ UNCHANGED finalizers

Finalize(k) ==
    /\ doomed # NULL /\ k \in doomed
    /\ k \in DOMAIN finalizers
    /\ result' = <<k, finalizers[k]>>
    /\ finalizers' = Without(k)
    /\ UNCHANGED doomed

\* Not before the last one was called.
Finalized ==
    /\ doomed # NULL
    /\ doomed \cap DOMAIN finalizers = {}
    /\ doomed' = NULL
    /\ result' = NULL
    /\ UNCHANGED finalizers

Next == \/ \E k \in KEYS, v \in VALUES : Register(k, v)
        \/ \E k \in KEYS : Take(k) \/ Finalize(k)
        \/ Collect \/ Finalized

Spec == Init /\ [][Next]_vars
=============================================================================
