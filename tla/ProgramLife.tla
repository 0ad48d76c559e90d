---------------------------- MODULE ProgramLife ----------------------------
(***************************************************************************)
(* What the program promises to whoever starts it, without its threads:    *)
(* one life from the license to the end of the process, in which payloads  *)
(* are published only while it runs, are handled in order and each at most *)
(* once until the end, and are left behind only as the last step of a stop *)
(* that did not find the producer running, or as the single payload the    *)
(* producer has in its hand.                                               *)
(***************************************************************************)
EXTENDS Sequences, Naturals

CONSTANT Payloads

VARIABLES
    phase,    \* of the program's life
    waiting,  \* payloads published and not handled, oldest first
    handled   \* payloads handled, in the order in which they were

vars == <<phase, waiting, handled>>

Phases == {"new", "licensed", "running", "stopping", "draining", "stopped", "over", "died"}

Init == phase = "new" /\ waiting = <<>> /\ handled = <<>>

Move(from, to) == phase = from /\ phase' = to /\ UNCHANGED <<waiting, handled>>

License == Move("new", "licensed")
Refuse  == Move("new", "over")

\* The configuration is usable, or it is not and the process ends by itself.
Start == Move("licensed", "running")
Close == waiting = <<>> /\ Move("licensed", "over")

Put(p) ==
    /\ phase = "running"
    /\ waiting' = Append(waiting, p)
    /\ UNCHANGED <<phase, handled>>

Handle ==
    /\ phase \in {"running", "stopping", "draining", "stopped"}
    /\ waiting # <<>>
    /\ handled' = Append(handled, Head(waiting))
    /\ waiting' = Tail(waiting)
    /\ UNCHANGED phase

\* The pipeline has ended; its payloads are waited for, or nobody handles them.
Stop  == Move("running", "stopping")
Drain == Move("stopping", "draining")
Skip  == Move("stopping", "stopped")

\* The wait ends with no more than the payload in the producer's hand.
Drained == Len(waiting) <= 1 /\ Move("draining", "stopped")

Exit == Move("stopped", "over")

\* The process dies of an error before its orderly end.
Die ==
    /\ phase \notin {"over", "died"}
    /\ phase' = "died"
    /\ UNCHANGED <<waiting, handled>>

Next ==
    \/ License \/ Refuse \/ Start \/ Close
    \/ Handle \/ \E p \in Payloads : Put(p)
    \/ Stop \/ Drain \/ Skip \/ Drained \/ Exit \/ Die

Spec == Init /\ [][Next]_vars
=============================================================================
