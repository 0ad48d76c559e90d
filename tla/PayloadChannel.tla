--------------------------- MODULE PayloadChannel ---------------------------
(***************************************************************************)
(* What the messaging component promises the modules that publish: the     *)
(* payloads go through one at a time and in order, each is handled at most *)
(* once, and handling it may fail.  The queue has no bound and nobody      *)
(* learns how a payload ended.                                             *)
(***************************************************************************)
EXTENDS Sequences, Naturals

CONSTANT Payloads

VARIABLES
    waiting,  \* published and not handled, oldest first
    handled   \* handled payloads, in the order in which they were handled

vars == <<waiting, handled>>

Init == waiting = <<>> /\ handled = <<>>

Put(p) ==
    /\ waiting' = Append(waiting, p)
    /\ UNCHANGED handled

Handle ==
    /\ waiting # <<>>
    /\ handled' = Append(handled, Head(waiting))
    /\ waiting' = Tail(waiting)

Next == Handle \/ \E p \in Payloads : Put(p)

Spec == Init /\ [][Next]_vars
=============================================================================
