---------------------------- MODULE BoundedFifo ----------------------------
(***************************************************************************)
(* What a keyboard buffer promises: keys come out in the order they were   *)
(* typed, and a key is dropped only when Capacity keys are waiting.  Keys  *)
(* are numbered as they are typed.                                         *)
(***************************************************************************)
EXTENDS Naturals, Sequences

CONSTANT Capacity

VARIABLES
    typed,      \* keys typed so far
    queue,      \* keys waiting
    delivered   \* keys taken out

Init == typed = 0 /\ queue = <<>> /\ delivered = <<>>

Put ==
    /\ typed' = typed + 1
    /\ queue' = IF Len(queue) < Capacity THEN Append(queue, typed') ELSE queue
    /\ UNCHANGED delivered

Get ==
    /\ queue # <<>>
    /\ queue' = Tail(queue)
    /\ delivered' = Append(delivered, Head(queue))
    /\ UNCHANGED typed

Next == Put \/ Get

Spec == Init /\ [][Next]_<<typed, queue, delivered>>
=============================================================================
