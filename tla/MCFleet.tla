------------------------------ MODULE MCFleet ------------------------------
(* Instances of Fleet for TLC: a truck of brand b1; brand b2 and its model    *)
(* are entered on the way.                                                  *)
EXTENDS Fleet, TLC

CONSTANTS b1, b2, m1, m2, p1, p2

Brand == (m1 :> b1) @@ (m2 :> b2)

FirstTruck == [plate |-> p1, model |-> m1, brand |-> b1, active |-> TRUE]

\* The first truck is deactivated, or its plate and model change, or a photo is
\* deleted and one added.  The same forms enter a second truck.
PostSet ==
    {[plate |-> p1, model |-> m1, active |-> FALSE, add |-> 0, tick |-> 0],
     [plate |-> p2, model |-> m2, active |-> TRUE, add |-> 0, tick |-> 0],
     [plate |-> p1, model |-> m1, active |-> TRUE, add |-> 1, tick |-> 1]}

WorkerSymmetry == Permutations(Workers)
=============================================================================
