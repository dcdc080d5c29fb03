------------------------- MODULE MCSearchProjection -------------------------
(***************************************************************************)
(* Instances of SearchProjection for TLC.  A behaviour that needs two      *)
(* faults, such as a lease outlived by a worker whose request then fails,  *)
(* needs one version of the article only; a behaviour over two versions    *)
(* gets one fault.  Both at once are several times the states.             *)
(***************************************************************************)
EXTENDS SearchProjection

Versions == [writes |-> 2, selections |-> 1, faults |-> 1]
Faulty   == [writes |-> 1, selections |-> 1, faults |-> 2]

VersionsOrFaulty == {Versions, Faulty}

OneFault == {[writes |-> 1, selections |-> 0, faults |-> 1]}
=============================================================================
