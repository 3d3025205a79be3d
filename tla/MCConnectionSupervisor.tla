----------------------- MODULE MCConnectionSupervisor -----------------------
(***************************************************************************)
(* Small instances: one or two connector processes, and one stop call at a *)
(* time.                                                                   *)
(***************************************************************************)
EXTENDS ConnectionSupervisor

CONSTANTS s1, s2, o1

OneSupervisor == {s1}
TwoSupervisors == {s1, s2}
OneStop == {o1}
=============================================================================
