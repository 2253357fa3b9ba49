---------------------------- MODULE MCMutations ----------------------------
(***************************************************************************)
(* Instance of DemoScenario for TLC.  The draws are the smallest and      *)
(* largest that two mutations have in common, so that they can meet.       *)
(***************************************************************************)
EXTENDS DemoScenario

McShifts == {1, 200}
=============================================================================
