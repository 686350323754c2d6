------------------------------ MODULE MCMax6620 -------------------------------
(***************************************************************************)
(* An instance of Max6620 for TLC: two fans, of which the first starts     *)
(* with the period of its largest speed and the second with another one.   *)
(* The first takes neither speed, a count of 3000 does not fit the target  *)
(* register of the second, and one of 9000 does.  The first can fail again *)
(* after a report.                                                         *)
(***************************************************************************)
EXTENDS Max6620, TLC

CONSTANTS fan1, fan2

MCMaxSpeed == fan1 :> 2000 @@ fan2 :> 18000
MCPulses == fan1 :> 2 @@ fan2 :> 2
MCMaxFaults == fan1 :> 2 @@ fan2 :> 1
===============================================================================
