----------------------- MODULE MCCalibrationCollector -----------------------
(***************************************************************************)
(* TLC instance of CalibrationCollector: two cases, each with one router   *)
(* call, one single call and two parallel calls of the multi run.          *)
(***************************************************************************)
EXTENDS CalibrationCollector, TLC

CONSTANTS r, s, m1, m2

MCCalls == (1 .. N) \X Tasks
MCRunOf == (r :> "router") @@ (s :> "single") @@ (m1 :> "multi") @@ (m2 :> "multi")
=============================================================================
