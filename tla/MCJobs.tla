------------------------------ MODULE MCJobs ------------------------------
(* Small instances of Jobs for TLC. *)
EXTENDS Jobs, TLC

CONSTANTS Horizon, p1, r1, r2

Clock == 0..Horizon

\* One project; the second runner serves none.
OneProject == p1 :> r1
============================================================================
