---------------------------- MODULE MCRngWrapper ----------------------------
(* Three threads (two callers and the telemetry tick) over a plain and a FIPS
   configuration. *)
EXTENDS RngWrapper, TLC

CONSTANTS t1, t2, t3, plain, fips

MCThread == {t1, t2, t3}
MCSettings == {plain, fips}
MCFips == {fips}
Symmetry == Permutations(MCThread)
=============================================================================
