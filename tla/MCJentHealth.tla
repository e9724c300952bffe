----------------------------- MODULE MCJentHealth -----------------------------
(***************************************************************************)
(* Small sizes for JentHealth: a lag window of two histories, an APT       *)
(* window of a few samples and cutoffs that these windows can reach.       *)
(***************************************************************************)
EXTENDS JentPowerUp

AptCutoffs    == << 2, 2, 3 >>
AptPermanents == << 3, 3, 4 >>
LagGlobals    == << 2, 3, 4 >>
LagLocals     == << 2, 2, 3 >>
SmallDeltas   == {0, 2, 6, 9}
=============================================================================
