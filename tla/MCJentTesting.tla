---------------------------- MODULE MCJentTesting ----------------------------
(* Two readers of the debugfs file, one other instance, a ring of four. *)
EXTENDS JentTesting

CONSTANTS r1, r2, p1

MCReader == {r1, r2}
MCProducer == {p1}
=============================================================================
