---------------------------- MODULE MCJentCollector ----------------------------
(* Rungs 1 to 3 of the reset ladder; windows of three or six deltas.  As in
   the source, the common cutoff is the whole window, NTG.1's a part of it. *)
EXTENDS JentCollector

Plain == [ ntg1 |-> FALSE, fips |-> FALSE, nomem |-> FALSE, force |-> FALSE,
           disable |-> FALSE, mem |-> 0, hash |-> 0 ]

MCCutoffs     == << << 1, 2 >>, << 2, 3 >> >>
MCCutoffsNtg1 == << << 1, 2 >> >>

Forced  == [Plain EXCEPT !.force = TRUE]
Limited == [Plain EXCEPT !.fips = TRUE, !.mem = 1]
Ntg1    == [Plain EXCEPT !.ntg1 = TRUE]

MCFlags   == { Forced, Limited, Ntg1 }
Ntg1Flags == { Ntg1 }
=============================================================================
