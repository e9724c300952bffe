------------------------------ MODULE MCGuiHost ------------------------------
(* Two worker slots, so that a leaked thread shows, and two configurations. *)
EXTENDS GuiHost

CONSTANTS w1, w2, ui_thread, plain, fips

MCWorker == {w1, w2}
MCThread == {w1, w2, ui_thread}
MCSettings == {plain, fips}
MCFips == {fips}
=============================================================================
