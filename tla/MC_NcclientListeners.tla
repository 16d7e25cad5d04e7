------------------------ MODULE MC_NcclientListeners ------------------------
(* Two devices: the main thread can be interrupted before, between and     *)
(* after starting their threads, and one thread can fail while the other   *)
(* listens.                                                                *)
EXTENDS NcclientListeners

MC_Roster == << [host |-> "h1", port |-> 830], [host |-> "h2", port |-> 830] >>
=============================================================================
