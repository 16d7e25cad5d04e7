--------------------------- MODULE MC_ConnManager ---------------------------
(* Two devices on one host (the port-range rosters the examples sketch),   *)
(* five client identities, two network faults.                             *)
EXTENDS ConnManager, TLC

CONSTANTS s1, s2, s3, s4, s5

MC_Roster == << [host |-> "h1", port |-> 830], [host |-> "h1", port |-> 831] >>
MC_Sessions == {s1, s2, s3, s4, s5}

=============================================================================
