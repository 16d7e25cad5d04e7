--------------------------- MODULE MC_OneShotFetch ---------------------------
(* Three devices: enough for every mix of refused connect, broken session, *)
(* timed-out get and success across concurrently running tasks.            *)
EXTENDS OneShotFetch

MC_Roster == << [host |-> "h1", port |-> 830], [host |-> "h2", port |-> 830],
                [host |-> "h3", port |-> 830] >>
=============================================================================
