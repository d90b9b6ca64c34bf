------------------------------- MODULE MCClock --------------------------------
(* Instance of Clock for TLC: readings before the start and after it.       *)
EXTENDS Clock

MCRates == {0, 2, 3}
MCWalls == {-6, 1, 5, 12}
=============================================================================
