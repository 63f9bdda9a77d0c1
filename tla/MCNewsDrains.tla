---------------------------- MODULE MCNewsDrains ----------------------------
(* The newest row never gets a text; the older one has a live page, and is *)
(* rated.                                                                   *)
EXTENDS NewsDrains

MCRows    == 1..2
MCDead    == {2}
MCTeased  == {}
MCNotable == {1}
=============================================================================
