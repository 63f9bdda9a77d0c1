------------------------- MODULE MCNewsTranslation -------------------------
(* Two articles, the newer of them refused by the model. *)
EXTENDS NewsTranslation

MCArticles  == 1..2
MCTeased    == {1}
MCNew       == {1}
MCSensitive == {2}
=============================================================================
