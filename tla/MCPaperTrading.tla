--------------------------- MODULE MCPaperTrading ---------------------------
(* Two sessions on one account, each a single order or automatic trading    *)
(* over a day with a BUY and a SELL signal; cash for one to four orders.    *)
EXTENDS PaperTrading, TLC

MCSignals == <<"BUY", "SELL">>

\* Sessions are interchangeable, and no liveness property is checked.
MCSymmetry == Permutations(Sessions)
=============================================================================
