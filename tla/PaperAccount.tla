---------------------------- MODULE PaperAccount ----------------------------
(***************************************************************************)
(* What a simulated account of app/services/paper_trading_service.py       *)
(* promises: an order fills in one step, at a price, against the cash and  *)
(* the holding of that moment, and only if they cover it.                  *)
(***************************************************************************)
EXTENDS Integers

CONSTANTS Prices, Quantities, Balance

VARIABLES cash, quantity

AccountInit == cash = Balance /\ quantity = 0

Buy(q, price) ==
    /\ cash >= price * q
    /\ cash' = cash - price * q
    /\ quantity' = quantity + q

Sell(q, price) ==
    /\ quantity >= q
    /\ cash' = cash + price * q
    /\ quantity' = quantity - q

\* An order is for one of the quantities; a sale may be for all there is.
AccountNext ==
    \E price \in Prices :
        \/ \E q \in Quantities : Buy(q, price)
        \/ \E q \in Quantities \cup {quantity} : Sell(q, price)
=============================================================================
