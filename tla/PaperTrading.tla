---------------------------- MODULE PaperTrading ----------------------------
(***************************************************************************)
(* One simulated account and its position in one instrument:               *)
(* app/services/paper_trading_service.py.                                  *)
(*                                                                         *)
(* Orders come from API requests and from the daily automatic trading over *)
(* the signals, each in a database session of its own.  A session reads    *)
(* the account, waits for a quote from the network, checks the funds it    *)
(* read, computes the new cash and position in memory and commits them.    *)
(* Nothing locks the rows and no version is compared: the commit writes    *)
(* the columns that the session changed, over whatever is there by then.   *)
(* A session never reads a row twice before it commits: the identity map   *)
(* hands back what it read first.                                          *)
(*                                                                         *)
(* unrealized_pnl goes with market_value, realized_pnl is left out.        *)
(***************************************************************************)
EXTENDS Integers, Sequences

CONSTANTS
    Sessions,
    Prices,      \* what a quote may say, and what a limit may be
    Quantities,  \* what an order may ask for
    Balance,     \* initial_balance
    Signals,     \* the day's signals for the instrument, by created_at
    MaxOpened,   \* bound: how many sessions are opened
    Unread,      \* not in the identity map
    NoLimit      \* a market order

Positions == [row: BOOLEAN, quantity: Nat, avg_cost: Nat, market_value: Nat]

ASSUME PaperAssumption ==
    /\ Prices \subseteq Nat \ {0} /\ Quantities \subseteq Nat \ {0}
    /\ Balance \in Nat /\ MaxOpened \in Nat
    /\ Signals \in Seq({"BUY", "SELL"})
    /\ Unread \notin Nat /\ Unread \notin Positions /\ NoLimit \notin Prices

VARIABLES
    cash, status,  \* the account row
    position,      \* the position row, and whether there is one
    sess,          \* what each session is doing
    seen,          \* the identity map of each session
    mark,          \* the quantity the market-value job has read
    booked,        \* what the filled orders add up to
    opened,        \* sessions opened so far
    overtaken,     \* the sessions that another one has committed past since they read
    overwrote      \* whether one of these has ever committed

rowVars   == <<cash, status, position>>
paperVars == <<cash, status, position, sess, seen, mark, booked, opened, overtaken, overwrote>>

NoPosition == [row |-> FALSE, quantity |-> 0, avg_cost |-> 0, market_value |-> 0]
ZeroRow    == [row |-> TRUE, quantity |-> 0, avg_cost |-> 0, market_value |-> 0]

Session == [pc: {"idle", "choosing", "sizing", "quoting", "inserting", "committing"},
            auto: BOOLEAN, next: Nat, side: {"BUY", "SELL"}, quantity: Nat,
            limit: Prices \cup {NoLimit}, price: Nat]
IdleSession == [pc |-> "idle", auto |-> FALSE, next |-> 0, side |-> "BUY",
                quantity |-> 0, limit |-> NoLimit, price |-> 0]

Nothing == [cash |-> Unread, position |-> Unread]

PaperTypeOK ==
    /\ cash \in Int /\ status \in {"active", "archived"}
    /\ position \in [row: BOOLEAN, quantity: Int, avg_cost: Nat, market_value: Nat]
    /\ ~position.row => position = NoPosition
    /\ sess \in [Sessions -> Session]
    /\ seen \in [Sessions -> [cash: Int \cup {Unread}, position: Positions \cup {Unread}]]
    /\ mark \in Nat \cup {Unread}
    /\ booked \in [cash: Int, quantity: Int]
    /\ opened \in 0 .. MaxOpened /\ overtaken \subseteq Sessions /\ overwrote \in BOOLEAN

PaperInit ==
    /\ cash = Balance /\ status = "active" /\ position = NoPosition
    /\ sess = [s \in Sessions |-> IdleSession]
    /\ seen = [s \in Sessions |-> Nothing]
    /\ mark = Unread /\ booked = [cash |-> 0, quantity |-> 0]
    /\ opened = 0 /\ overtaken = {} /\ overwrote = FALSE

-----------------------------------------------------------------------------
\* What the session sees of the rows: what it read before, or what is there.
Cash(s)     == IF seen[s].cash = Unread THEN cash ELSE seen[s].cash
Position(s) == IF seen[s].position = Unread THEN position ELSE seen[s].position

\* total / quantity, rounded to the scale of the column.
Rounded(total, quantity) == (2 * total + quantity) \div (2 * quantity)

\* Mutant: a buy into a closed position averages with nothing.
BoughtHalf(p, q, price) ==
    LET n == p.quantity + q IN
    [p EXCEPT !.quantity = n,
              !.avg_cost = Rounded(p.quantity * p.avg_cost + p.quantity * price, n),
              !.market_value = n * price]

\* VWAP for a buy.
Bought(p, q, price) ==
    LET n == p.quantity + q IN
    [p EXCEPT !.quantity = n,
              !.avg_cost = IF p.quantity = 0 THEN price
                           ELSE Rounded(p.quantity * p.avg_cost + q * price, n),
              !.market_value = n * price]

\* Mutant: a closed position is deleted.
SoldOut(p, q, price) ==
    IF p.quantity = q THEN NoPosition
    ELSE [p EXCEPT !.quantity = @ - q, !.market_value = (p.quantity - q) * price]

\* A sale reduces the position; a closed position is zeroed.
Sold(p, q, price) ==
    IF p.quantity = q THEN ZeroRow
    ELSE [p EXCEPT !.quantity = @ - q, !.market_value = (p.quantity - q) * price]

\* UPDATE sets the columns whose value differs from the one that was read.
Merged(row, read, new) ==
    [c \in DOMAIN row |-> IF new[c] = read[c] THEN row[c] ELSE new[c]]

Leave(s) ==
    /\ sess' = [sess EXCEPT ![s] = IdleSession]
    /\ seen' = [seen EXCEPT ![s] = Nothing]
    /\ overtaken' = overtaken \ {s}

-----------------------------------------------------------------------------
(* Opening a session.                                                      *)

Count(s) ==
    /\ sess[s].pc = "idle" /\ opened < MaxOpened
    /\ opened' = opened + 1
    /\ UNCHANGED <<overtaken, overwrote>>

\* Mutant: get_account without the filter on the status.
OpenOrderAnyStatus(s) ==
    /\ Count(s)
    /\ \E side \in {"BUY", "SELL"}, q \in Quantities, limit \in Prices \cup {NoLimit} :
        sess' = [sess EXCEPT ![s] = [IdleSession EXCEPT !.pc = "quoting", !.side = side,
                                                        !.quantity = q, !.limit = limit]]
    /\ seen' = [seen EXCEPT ![s].cash = cash]
    /\ UNCHANGED <<rowVars, mark, booked>>

\* An API request: the active account is read, then the quote is awaited.
OpenOrder(s) ==
    /\ status = "active"
    /\ Count(s)
    /\ \E side \in {"BUY", "SELL"}, q \in Quantities, limit \in Prices \cup {NoLimit} :
        sess' = [sess EXCEPT ![s] = [IdleSession EXCEPT !.pc = "quoting", !.side = side,
                                                        !.quantity = q, !.limit = limit]]
    /\ seen' = [seen EXCEPT ![s].cash = cash]
    /\ UNCHANGED <<rowVars, mark, booked>>

\* auto_trade_from_signals: several at once, since only the scheduled job takes
\* the lock paper_trade_auto; POST /accounts/{id}/auto-trade takes none.
OpenAuto(s) ==
    /\ status = "active"
    /\ Count(s)
    /\ sess' = [sess EXCEPT ![s] = [IdleSession EXCEPT !.pc = "choosing", !.auto = TRUE, !.next = 1]]
    /\ seen' = [seen EXCEPT ![s].cash = cash]
    /\ UNCHANGED <<rowVars, mark, booked>>

-----------------------------------------------------------------------------
(* The loop over the signals.                                              *)

\* The next signal is sized on the cash and the open position, which stay in
\* the identity map.
ChooseSignal(s) ==
    /\ sess[s].pc = "choosing" /\ sess[s].next <= Len(Signals)
    /\ Signals[sess[s].next] = "SELL" => Position(s).quantity > 0
    /\ sess' = [sess EXCEPT ![s].pc = "sizing", ![s].side = Signals[sess[s].next]]
    /\ seen' = [seen EXCEPT ![s].cash = Cash(s),
                            ![s].position = IF Position(s).quantity > 0 THEN Position(s) ELSE @]
    /\ UNCHANGED <<rowVars, mark, booked, opened, overtaken, overwrote>>

\* A SELL without a position, a BUY too weak or without a price.
SkipSignal(s) ==
    /\ sess[s].pc \in {"choosing", "sizing"} /\ sess[s].next <= Len(Signals)
    /\ sess' = [sess EXCEPT ![s].pc = "choosing", ![s].next = @ + 1]
    /\ UNCHANGED <<rowVars, seen, mark, booked, opened, overtaken, overwrote>>

\* place_order is called: a SELL closes the position, a BUY takes a share of
\* the equity, whatever that comes to; the account must still be active.
Size(s) ==
    /\ sess[s].pc = "sizing" /\ status = "active"
    /\ \E q \in IF sess[s].side = "SELL" THEN {Position(s).quantity} ELSE Quantities :
        sess' = [sess EXCEPT ![s].pc = "quoting", ![s].quantity = q]
    /\ UNCHANGED <<rowVars, seen, mark, booked, opened, overtaken, overwrote>>

EndAuto(s) ==
    /\ sess[s].pc = "choosing" /\ sess[s].next > Len(Signals)
    /\ Leave(s)
    /\ UNCHANGED <<rowVars, mark, booked, opened, overwrote>>

-----------------------------------------------------------------------------
(* place_order.                                                            *)

\* The quote has arrived.  A limit order fills at its limit.
ExecutionPrice(s, market) == IF sess[s].limit = NoLimit THEN market ELSE sess[s].limit

Crosses(s, market) ==
    sess[s].limit # NoLimit =>
        IF sess[s].side = "BUY" THEN market <= sess[s].limit ELSE market >= sess[s].limit

\* Mutant: the cash is to cover the price, not the notional.
CoveredOnce(s, price) ==
    IF sess[s].side = "BUY" THEN Cash(s) >= price ELSE Position(s).quantity >= sess[s].quantity

Covered(s, price) ==
    IF sess[s].side = "BUY" THEN Cash(s) >= price * sess[s].quantity
                            ELSE Position(s).quantity >= sess[s].quantity

\* The checks pass on what the session has read; the position is read here at
\* the latest, and inserted if there is none.
Quote(s) ==
    /\ sess[s].pc = "quoting"
    /\ \E market \in Prices :
        LET price == ExecutionPrice(s, market) IN
        /\ Crosses(s, market) /\ Covered(s, price)
        /\ sess' = [sess EXCEPT ![s].price = price, ![s].limit = NoLimit,
                                ![s].pc = IF Position(s).row THEN "committing" ELSE "inserting"]
    /\ seen' = [seen EXCEPT ![s].cash = Cash(s),
                            ![s].position = IF Position(s).row THEN Position(s) ELSE ZeroRow]
    /\ UNCHANGED <<rowVars, mark, booked, opened, overtaken, overwrote>>

\* PaperTradingError: no quote, the limit is not met, the funds are short.
\* The automatic trading goes on with the next signal, in the same session.
Reject(s) ==
    /\ sess[s].pc = "quoting"
    /\ IF sess[s].auto
       THEN /\ sess' = [sess EXCEPT ![s].pc = "choosing", ![s].next = @ + 1]
            /\ UNCHANGED <<seen, overtaken>>
       ELSE Leave(s)
    /\ UNCHANGED <<rowVars, mark, booked, opened, overwrote>>

\* INSERT of the position: it waits for another session's INSERT, and the
\* unique constraint rejects it if that one was committed.
Insert(s) ==
    /\ sess[s].pc = "inserting"
    /\ \A t \in Sessions : t # s /\ sess[t].pc = "committing" => position.row
    /\ IF position.row THEN Leave(s)
       ELSE sess' = [sess EXCEPT ![s].pc = "committing"] /\ UNCHANGED <<seen, overtaken>>
    /\ UNCHANGED <<rowVars, mark, booked, opened, overwrote>>

\* Mutant: cash = cash - notional in SQL, with no check on the row.
CommitRelative(s) ==
    LET o == sess[s] buys == o.side = "BUY" p == seen[s].position IN
    /\ o.pc = "committing"
    /\ cash' = IF buys THEN cash - o.price * o.quantity ELSE cash + o.price * o.quantity
    /\ position' = Merged([position EXCEPT !.row = TRUE], p,
                          IF buys THEN Bought(p, o.quantity, o.price) ELSE Sold(p, o.quantity, o.price))
    /\ booked' = [cash     |-> booked.cash + (IF buys THEN -1 ELSE 1) * o.price * o.quantity,
                  quantity |-> booked.quantity + (IF buys THEN 1 ELSE -1) * o.quantity]
    /\ sess' = [sess EXCEPT ![s] = IF o.auto THEN [o EXCEPT !.pc = "choosing", !.next = @ + 1] ELSE IdleSession]
    /\ seen' = [seen EXCEPT ![s] = Nothing]
    /\ overtaken' = {t \in Sessions \ {s} : seen[t] # Nothing}
    /\ overwrote' = (overwrote \/ s \in overtaken)
    /\ UNCHANGED <<status, mark, opened>>

\* Mutant: the automatic trading keeps its view of the rows across a commit.
CommitKeepsView(s) ==
    LET o == sess[s] buys == o.side = "BUY" p == seen[s].position IN
    /\ o.pc = "committing"
    /\ cash' = IF buys THEN seen[s].cash - o.price * o.quantity
                       ELSE seen[s].cash + o.price * o.quantity
    /\ position' = Merged([position EXCEPT !.row = TRUE], p,
                          IF buys THEN Bought(p, o.quantity, o.price) ELSE Sold(p, o.quantity, o.price))
    /\ booked' = [cash     |-> booked.cash + (IF buys THEN -1 ELSE 1) * o.price * o.quantity,
                  quantity |-> booked.quantity + (IF buys THEN 1 ELSE -1) * o.quantity]
    /\ sess' = [sess EXCEPT ![s] = IF o.auto THEN [o EXCEPT !.pc = "choosing", !.next = @ + 1] ELSE IdleSession]
    /\ seen' = IF o.auto THEN seen ELSE [seen EXCEPT ![s] = Nothing]
    /\ overtaken' = {t \in Sessions \ {s} : seen[t] # Nothing}
    /\ overwrote' = (overwrote \/ s \in overtaken)
    /\ UNCHANGED <<status, mark, opened>>

\* The order row, the cash and the position are written in one transaction,
\* and everything the session has read expires.
Commit(s) ==
    LET o == sess[s] buys == o.side = "BUY" p == seen[s].position IN
    /\ o.pc = "committing"
    /\ cash' = IF buys THEN seen[s].cash - o.price * o.quantity
                       ELSE seen[s].cash + o.price * o.quantity
    /\ position' = Merged([position EXCEPT !.row = TRUE], p,
                          IF buys THEN Bought(p, o.quantity, o.price) ELSE Sold(p, o.quantity, o.price))
    /\ booked' = [cash     |-> booked.cash + (IF buys THEN -1 ELSE 1) * o.price * o.quantity,
                  quantity |-> booked.quantity + (IF buys THEN 1 ELSE -1) * o.quantity]
    /\ sess' = [sess EXCEPT ![s] = IF o.auto THEN [o EXCEPT !.pc = "choosing", !.next = @ + 1] ELSE IdleSession]
    /\ seen' = [seen EXCEPT ![s] = Nothing]
    /\ overtaken' = {t \in Sessions \ {s} : seen[t] # Nothing}
    /\ overwrote' = (overwrote \/ s \in overtaken)
    /\ UNCHANGED <<status, mark, opened>>

\* The commit fails, the connection breaks or the process dies: rolled back.
Die(s) ==
    /\ sess[s].pc # "idle"
    /\ Leave(s)
    /\ UNCHANGED <<rowVars, mark, booked, opened, overwrote>>

-----------------------------------------------------------------------------
(* The rest of the service.                                                *)

\* archive_account
Archive ==
    /\ status = "active" /\ status' = "archived"
    /\ UNCHANGED <<cash, position, sess, seen, mark, booked, opened, overtaken, overwrote>>

\* update_market_values reads the open positions and goes for the quotes; so
\* does get_pnl_summary.
MarkRead ==
    /\ mark = Unread /\ position.quantity > 0
    /\ mark' = position.quantity
    /\ UNCHANGED <<rowVars, sess, seen, booked, opened, overtaken, overwrote>>

\* It writes the market value of the quantity it read, and no other column.
MarkWrite ==
    /\ mark # Unread
    /\ \E price \in Prices : position' = [position EXCEPT !.market_value = mark * price]
    /\ mark' = Unread
    /\ UNCHANGED <<cash, status, sess, seen, booked, opened, overtaken, overwrote>>

MarkFails ==
    /\ mark # Unread /\ mark' = Unread
    /\ UNCHANGED <<rowVars, sess, seen, booked, opened, overtaken, overwrote>>

Trading(s) ==
    \/ OpenOrder(s) \/ OpenAuto(s) \/ ChooseSignal(s) \/ SkipSignal(s) \/ Size(s)
    \/ EndAuto(s) \/ Quote(s) \/ Reject(s) \/ Insert(s) \/ Commit(s) \/ Die(s)

PaperNext == Archive \/ MarkRead \/ MarkWrite \/ MarkFails \/ \E s \in Sessions : Trading(s)

PaperSpec == PaperInit /\ [][PaperNext]_paperVars

-----------------------------------------------------------------------------
Balanced == cash = Balance + booked.cash /\ position.quantity = booked.quantity

\* However sessions overlap, the account is never overdrawn and never short:
\* what is committed is the very value that was checked.
NeverOverdrawn == cash >= 0 /\ position.quantity >= 0

\* As long as no session commits past a commit that it has not seen, the
\* account and the position are what the filled orders add up to, however
\* sessions overlap, and whatever is rejected, rolled back or marked to market.
BooksBalance == ~overwrote => Balanced

\* And the average cost of an open position is one that prices explain.
AvgCostInRange ==
    ~overwrote /\ position.quantity > 0 =>
        \E low, high \in Prices : low <= position.avg_cost /\ position.avg_cost <= high

\* Every change of cash or holding is one fill of the account as it is at that
\* moment, at a price, covered then and not only when the session looked: the
\* one exception is the commit of a session that has been overtaken.
Account == INSTANCE PaperAccount WITH quantity <- position.quantity

Overwrite == \E s \in overtaken : Commit(s)

ImplementsAccount ==
    /\ Account!AccountInit
    /\ [][Overwrite \/ Account!AccountNext]_<<cash, position.quantity>>

\* Once the account is archived and the sessions that read it before have
\* ended, no order fills.
QuietAfterArchive ==
    [][ status = "archived" /\ (\A s \in Sessions : sess[s].pc = "idle") =>
          booked' = booked /\ \A s \in Sessions : sess'[s].pc = "idle" ]_paperVars

\* The position is the aggregate of the filled orders ("Aggregated holding ...
\* Updated whenever an order fills"), and the cash goes with it.
BooksAlwaysBalance == Balanced
=============================================================================
