----------------------------- MODULE LiveTrading -----------------------------
(***************************************************************************)
(* Live orders of one Binance configuration: place_order and cancel_order  *)
(* of app/api/v1/live_trading.py, and app/services/risk_control.py.        *)
(*                                                                         *)
(* A request reads the configuration, asks the exchange for a price and    *)
(* filters, passes the risk checks, sends the order to the exchange and    *)
(* only then writes a row of its own.  Requests run in threads of several  *)
(* processes; each process has its own circuit breaker, in memory.  The    *)
(* row has the status of the exchange's reply and is never refreshed; only *)
(* cancel_order writes to it again.  Its created_at is the start of the    *)
(* request's transaction, which the first query of the request opened.     *)
(*                                                                         *)
(* _daily_filled takes the zone off midnight in Shanghai and compares what *)
(* is left with created_at, in the zone of the database session: in UTC    *)
(* the day of the filter begins at eight o'clock in Shanghai.  The date    *)
(* changes at midnight, and what is placed until eight is counted by no    *)
(* filter, neither that day's nor the next.                                *)
(*                                                                         *)
(* The limits of the configuration stay as they are.  The check of the     *)
(* daily loss reads realized_pnl, which nothing writes: it always passes.  *)
(***************************************************************************)
EXTENDS Integers, FiniteSets

CONSTANTS
    Requests,  \* threads that serve requests
    Procs,     \* API processes
    Keys,      \* (instrument, side) pairs
    Ids,       \* bound: orders the exchange may accept
    None,      \* no process, no key, no order
    MaxDaily   \* max_daily_orders

ASSUME LiveAssumption ==
    /\ MaxDaily \in Nat \ {0}
    /\ IsFiniteSet(Requests) /\ IsFiniteSet(Ids)
    /\ None \notin Procs \cup Keys \cup Ids

VARIABLES
    enabled,   \* is_enabled
    deleted,   \* the configuration has been deleted
    tripped,   \* the processes whose breaker has tripped
    req,       \* what each thread is doing
    exch,      \* the orders at the exchange
    rows,      \* the rows of live_trade_order
    early,     \* the date has changed, and the day of _daily_filled is still to begin
    today,     \* the orders of requests begun since the day of _daily_filled began
    overlapped,  \* whether two order requests were ever under way together
    lost,      \* the orders accepted whose row was never written
    late       \* the orders accepted since trading was switched off

liveVars == <<enabled, deleted, tripped, req, exch, rows, early, today, overlapped, lost, late>>

Open     == {"new", "partially_filled"}
Counted  == {"filled", "partially_filled"}     \* what _daily_filled counts
Accepted == Open \cup {"filled"}

\* today: the request began on the day of _daily_filled; young: it began less
\* than 60 seconds ago.
Request == [pc: {"idle", "quoting", "checking", "counted", "sending", "recording", "marking"},
            proc: Procs \cup {None}, key: Keys \cup {None}, id: Ids \cup {None},
            reply: Accepted \cup {None}, today: BOOLEAN]
Idle    == [pc |-> "idle", proc |-> None, key |-> None, id |-> None,
            reply |-> None, today |-> FALSE]

Row     == [status: {"none", "cancelled"} \cup Accepted, key: Keys \cup {None}, young: BOOLEAN]
NoRow   == [status |-> "none", key |-> None, young |-> FALSE]

LiveTypeOK ==
    /\ enabled \in BOOLEAN /\ deleted \in BOOLEAN
    /\ tripped \subseteq Procs
    /\ req \in [Requests -> Request]
    /\ exch \in [Ids -> {"none", "canceled"} \cup Accepted]
    /\ rows \in [Ids -> Row]
    /\ today \subseteq Ids /\ lost \subseteq Ids /\ late \subseteq Ids
    /\ early \in BOOLEAN /\ overlapped \in BOOLEAN

\* A configuration starts disabled, at any hour.
LiveInit ==
    /\ enabled = FALSE /\ deleted = FALSE /\ tripped = {}
    /\ req = [r \in Requests |-> Idle]
    /\ exch = [i \in Ids |-> "none"] /\ rows = [i \in Ids |-> NoRow]
    /\ early \in BOOLEAN /\ today = {} /\ overlapped = FALSE /\ lost = {} /\ late = {}

-----------------------------------------------------------------------------
Placing(r) == req[r].pc \in {"quoting", "checking", "counted", "sending", "recording"}
Ahead(r)   == req[r].pc \in {"quoting", "checking", "counted", "sending"}
Passed(r)  == req[r].pc \in {"counted", "sending", "recording"}
AtProc(p)  == {r \in Requests : req[r].pc # "idle" /\ req[r].proc = p}

DailyFilled == {i \in today : rows[i].status \in Counted}
Duplicates(k) == {i \in Ids : rows[i].status # "none" /\ rows[i].young /\ rows[i].key = k}

Done(r) == req' = [req EXCEPT ![r] = Idle]

-----------------------------------------------------------------------------
(* place_order.                                                            *)

\* Mutant: the switch is left to the risk checks, which do not read it.
ReceiveAny(r) ==
    /\ ~deleted /\ req[r].pc = "idle"
    /\ \E p \in Procs, k \in Keys :
        req' = [req EXCEPT ![r] = [Idle EXCEPT !.pc = "quoting", !.proc = p, !.key = k,
                                               !.today = ~early]]
    /\ overlapped' = (overlapped \/ \E s \in Requests : Placing(s))
    /\ UNCHANGED <<enabled, deleted, tripped, exch, rows, early, today, lost, late>>

\* The configuration is found enabled; price and filters are awaited.
Receive(r) ==
    /\ enabled /\ req[r].pc = "idle"
    /\ \E p \in Procs, k \in Keys :
        req' = [req EXCEPT ![r] = [Idle EXCEPT !.pc = "quoting", !.proc = p, !.key = k,
                                               !.today = ~early]]
    /\ overlapped' = (overlapped \/ \E s \in Requests : Placing(s))
    /\ UNCHANGED <<enabled, deleted, tripped, exch, rows, early, today, lost, late>>

\* The first checks of check_order, up to the balance, which is awaited.
CheckBreaker(r) ==
    /\ req[r].pc = "quoting" /\ req[r].proc \notin tripped
    /\ req' = [req EXCEPT ![r].pc = "checking"]
    /\ UNCHANGED <<enabled, deleted, tripped, exch, rows, early, today, overlapped, lost, late>>

\* No quote, a filter, the global switch, the breaker, the allowlist, the
\* balance, the value of the order, or the process gives up the request.
Refuse(r) ==
    /\ req[r].pc \in {"quoting", "checking", "counted"}
    /\ Done(r)
    /\ UNCHANGED <<enabled, deleted, tripped, exch, rows, early, today, overlapped, lost, late>>

\* The daily limit is reached: the breaker of this process trips.
CheckLimit(r) ==
    /\ req[r].pc = "checking" /\ Cardinality(DailyFilled) >= MaxDaily
    /\ tripped' = tripped \cup {req[r].proc}
    /\ Done(r)
    /\ UNCHANGED <<enabled, deleted, exch, rows, early, today, overlapped, lost, late>>

\* Mutant: the daily count is not asked for.
CountAny(r) ==
    /\ req[r].pc = "checking"
    /\ req' = [req EXCEPT ![r].pc = "counted"]
    /\ UNCHANGED <<enabled, deleted, tripped, exch, rows, early, today, overlapped, lost, late>>

\* The daily limit is not reached; the loss is never over its limit.
CheckCount(r) ==
    /\ req[r].pc = "checking" /\ Cardinality(DailyFilled) < MaxDaily
    /\ req' = [req EXCEPT ![r].pc = "counted"]
    /\ UNCHANGED <<enabled, deleted, tripped, exch, rows, early, today, overlapped, lost, late>>

\* Mutant: the duplicate check looks at open orders only.
CheckOpenDuplicate(r) ==
    /\ req[r].pc = "counted"
    /\ IF \E i \in Duplicates(req[r].key) : rows[i].status \in Open
       THEN Done(r)
       ELSE req' = [req EXCEPT ![r].pc = "sending"]
    /\ UNCHANGED <<enabled, deleted, tripped, exch, rows, early, today, overlapped, lost, late>>

\* The last check has a query of its own, which sees the commits since.
CheckDuplicate(r) ==
    /\ req[r].pc = "counted"
    /\ IF Duplicates(req[r].key) = {} THEN req' = [req EXCEPT ![r].pc = "sending"] ELSE Done(r)
    /\ UNCHANGED <<enabled, deleted, tripped, exch, rows, early, today, overlapped, lost, late>>

\* The exchange accepts the order, and the reply arrives or is lost: a lost
\* reply is a 502, and the order has no row.
Send(r) ==
    /\ req[r].pc = "sending"
    /\ \E i \in Ids, s \in Accepted :
        /\ exch[i] = "none"
        /\ exch' = [exch EXCEPT ![i] = s]
        /\ today' = IF req[r].today THEN today \cup {i} ELSE today
        /\ \/ /\ req' = [req EXCEPT ![r].pc = "recording", ![r].id = i, ![r].reply = s]
              /\ UNCHANGED lost
           \/ Done(r) /\ lost' = lost \cup {i}
        /\ late' = IF enabled THEN late ELSE late \cup {i}
    /\ UNCHANGED <<enabled, deleted, tripped, rows, early, overlapped>>

\* The exchange refuses, or the order never gets there.
SendFails(r) ==
    /\ req[r].pc = "sending"
    /\ Done(r)
    /\ UNCHANGED <<enabled, deleted, tripped, exch, rows, early, today, overlapped, lost, late>>

\* Mutant: the row is written with a status of its own.
RecordPending(r) ==
    /\ req[r].pc = "recording" /\ ~deleted
    /\ \E y \in BOOLEAN :
        rows' = [rows EXCEPT ![req[r].id] = [status |-> "pending", key |-> req[r].key, young |-> y]]
    /\ Done(r)
    /\ UNCHANGED <<enabled, deleted, tripped, exch, early, today, overlapped, lost, late>>

\* Mutant: filled orders get their row from a later synchronisation.
RecordOpen(r) ==
    /\ req[r].pc = "recording" /\ ~deleted
    /\ \E y \in BOOLEAN :
        rows' = IF req[r].reply \in Open
                THEN [rows EXCEPT ![req[r].id] = [status |-> req[r].reply, key |-> req[r].key, young |-> y]]
                ELSE rows
    /\ Done(r)
    /\ UNCHANGED <<enabled, deleted, tripped, exch, early, today, overlapped, lost, late>>

\* Mutant: the commit may be tried again after it went through.
RecordAgain(r) ==
    /\ req[r].pc = "recording" /\ ~deleted
    /\ \E y \in BOOLEAN :
        rows' = [rows EXCEPT ![req[r].id] = [status |-> req[r].reply, key |-> req[r].key, young |-> y]]
    /\ Done(r) \/ UNCHANGED req
    /\ UNCHANGED <<enabled, deleted, tripped, exch, early, today, overlapped, lost, late>>

\* The row is written with the status of the reply, if its configuration is
\* still there; the request may have taken more than 60 seconds by now.
Record(r) ==
    /\ req[r].pc = "recording" /\ ~deleted
    /\ \E y \in BOOLEAN :
        rows' = [rows EXCEPT ![req[r].id] = [status |-> req[r].reply, key |-> req[r].key, young |-> y]]
    /\ Done(r)
    /\ UNCHANGED <<enabled, deleted, tripped, exch, early, today, overlapped, lost, late>>

\* The commit fails: the order is at the exchange and has no row.
RecordFails(r) ==
    /\ req[r].pc = "recording"
    /\ Done(r) /\ lost' = lost \cup {req[r].id}
    /\ UNCHANGED <<enabled, deleted, tripped, exch, rows, early, today, overlapped, late>>

-----------------------------------------------------------------------------
(* cancel_order.                                                           *)

\* Mutant: an error of the exchange is taken for a cancellation.
CancelIgnoresError(r) ==
    /\ req[r].pc = "idle"
    /\ \E i \in Ids, p \in Procs :
        /\ rows[i].status \in Open
        /\ exch' = [exch EXCEPT ![i] = IF @ \in Open THEN "canceled" ELSE @]
        /\ req' = [req EXCEPT ![r] = [Idle EXCEPT !.pc = "marking", !.proc = p, !.id = i]]
    /\ UNCHANGED <<enabled, deleted, tripped, rows, early, today, overlapped, lost, late>>

\* The row is open; the exchange cancels its order, and the reply arrives or
\* is lost.  For an order that is not open the exchange has an error, and
\* nothing changes.
CancelAtExchange(r) ==
    /\ req[r].pc = "idle"
    /\ \E i \in Ids, p \in Procs :
        /\ rows[i].status \in Open /\ exch[i] \in Open
        /\ exch' = [exch EXCEPT ![i] = "canceled"]
        /\ \/ req' = [req EXCEPT ![r] = [Idle EXCEPT !.pc = "marking", !.proc = p, !.id = i]]
           \/ UNCHANGED req
    /\ UNCHANGED <<enabled, deleted, tripped, rows, early, today, overlapped, lost, late>>

MarkCancelled(r) ==
    /\ req[r].pc = "marking" /\ ~deleted
    /\ rows' = [rows EXCEPT ![req[r].id].status = "cancelled"]
    /\ Done(r)
    /\ UNCHANGED <<enabled, deleted, tripped, exch, early, today, overlapped, lost, late>>

MarkFails(r) ==
    /\ req[r].pc = "marking"
    /\ Done(r)
    /\ UNCHANGED <<enabled, deleted, tripped, exch, rows, early, today, overlapped, lost, late>>

-----------------------------------------------------------------------------
(* The administrator, the processes, the exchange and the clock.           *)

\* update_config; a request that has read the configuration goes on.
SwitchConfig ==
    /\ ~deleted
    /\ enabled' = ~enabled /\ late' = {}
    /\ UNCHANGED <<deleted, tripped, req, exch, rows, early, today, overlapped, lost>>

\* delete_config: the rows go with the configuration, the orders stay.
DeleteConfig ==
    /\ ~deleted
    /\ deleted' = TRUE /\ enabled' = FALSE
    /\ rows' = [i \in Ids |-> NoRow]
    /\ UNCHANGED <<tripped, req, exch, early, today, overlapped, lost, late>>

\* reset_circuit_breaker reaches one process.
ResetBreaker ==
    /\ ~deleted
    /\ \E p \in tripped : tripped' = tripped \ {p}
    /\ UNCHANGED <<enabled, deleted, req, exch, rows, early, today, overlapped, lost, late>>

\* The process stops and starts again: its requests and its breaker are gone.
Restart(p) ==
    /\ p \in tripped \/ AtProc(p) # {}
    /\ tripped' = tripped \ {p}
    /\ req' = [r \in Requests |-> IF r \in AtProc(p) THEN Idle ELSE req[r]]
    /\ lost' = lost \cup {req[r].id : r \in {q \in AtProc(p) : req[q].pc = "recording"}}
    /\ UNCHANGED <<enabled, deleted, exch, rows, early, today, overlapped, late>>

Fill ==
    /\ \E i \in Ids :
        /\ exch[i] \in Open
        /\ \E s \in Counted : exch' = [exch EXCEPT ![i] = s]
    /\ UNCHANGED <<enabled, deleted, tripped, req, rows, early, today, overlapped, lost, late>>

\* Sixty seconds have passed since the request of a row began.
RowAges ==
    /\ \E i \in Ids : rows[i].young /\ rows' = [rows EXCEPT ![i].young = FALSE]
    /\ UNCHANGED <<enabled, deleted, tripped, req, exch, early, today, overlapped, lost, late>>

\* The date changes in Shanghai.
Midnight ==
    /\ early' \in BOOLEAN
    /\ req' = [r \in Requests |-> [req[r] EXCEPT !.today = FALSE]]
    /\ today' = {}
    /\ UNCHANGED <<enabled, deleted, tripped, exch, rows, overlapped, lost, late>>

\* The day of _daily_filled begins, in the zone of the session.
DayBegins ==
    /\ early /\ early' = FALSE
    /\ UNCHANGED <<enabled, deleted, tripped, req, exch, rows, today, overlapped, lost, late>>

Serve(r) ==
    \/ Receive(r) \/ CheckBreaker(r) \/ Refuse(r) \/ CheckLimit(r)
    \/ CheckCount(r) \/ CheckDuplicate(r) \/ Send(r) \/ SendFails(r) \/ Record(r) \/ RecordFails(r)
    \/ CancelAtExchange(r) \/ MarkCancelled(r) \/ MarkFails(r)

LiveNext ==
    \/ SwitchConfig \/ DeleteConfig \/ ResetBreaker \/ Fill \/ RowAges
    \/ Midnight \/ DayBegins
    \/ \E p \in Procs : Restart(p)
    \/ \E r \in Requests : Serve(r)

LiveSpec == LiveInit /\ [][LiveNext]_liveVars

-----------------------------------------------------------------------------
\* The check of the daily limit and the row that counts are a round trip to
\* the exchange apart: the filled orders that _daily_filled admits to a day
\* exceed the limit by less than the number of requests that can be on that way
\* together.  Orders placed after midnight and before the day of the filter
\* begins are excepted: no limit holds for them, then or later that day.
OvershootBounded ==
    Cardinality(DailyFilled) + Cardinality({r \in Requests : Passed(r)})
        < MaxDaily + Cardinality(Requests)

\* is_enabled is read before three round trips, and the deletion of the
\* configuration stops nobody: yet after trading is switched off, no more
\* orders reach the exchange than there are threads to have been under way.
LateOrdersBounded ==
    Cardinality(late) + Cardinality({r \in Requests : ~enabled /\ Ahead(r)}) <= Cardinality(Requests)

\* What a status that was once true leaves possible at the exchange.
Behind(status, order) ==
    /\ status = "new" => order # "none"
    /\ status = "partially_filled" => order \in {"partially_filled", "filled", "canceled"}
    /\ status = "filled" => order = "filled"
    /\ status = "cancelled" => order = "canceled"

\* A row is never ahead of its order: what it says of the exchange is true or
\* was, and an order that the row calls cancelled is dead.
RowsBehind == \A i \in Ids : Behind(rows[i].status, exch[i])

\* As long as order requests come one by one and every accepted order gets its
\* row, no two orders of the same instrument and side are ever both less than
\* 60 seconds old.
NoDuplicates ==
    ~overlapped /\ lost = {} => \A k \in Keys : Cardinality(Duplicates(k)) <= 1

\* The requests that have an order of the exchange in hand and will write its row.
Recorders(i) == {r \in Requests : req[r].pc = "recording" /\ req[r].id = i}

\* No order goes astray unseen: as long as the configuration is there, an order
\* that the exchange has accepted has its row, or one request that will write
\* it, or its reply, its commit or its process is known to have failed; and
\* never two of these.
OrdersAccounted ==
    ~deleted => \A i \in Ids :
        /\ exch[i] # "none" => rows[i].status # "none" \/ i \in lost \/ Recorders(i) # {}
        /\ rows[i].status # "none" => i \notin lost /\ Recorders(i) = {}
        /\ i \in lost => Recorders(i) = {}

\* What may become of a row: nothing, or an open one is cancelled.
Advances(old, new) == new = old \/ old = "none" \/ (old \in Open /\ new = "cancelled")

\* A row is written once and then only ever cancelled, whatever requests
\* overlap: no late reply brings a cancelled order back, no cancellation
\* overwrites a fill, and rows that went with the configuration stay away.
RowsAdvance ==
    [][ \A i \in Ids :
          IF deleted' THEN rows'[i] = NoRow
          ELSE Advances(rows[i].status, rows'[i].status) ]_liveVars
=============================================================================
