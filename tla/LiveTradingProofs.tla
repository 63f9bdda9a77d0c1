-------------------------- MODULE LiveTradingProofs --------------------------
(***************************************************************************)
(* Rows are never ahead of the exchange and never go back, every accepted  *)
(* order is accounted for, and concurrent requests overshoot the daily     *)
(* limit by less than their number: for any number of requests, processes, *)
(* keys and orders, and any limit.                                         *)
(***************************************************************************)
EXTENDS LiveTrading, FiniteSetTheorems, TLAPS

\* A request knows its process; one about to write a row knows its order, and
\* what it is going to write is behind the exchange already.
InFlight(r) ==
    /\ req[r].pc # "idle" => req[r].proc \in Procs
    /\ req[r].pc = "recording" =>
        /\ req[r].id \in Ids /\ req[r].reply \in Accepted
        /\ Behind(req[r].reply, exch[req[r].id])
    /\ req[r].pc = "marking" => req[r].id \in Ids /\ exch[req[r].id] = "canceled"

LiveInv ==
    /\ LiveTypeOK
    /\ RowsBehind
    /\ \A r \in Requests : InFlight(r)

Orders == {"none", "canceled"} \cup Accepted

-----------------------------------------------------------------------------
LEMMA IdleRequest == Idle \in Request /\ Idle.pc = "idle"
  BY DEF Idle, Request

\* What the exchange does to an order keeps every status behind it.
LEMMA BehindStays ==
  ASSUME NEW st, NEW e, NEW f, Behind(st, e),
         e \in Open, f \in Counted \cup {"canceled"}
  PROVE  Behind(st, f)
  BY DEF Behind, Open, Counted

\* A step of one request that leaves the exchange, the rows and the breakers.
LEMMA RequestStep ==
  ASSUME LiveInv, NEW r \in Requests, NEW o \in Request,
         req' = [req EXCEPT ![r] = o],
         o.pc \notin {"recording", "marking"},
         o.pc # "idle" => o.proc \in Procs,
         UNCHANGED <<enabled, deleted, exch, rows, early, today, late>>,
         tripped' \subseteq Procs, overlapped' \in BOOLEAN, lost' \subseteq Ids
  PROVE  LiveInv'
  <1>1. req \in [Requests -> Request]
    BY DEF LiveInv, LiveTypeOK
  <1>2. LiveTypeOK'
    BY <1>1 DEF LiveInv, LiveTypeOK
  <1>3. RowsBehind'
    BY DEF LiveInv, RowsBehind
  <1>4. \A t \in Requests : InFlight(t)'
    BY <1>1 DEF LiveInv, InFlight
  <1> QED
    BY <1>2, <1>3, <1>4 DEF LiveInv

\* A request that ends has no obligations.
LEMMA DoneStep ==
  ASSUME LiveInv, NEW r \in Requests, Done(r),
         UNCHANGED <<enabled, deleted, exch, rows, early, today, late>>,
         tripped' \subseteq Procs, overlapped' \in BOOLEAN, lost' \subseteq Ids
  PROVE  LiveInv'
  BY IdleRequest, RequestStep DEF Done

LEMMA CheckStep ==
  ASSUME LiveInv, NEW r \in Requests,
         Receive(r) \/ CheckBreaker(r) \/ Refuse(r) \/ CheckLimit(r) \/ CheckCount(r) \/ CheckDuplicate(r)
  PROVE  LiveInv'
  <1>1. /\ req \in [Requests -> Request] /\ req[r] \in Request /\ InFlight(r)
        /\ tripped \subseteq Procs /\ overlapped \in BOOLEAN /\ lost \subseteq Ids
        /\ early \in BOOLEAN
    BY DEF LiveInv, LiveTypeOK
  <1>2. CASE Receive(r)
    <2>1. PICK p \in Procs, k \in Keys :
            req' = [req EXCEPT ![r] = [Idle EXCEPT !.pc = "quoting", !.proc = p, !.key = k,
                                                   !.today = ~early]]
      BY <1>2 DEF Receive
    <2> DEFINE o == [Idle EXCEPT !.pc = "quoting", !.proc = p, !.key = k, !.today = ~early]
    <2>2. o \in Request /\ o.pc = "quoting" /\ o.proc = p
      BY DEF Idle, Request
    <2>3. UNCHANGED <<enabled, deleted, tripped, exch, rows, early, today, lost, late>> /\ overlapped' \in BOOLEAN
      BY <1>1, <1>2 DEF Receive
    <2> HIDE DEF o
    <2> QED
      BY <1>1, <2>1, <2>2, <2>3, RequestStep DEF o
  <1>3. CASE CheckBreaker(r)
    <2> DEFINE o == [req[r] EXCEPT !.pc = "checking"]
    <2>1. req' = [req EXCEPT ![r] = o] /\ UNCHANGED <<enabled, deleted, tripped, exch, rows, early, today, overlapped, lost, late>>
          /\ req[r].pc = "quoting"
      BY <1>1, <1>3 DEF CheckBreaker
    <2>2. o \in Request /\ o.pc = "checking" /\ o.proc \in Procs
      BY <1>1, <2>1 DEF Request, InFlight
    <2> HIDE DEF o
    <2> QED
      BY <1>1, <2>1, <2>2, RequestStep
  <1>4. CASE Refuse(r)
    BY <1>1, <1>4, DoneStep DEF Refuse
  <1>5. CASE CheckLimit(r)
    <2>1. tripped' \subseteq Procs
      BY <1>1, <1>5 DEF CheckLimit, InFlight
    <2> QED
      BY <1>1, <1>5, <2>1, DoneStep DEF CheckLimit
  <1>6. CASE CheckCount(r) \/ (CheckDuplicate(r) /\ ~Done(r))
    <2>1. PICK c \in {"counted", "sending"} : req' = [req EXCEPT ![r].pc = c]
      BY <1>6 DEF CheckCount, CheckDuplicate
    <2> DEFINE o == [req[r] EXCEPT !.pc = c]
    <2>2. req' = [req EXCEPT ![r] = o] /\ req[r].pc \in {"checking", "counted"}
          /\ UNCHANGED <<enabled, deleted, tripped, exch, rows, early, today, overlapped, lost, late>>
      BY <1>1, <1>6, <2>1 DEF CheckCount, CheckDuplicate
    <2>3. o \in Request /\ o.pc = c /\ o.proc \in Procs
      BY <1>1, <2>2 DEF Request, InFlight
    <2> HIDE DEF o
    <2> QED
      BY <1>1, <2>2, <2>3, RequestStep
  <1>7. CASE CheckDuplicate(r) /\ Done(r)
    BY <1>1, <1>7, DoneStep DEF CheckDuplicate
  <1> QED
    BY <1>2, <1>3, <1>4, <1>5, <1>6, <1>7

\* The reply is behind the order from the moment it is given.
LEMMA SendStep ==
  ASSUME LiveInv, NEW r \in Requests, Send(r)
  PROVE  LiveInv'
  <1>1. /\ req \in [Requests -> Request] /\ req[r] \in Request /\ InFlight(r)
        /\ exch \in [Ids -> Orders] /\ rows \in [Ids -> Row] /\ req[r].pc = "sending"
    BY DEF LiveInv, LiveTypeOK, Orders, Send
  <1>2. PICK i \in Ids, s \in Accepted :
          /\ exch[i] = "none" /\ exch' = [exch EXCEPT ![i] = s]
          /\ today' = IF req[r].today THEN today \cup {i} ELSE today
          /\ late' = IF enabled THEN late ELSE late \cup {i}
          /\ \/ /\ req' = [req EXCEPT ![r].pc = "recording", ![r].id = i, ![r].reply = s]
                /\ UNCHANGED lost
             \/ Done(r) /\ lost' = lost \cup {i}
    BY DEF Send
  <1> DEFINE o == [req[r] EXCEPT !.pc = "recording", !.id = i, !.reply = s]
  <1>3. PICK n \in {o, Idle} : req' = [req EXCEPT ![r] = n]
    BY <1>1, <1>2 DEF Done
  <1>4. n \in Request /\ (n.pc = "idle" \/
                          (n.pc = "recording" /\ n.proc \in Procs /\ n.id = i /\ n.reply = s))
    <2>1. o \in Request /\ o.pc = "recording" /\ o.proc \in Procs /\ o.id = i /\ o.reply = s
      BY <1>1 DEF Request, InFlight
    <2> HIDE DEF o
    <2> QED
      BY <1>3, <2>1, IdleRequest
  <1>5. exch' \in [Ids -> Orders] /\ exch'[i] = s
        /\ \A j \in Ids \ {i} : exch'[j] = exch[j]
    BY <1>1, <1>2 DEF Orders
  <1>6. Behind(s, s)
    BY DEF Behind, Accepted, Open
  <1>7. LiveTypeOK'
    BY <1>1, <1>2, <1>3, <1>4, <1>5 DEF LiveInv, LiveTypeOK, Orders, Send
  <1>8. RowsBehind'
    <2>1. ASSUME NEW j \in Ids PROVE Behind(rows[j].status, exch'[j])
      <3>1. Behind(rows[j].status, exch[j])
        BY DEF LiveInv, RowsBehind
      <3>2. rows[j].status \in {"none", "cancelled"} \cup Accepted
        BY <1>1 DEF Row
      <3> QED
        BY <1>2, <1>5, <3>1, <3>2 DEF Behind, Accepted, Open
    <2> QED
      BY <2>1 DEF RowsBehind, Send
  <1>9. ASSUME NEW t \in Requests PROVE InFlight(t)'
    <2>1. CASE t = r
      BY <1>1, <1>3, <1>4, <1>5, <1>6, <2>1 DEF InFlight
    <2>2. CASE t # r
      <3>1. req'[t] = req[t] /\ InFlight(t) /\ req[t] \in Request
        BY <1>1, <1>3, <2>2 DEF LiveInv
      <3>2. req[t].pc = "recording" => exch[req[t].id] # "none"
        BY <3>1 DEF InFlight, Behind, Accepted, Open
      <3> QED
        BY <1>2, <1>5, <3>1, <3>2 DEF InFlight
    <2> QED
      BY <2>1, <2>2
  <1> QED
    BY <1>7, <1>8, <1>9 DEF LiveInv

\* Steps that end a request and may write its row: of one order, a status that
\* is behind it.
LEMMA WriteStep ==
  ASSUME LiveInv, NEW r \in Requests, Record(r) \/ MarkCancelled(r)
  PROVE  LiveInv'
  <1>1. /\ req \in [Requests -> Request] /\ req[r] \in Request /\ InFlight(r)
        /\ rows \in [Ids -> Row]
    BY DEF LiveInv, LiveTypeOK
  <1>2. Done(r) /\ UNCHANGED <<enabled, deleted, tripped, exch, early, today, overlapped, lost, late>>
    BY DEF Record, MarkCancelled
  <1>3. PICK i \in Ids, row \in Row :
          rows' = [rows EXCEPT ![i] = row] /\ Behind(row.status, exch[i])
    <2>1. CASE Record(r)
      <3>1. PICK y \in BOOLEAN :
              rows' = [rows EXCEPT ![req[r].id] = [status |-> req[r].reply, key |-> req[r].key, young |-> y]]
        BY <2>1 DEF Record
      <3> DEFINE row == [status |-> req[r].reply, key |-> req[r].key, young |-> y]
      <3>2. /\ req[r].id \in Ids /\ req[r].reply \in Accepted
            /\ Behind(req[r].reply, exch[req[r].id])
        BY <1>1, <2>1 DEF Record, InFlight
      <3>3. row \in Row /\ row.status = req[r].reply
        BY <1>1, <3>2 DEF Row, Request
      <3> HIDE DEF row
      <3> QED
        BY <3>1, <3>2, <3>3 DEF row
    <2>2. CASE MarkCancelled(r)
      <3>1. req[r].id \in Ids /\ exch[req[r].id] = "canceled"
        BY <1>1, <2>2 DEF MarkCancelled, InFlight
      <3> DEFINE row == [rows[req[r].id] EXCEPT !.status = "cancelled"]
      <3>2. row \in Row /\ row.status = "cancelled"
        BY <1>1, <3>1 DEF Row
      <3>3. rows' = [rows EXCEPT ![req[r].id] = row]
        BY <1>1, <2>2, <3>1 DEF MarkCancelled, Row
      <3>4. Behind("cancelled", exch[req[r].id])
        BY <3>1 DEF Behind
      <3> HIDE DEF row
      <3> QED
        BY <3>1, <3>2, <3>3, <3>4
    <2> QED
      BY <2>1, <2>2
  <1>4. req' \in [Requests -> Request] /\ req'[r].pc = "idle"
        /\ \A t \in Requests \ {r} : req'[t] = req[t]
    BY <1>1, <1>2, IdleRequest DEF Done
  <1>5. LiveTypeOK'
    BY <1>1, <1>2, <1>3, <1>4 DEF LiveInv, LiveTypeOK
  <1>6. RowsBehind'
    BY <1>1, <1>2, <1>3 DEF LiveInv, RowsBehind
  <1>7. \A t \in Requests : InFlight(t)'
    BY <1>2, <1>4 DEF LiveInv, InFlight
  <1> QED
    BY <1>5, <1>6, <1>7 DEF LiveInv

\* The exchange fills or cancels one open order.
LEMMA OrderStep ==
  ASSUME LiveInv, NEW i \in Ids, exch[i] \in Open, NEW s \in Counted \cup {"canceled"},
         exch' = [exch EXCEPT ![i] = s],
         UNCHANGED <<enabled, deleted, tripped, rows, early, today, overlapped, lost, late>>,
         req' \in [Requests -> Request],
         \A t \in Requests : req'[t] # req[t] =>
            /\ req'[t].pc = "marking" /\ s = "canceled"
            /\ req'[t].proc \in Procs /\ req'[t].id = i
  PROVE  LiveInv'
  <1>1. /\ req \in [Requests -> Request] /\ exch \in [Ids -> Orders]
    BY DEF LiveInv, LiveTypeOK, Orders
  <1>2. /\ exch' \in [Ids -> Orders] /\ exch'[i] = s
        /\ \A j \in Ids \ {i} : exch'[j] = exch[j]
    BY <1>1 DEF Orders, Accepted, Counted, Open
  <1>3. \A j \in Ids : \A st : Behind(st, exch[j]) => Behind(st, exch'[j])
    BY <1>2, BehindStays
  <1>6. LiveTypeOK'
    BY <1>2 DEF LiveInv, LiveTypeOK, Orders
  <1>7. RowsBehind'
    BY <1>3 DEF LiveInv, RowsBehind
  <1>8. ASSUME NEW t \in Requests PROVE InFlight(t)'
    <2>1. CASE req'[t] = req[t]
      <3>1. InFlight(t)
        BY DEF LiveInv
      <3>2. req[t].pc = "marking" => req[t].id # i
        BY <3>1 DEF InFlight, Open
      <3> QED
        BY <1>2, <1>3, <2>1, <3>1, <3>2 DEF InFlight
    <2>2. CASE req'[t] # req[t]
      BY <1>2, <2>2 DEF InFlight
    <2> QED
      BY <2>1, <2>2
  <1> QED
    BY <1>6, <1>7, <1>8 DEF LiveInv

\* The administrator, the processes and the clock.
LEMMA WorldStep ==
  ASSUME LiveInv,
         SwitchConfig \/ DeleteConfig \/ ResetBreaker \/ RowAges \/ Midnight \/ DayBegins \/ \E p \in Procs : Restart(p)
  PROVE  LiveInv'
  <1>1. /\ req \in [Requests -> Request] /\ rows \in [Ids -> Row]
        /\ enabled \in BOOLEAN /\ deleted \in BOOLEAN /\ tripped \subseteq Procs
        /\ early \in BOOLEAN /\ today \subseteq Ids /\ late \subseteq Ids /\ overlapped \in BOOLEAN /\ lost \subseteq Ids
        /\ \A r \in Requests : InFlight(r)
    BY DEF LiveInv, LiveTypeOK
  <1>2. exch' = exch /\ enabled' \in BOOLEAN /\ deleted' \in BOOLEAN /\ tripped' \subseteq Procs
        /\ early' \in BOOLEAN /\ today' \subseteq Ids /\ late' \subseteq Ids /\ overlapped' \in BOOLEAN
    BY <1>1 DEF SwitchConfig, DeleteConfig, ResetBreaker, RowAges, Midnight, DayBegins, Restart
  <1>2a. lost' \subseteq Ids
    <2>1. ASSUME NEW p \in Procs, Restart(p) PROVE lost' \subseteq Ids
      <3>1. \A r \in AtProc(p) : req[r].pc = "recording" => req[r].id \in Ids
        BY <1>1 DEF AtProc, InFlight
      <3> QED
        BY <1>1, <2>1, <3>1 DEF Restart
    <2> QED
      BY <1>1, <2>1 DEF SwitchConfig, DeleteConfig, ResetBreaker, RowAges, Midnight, DayBegins
  <1>3. rows' \in [Ids -> Row] /\ \A i \in Ids : rows'[i].status \in {rows[i].status, "none"}
    <2>1. CASE RowAges
      <3>1. PICK i \in Ids : rows' = [rows EXCEPT ![i].young = FALSE]
        BY <2>1 DEF RowAges
      <3> QED
        BY <1>1, <3>1 DEF Row
    <2>2. CASE DeleteConfig
      BY <2>2 DEF DeleteConfig, NoRow, Row
    <2> QED
      BY <1>1, <2>1, <2>2 DEF SwitchConfig, ResetBreaker, Midnight, DayBegins, Restart
  <1>4. req' \in [Requests -> Request]
        /\ \A t \in Requests : req'[t].pc = "idle" \/
             /\ req'[t].pc = req[t].pc /\ req'[t].proc = req[t].proc
             /\ req'[t].id = req[t].id /\ req'[t].reply = req[t].reply
    <2>1. CASE Midnight
      <3>1. req' = [r \in Requests |-> [req[r] EXCEPT !.today = FALSE]]
        BY <2>1 DEF Midnight
      <3>2. ASSUME NEW t \in Requests
            PROVE  /\ req'[t] \in Request
                   /\ req'[t].pc = req[t].pc /\ req'[t].proc = req[t].proc
                   /\ req'[t].id = req[t].id /\ req'[t].reply = req[t].reply
        BY <1>1, <3>1 DEF Request
      <3> QED
        BY <3>1, <3>2
    <2>2. ASSUME NEW p \in Procs, Restart(p) PROVE <1>4!:
      BY <1>1, <2>2, IdleRequest DEF Restart
    <2>3. CASE SwitchConfig \/ DeleteConfig \/ ResetBreaker \/ RowAges \/ DayBegins
      BY <1>1, <2>3 DEF SwitchConfig, DeleteConfig, ResetBreaker, RowAges, DayBegins
    <2> QED
      BY <2>1, <2>2, <2>3
  <1>5. LiveTypeOK'
    BY <1>2, <1>2a, <1>3, <1>4 DEF LiveInv, LiveTypeOK
  <1>6. RowsBehind'
    BY <1>2, <1>3 DEF LiveInv, RowsBehind, Behind
  <1>7. \A t \in Requests : InFlight(t)'
    BY <1>2, <1>4 DEF LiveInv, InFlight
  <1> QED
    BY <1>5, <1>6, <1>7 DEF LiveInv

\* Every step keeps the invariant.
LEMMA LiveStep == LiveInv /\ [LiveNext]_liveVars => LiveInv'
  <1> SUFFICES ASSUME LiveInv, [LiveNext]_liveVars PROVE LiveInv'
    OBVIOUS
  <1>1. CASE SwitchConfig \/ DeleteConfig \/ ResetBreaker \/ RowAges \/ Midnight \/ DayBegins \/ \E p \in Procs : Restart(p)
    BY <1>1, WorldStep
  <1>2. CASE Fill
    <2>1. PICK i \in Ids, s \in Counted : exch[i] \in Open /\ exch' = [exch EXCEPT ![i] = s]
      BY <1>2 DEF Fill
    <2>2. req' = req /\ req \in [Requests -> Request]
          /\ UNCHANGED <<enabled, deleted, tripped, rows, early, today, overlapped, lost, late>>
      BY <1>2 DEF Fill, LiveInv, LiveTypeOK
    <2> QED
      BY <2>1, <2>2, OrderStep
  <1>3. ASSUME NEW r \in Requests, Serve(r) PROVE LiveInv'
    <2>1. CASE Receive(r) \/ CheckBreaker(r) \/ Refuse(r) \/ CheckLimit(r) \/ CheckCount(r) \/ CheckDuplicate(r)
      BY <2>1, CheckStep
    <2>2. CASE Send(r)
      BY <2>2, SendStep
    <2>3. CASE Record(r) \/ MarkCancelled(r)
      BY <2>3, WriteStep
    <2>4. CASE SendFails(r) \/ RecordFails(r) \/ MarkFails(r)
      <3>1. Done(r) /\ UNCHANGED <<enabled, deleted, tripped, exch, rows, early, today, late>>
            /\ tripped' \subseteq Procs /\ overlapped' \in BOOLEAN /\ lost' \subseteq Ids
        BY <2>4 DEF SendFails, RecordFails, MarkFails, LiveInv, LiveTypeOK, InFlight
      <3> QED
        BY <3>1, DoneStep
    <2>5. CASE CancelAtExchange(r)
      <3>1. PICK i \in Ids, p \in Procs :
              /\ exch[i] \in Open /\ exch' = [exch EXCEPT ![i] = "canceled"]
              /\ \/ req' = [req EXCEPT ![r] = [Idle EXCEPT !.pc = "marking", !.proc = p, !.id = i]]
                 \/ UNCHANGED req
        BY <2>5 DEF CancelAtExchange
      <3> DEFINE o == [Idle EXCEPT !.pc = "marking", !.proc = p, !.id = i]
      <3>2. o \in Request /\ o.pc = "marking" /\ o.proc = p /\ o.id = i
        BY DEF Idle, Request
      <3>3. req \in [Requests -> Request]
        BY DEF LiveInv, LiveTypeOK
      <3>4. (req' = req) \/ (req' = [req EXCEPT ![r] = o])
        BY <3>1
      <3> HIDE DEF o
      <3>5. /\ req' \in [Requests -> Request]
            /\ \A t \in Requests : req'[t] # req[t] =>
                  req'[t].pc = "marking" /\ req'[t].proc \in Procs /\ req'[t].id = i
        BY <3>2, <3>3, <3>4
      <3>6. UNCHANGED <<enabled, deleted, tripped, rows, early, today, overlapped, lost, late>>
        BY <2>5 DEF CancelAtExchange
      <3> QED
        BY <3>1, <3>5, <3>6, OrderStep
    <2> QED
      BY <1>3, <2>1, <2>2, <2>3, <2>4, <2>5 DEF Serve
  <1>4. CASE UNCHANGED liveVars
    BY <1>4 DEF liveVars, LiveInv, LiveTypeOK, RowsBehind, InFlight
  <1> QED
    BY <1>1, <1>2, <1>3, <1>4 DEF LiveNext

THEOREM LiveInvariant == LiveSpec => []LiveInv
  <1>1. LiveInit => LiveInv
    <2> SUFFICES ASSUME LiveInit PROVE LiveInv
      OBVIOUS
    <2>1. NoRow \in Row /\ NoRow.status = "none"
      BY DEF NoRow, Row
    <2>2. LiveTypeOK
      BY <2>1, IdleRequest DEF LiveInit, LiveTypeOK
    <2>3. RowsBehind
      BY <2>1 DEF LiveInit, RowsBehind, Behind
    <2>4. \A r \in Requests : InFlight(r)
      BY IdleRequest DEF LiveInit, InFlight
    <2> QED
      BY <2>2, <2>3, <2>4 DEF LiveInv
  <1> QED
    BY <1>1, LiveStep, PTL DEF LiveSpec

\* The state of every thread, order and row has the type the code gives it.
THEOREM LiveTypes == LiveSpec => []LiveTypeOK
  <1>1. LiveInv => LiveTypeOK
    BY DEF LiveInv
  <1> QED
    BY <1>1, LiveInvariant, PTL

\* What a row says was true of its order once, whatever replies were lost and
\* whatever fills, cancellations and restarts came in between.
THEOREM RowsAreBehind == LiveSpec => []RowsBehind
  <1>1. LiveInv => RowsBehind
    BY DEF LiveInv
  <1> QED
    BY <1>1, LiveInvariant, PTL

-----------------------------------------------------------------------------
(* The daily limit.                                                        *)

PassedRequests == {r \in Requests : Passed(r)}

\* Nothing new is counted and nobody new has passed.
LEMMA NothingPassed ==
  ASSUME LiveInv, LiveInv', OvershootBounded,
         DailyFilled' \subseteq DailyFilled, PassedRequests' \subseteq PassedRequests
  PROVE  OvershootBounded'
  <1>1. IsFiniteSet(DailyFilled) /\ IsFiniteSet(PassedRequests)
    BY LiveAssumption, FS_Subset DEF DailyFilled, PassedRequests, LiveInv, LiveTypeOK
  <1>2. /\ Cardinality(DailyFilled') <= Cardinality(DailyFilled)
        /\ Cardinality(PassedRequests') <= Cardinality(PassedRequests)
        /\ IsFiniteSet(DailyFilled') /\ IsFiniteSet(PassedRequests')
    BY <1>1, FS_Subset
  <1>3. /\ Cardinality(DailyFilled) \in Nat /\ Cardinality(PassedRequests) \in Nat
        /\ Cardinality(DailyFilled') \in Nat /\ Cardinality(PassedRequests') \in Nat
        /\ Cardinality(Requests) \in Nat /\ MaxDaily \in Nat
    BY <1>1, <1>2, FS_CardinalityType, LiveAssumption
  <1>4. Cardinality(DailyFilled) + Cardinality(PassedRequests) < MaxDaily + Cardinality(Requests)
    BY DEF OvershootBounded, PassedRequests
  <1>5. Cardinality(DailyFilled') + Cardinality(PassedRequests') < MaxDaily + Cardinality(Requests)
    BY <1>2, <1>3, <1>4
  <1> QED
    BY <1>5 DEF OvershootBounded, PassedRequests

\* A request passes while less than the limit is counted, and not more than
\* all requests have passed.
LEMMA PassingStep ==
  ASSUME LiveInv, NEW r \in Requests, CheckCount(r)
  PROVE  OvershootBounded'
  <1>1. DailyFilled' = DailyFilled /\ Cardinality(DailyFilled) < MaxDaily
    BY DEF CheckCount, DailyFilled
  <1>2. IsFiniteSet(DailyFilled) /\ IsFiniteSet(PassedRequests')
        /\ Cardinality(PassedRequests') <= Cardinality(Requests)
    BY LiveAssumption, FS_Subset DEF DailyFilled, PassedRequests, LiveInv, LiveTypeOK
  <1>3. Cardinality(DailyFilled) \in Nat /\ Cardinality(PassedRequests') \in Nat
        /\ Cardinality(Requests) \in Nat /\ MaxDaily \in Nat
    BY <1>2, FS_CardinalityType, LiveAssumption
  <1>4. Cardinality(DailyFilled') + Cardinality(PassedRequests') < MaxDaily + Cardinality(Requests)
    BY <1>1, <1>2, <1>3
  <1> QED
    BY <1>4 DEF OvershootBounded, PassedRequests

\* A request that writes its row counts once where it had passed before.
LEMMA RecordingStep ==
  ASSUME LiveInv, OvershootBounded, NEW r \in Requests, Record(r)
  PROVE  OvershootBounded'
  <1>1. /\ req \in [Requests -> Request] /\ rows \in [Ids -> Row] /\ today \subseteq Ids
        /\ req[r].id \in Ids /\ req[r].pc = "recording"
    BY DEF LiveInv, LiveTypeOK, InFlight, Record
  <1> DEFINE i == req[r].id
  <1>2. DailyFilled' \subseteq DailyFilled \cup {i}
    BY <1>1 DEF Record, DailyFilled
  <1>3. PassedRequests' = PassedRequests \ {r} /\ r \in PassedRequests
    BY <1>1, IdleRequest DEF Record, Done, PassedRequests, Passed
  <1>4. IsFiniteSet(DailyFilled) /\ IsFiniteSet(PassedRequests)
    BY LiveAssumption, FS_Subset DEF DailyFilled, PassedRequests, LiveInv, LiveTypeOK
  <1>5. /\ IsFiniteSet(DailyFilled')
        /\ Cardinality(DailyFilled') <= Cardinality(DailyFilled) + 1
    <2>1. IsFiniteSet(DailyFilled \cup {i})
          /\ Cardinality(DailyFilled \cup {i}) \in {Cardinality(DailyFilled), Cardinality(DailyFilled) + 1}
      BY <1>4, FS_AddElement
    <2>2. IsFiniteSet(DailyFilled') /\ Cardinality(DailyFilled') <= Cardinality(DailyFilled \cup {i})
      BY <1>2, <2>1, FS_Subset
    <2>3. Cardinality(DailyFilled) \in Nat /\ Cardinality(DailyFilled') \in Nat
      BY <1>4, <2>2, FS_CardinalityType
    <2> QED
      BY <2>1, <2>2, <2>3
  <1>6. /\ IsFiniteSet(PassedRequests')
        /\ Cardinality(PassedRequests') = Cardinality(PassedRequests) - 1
    BY <1>3, <1>4, FS_RemoveElement
  <1>7. /\ Cardinality(DailyFilled) \in Nat /\ Cardinality(PassedRequests) \in Nat
        /\ Cardinality(DailyFilled') \in Nat /\ Cardinality(PassedRequests') \in Nat
        /\ Cardinality(Requests) \in Nat /\ MaxDaily \in Nat
    BY <1>4, <1>5, <1>6, FS_CardinalityType, LiveAssumption
  <1>8. Cardinality(DailyFilled) + Cardinality(PassedRequests) < MaxDaily + Cardinality(Requests)
    BY DEF OvershootBounded, PassedRequests
  <1>9. Cardinality(DailyFilled') + Cardinality(PassedRequests') < MaxDaily + Cardinality(Requests)
    BY <1>5, <1>6, <1>7, <1>8
  <1> QED
    BY <1>9 DEF OvershootBounded, PassedRequests

\* Concurrent requests overshoot the daily limit by less than their number.
THEOREM Overshoot == LiveSpec => []OvershootBounded
  <1>1. LiveInit => OvershootBounded
    <2> SUFFICES ASSUME LiveInit PROVE OvershootBounded
      OBVIOUS
    <2>1. DailyFilled = {} /\ {r \in Requests : Passed(r)} = {}
      BY IdleRequest DEF LiveInit, DailyFilled, Passed
    <2>2. Cardinality(Requests) \in Nat /\ MaxDaily \in Nat \ {0}
      BY LiveAssumption, FS_CardinalityType
    <2>3. Cardinality({}) = 0
      BY FS_EmptySet
    <2> QED
      BY <2>1, <2>2, <2>3 DEF OvershootBounded
  <1>2. LiveInv /\ LiveInv' /\ OvershootBounded /\ [LiveNext]_liveVars => OvershootBounded'
    <2> SUFFICES ASSUME LiveInv, LiveInv', OvershootBounded, [LiveNext]_liveVars
                 PROVE  OvershootBounded'
      OBVIOUS
    <2>1. /\ req \in [Requests -> Request] /\ rows \in [Ids -> Row] /\ today \subseteq Ids
          /\ exch \in [Ids -> Orders]
      BY DEF LiveInv, LiveTypeOK, Orders
    <2>2. CASE SwitchConfig \/ ResetBreaker \/ RowAges \/ Midnight \/ DayBegins \/ Fill \/ UNCHANGED liveVars
      <3>1. DailyFilled' \subseteq DailyFilled
        <4>1. \A i \in today' : i \in today /\ rows'[i].status = rows[i].status
          <5>1. CASE RowAges
            BY <2>1, <5>1 DEF RowAges, Row
          <5> QED
            BY <2>1, <2>2, <5>1
               DEF SwitchConfig, ResetBreaker, Midnight, DayBegins, Fill, liveVars
        <4> QED
          BY <4>1 DEF DailyFilled
      <3>2. PassedRequests' \subseteq PassedRequests
        <4>1. \A t \in Requests : req'[t].pc = req[t].pc
          BY <2>1, <2>2 DEF SwitchConfig, ResetBreaker, RowAges, Midnight, DayBegins, Fill, liveVars, Request
        <4> QED
          BY <4>1 DEF PassedRequests, Passed
      <3> QED
        BY <3>1, <3>2, NothingPassed
    <2>3. ASSUME NEW p \in Procs, Restart(p) PROVE OvershootBounded'
      <3>1. DailyFilled' \subseteq DailyFilled /\ PassedRequests' \subseteq PassedRequests
        BY <2>1, <2>3, IdleRequest DEF Restart, DailyFilled, PassedRequests, Passed
      <3> QED
        BY <3>1, NothingPassed
    <2>4. ASSUME NEW r \in Requests, Serve(r) PROVE OvershootBounded'
      <3>1. CASE CheckCount(r)
        BY <3>1, PassingStep
      <3>2. CASE Record(r)
        BY <3>2, RecordingStep
      <3>3. CASE Send(r)
        <4>1. PICK i \in Ids, s \in Accepted :
                /\ exch[i] = "none"
                /\ today' = IF req[r].today THEN today \cup {i} ELSE today
                /\ \/ req' = [req EXCEPT ![r].pc = "recording", ![r].id = i, ![r].reply = s]
                   \/ Done(r)
          BY <3>3 DEF Send
        <4>2. rows[i].status \notin Counted /\ rows' = rows
          BY <3>3, <4>1 DEF LiveInv, RowsBehind, Behind, Counted, Send
        <4>3. DailyFilled' \subseteq DailyFilled
          BY <4>1, <4>2 DEF DailyFilled
        <4>4. PassedRequests' \subseteq PassedRequests
          BY <2>1, <3>3, <4>1, IdleRequest DEF Done, Send, PassedRequests, Passed
        <4> QED
          BY <4>3, <4>4, NothingPassed
      <3>4. CASE Receive(r) \/ CheckBreaker(r) \/ CancelAtExchange(r)
        <4>1. rows' = rows /\ today' = today
          BY <3>4 DEF Receive, CheckBreaker, CancelAtExchange
        <4>2. req'[r].pc \notin {"counted", "sending", "recording"} /\ \A t \in Requests \ {r} : req'[t] = req[t]
          <5>1. CASE Receive(r)
            <6>1. PICK p \in Procs, k \in Keys :
                    req' = [req EXCEPT ![r] = [Idle EXCEPT !.pc = "quoting", !.proc = p, !.key = k,
                                                           !.today = ~early]]
              BY <5>1 DEF Receive
            <6> DEFINE o == [Idle EXCEPT !.pc = "quoting", !.proc = p, !.key = k, !.today = ~early]
            <6>2. o.pc = "quoting"
              BY DEF Idle
            <6> HIDE DEF o
            <6> QED
              BY <2>1, <6>1, <6>2 DEF o
          <5>2. CASE CheckBreaker(r)
            BY <2>1, <5>2 DEF CheckBreaker, Request
          <5>3. CASE CancelAtExchange(r)
            <6>1. PICK i \in Ids, p \in Procs :
                    \/ req' = [req EXCEPT ![r] = [Idle EXCEPT !.pc = "marking", !.proc = p, !.id = i]]
                    \/ UNCHANGED req
              BY <5>3 DEF CancelAtExchange
            <6> DEFINE o == [Idle EXCEPT !.pc = "marking", !.proc = p, !.id = i]
            <6>2. o.pc = "marking" /\ req[r].pc = "idle"
              BY <5>3 DEF Idle, CancelAtExchange
            <6>3. (req' = [req EXCEPT ![r] = o]) \/ (req' = req)
              BY <6>1
            <6> HIDE DEF o
            <6> QED
              BY <2>1, <6>2, <6>3
          <5> QED
            BY <3>4, <5>1, <5>2, <5>3
        <4>3. DailyFilled' \subseteq DailyFilled
          BY <4>1 DEF DailyFilled
        <4>4. PassedRequests' \subseteq PassedRequests
          BY <2>1, <3>4, <4>2 DEF PassedRequests, Passed, CancelAtExchange
        <4> QED
          BY <4>3, <4>4, NothingPassed
      <3>5. CASE Refuse(r) \/ CheckLimit(r) \/ SendFails(r) \/ RecordFails(r) \/ MarkFails(r)
        <4>1. Done(r) /\ rows' = rows /\ today' = today
          BY <3>5 DEF Refuse, CheckLimit, SendFails, RecordFails, MarkFails
        <4>2. DailyFilled' \subseteq DailyFilled /\ PassedRequests' \subseteq PassedRequests
          BY <2>1, <4>1, IdleRequest DEF Done, DailyFilled, PassedRequests, Passed
        <4> QED
          BY <4>2, NothingPassed
      <3>6. CASE MarkCancelled(r)
        <4>1. /\ rows' = [rows EXCEPT ![req[r].id].status = "cancelled"]
              /\ Done(r) /\ today' = today
          BY <3>6 DEF MarkCancelled
        <4>2. \A i \in today : rows'[i].status \in {rows[i].status, "cancelled"}
          BY <2>1, <4>1 DEF Row
        <4>3. DailyFilled' \subseteq DailyFilled
          BY <4>1, <4>2 DEF DailyFilled, Counted
        <4>4. PassedRequests' \subseteq PassedRequests
          BY <2>1, <4>1, IdleRequest DEF Done, PassedRequests, Passed
        <4> QED
          BY <4>3, <4>4, NothingPassed
      <3>7. CASE CheckDuplicate(r)
        <4>1. rows' = rows /\ today' = today /\ req[r].pc = "counted"
              /\ \A t \in Requests \ {r} : req'[t] = req[t]
          BY <2>1, <3>7 DEF CheckDuplicate, Done
        <4>2. DailyFilled' \subseteq DailyFilled /\ PassedRequests' \subseteq PassedRequests
          BY <4>1 DEF DailyFilled, PassedRequests, Passed
        <4> QED
          BY <4>2, NothingPassed
      <3> QED
        BY <2>4, <3>1, <3>2, <3>3, <3>4, <3>5, <3>6, <3>7 DEF Serve
    <2>5. CASE DeleteConfig
      <3>1. DailyFilled' \subseteq DailyFilled
        BY <2>1, <2>5 DEF DeleteConfig, DailyFilled, NoRow, Counted
      <3>2. PassedRequests' \subseteq PassedRequests
        BY <2>5 DEF DeleteConfig, PassedRequests, Passed
      <3> QED
        BY <3>1, <3>2, NothingPassed
    <2> QED
      BY <2>2, <2>3, <2>4, <2>5 DEF LiveNext
  <1> QED
    BY <1>1, <1>2, LiveInvariant, PTL DEF LiveSpec

-----------------------------------------------------------------------------
(* Switching off.                                                          *)

AheadRequests == {r \in Requests : ~enabled /\ Ahead(r)}

\* With trading on nothing is late, and nobody counts as ahead.
LateInv ==
    /\ enabled => late = {}
    /\ LateOrdersBounded

\* Nothing is sent, and nobody new is ahead.
LEMMA NothingAhead ==
  ASSUME LiveInv, LateInv, late' \subseteq late, AheadRequests' \subseteq AheadRequests,
         enabled' => late' = {}
  PROVE  LateInv'
  <1>1. IsFiniteSet(late) /\ IsFiniteSet(AheadRequests)
    BY LiveAssumption, FS_Subset DEF AheadRequests, LiveInv, LiveTypeOK
  <1>2. /\ Cardinality(late') <= Cardinality(late)
        /\ Cardinality(AheadRequests') <= Cardinality(AheadRequests)
        /\ IsFiniteSet(late') /\ IsFiniteSet(AheadRequests')
    BY <1>1, FS_Subset
  <1>3. /\ Cardinality(late) \in Nat /\ Cardinality(AheadRequests) \in Nat
        /\ Cardinality(late') \in Nat /\ Cardinality(AheadRequests') \in Nat
        /\ Cardinality(Requests) \in Nat
    BY <1>1, <1>2, FS_CardinalityType, LiveAssumption
  <1>4. Cardinality(late) + Cardinality(AheadRequests) <= Cardinality(Requests)
    BY DEF LateInv, LateOrdersBounded, AheadRequests
  <1>5. Cardinality(late') + Cardinality(AheadRequests') <= Cardinality(Requests)
    BY <1>2, <1>3, <1>4
  <1> QED
    BY <1>5 DEF LateInv, LateOrdersBounded, AheadRequests

\* With nothing late the bound is the number of threads.
LEMMA NothingLate ==
  ASSUME late' = {}
  PROVE  LateInv'
  <1>1. IsFiniteSet(AheadRequests') /\ Cardinality(AheadRequests') <= Cardinality(Requests)
    BY LiveAssumption, FS_Subset DEF AheadRequests
  <1>2. Cardinality(AheadRequests') \in Nat /\ Cardinality(Requests) \in Nat
    BY <1>1, FS_CardinalityType, LiveAssumption
  <1>3. Cardinality(late') = 0
    BY FS_EmptySet
  <1> QED
    BY <1>1, <1>2, <1>3 DEF LateInv, LateOrdersBounded, AheadRequests

\* An order that goes out late is one that was ahead.
LEMMA LateSendStep ==
  ASSUME LiveInv, LateInv, NEW r \in Requests, Send(r)
  PROVE  LateInv'
  <1>1. req \in [Requests -> Request] /\ req[r].pc = "sending" /\ enabled' = enabled
    BY DEF LiveInv, LiveTypeOK, Send
  <1>2. PICK i \in Ids, s \in Accepted :
          /\ late' = IF enabled THEN late ELSE late \cup {i}
          /\ \/ req' = [req EXCEPT ![r].pc = "recording", ![r].id = i, ![r].reply = s]
             \/ Done(r)
    BY DEF Send
  <1>3. CASE enabled
    BY <1>2, <1>3, NothingLate DEF LateInv
  <1>4. CASE ~enabled
    <2>1. req'[r].pc \in {"recording", "idle"} /\ \A t \in Requests \ {r} : req'[t] = req[t]
      BY <1>1, <1>2, IdleRequest DEF Done, Request
    <2>2. AheadRequests' = AheadRequests \ {r} /\ r \in AheadRequests
      BY <1>1, <1>4, <2>1 DEF AheadRequests, Ahead
    <2>3. IsFiniteSet(late) /\ IsFiniteSet(AheadRequests)
      BY LiveAssumption, FS_Subset DEF AheadRequests, LiveInv, LiveTypeOK
    <2>4. /\ IsFiniteSet(AheadRequests')
          /\ Cardinality(AheadRequests') = Cardinality(AheadRequests) - 1
      BY <2>2, <2>3, FS_RemoveElement
    <2>5. /\ IsFiniteSet(late')
          /\ Cardinality(late') \in {Cardinality(late), Cardinality(late) + 1}
      BY <1>2, <1>4, <2>3, FS_AddElement
    <2>6. /\ Cardinality(late) \in Nat /\ Cardinality(AheadRequests) \in Nat
          /\ Cardinality(late') \in Nat /\ Cardinality(AheadRequests') \in Nat
          /\ Cardinality(Requests) \in Nat
      BY <2>3, <2>4, <2>5, FS_CardinalityType, LiveAssumption
    <2>7. Cardinality(late) + Cardinality(AheadRequests) <= Cardinality(Requests)
      BY DEF LateInv, LateOrdersBounded, AheadRequests
    <2>8. Cardinality(late') + Cardinality(AheadRequests') <= Cardinality(Requests)
      BY <2>4, <2>5, <2>6, <2>7
    <2> QED
      BY <1>1, <1>4, <2>8 DEF LateInv, LateOrdersBounded, AheadRequests
  <1> QED
    BY <1>3, <1>4

\* A request that was let in before trading was switched off may still send one
\* order, and none is let in afterwards, also not when the configuration is
\* deleted: place_order of live_trading.py, which reads is_enabled once.
THEOREM LateOrders == LiveSpec => []LateOrdersBounded
  <1>1. LiveInit => LateInv
    <2> SUFFICES ASSUME LiveInit PROVE LateInv
      OBVIOUS
    <2>1. late = {} /\ AheadRequests = {}
      BY IdleRequest DEF LiveInit, AheadRequests, Ahead
    <2>2. Cardinality(Requests) \in Nat /\ Cardinality({}) = 0
      BY LiveAssumption, FS_CardinalityType, FS_EmptySet
    <2> QED
      BY <2>1, <2>2 DEF LateInv, LateOrdersBounded, AheadRequests
  <1>2. LiveInv /\ LateInv /\ [LiveNext]_liveVars => LateInv'
    <2> SUFFICES ASSUME LiveInv, LateInv, [LiveNext]_liveVars PROVE LateInv'
      OBVIOUS
    <2>1. req \in [Requests -> Request]
      BY DEF LiveInv, LiveTypeOK
    <2>2. CASE SwitchConfig
      BY <2>2, NothingLate DEF SwitchConfig
    <2>3. CASE DeleteConfig
      <3>1. CASE enabled
        BY <2>3, <3>1, NothingLate DEF DeleteConfig, LateInv
      <3>2. CASE ~enabled
        <4>1. UNCHANGED <<late, req>> /\ ~enabled'
          BY <2>3 DEF DeleteConfig
        <4>2. AheadRequests' \subseteq AheadRequests
          BY <3>2, <4>1 DEF AheadRequests, Ahead
        <4> QED
          BY <4>1, <4>2, NothingAhead
      <3> QED
        BY <3>1, <3>2
    <2>4. CASE ResetBreaker \/ Fill \/ RowAges \/ Midnight \/ DayBegins \/ UNCHANGED liveVars
      <3>1. UNCHANGED <<enabled, late>> /\ \A t \in Requests : req'[t].pc = req[t].pc
        BY <2>1, <2>4 DEF ResetBreaker, Fill, RowAges, Midnight, DayBegins, liveVars, Request
      <3>2. AheadRequests' \subseteq AheadRequests
        BY <3>1 DEF AheadRequests, Ahead
      <3> QED
        BY <3>1, <3>2, NothingAhead DEF LateInv
    <2>5. ASSUME NEW p \in Procs, Restart(p) PROVE LateInv'
      <3>1. UNCHANGED <<enabled, late>> /\ \A t \in Requests : req'[t] \in {req[t], Idle}
        BY <2>5 DEF Restart
      <3>2. AheadRequests' \subseteq AheadRequests
        BY <3>1, IdleRequest DEF AheadRequests, Ahead
      <3> QED
        BY <3>1, <3>2, NothingAhead DEF LateInv
    <2>6. ASSUME NEW r \in Requests, Serve(r) PROVE LateInv'
      <3>1. CASE Send(r)
        BY <3>1, LateSendStep
      <3>2. CASE Receive(r)
        BY <3>2, NothingLate DEF Receive, LateInv
      <3>3. CASE CheckBreaker(r) \/ CheckCount(r) \/ CheckDuplicate(r)
        <4>1. /\ UNCHANGED <<enabled, late>> /\ Ahead(r)
              /\ \A t \in Requests \ {r} : req'[t] = req[t]
          BY <2>1, <3>3 DEF CheckBreaker, CheckCount, CheckDuplicate, Done, Ahead
        <4>2. AheadRequests' \subseteq AheadRequests
          BY <4>1 DEF AheadRequests, Ahead
        <4> QED
          BY <4>1, <4>2, NothingAhead DEF LateInv
      <3>4. CASE \/ Refuse(r) \/ CheckLimit(r) \/ SendFails(r) \/ Record(r) \/ RecordFails(r)
                 \/ MarkCancelled(r) \/ MarkFails(r)
        <4>1. Done(r) /\ UNCHANGED <<enabled, late>>
          BY <3>4 DEF Refuse, CheckLimit, SendFails, Record, RecordFails, MarkCancelled, MarkFails
        <4>2. AheadRequests' \subseteq AheadRequests
          BY <2>1, <4>1, IdleRequest DEF Done, AheadRequests, Ahead
        <4> QED
          BY <4>1, <4>2, NothingAhead DEF LateInv
      <3>5. CASE CancelAtExchange(r)
        <4>1. PICK i \in Ids, p \in Procs :
                \/ req' = [req EXCEPT ![r] = [Idle EXCEPT !.pc = "marking", !.proc = p, !.id = i]]
                \/ UNCHANGED req
          BY <3>5 DEF CancelAtExchange
        <4>2. UNCHANGED <<enabled, late>>
          BY <3>5 DEF CancelAtExchange
        <4> DEFINE o == [Idle EXCEPT !.pc = "marking", !.proc = p, !.id = i]
        <4>3. o.pc = "marking" /\ (req' = [req EXCEPT ![r] = o] \/ req' = req)
          BY <4>1 DEF Idle
        <4> HIDE DEF o
        <4>4. \A t \in Requests : req'[t] = req[t] \/ req'[t].pc = "marking"
          BY <2>1, <4>3
        <4>5. AheadRequests' \subseteq AheadRequests
          BY <4>2, <4>4 DEF AheadRequests, Ahead
        <4> QED
          BY <4>2, <4>5, NothingAhead DEF LateInv
      <3> QED
        BY <2>6, <3>1, <3>2, <3>3, <3>4, <3>5 DEF Serve
    <2> QED
      BY <2>2, <2>3, <2>4, <2>5, <2>6 DEF LiveNext
  <1>3. LateInv => LateOrdersBounded
    BY DEF LateInv
  <1> QED
    BY <1>1, <1>2, <1>3, LiveInvariant, PTL DEF LiveSpec

-----------------------------------------------------------------------------
(* Duplicates.                                                             *)

\* Rows that the duplicate check may find.
Fresh(i) == rows[i].status # "none" /\ rows[i].young

\* Requests have overlapped, or an order has no row.
Slipped == overlapped \/ lost # {}

\* Requests that the duplicate check has let pass.
Cleared(r) == req[r].pc \in {"sending", "recording"}

\* While requests come one by one, one that has passed the duplicate check
\* still finds what it found, until its own row is there.
DupInv ==
    /\ \A i \in Ids : rows[i].young => rows[i].status # "none"
    /\ ~Slipped =>
        /\ \A r, s \in Requests : Placing(r) /\ Placing(s) => r = s
        /\ \A r \in Requests : Cleared(r) => \A i \in Ids : Fresh(i) => rows[i].key # req[r].key
        /\ \A i, j \in Ids : Fresh(i) /\ Fresh(j) /\ rows[i].key = rows[j].key => i = j

\* No new row, no new request and no new pass.
LEMMA DupQuietStep ==
  ASSUME DupInv, rows' = rows, Slipped => Slipped',
         \A r \in Requests : Placing(r)' => Placing(r),
         \A r \in Requests : Cleared(r)' => Cleared(r) /\ req'[r].key = req[r].key
  PROVE  DupInv'
  <1>1. \A i \in Ids : Fresh(i)' = Fresh(i)
    BY DEF Fresh
  <1>2. (\A i \in Ids : rows[i].young => rows[i].status # "none")'
    BY DEF DupInv
  <1>3. ASSUME ~Slipped'
        PROVE  /\ \A r, s \in Requests : Placing(r)' /\ Placing(s)' => r = s
               /\ \A r \in Requests : Cleared(r)' => \A i \in Ids : Fresh(i)' => rows'[i].key # req'[r].key
               /\ \A i, j \in Ids : Fresh(i)' /\ Fresh(j)' /\ rows'[i].key = rows'[j].key => i = j
    <2>1. ~Slipped
      BY <1>3
    <2>2. \A r, s \in Requests : Placing(r)' /\ Placing(s)' => r = s
      BY <2>1 DEF DupInv
    <2>3. \A r \in Requests : Cleared(r)' => \A i \in Ids : Fresh(i)' => rows'[i].key # req'[r].key
      BY <1>1, <2>1 DEF DupInv
    <2>4. \A i, j \in Ids : Fresh(i)' /\ Fresh(j)' /\ rows'[i].key = rows'[j].key => i = j
      BY <1>1, <2>1 DEF DupInv
    <2> QED
      BY <2>2, <2>3, <2>4
  <1> QED
    BY <1>2, <1>3 DEF DupInv, Fresh

\* A request that ends, or goes on without passing.
LEMMA DupRequestStep ==
  ASSUME LiveInv, DupInv, NEW r \in Requests, NEW o \in Request,
         req' = [req EXCEPT ![r] = o], rows' = rows, Slipped => Slipped',
         o.pc \in {"idle", "marking"} \/ (Placing(r) /\ o.pc \in {"checking", "counted"})
           \/ (Cleared(r) /\ o.pc = "recording" /\ o.key = req[r].key)
  PROVE  DupInv'
  <1>1. req \in [Requests -> Request]
    BY DEF LiveInv, LiveTypeOK
  <1>2. req'[r] = o /\ \A t \in Requests \ {r} : req'[t] = req[t]
    BY <1>1
  <1>3. \A t \in Requests : Placing(t)' => Placing(t)
    BY <1>2 DEF Placing, Cleared
  <1>4. \A t \in Requests : Cleared(t)' => Cleared(t) /\ req'[t].key = req[t].key
    BY <1>2 DEF Placing, Cleared
  <1> QED
    BY <1>3, <1>4, DupQuietStep

LEMMA DupDoneStep ==
  ASSUME LiveInv, DupInv, NEW r \in Requests, Done(r), rows' = rows, Slipped => Slipped'
  PROVE  DupInv'
  BY IdleRequest, DupRequestStep DEF Done

\* The first request to arrive is alone, or the requests overlap.
LEMMA DupReceiveStep ==
  ASSUME LiveInv, DupInv, NEW r \in Requests, Receive(r)
  PROVE  DupInv'
  <1>1. req \in [Requests -> Request] /\ rows' = rows
    BY DEF LiveInv, LiveTypeOK, Receive
  <1>2. PICK p \in Procs, k \in Keys :
          req' = [req EXCEPT ![r] = [Idle EXCEPT !.pc = "quoting", !.proc = p, !.key = k,
                                                 !.today = ~early]]
    BY DEF Receive
  <1> DEFINE o == [Idle EXCEPT !.pc = "quoting", !.proc = p, !.key = k, !.today = ~early]
  <1>3. o.pc = "quoting"
    BY DEF Idle
  <1>4. req'[r].pc = "quoting" /\ \A t \in Requests \ {r} : req'[t] = req[t]
    <2>1. req' = [req EXCEPT ![r] = o]
      BY <1>2
    <2> HIDE DEF o
    <2> QED
      BY <1>1, <1>3, <2>1
  <1>5. Slipped' = (Slipped \/ \E s \in Requests : Placing(s))
    BY DEF Receive, Slipped
  <1>6. \A i \in Ids : Fresh(i)' = Fresh(i)
    BY <1>1 DEF Fresh
  <1>7. (\A i \in Ids : rows[i].young => rows[i].status # "none")'
    BY <1>1 DEF DupInv
  <1>8. ASSUME ~Slipped'
        PROVE  /\ \A t, s \in Requests : Placing(t)' /\ Placing(s)' => t = s
               /\ \A t \in Requests : Cleared(t)' => \A i \in Ids : Fresh(i)' => rows'[i].key # req'[t].key
               /\ \A i, j \in Ids : Fresh(i)' /\ Fresh(j)' /\ rows'[i].key = rows'[j].key => i = j
    <2>1. ~Slipped /\ \A s \in Requests : ~Placing(s)
      BY <1>5, <1>8
    <2>2. \A t \in Requests : Placing(t)' => t = r
      BY <1>4, <2>1 DEF Placing
    <2>3. \A t \in Requests : ~Cleared(t)'
      BY <1>4, <2>1 DEF Placing, Cleared
    <2>4. \A i, j \in Ids : Fresh(i)' /\ Fresh(j)' /\ rows'[i].key = rows'[j].key => i = j
      BY <1>1, <1>6, <2>1 DEF DupInv
    <2> QED
      BY <2>2, <2>3, <2>4
  <1> QED
    BY <1>7, <1>8 DEF DupInv, Fresh

\* A request passes when there is no duplicate.
LEMMA DupPassingStep ==
  ASSUME LiveInv, DupInv, NEW r \in Requests, CheckDuplicate(r)
  PROVE  DupInv'
  <1>1. req \in [Requests -> Request] /\ rows' = rows /\ Slipped' = Slipped /\ req[r].pc = "counted"
    BY DEF LiveInv, LiveTypeOK, CheckDuplicate, Slipped
  <1>2. CASE Duplicates(req[r].key) # {}
    <2>1. Done(r)
      BY <1>2 DEF CheckDuplicate
    <2> QED
      BY <1>1, <2>1, DupDoneStep
  <1>3. CASE Duplicates(req[r].key) = {}
    <2>1. req' = [req EXCEPT ![r].pc = "sending"]
      BY <1>3 DEF CheckDuplicate
    <2>2. /\ \A t \in Requests \ {r} : req'[t] = req[t]
          /\ req'[r].pc = "sending" /\ req'[r].key = req[r].key
      BY <1>1, <2>1 DEF Request
    <2>3. \A i \in Ids : Fresh(i)' = Fresh(i)
      BY <1>1 DEF Fresh
    <2>4. \A t \in Requests : Placing(t)' => Placing(t)
      BY <1>1, <2>2 DEF Placing
    <2>5. (\A i \in Ids : rows[i].young => rows[i].status # "none")'
      BY <1>1 DEF DupInv
    <2>6. ASSUME ~Slipped'
          PROVE  /\ \A t, s \in Requests : Placing(t)' /\ Placing(s)' => t = s
                 /\ \A t \in Requests : Cleared(t)' => \A i \in Ids : Fresh(i)' => rows'[i].key # req'[t].key
                 /\ \A i, j \in Ids : Fresh(i)' /\ Fresh(j)' /\ rows'[i].key = rows'[j].key => i = j
      <3>1. ~Slipped
        BY <1>1, <2>6
      <3>2. \A t, s \in Requests : Placing(t)' /\ Placing(s)' => t = s
        BY <2>4, <3>1 DEF DupInv
      <3>3. \A t \in Requests : Cleared(t)' => \A i \in Ids : Fresh(i)' => rows'[i].key # req'[t].key
        BY <1>1, <1>3, <2>2, <2>3, <3>1 DEF DupInv, Cleared, Duplicates, Fresh
      <3>4. \A i, j \in Ids : Fresh(i)' /\ Fresh(j)' /\ rows'[i].key = rows'[j].key => i = j
        BY <1>1, <2>3, <3>1 DEF DupInv
      <3> QED
        BY <3>2, <3>3, <3>4
    <2> QED
      BY <2>5, <2>6 DEF DupInv, Fresh
  <1> QED
    BY <1>2, <1>3

\* The row of the one request that has passed is the only young one of its key.
LEMMA DupRecordStep ==
  ASSUME LiveInv, DupInv, NEW r \in Requests, Record(r)
  PROVE  DupInv'
  <1>1. /\ req \in [Requests -> Request] /\ rows \in [Ids -> Row] /\ Slipped' = Slipped
        /\ Cleared(r) /\ Placing(r) /\ req[r].id \in Ids /\ req[r].reply \in Accepted
    BY DEF LiveInv, LiveTypeOK, Record, InFlight, Cleared, Placing, Slipped
  <1>2. PICK m \in Ids : m = req[r].id
    BY <1>1
  <1>3. PICK y \in BOOLEAN :
          rows' = [rows EXCEPT ![m] = [status |-> req[r].reply, key |-> req[r].key, young |-> y]]
    BY <1>2 DEF Record
  <1>4. /\ rows'[m].status # "none" /\ rows'[m].key = req[r].key
        /\ \A i \in Ids \ {m} : rows'[i] = rows[i]
    BY <1>1, <1>3 DEF Accepted, Open
  <1>5. \A i \in Ids \ {m} : Fresh(i)' = Fresh(i) /\ rows'[i].key = rows[i].key
    BY <1>4 DEF Fresh
  <1>6. /\ req'[r] = Idle /\ Idle.pc = "idle"
        /\ \A t \in Requests \ {r} : req'[t] = req[t]
    BY <1>1, IdleRequest DEF Record, Done
  <1>7. (\A i \in Ids : rows[i].young => rows[i].status # "none")'
    BY <1>4 DEF DupInv
  <1>8. ASSUME ~Slipped'
        PROVE  /\ \A t, s \in Requests : Placing(t)' /\ Placing(s)' => t = s
               /\ \A t \in Requests : Cleared(t)' => \A i \in Ids : Fresh(i)' => rows'[i].key # req'[t].key
               /\ \A i, j \in Ids : Fresh(i)' /\ Fresh(j)' /\ rows'[i].key = rows'[j].key => i = j
    <2>1. ~Slipped
      BY <1>1, <1>8
    <2>2. \A t \in Requests : ~Placing(t)' /\ ~Cleared(t)'
      <3>1. \A t \in Requests \ {r} : ~Placing(t)
        BY <1>1, <2>1 DEF DupInv
      <3> QED
        BY <1>6, <3>1 DEF Placing, Cleared
    <2>3. \A i \in Ids : Fresh(i) => rows[i].key # req[r].key
      BY <1>1, <2>1 DEF DupInv
    <2>4. \A i, j \in Ids : Fresh(i)' /\ Fresh(j)' /\ rows'[i].key = rows'[j].key => i = j
      <3> SUFFICES ASSUME NEW i \in Ids, NEW j \in Ids,
                          Fresh(i)', Fresh(j)', rows'[i].key = rows'[j].key, i # j
                   PROVE  FALSE
        OBVIOUS
      <3>1. CASE i = m
        BY <1>4, <1>5, <2>3, <3>1
      <3>2. CASE j = m
        BY <1>4, <1>5, <2>3, <3>2
      <3>3. CASE i # m /\ j # m
        BY <1>5, <2>1, <3>3 DEF DupInv
      <3> QED
        BY <3>1, <3>2, <3>3
    <2> QED
      BY <2>2, <2>4
  <1> QED
    BY <1>7, <1>8 DEF DupInv, Fresh

\* A row that grows old, is cancelled or deleted is no more of a duplicate than
\* it was.
LEMMA DupRowStep ==
  ASSUME DupInv, Slipped' = Slipped,
         \A i \in Ids : /\ Fresh(i)' => Fresh(i) /\ rows'[i].key = rows[i].key
                        /\ rows'[i].young => rows'[i].status # "none",
         \A t \in Requests : Placing(t)' => Placing(t),
         \A t \in Requests : Cleared(t)' => Cleared(t) /\ req'[t].key = req[t].key
  PROVE  DupInv'
  <1>1. ASSUME ~Slipped'
        PROVE  /\ \A t, s \in Requests : Placing(t)' /\ Placing(s)' => t = s
               /\ \A t \in Requests : Cleared(t)' => \A i \in Ids : Fresh(i)' => rows'[i].key # req'[t].key
               /\ \A i, j \in Ids : Fresh(i)' /\ Fresh(j)' /\ rows'[i].key = rows'[j].key => i = j
    BY <1>1 DEF DupInv
  <1> QED
    BY <1>1 DEF DupInv, Fresh

LEMMA DupWorldStep ==
  ASSUME LiveInv, DupInv,
         SwitchConfig \/ DeleteConfig \/ ResetBreaker \/ Fill \/ RowAges \/ Midnight \/ DayBegins
           \/ (\E p \in Procs : Restart(p))
  PROVE  DupInv'
  <1>1. req \in [Requests -> Request] /\ rows \in [Ids -> Row]
    BY DEF LiveInv, LiveTypeOK
  <1>2. CASE SwitchConfig \/ ResetBreaker \/ Fill \/ DayBegins
    <2>1. UNCHANGED <<req, rows, overlapped, lost>>
      BY <1>2 DEF SwitchConfig, ResetBreaker, Fill, DayBegins
    <2> QED
      BY <2>1, DupQuietStep DEF Placing, Cleared, Slipped
  <1>3. CASE RowAges
    <2>1. PICK i \in Ids : rows[i].young /\ rows' = [rows EXCEPT ![i].young = FALSE]
      BY <1>3 DEF RowAges
    <2>2. \A j \in Ids : rows'[j].key = rows[j].key /\ rows'[j].status = rows[j].status
                         /\ (rows'[j].young => rows[j].young)
      BY <1>1, <2>1 DEF Row
    <2>3. UNCHANGED <<req, overlapped, lost>>
      BY <1>3 DEF RowAges
    <2>4. \A j \in Ids : /\ Fresh(j)' => Fresh(j)
                         /\ rows'[j].key = rows[j].key
                         /\ rows'[j].young => rows'[j].status # "none"
      BY <2>2 DEF Fresh, DupInv
    <2> QED
      BY <2>3, <2>4, DupRowStep DEF Placing, Cleared, Slipped
  <1>4. CASE Midnight
    <2>1. UNCHANGED <<rows, overlapped, lost>>
          /\ \A r \in Requests : req'[r].pc = req[r].pc /\ req'[r].key = req[r].key
      BY <1>1, <1>4 DEF Midnight, Request
    <2> QED
      BY <2>1, DupQuietStep DEF Placing, Cleared, Slipped
  <1>5. ASSUME NEW p \in Procs, Restart(p) PROVE DupInv'
    <2>1. \A r \in Requests : req'[r] = Idle \/ req'[r] = req[r]
      BY <1>5 DEF Restart
    <2>2. rows' = rows /\ (Slipped => Slipped')
      BY <1>5 DEF Restart, Slipped
    <2>3. \A r \in Requests : Placing(r)' => Placing(r)
      BY <2>1, IdleRequest DEF Placing
    <2>4. \A r \in Requests : Cleared(r)' => Cleared(r) /\ req'[r].key = req[r].key
      BY <2>1, IdleRequest DEF Cleared
    <2> QED
      BY <2>2, <2>3, <2>4, DupQuietStep
  <1>6. CASE DeleteConfig
    <2>1. UNCHANGED <<req, overlapped, lost>> /\ \A i \in Ids : rows'[i] = NoRow
      BY <1>6 DEF DeleteConfig
    <2>2. \A i \in Ids : ~Fresh(i)' /\ ~rows'[i].young
      BY <2>1 DEF Fresh, NoRow
    <2> QED
      BY <2>1, <2>2, DupRowStep DEF Placing, Cleared, Slipped
  <1> QED
    BY <1>2, <1>3, <1>4, <1>5, <1>6

LEMMA DupServeStep ==
  ASSUME LiveInv, DupInv, NEW r \in Requests, Serve(r)
  PROVE  DupInv'
  <1>1. req \in [Requests -> Request] /\ rows \in [Ids -> Row] /\ InFlight(r)
    BY DEF LiveInv, LiveTypeOK
  <1>2. CASE Receive(r) \/ CheckDuplicate(r) \/ Record(r)
    BY <1>2, DupReceiveStep, DupPassingStep, DupRecordStep
  <1>3. CASE Refuse(r) \/ CheckLimit(r) \/ SendFails(r) \/ RecordFails(r) \/ MarkFails(r)
    <2>1. Done(r) /\ rows' = rows /\ (Slipped => Slipped')
      BY <1>3 DEF Refuse, CheckLimit, SendFails, RecordFails, MarkFails, Slipped
    <2> QED
      BY <2>1, DupDoneStep
  <1>4. CASE CheckBreaker(r) \/ CheckCount(r)
    <2>1. PICK c \in {"checking", "counted"} : req' = [req EXCEPT ![r].pc = c]
      BY <1>4 DEF CheckBreaker, CheckCount
    <2> DEFINE o == [req[r] EXCEPT !.pc = c]
    <2>2. req' = [req EXCEPT ![r] = o] /\ rows' = rows /\ Slipped' = Slipped /\ Placing(r)
      BY <1>1, <1>4, <2>1 DEF CheckBreaker, CheckCount, Placing, Slipped
    <2>3. o \in Request /\ o.pc = c
      BY <1>1 DEF Request
    <2> HIDE DEF o
    <2> QED
      BY <2>2, <2>3, DupRequestStep
  <1>5. CASE Send(r)
    <2>1. PICK i \in Ids, s \in Accepted :
            \/ req' = [req EXCEPT ![r].pc = "recording", ![r].id = i, ![r].reply = s] /\ UNCHANGED <<overlapped, lost>>
            \/ Done(r) /\ Slipped'
      BY <1>5 DEF Send, Slipped
    <2>2. rows' = rows /\ req[r].pc = "sending"
      BY <1>5 DEF Send
    <2>3. CASE Done(r) /\ Slipped'
      BY <2>2, <2>3, DupDoneStep
    <2>4. CASE req' = [req EXCEPT ![r].pc = "recording", ![r].id = i, ![r].reply = s] /\ UNCHANGED <<overlapped, lost>>
      <3>1. /\ \A t \in Requests \ {r} : req'[t] = req[t]
            /\ req'[r].pc = "recording" /\ req'[r].key = req[r].key
        BY <1>1, <2>4 DEF Request
      <3>2. \A t \in Requests : Placing(t)' => Placing(t)
        BY <2>2, <3>1 DEF Placing
      <3>3. \A t \in Requests : Cleared(t)' => Cleared(t) /\ req'[t].key = req[t].key
        BY <2>2, <3>1 DEF Cleared
      <3> QED
        BY <2>2, <2>4, <3>2, <3>3, DupQuietStep DEF Slipped
    <2> QED
      BY <2>1, <2>3, <2>4
  <1>6. CASE CancelAtExchange(r)
    <2>1. PICK i \in Ids, p \in Procs :
            \/ req' = [req EXCEPT ![r] = [Idle EXCEPT !.pc = "marking", !.proc = p, !.id = i]]
            \/ UNCHANGED req
      BY <1>6 DEF CancelAtExchange
    <2>2. rows' = rows /\ Slipped' = Slipped
      BY <1>6 DEF CancelAtExchange, Slipped
    <2> DEFINE o == [Idle EXCEPT !.pc = "marking", !.proc = p, !.id = i]
    <2>3. o \in Request /\ o.pc = "marking"
      BY DEF Idle, Request
    <2>4. CASE req' = [req EXCEPT ![r] = o]
      <3> HIDE DEF o
      <3> QED
        BY <2>2, <2>3, <2>4, DupRequestStep
    <2>5. CASE UNCHANGED req
      BY <2>2, <2>5, DupQuietStep DEF Placing, Cleared
    <2> QED
      BY <2>1, <2>4, <2>5
  <1>7. CASE MarkCancelled(r)
    <2>1. /\ rows' = [rows EXCEPT ![req[r].id].status = "cancelled"]
          /\ Done(r) /\ Slipped' = Slipped
      BY <1>7 DEF MarkCancelled, Slipped
    <2>2. \A j \in Ids : rows'[j].key = rows[j].key /\ rows'[j].young = rows[j].young
                         /\ rows'[j].status \in {rows[j].status, "cancelled"}
      BY <1>1, <2>1 DEF Row
    <2>3. \A j \in Ids : /\ Fresh(j)' => Fresh(j)
                         /\ rows'[j].key = rows[j].key
                         /\ rows'[j].young => rows'[j].status # "none"
      BY <2>2 DEF Fresh, DupInv
    <2>4. req'[r] = Idle /\ \A t \in Requests \ {r} : req'[t] = req[t]
      BY <1>1, <2>1 DEF Done
    <2>5. \A t \in Requests : Placing(t)' => Placing(t)
      BY <2>4, IdleRequest DEF Placing
    <2>6. \A t \in Requests : Cleared(t)' => Cleared(t) /\ req'[t].key = req[t].key
      BY <2>4, IdleRequest DEF Cleared
    <2> QED
      BY <2>1, <2>3, <2>5, <2>6, DupRowStep
  <1> QED
    BY <1>2, <1>3, <1>4, <1>5, <1>6, <1>7 DEF Serve

\* While order requests come one by one and each accepted order has its row,
\* the duplicate check does what it is for (risk_control.py).
THEOREM NoDuplicateOrders == LiveSpec => []NoDuplicates
  <1>1. LiveInit => DupInv
    <2> SUFFICES ASSUME LiveInit PROVE DupInv
      OBVIOUS
    <2>1. \A i \in Ids : ~rows[i].young
      BY DEF LiveInit, NoRow
    <2>2. \A r \in Requests : ~Placing(r) /\ ~Cleared(r)
      BY IdleRequest DEF LiveInit, Placing, Cleared
    <2> QED
      BY <2>1, <2>2 DEF DupInv, Fresh
  <1>2. LiveInv /\ DupInv /\ [LiveNext]_liveVars => DupInv'
    <2> SUFFICES ASSUME LiveInv, DupInv, [LiveNext]_liveVars PROVE DupInv'
      OBVIOUS
    <2>1. CASE UNCHANGED liveVars
      <3>1. UNCHANGED <<req, rows, overlapped, lost>>
        BY <2>1 DEF liveVars
      <3> QED
        BY <3>1, DupQuietStep DEF Placing, Cleared, Slipped
    <2> QED
      BY <2>1, DupWorldStep, DupServeStep DEF LiveNext
  <1>3. DupInv => NoDuplicates
    <2> SUFFICES ASSUME DupInv, ~Slipped, NEW k \in Keys
                 PROVE  Cardinality(Duplicates(k)) <= 1
      BY DEF NoDuplicates, Slipped
    <2>1. \A i, j \in Duplicates(k) : i = j
      BY DEF DupInv, Duplicates, Fresh
    <2>2. CASE Duplicates(k) = {}
      BY <2>2, FS_EmptySet
    <2>3. CASE Duplicates(k) # {}
      <3>1. PICK i : Duplicates(k) = {i}
        BY <2>1, <2>3
      <3> QED
        BY <3>1, FS_Singleton DEF Slipped
    <2> QED
      BY <2>2, <2>3
  <1> QED
    BY <1>1, <1>2, <1>3, LiveInvariant, PTL DEF LiveSpec

-----------------------------------------------------------------------------
(* What becomes of an accepted order.                                      *)

Records(r, i) == req[r].pc = "recording" /\ req[r].id = i

\* What is known of one order: it has a row, a request that will write it, or
\* a failure, and no two of these.
Accounted(i) ==
    /\ ~deleted /\ exch[i] # "none" =>
         rows[i].status # "none" \/ i \in lost \/ \E r \in Requests : Records(r, i)
    /\ rows[i].status # "none" => i \notin lost /\ \A r \in Requests : ~Records(r, i)
    /\ i \in lost => exch[i] # "none" /\ \A r \in Requests : ~Records(r, i)
    /\ deleted => rows[i] = NoRow

\* An order has one request at most that will write its row, and a request
\* that is to mark a row cancelled found it open.
Marks(r) == req[r].pc = "marking" /\ ~deleted => rows[req[r].id].status \in Open \cup {"cancelled"}

AccountInv ==
    /\ \A i \in Ids : Accounted(i)
    /\ \A i \in Ids : \A r, t \in Requests : Records(r, i) /\ Records(t, i) => r = t
    /\ \A r \in Requests : Marks(r)

\* The order of a request that records is at the exchange.
LEMMA RecordedIsAccepted ==
  ASSUME LiveInv, NEW r \in Requests, NEW i, Records(r, i)
  PROVE  i \in Ids /\ exch[i] # "none"
  <1>1. InFlight(r)
    BY DEF LiveInv
  <1> QED
    BY <1>1 DEF Records, InFlight, Behind, Accepted, Open

\* Nothing is recorded, lost, deleted or accepted.
LEMMA AccountQuietStep ==
  ASSUME AccountInv, deleted' = deleted, lost' = lost,
         \A i \in Ids : /\ rows'[i].status = rows[i].status
                        /\ deleted => rows'[i] = NoRow
                        /\ exch'[i] = "none" <=> exch[i] = "none"
                        /\ \A r \in Requests : Records(r, i)' = Records(r, i),
         \A r \in Requests : Marks(r)'
  PROVE  AccountInv'
  <1>1. ASSUME NEW i \in Ids PROVE Accounted(i)'
    BY DEF AccountInv, Accounted
  <1>2. \A i \in Ids : \A r, t \in Requests : Records(r, i)' /\ Records(t, i)' => r = t
    BY DEF AccountInv
  <1> QED
    BY <1>1, <1>2 DEF AccountInv

\* A request goes on that neither was to record nor is to.
LEMMA AccountRequestStep ==
  ASSUME LiveInv, AccountInv, NEW r \in Requests, NEW o \in Request,
         req' = [req EXCEPT ![r] = o], req[r].pc # "recording", o.pc # "recording",
         o.pc = "marking" => rows[o.id].status \in Open,
         UNCHANGED <<deleted, rows, lost>>,
         \A i \in Ids : exch'[i] = "none" <=> exch[i] = "none"
  PROVE  AccountInv'
  <1>1. req'[r] = o /\ \A t \in Requests \ {r} : req'[t] = req[t]
    BY DEF LiveInv, LiveTypeOK
  <1>2. \A i \in Ids : \A t \in Requests : Records(t, i)' = Records(t, i)
    <2> SUFFICES ASSUME NEW i \in Ids, NEW t \in Requests PROVE Records(t, i)' = Records(t, i)
      OBVIOUS
    <2>1. CASE t = r
      BY <1>1, <2>1 DEF Records
    <2>2. CASE t # r
      BY <1>1, <2>2 DEF Records
    <2> QED
      BY <2>1, <2>2
  <1>3. \A t \in Requests : Marks(t)'
    BY <1>1 DEF AccountInv, Marks
  <1>4. \A i \in Ids : deleted => rows'[i] = NoRow
    BY DEF AccountInv, Accounted
  <1> QED
    BY <1>2, <1>3, <1>4, AccountQuietStep

\* The accepted order is new: it gets a request that will write its row, or its
\* reply is lost.
LEMMA AccountSendStep ==
  ASSUME LiveInv, AccountInv, NEW r \in Requests, Send(r)
  PROVE  AccountInv'
  <1>1. /\ req \in [Requests -> Request] /\ exch \in [Ids -> Orders]
        /\ req[r] \in Request /\ req[r].pc = "sending" /\ UNCHANGED <<deleted, rows>>
    BY DEF LiveInv, LiveTypeOK, Orders, Send
  <1>2. PICK m \in Ids, s \in Accepted :
          /\ exch[m] = "none" /\ exch' = [exch EXCEPT ![m] = s]
          /\ \/ /\ req' = [req EXCEPT ![r].pc = "recording", ![r].id = m, ![r].reply = s]
                /\ UNCHANGED lost
             \/ Done(r) /\ lost' = lost \cup {m}
    BY DEF Send
  <1>3. /\ exch'[m] # "none" /\ \A i \in Ids \ {m} : exch'[i] = exch[i]
    BY <1>1, <1>2 DEF Accepted, Open
  <1>4. /\ \A t \in Requests : ~Records(t, m)
        /\ rows[m].status = "none" /\ m \notin lost
    <2>1. Behind(rows[m].status, "none") /\ rows[m] \in Row
      BY <1>2 DEF LiveInv, LiveTypeOK, RowsBehind
    <2>2. rows[m].status = "none"
      BY <2>1 DEF Behind, Row, Accepted, Open
    <2> QED
      BY <1>2, <2>2, RecordedIsAccepted DEF AccountInv, Accounted
  <1>5. \A t \in Requests \ {r} : req'[t] = req[t] /\ \A i : Records(t, i)' = Records(t, i)
    BY <1>1, <1>2 DEF Done, Records
  <1>6. req'[r].pc # "marking" /\ \A i : ~Records(r, i)
    BY <1>1, <1>2, IdleRequest DEF Request, Done, Records
  <1>7. \/ lost' = lost /\ \A i : Records(r, i)' <=> i = m
        \/ lost' = lost \cup {m} /\ \A i : ~Records(r, i)'
    BY <1>1, <1>2, IdleRequest DEF Request, Done, Records
  <1>8. ASSUME NEW i \in Ids PROVE Accounted(i)'
    <2>1. CASE i = m
      BY <1>1, <1>3, <1>4, <1>5, <1>7, <2>1 DEF AccountInv, Accounted
    <2>2. CASE i # m
      <3>1. i \in lost' <=> i \in lost
        BY <1>7, <2>2
      <3>2. \A t \in Requests : Records(t, i)' <=> Records(t, i)
        BY <1>5, <1>6, <1>7, <2>2
      <3> QED
        BY <1>1, <1>3, <2>2, <3>1, <3>2 DEF AccountInv, Accounted
    <2> QED
      BY <2>1, <2>2
  <1>9. \A i \in Ids : \A t, u \in Requests : Records(t, i)' /\ Records(u, i)' => t = u
    BY <1>4, <1>5, <1>7 DEF AccountInv
  <1>10. \A t \in Requests : Marks(t)'
    BY <1>1, <1>5, <1>6 DEF AccountInv, Marks
  <1> QED
    BY <1>8, <1>9, <1>10 DEF AccountInv

\* A request that records is the only one of its order: it writes the row, or
\* the order is lost.
LEMMA AccountRecordStep ==
  ASSUME LiveInv, AccountInv, NEW r \in Requests, Record(r) \/ RecordFails(r)
  PROVE  AccountInv'
  <1>1. /\ req \in [Requests -> Request] /\ rows \in [Ids -> Row] /\ InFlight(r)
        /\ req[r].pc = "recording" /\ UNCHANGED <<deleted, exch>>
    BY DEF LiveInv, LiveTypeOK, Record, RecordFails
  <1>2. PICK m \in Ids : m = req[r].id
    BY <1>1 DEF InFlight
  <1>3. /\ Records(r, m) /\ exch[m] # "none" /\ m \notin lost /\ rows[m].status = "none"
        /\ \A t \in Requests \ {r} : ~Records(t, m)
    <2>1. Records(r, m)
      BY <1>1, <1>2 DEF Records
    <2> QED
      BY <2>1, RecordedIsAccepted DEF AccountInv, Accounted
  <1>4. \A i \in Ids \ {m} : ~Records(r, i)
    BY <1>2 DEF Records
  <1>5. /\ req'[r].pc = "idle" /\ \A i : ~Records(r, i)'
        /\ \A t \in Requests \ {r} : req'[t] = req[t] /\ \A i : Records(t, i)' = Records(t, i)
    BY <1>1, IdleRequest DEF Record, RecordFails, Done, Records
  <1>6. /\ \A i \in Ids \ {m} : rows'[i] = rows[i]
        /\ \/ rows'[m].status # "none" /\ lost' = lost /\ ~deleted
           \/ rows' = rows /\ lost' = lost \cup {m}
    <2>1. CASE Record(r)
      <3>1. PICK y \in BOOLEAN :
              rows' = [rows EXCEPT ![m] = [status |-> req[r].reply, key |-> req[r].key, young |-> y]]
        BY <1>2, <2>1 DEF Record
      <3>2. req[r].reply # "none" /\ lost' = lost /\ ~deleted
        BY <1>1, <2>1 DEF Record, InFlight, Accepted, Open
      <3> QED
        BY <1>1, <3>1, <3>2
    <2>2. CASE RecordFails(r)
      BY <1>2, <2>2 DEF RecordFails
    <2> QED
      BY <2>1, <2>2
  <1>7. ASSUME NEW i \in Ids PROVE Accounted(i)'
    <2>1. CASE i = m
      <3>1. \A t \in Requests : ~Records(t, m)'
        BY <1>3, <1>5
      <3>2. CASE rows'[m].status # "none" /\ lost' = lost /\ ~deleted
        BY <1>1, <1>3, <2>1, <3>1, <3>2 DEF Accounted
      <3>3. CASE rows' = rows /\ lost' = lost \cup {m}
        BY <1>1, <1>3, <2>1, <3>1, <3>3 DEF AccountInv, Accounted
      <3> QED
        BY <1>6, <3>2, <3>3
    <2>2. CASE i # m
      <3>1. /\ i \in lost' <=> i \in lost
            /\ rows'[i] = rows[i]
        BY <1>6, <2>2
      <3>2. \A t \in Requests : Records(t, i)' <=> Records(t, i)
        BY <1>4, <1>5, <2>2
      <3> QED
        BY <1>1, <3>1, <3>2 DEF AccountInv, Accounted
    <2> QED
      BY <2>1, <2>2
  <1>8. \A i \in Ids : \A t, u \in Requests : Records(t, i)' /\ Records(u, i)' => t = u
    BY <1>5 DEF AccountInv
  <1>9. ASSUME NEW t \in Requests PROVE Marks(t)'
    <2>1. CASE t = r
      BY <1>5, <2>1 DEF Marks
    <2>2. CASE t # r
      <3>1. req'[t] = req[t] /\ Marks(t)
        BY <1>5, <2>2 DEF AccountInv
      <3>2. rows[req[t].id].status \in Open \cup {"cancelled"} => req[t].id # m
        BY <1>3 DEF Open
      <3>3. req[t].pc = "marking" => req[t].id \in Ids
        BY DEF LiveInv, InFlight
      <3> QED
        BY <1>1, <1>6, <3>1, <3>2, <3>3 DEF Marks
    <2> QED
      BY <2>1, <2>2
  <1> QED
    BY <1>7, <1>8, <1>9 DEF AccountInv

\* A cancellation finds its row open or cancelled.
LEMMA AccountMarkStep ==
  ASSUME LiveInv, AccountInv, NEW r \in Requests, MarkCancelled(r)
  PROVE  AccountInv'
  <1>1. /\ req \in [Requests -> Request] /\ rows \in [Ids -> Row] /\ InFlight(r) /\ Marks(r)
        /\ req[r].pc = "marking" /\ ~deleted /\ UNCHANGED <<deleted, exch, lost>>
    BY DEF LiveInv, LiveTypeOK, MarkCancelled, AccountInv
  <1>2. PICK m \in Ids : m = req[r].id
    BY <1>1 DEF InFlight
  <1>3. /\ rows[m].status \in Open \cup {"cancelled"} /\ rows'[m].status = "cancelled"
        /\ \A i \in Ids \ {m} : rows'[i] = rows[i]
    BY <1>1, <1>2 DEF MarkCancelled, Marks, Row
  <1>4. /\ req'[r].pc = "idle" /\ \A t \in Requests \ {r} : req'[t] = req[t]
    BY <1>1, IdleRequest DEF MarkCancelled, Done
  <1>5. ASSUME NEW i \in Ids, NEW t \in Requests PROVE Records(t, i)' <=> Records(t, i)
    <2>1. CASE t = r
      BY <1>1, <1>4, <2>1 DEF Records
    <2>2. CASE t # r
      BY <1>4, <2>2 DEF Records
    <2> QED
      BY <2>1, <2>2
  <1>6. ASSUME NEW i \in Ids PROVE Accounted(i)'
    <2>1. rows'[i].status # "none" <=> rows[i].status # "none"
      BY <1>3 DEF Open
    <2> QED
      BY <1>1, <1>5, <2>1 DEF AccountInv, Accounted
  <1>7. \A i \in Ids : \A t, u \in Requests : Records(t, i)' /\ Records(u, i)' => t = u
    BY <1>5 DEF AccountInv
  <1>8. ASSUME NEW t \in Requests PROVE Marks(t)'
    <2>1. CASE t = r
      BY <1>4, <2>1 DEF Marks
    <2>2. CASE t # r
      <3>1. req'[t] = req[t] /\ Marks(t)
        BY <1>4, <2>2 DEF AccountInv
      <3>2. req[t].pc = "marking" => req[t].id \in Ids
        BY DEF LiveInv, InFlight
      <3> QED
        BY <1>1, <1>3, <3>1, <3>2 DEF Marks
    <2> QED
      BY <2>1, <2>2
  <1> QED
    BY <1>6, <1>7, <1>8 DEF AccountInv

\* The orders that a stopped process was about to record are lost with it.
LEMMA AccountRestartStep ==
  ASSUME LiveInv, AccountInv, NEW p \in Procs, Restart(p)
  PROVE  AccountInv'
  <1>1. /\ req \in [Requests -> Request] /\ UNCHANGED <<deleted, exch, rows>>
        /\ req' = [r \in Requests |-> IF r \in AtProc(p) THEN Idle ELSE req[r]]
    BY DEF LiveInv, LiveTypeOK, Restart
  <1>2. \A r \in Requests : req'[r] = IF r \in AtProc(p) THEN Idle ELSE req[r]
    BY <1>1
  <1>3. ASSUME NEW i \in Ids, NEW t \in Requests
        PROVE  Records(t, i)' <=> Records(t, i) /\ t \notin AtProc(p)
    BY <1>2, IdleRequest DEF Records
  <1>4. \A i \in Ids : i \in lost' <=> i \in lost \/ \E t \in AtProc(p) : Records(t, i)
    BY DEF Restart, Records
  <1>5. AtProc(p) \subseteq Requests
    BY DEF AtProc
  <1>6. ASSUME NEW i \in Ids PROVE Accounted(i)'
    <2>1. CASE \E t \in AtProc(p) : Records(t, i)
      <3>1. PICK t \in AtProc(p) : Records(t, i)
        BY <2>1
      <3>2. exch[i] # "none" /\ rows[i].status = "none" /\ i \in lost'
        BY <1>4, <1>5, <3>1, RecordedIsAccepted DEF AccountInv, Accounted
      <3>3. \A u \in Requests : ~Records(u, i)'
        BY <1>3, <1>5, <3>1 DEF AccountInv
      <3> QED
        BY <1>1, <3>2, <3>3 DEF AccountInv, Accounted
    <2>2. CASE ~\E t \in AtProc(p) : Records(t, i)
      <3>1. i \in lost' <=> i \in lost
        BY <1>4, <2>2
      <3>2. \A t \in Requests : Records(t, i)' <=> Records(t, i)
        BY <1>3, <2>2
      <3> QED
        BY <1>1, <3>1, <3>2 DEF AccountInv, Accounted
    <2> QED
      BY <2>1, <2>2
  <1>7. \A i \in Ids : \A t, u \in Requests : Records(t, i)' /\ Records(u, i)' => t = u
    BY <1>3 DEF AccountInv
  <1>8. \A t \in Requests : Marks(t)'
    BY <1>1, <1>2, IdleRequest DEF AccountInv, Marks
  <1> QED
    BY <1>6, <1>7, <1>8 DEF AccountInv

\* The administrator, the exchange and the clock.
LEMMA AccountWorldStep ==
  ASSUME LiveInv, AccountInv,
         SwitchConfig \/ DeleteConfig \/ ResetBreaker \/ Fill \/ RowAges \/ Midnight \/ DayBegins
  PROVE  AccountInv'
  <1>1. /\ req \in [Requests -> Request] /\ rows \in [Ids -> Row] /\ exch \in [Ids -> Orders]
        /\ \A t \in Requests : InFlight(t)
        /\ \A t \in Requests : Marks(t)
        /\ \A i \in Ids : deleted => rows[i] = NoRow
    BY DEF LiveInv, LiveTypeOK, Orders, AccountInv, Accounted
  <1>2. CASE DeleteConfig
    <2>1. /\ UNCHANGED <<req, exch, lost>> /\ deleted'
          /\ \A i \in Ids : rows'[i] = NoRow
      BY <1>2 DEF DeleteConfig
    <2>2. ASSUME NEW i \in Ids PROVE Accounted(i)'
      <3>1. \A t \in Requests : Records(t, i)' <=> Records(t, i)
        BY <2>1 DEF Records
      <3>2. rows'[i].status = "none"
        BY <2>1 DEF NoRow
      <3> QED
        BY <2>1, <3>1, <3>2 DEF AccountInv, Accounted
    <2>3. \A i \in Ids : \A t, u \in Requests : Records(t, i)' /\ Records(u, i)' => t = u
      BY <2>1 DEF AccountInv, Records
    <2>4. \A t \in Requests : Marks(t)'
      BY <2>1 DEF Marks
    <2> QED
      BY <2>2, <2>3, <2>4 DEF AccountInv
  <1>3. CASE Midnight
    <2>1. /\ UNCHANGED <<deleted, exch, rows, lost>>
          /\ \A t \in Requests : req'[t].pc = req[t].pc /\ req'[t].id = req[t].id
      BY <1>1, <1>3 DEF Midnight, Request
    <2> QED
      BY <1>1, <2>1, AccountQuietStep DEF Records, Marks
  <1>4. CASE Fill
    <2>1. PICK i \in Ids, s \in Counted : exch[i] \in Open /\ exch' = [exch EXCEPT ![i] = s]
      BY <1>4 DEF Fill
    <2>2. \A j \in Ids : exch'[j] = "none" <=> exch[j] = "none"
      BY <1>1, <2>1 DEF Open, Counted
    <2>3. UNCHANGED <<deleted, req, rows, lost>>
      BY <1>4 DEF Fill
    <2>4. \A t \in Requests : Marks(t)'
      BY <1>1, <2>3 DEF Marks
    <2>5. \A j \in Ids : \A t \in Requests : Records(t, j)' = Records(t, j)
      BY <2>3 DEF Records
    <2> QED
      BY <1>1, <2>2, <2>3, <2>4, <2>5, AccountQuietStep
  <1>5. CASE RowAges
    <2>1. PICK i \in Ids : rows[i].young /\ rows' = [rows EXCEPT ![i].young = FALSE]
      BY <1>5 DEF RowAges
    <2>2. /\ ~deleted /\ \A j \in Ids : rows'[j].status = rows[j].status
      BY <1>1, <2>1 DEF NoRow, Row
    <2>3. UNCHANGED <<deleted, req, exch, lost>>
      BY <1>5 DEF RowAges
    <2>4. \A t \in Requests : Marks(t)'
      BY <1>1, <2>2, <2>3 DEF Marks, InFlight
    <2>5. \A j \in Ids : \A t \in Requests : Records(t, j)' = Records(t, j)
      BY <2>3 DEF Records
    <2> QED
      BY <1>1, <2>2, <2>3, <2>4, <2>5, AccountQuietStep
  <1>6. CASE SwitchConfig \/ ResetBreaker \/ DayBegins
    <2>1. UNCHANGED <<deleted, req, exch, rows, lost>>
      BY <1>6 DEF SwitchConfig, ResetBreaker, DayBegins
    <2> QED
      BY <1>1, <2>1, AccountQuietStep DEF Records, Marks
  <1> QED
    BY <1>2, <1>3, <1>4, <1>5, <1>6

LEMMA AccountServeStep ==
  ASSUME LiveInv, AccountInv, NEW r \in Requests, Serve(r)
  PROVE  AccountInv'
  <1>1. /\ req \in [Requests -> Request] /\ req[r] \in Request /\ exch \in [Ids -> Orders]
    BY DEF LiveInv, LiveTypeOK, Orders
  <1>2. CASE Send(r) \/ Record(r) \/ RecordFails(r) \/ MarkCancelled(r)
    BY <1>2, AccountSendStep, AccountRecordStep, AccountMarkStep
  <1>3. CASE Receive(r)
    <2>1. PICK p \in Procs, k \in Keys :
            req' = [req EXCEPT ![r] = [Idle EXCEPT !.pc = "quoting", !.proc = p, !.key = k,
                                                   !.today = ~early]]
      BY <1>3 DEF Receive
    <2> DEFINE o == [Idle EXCEPT !.pc = "quoting", !.proc = p, !.key = k, !.today = ~early]
    <2>2. o \in Request /\ o.pc = "quoting"
      BY DEF Idle, Request
    <2>3. UNCHANGED <<deleted, exch, rows, lost>> /\ req[r].pc = "idle" /\ req' = [req EXCEPT ![r] = o]
      BY <1>3, <2>1 DEF Receive
    <2> HIDE DEF o
    <2> QED
      BY <2>2, <2>3, AccountRequestStep
  <1>4. CASE CheckBreaker(r) \/ CheckCount(r) \/ (CheckDuplicate(r) /\ ~Done(r))
    <2>1. PICK c \in {"checking", "counted", "sending"} : req' = [req EXCEPT ![r].pc = c]
      BY <1>4 DEF CheckBreaker, CheckCount, CheckDuplicate
    <2> DEFINE o == [req[r] EXCEPT !.pc = c]
    <2>2. o \in Request /\ o.pc = c
      BY <1>1 DEF Request
    <2>3. /\ UNCHANGED <<deleted, exch, rows, lost>> /\ req[r].pc \in {"quoting", "checking", "counted"}
          /\ req' = [req EXCEPT ![r] = o]
      BY <1>1, <1>4, <2>1 DEF CheckBreaker, CheckCount, CheckDuplicate
    <2> HIDE DEF o
    <2> QED
      BY <2>2, <2>3, AccountRequestStep
  <1>5. CASE Refuse(r) \/ CheckLimit(r) \/ (CheckDuplicate(r) /\ Done(r)) \/ SendFails(r) \/ MarkFails(r)
    <2>1. /\ UNCHANGED <<deleted, exch, rows, lost>> /\ req' = [req EXCEPT ![r] = Idle]
          /\ req[r].pc # "recording"
      BY <1>5 DEF Refuse, CheckLimit, CheckDuplicate, SendFails, MarkFails, Done
    <2> QED
      BY <2>1, IdleRequest, AccountRequestStep
  <1>6. CASE CancelAtExchange(r)
    <2>1. PICK i \in Ids, p \in Procs :
            /\ rows[i].status \in Open /\ exch[i] \in Open
            /\ exch' = [exch EXCEPT ![i] = "canceled"]
            /\ \/ req' = [req EXCEPT ![r] = [Idle EXCEPT !.pc = "marking", !.proc = p, !.id = i]]
               \/ UNCHANGED req
      BY <1>6 DEF CancelAtExchange
    <2>2. /\ UNCHANGED <<deleted, rows, lost>> /\ req[r].pc = "idle"
      BY <1>6 DEF CancelAtExchange
    <2>3. \A j \in Ids : exch'[j] = "none" <=> exch[j] = "none"
      BY <1>1, <2>1 DEF Open
    <2> DEFINE o == [Idle EXCEPT !.pc = "marking", !.proc = p, !.id = i]
    <2>4. o \in Request /\ o.pc = "marking" /\ o.id = i
      BY DEF Idle, Request
    <2>5. PICK n \in {o, req[r]} : req' = [req EXCEPT ![r] = n]
      BY <1>1, <2>1
    <2> HIDE DEF o
    <2>6. n \in Request /\ n.pc # "recording" /\ (n.pc = "marking" => rows[n.id].status \in Open)
      BY <1>1, <2>1, <2>2, <2>4, <2>5
    <2> QED
      BY <2>2, <2>3, <2>5, <2>6, AccountRequestStep
  <1> QED
    BY <1>2, <1>3, <1>4, <1>5, <1>6 DEF Serve

\* Where every accepted order stands is an invariant.
LEMMA AccountInvariant == LiveSpec => [](LiveInv /\ AccountInv)
  <1>1. LiveInit => AccountInv
    <2> SUFFICES ASSUME LiveInit PROVE AccountInv
      OBVIOUS
    <2>1. \A r \in Requests : req[r].pc = "idle"
      BY IdleRequest DEF LiveInit
    <2>2. \A i \in Ids : exch[i] = "none" /\ rows[i] = NoRow /\ rows[i].status = "none"
      BY DEF LiveInit, NoRow
    <2>3. ~deleted /\ lost = {}
      BY DEF LiveInit
    <2> QED
      BY <2>1, <2>2, <2>3 DEF AccountInv, Accounted, Records, Marks
  <1>2. LiveInv /\ AccountInv /\ [LiveNext]_liveVars => AccountInv'
    <2> SUFFICES ASSUME LiveInv, AccountInv, [LiveNext]_liveVars PROVE AccountInv'
      OBVIOUS
    <2>1. CASE UNCHANGED liveVars
      BY <2>1 DEF liveVars, AccountInv, Accounted, Records, Marks
    <2> QED
      BY <2>1, AccountWorldStep, AccountRestartStep, AccountServeStep DEF LiveNext
  <1> QED
    BY <1>1, <1>2, LiveInvariant, PTL DEF LiveSpec

\* No accepted order goes astray unseen, however requests, failures and
\* restarts interleave (place_order and cancel_order, live_trading.py).
THEOREM OrdersAreAccounted == LiveSpec => []OrdersAccounted
  <1>1. AccountInv => OrdersAccounted
    BY DEF AccountInv, Accounted, OrdersAccounted, Recorders, Records
  <1> QED
    BY <1>1, AccountInvariant, PTL

\* A row is written once and then only ever cancelled (place_order and
\* cancel_order, live_trading.py), by any number of requests of any processes.
THEOREM RowsOnlyAdvance == LiveSpec => RowsAdvance
  <1>1. LiveInv /\ AccountInv /\ AccountInv' /\ [LiveNext]_liveVars =>
          [\A i \in Ids : IF deleted' THEN rows'[i] = NoRow
                          ELSE Advances(rows[i].status, rows'[i].status)]_liveVars
    <2> SUFFICES ASSUME LiveInv, AccountInv, AccountInv', LiveNext, NEW i \in Ids
                 PROVE  IF deleted' THEN rows'[i] = NoRow
                        ELSE Advances(rows[i].status, rows'[i].status)
      OBVIOUS
    <2>1. deleted' => rows'[i] = NoRow
      BY DEF AccountInv, Accounted
    <2>2. rows \in [Ids -> Row]
      BY DEF LiveInv, LiveTypeOK
    <2>3. ASSUME ~deleted' PROVE Advances(rows[i].status, rows'[i].status)
      <3>1. CASE DeleteConfig
        BY <2>3, <3>1 DEF DeleteConfig
      <3>2. CASE RowAges
        BY <2>2, <3>2 DEF RowAges, Row, Advances
      <3>3. CASE SwitchConfig \/ ResetBreaker \/ Fill \/ Midnight \/ DayBegins \/ \E p \in Procs : Restart(p)
        BY <3>3 DEF SwitchConfig, ResetBreaker, Fill, Midnight, DayBegins, Restart, Advances
      <3>4. ASSUME NEW r \in Requests, Serve(r) PROVE Advances(rows[i].status, rows'[i].status)
        <4>1. CASE rows' = rows
          BY <4>1 DEF Advances
        <4>2. CASE Record(r)
          <5>1. Records(r, req[r].id) /\ req[r].id \in Ids
            BY <4>2 DEF Record, Records, LiveInv, InFlight
          <5>2. rows[req[r].id].status = "none"
            BY <5>1 DEF AccountInv, Accounted
          <5>3. i # req[r].id => rows'[i] = rows[i]
            BY <2>2, <4>2 DEF Record
          <5> QED
            BY <5>2, <5>3 DEF Advances
        <4>3. CASE MarkCancelled(r)
          <5>1. /\ req[r].pc = "marking" /\ ~deleted
                /\ rows' = [rows EXCEPT ![req[r].id].status = "cancelled"]
            BY <4>3 DEF MarkCancelled
          <5>2. rows[req[r].id].status \in Open \cup {"cancelled"}
            BY <5>1 DEF AccountInv, Marks
          <5>3. i # req[r].id => rows'[i] = rows[i]
            BY <2>2, <5>1
          <5>4. rows'[i].status = IF i = req[r].id THEN "cancelled" ELSE rows[i].status
            BY <2>2, <5>1, <5>3 DEF Row
          <5> QED
            BY <5>2, <5>4 DEF Advances
        <4> QED
          BY <3>4, <4>1, <4>2, <4>3
          DEF Serve, Receive, CheckBreaker, Refuse, CheckLimit, CheckCount, CheckDuplicate, Send, SendFails,
              RecordFails, CancelAtExchange, MarkFails
      <3> QED
        BY <3>1, <3>2, <3>3, <3>4 DEF LiveNext
    <2> QED
      BY <2>1, <2>3
  <1> QED
    BY <1>1, AccountInvariant, PTL DEF LiveSpec, RowsAdvance

=============================================================================
