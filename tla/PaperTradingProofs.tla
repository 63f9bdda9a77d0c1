------------------------- MODULE PaperTradingProofs -------------------------
(***************************************************************************)
(* The account is never overdrawn, whatever sessions overlap; the books    *)
(* balance, the average cost is one that prices explain and every change   *)
(* is a fill of the abstract account, as long as no session commits after  *)
(* it has been overtaken; an archived account is quiet.  For any number of *)
(* sessions, any prices, quantities, signals and balance.                  *)
(***************************************************************************)
EXTENDS PaperTrading, TLAPS

\* An automatic session has a next signal.
AutoHasNext(s) ==
    /\ sess[s].pc \in {"choosing", "sizing"} => sess[s].auto
    /\ sess[s].auto => sess[s].next >= 1

\* A session about to commit has read both rows, and what it read covers what
\* it is going to write.
ReadsCover(s) ==
    sess[s].pc \in {"inserting", "committing"} =>
        /\ seen[s].cash # Unread /\ seen[s].position # Unread
        /\ seen[s].position.row
        /\ sess[s].side = "BUY"  => seen[s].cash >= sess[s].price * sess[s].quantity
        /\ sess[s].side = "SELL" => seen[s].position.quantity >= sess[s].quantity

\* No session has read an overdrawn account, nor a position that is not there.
ReadsSound(s) ==
    /\ seen[s].cash # Unread => seen[s].cash \in Nat
    /\ seen[s].position # Unread => seen[s].position.row

PaperInv ==
    /\ PaperTypeOK
    /\ NeverOverdrawn
    /\ mark # Unread => position.row
    /\ \A s \in Sessions : AutoHasNext(s) /\ ReadsCover(s) /\ ReadsSound(s)

-----------------------------------------------------------------------------
\* A rounded average is a natural number.
LEMMA RoundedNat ==
  ASSUME NEW t \in Nat, NEW n \in Nat \ {0}
  PROVE  Rounded(t, n) \in Nat
  <1> DEFINE a == 2 * t + n
             m == 2 * n
  <1>1. a \in Nat /\ m \in Nat \ {0}
    OBVIOUS
  <1> HIDE DEF a, m
  <1>2. a \div m \in Nat
    BY <1>1, Z3
  <1> QED
    BY <1>2 DEF a, m, Rounded

\* An UPDATE of the changed columns leaves a position, and its quantity is the
\* new one unless the session left it as it was.
LEMMA MergedFields ==
  ASSUME NEW row \in Positions, NEW read \in Positions, NEW new \in Positions,
         row.row, read.row, new.row
  PROVE  /\ Merged(row, read, new) \in Positions
         /\ Merged(row, read, new).quantity =
              IF new.quantity = read.quantity THEN row.quantity ELSE new.quantity
         /\ Merged(row, read, new).row
  BY DEF Merged, Positions

\* The position that is not there, and the one just inserted.
LEMMA ZeroPositions ==
  /\ NoPosition \in Positions /\ ~NoPosition.row /\ NoPosition.quantity = 0
  /\ NoPosition \in [row: BOOLEAN, quantity: Int, avg_cost: Nat, market_value: Nat]
  /\ ZeroRow \in Positions /\ ZeroRow.row /\ ZeroRow.quantity = 0
  BY DEF ZeroRow, NoPosition, Positions

\* A buy and a covered sale make a position of a position.
LEMMA TradedPosition ==
  ASSUME NEW p \in Positions, p.row, NEW q \in Nat, NEW price \in Nat
  PROVE  /\ Bought(p, q, price) \in Positions /\ Bought(p, q, price).row
         /\ Bought(p, q, price).quantity = p.quantity + q
         /\ p.quantity >= q => /\ Sold(p, q, price) \in Positions /\ Sold(p, q, price).row
                               /\ Sold(p, q, price).quantity = p.quantity - q
  <1>1. Bought(p, q, price) \in Positions /\ Bought(p, q, price).row
        /\ Bought(p, q, price).quantity = p.quantity + q
    <2> DEFINE n == p.quantity + q
               total == p.quantity * p.avg_cost + q * price
    <2>1. n \in Nat /\ total \in Nat /\ n * price \in Nat
      BY DEF Positions
    <2>2. p.quantity # 0 => Rounded(total, n) \in Nat
      <3> SUFFICES ASSUME p.quantity # 0 PROVE Rounded(total, n) \in Nat
        OBVIOUS
      <3>1. n # 0
        BY DEF Positions
      <3> HIDE DEF n, total
      <3> QED
        BY <2>1, <3>1, RoundedNat
    <2> DEFINE cost == IF p.quantity = 0 THEN price ELSE Rounded(total, n)
               value == n * price
    <2>3. cost \in Nat /\ value \in Nat
      BY <2>1, <2>2
    <2>4. Bought(p, q, price) = [p EXCEPT !.quantity = n, !.avg_cost = cost, !.market_value = value]
      BY DEF Bought
    <2> HIDE DEF n, cost, value, total
    <2> QED
      BY <2>1, <2>3, <2>4 DEF Positions, n
  <1>2. ASSUME p.quantity >= q
        PROVE  /\ Sold(p, q, price) \in Positions /\ Sold(p, q, price).row
               /\ Sold(p, q, price).quantity = p.quantity - q
    <2> DEFINE value == (p.quantity - q) * price
    <2>1. value \in Nat
      BY <1>2 DEF Positions
    <2>2. Sold(p, q, price) = IF p.quantity = q THEN ZeroRow
                              ELSE [p EXCEPT !.quantity = @ - q, !.market_value = value]
      BY DEF Sold
    <2>3. CASE p.quantity = q
      <3>1. Sold(p, q, price) = ZeroRow /\ p.quantity - q = 0
        BY <2>2, <2>3
      <3> QED
        BY <3>1, ZeroPositions
    <2>4. CASE p.quantity # q
      <3> HIDE DEF value
      <3>1. p.quantity - q \in Nat
        BY <1>2 DEF Positions
      <3> QED
        BY <2>1, <2>2, <2>4, <3>1 DEF Positions
    <2> QED
      BY <2>3, <2>4
  <1> QED
    BY <1>1, <1>2

-----------------------------------------------------------------------------
SeenType == [cash: Int \cup {Unread}, position: Positions \cup {Unread}]

\* A session that is not open has nothing and has read nothing.
LEMMA IdleType ==
  /\ IdleSession \in Session /\ IdleSession.pc = "idle" /\ ~IdleSession.auto
  /\ Nothing \in SeenType /\ Nothing.cash = Unread /\ Nothing.position = Unread
  BY DEF IdleSession, Session, Nothing, SeenType

\* The invariant holds when the account is created.
LEMMA PaperInitInv == PaperInit => PaperInv
  <1> SUFFICES ASSUME PaperInit PROVE PaperInv
    OBVIOUS
  <1>1. PaperTypeOK
    <2>1. /\ sess \in [Sessions -> Session]
          /\ seen \in [Sessions -> [cash: Int \cup {Unread}, position: Positions \cup {Unread}]]
      BY IdleType DEF PaperInit, SeenType
    <2>2. booked \in [cash: Int, quantity: Int]
      BY DEF PaperInit
    <2>3. cash \in Int /\ opened \in 0 .. MaxOpened
      BY PaperAssumption DEF PaperInit
    <2> QED
      BY <2>1, <2>2, <2>3, ZeroPositions DEF PaperInit, PaperTypeOK
  <1>3. NeverOverdrawn
    BY ZeroPositions, PaperAssumption DEF PaperInit, NeverOverdrawn
  <1>2. \A s \in Sessions : AutoHasNext(s) /\ ReadsCover(s) /\ ReadsSound(s)
    BY IdleType DEF PaperInit, AutoHasNext, ReadsCover, ReadsSound
  <1> QED
    BY <1>1, <1>2, <1>3 DEF PaperInit, PaperInv

\* What a commit writes is a position, and cash that is not negative.
LEMMA CommitStep ==
  ASSUME PaperInv, NEW s \in Sessions, Commit(s)
  PROVE  PaperInv'
  <1> DEFINE o == sess[s]
             p == seen[s].position
             new == IF o.side = "BUY" THEN Bought(p, o.quantity, o.price)
                                      ELSE Sold(p, o.quantity, o.price)
             row == [position EXCEPT !.row = TRUE]
             notional == o.price * o.quantity
  <1>1. /\ o.quantity \in Nat /\ o.price \in Nat /\ notional \in Nat
        /\ o.side \in {"BUY", "SELL"} /\ o.pc = "committing"
    BY DEF Commit, PaperInv, PaperTypeOK, Session
  <1>2. /\ p \in Positions /\ p.row /\ seen[s].cash \in Nat
        /\ o.side = "BUY"  => seen[s].cash >= notional
        /\ o.side = "SELL" => p.quantity >= o.quantity
    BY <1>1 DEF PaperInv, PaperTypeOK, ReadsCover, ReadsSound
  <1>3. row \in Positions /\ row.row
    <2>1. position \in Positions
      BY DEF PaperInv, PaperTypeOK, NeverOverdrawn, Positions
    <2> QED
      BY <2>1 DEF Positions
  <1>4. new \in Positions /\ new.row
    BY <1>1, <1>2, TradedPosition
  <1>5. position' = Merged(row, p, new)
    BY DEF Commit
  <1>6. position' \in Positions /\ position'.row
    <2> HIDE DEF row, p, new
    <2> QED
      BY <1>2, <1>3, <1>4, <1>5, MergedFields
  <1>7. cash' \in Nat
    BY <1>1, <1>2 DEF Commit
  <1>8. booked' \in [cash: Int, quantity: Int]
    BY <1>1 DEF Commit, PaperInv, PaperTypeOK
  <1> HIDE DEF row, p, new, notional
  <1>9. /\ sess' \in [Sessions -> Session]
        /\ seen' \in [Sessions -> SeenType]
        /\ sess'[s].pc \in {"idle", "choosing"}
        /\ sess'[s].pc = "choosing" => sess'[s].auto
        /\ sess'[s].auto => sess'[s].next >= 1
        /\ seen'[s].cash = Unread /\ seen'[s].position = Unread
        /\ \A t \in Sessions \ {s} : sess'[t] = sess[t] /\ seen'[t] = seen[t]
    <2>1. sess \in [Sessions -> Session] /\ AutoHasNext(s)
          /\ seen \in [Sessions -> SeenType]
      BY DEF PaperInv, PaperTypeOK, SeenType
    <2>2. /\ sess' = [sess EXCEPT ![s] = IF o.auto THEN [o EXCEPT !.pc = "choosing", !.next = @ + 1]
                                         ELSE IdleSession]
          /\ seen' = [seen EXCEPT ![s] = Nothing]
      BY DEF Commit
    <2>3. CASE o.auto
      <3> DEFINE on == [o EXCEPT !.pc = "choosing", !.next = @ + 1]
      <3>1. o \in Session /\ o.next \in Nat /\ o.next >= 1
        BY <2>1, <2>3 DEF Session, AutoHasNext
      <3>2. o.next + 1 \in Nat /\ o.next + 1 >= 1
        BY <3>1
      <3>3. on \in Session /\ on.pc = "choosing" /\ on.auto /\ on.next >= 1
        BY <2>3, <3>1, <3>2 DEF Session
      <3>4. sess' = [sess EXCEPT ![s] = on]
        BY <2>2, <2>3
      <3> HIDE DEF on, o
      <3> QED
        BY <2>1, <2>2, <3>3, <3>4, IdleType
    <2>4. CASE ~o.auto
      <3>1. sess' = [sess EXCEPT ![s] = IdleSession]
        BY <2>2, <2>4
      <3> QED
        BY <2>1, <2>2, <3>1, IdleType
    <2> QED
      BY <2>3, <2>4
  <1>13. overtaken' \subseteq Sessions /\ overwrote' \in BOOLEAN
    BY DEF Commit, PaperInv, PaperTypeOK
  <1>10. PaperTypeOK'
    BY <1>13, <1>6, <1>7, <1>8, <1>9 DEF Commit, PaperInv, PaperTypeOK, Positions, SeenType
  <1>11. NeverOverdrawn'
    BY <1>6, <1>7 DEF NeverOverdrawn, Positions
  <1>12. \A t \in Sessions : (AutoHasNext(t) /\ ReadsCover(t) /\ ReadsSound(t))'
    BY <1>9 DEF PaperInv, AutoHasNext, ReadsCover, ReadsSound
  <1> QED
    BY <1>6, <1>10, <1>11, <1>12 DEF Commit, PaperInv

\* A step of one session that leaves the rows alone keeps the invariant when it
\* keeps what the invariant says of that session.
LEMMA SessionStep ==
  ASSUME PaperInv, NEW s \in Sessions,
         sess' \in [Sessions -> Session], seen' \in [Sessions -> SeenType],
         \A t \in Sessions \ {s} : sess'[t] = sess[t] /\ seen'[t] = seen[t],
         AutoHasNext(s)', ReadsCover(s)', ReadsSound(s)',
         UNCHANGED <<rowVars, mark, booked>>,
         opened' \in 0 .. MaxOpened, overtaken' \subseteq Sessions, overwrote' \in BOOLEAN
  PROVE  PaperInv'
  <1>1. PaperTypeOK'
    BY DEF PaperInv, PaperTypeOK, SeenType, rowVars
  <1>2. NeverOverdrawn' /\ (mark # Unread => position.row)'
    BY DEF PaperInv, NeverOverdrawn, rowVars
  <1>3. \A t \in Sessions : (AutoHasNext(t) /\ ReadsCover(t) /\ ReadsSound(t))'
    BY DEF PaperInv, AutoHasNext, ReadsCover, ReadsSound
  <1> QED
    BY <1>1, <1>2, <1>3 DEF PaperInv

\* The types a session's step starts from.
LEMMA SessionTypes ==
  ASSUME PaperInv, NEW s \in Sessions
  PROVE  /\ sess \in [Sessions -> Session] /\ seen \in [Sessions -> SeenType]
         /\ sess[s] \in Session /\ seen[s] \in SeenType
         /\ position \in Positions /\ cash \in Nat
         /\ Cash(s) \in Nat /\ Position(s) \in Positions
         /\ opened \in 0 .. MaxOpened /\ overtaken \subseteq Sessions /\ overwrote \in BOOLEAN
         /\ AutoHasNext(s) /\ ReadsCover(s) /\ ReadsSound(s)
  <1>1. position \in Positions /\ cash \in Nat
    BY DEF PaperInv, PaperTypeOK, NeverOverdrawn, Positions
  <1>2. sess \in [Sessions -> Session] /\ seen \in [Sessions -> SeenType]
    BY DEF PaperInv, PaperTypeOK, SeenType
  <1>3. AutoHasNext(s) /\ ReadsCover(s) /\ ReadsSound(s)
    BY DEF PaperInv
  <1>4. Cash(s) \in Nat /\ Position(s) \in Positions
    BY <1>1, <1>2, <1>3 DEF Cash, Position, ReadsSound, SeenType
  <1> QED
    BY <1>1, <1>2, <1>3, <1>4 DEF PaperInv, PaperTypeOK

\* Opening a session keeps the count of sessions below its bound.
LEMMA CountTypes ==
  ASSUME PaperInv, NEW s \in Sessions, Count(s)
  PROVE  opened' \in 0 .. MaxOpened /\ overtaken' \subseteq Sessions /\ overwrote' \in BOOLEAN
  BY PaperAssumption DEF Count, PaperInv, PaperTypeOK

\* A session that ends has no obligations.
LEMMA LeaveStep ==
  ASSUME PaperInv, NEW s \in Sessions, Leave(s),
         UNCHANGED <<rowVars, mark, booked, opened, overwrote>>
  PROVE  PaperInv'
  <1>1. /\ sess' \in [Sessions -> Session] /\ seen' \in [Sessions -> SeenType]
        /\ \A t \in Sessions \ {s} : sess'[t] = sess[t] /\ seen'[t] = seen[t]
        /\ sess'[s] = IdleSession /\ seen'[s] = Nothing
    BY SessionTypes, IdleType DEF Leave
  <1>2. AutoHasNext(s)' /\ ReadsCover(s)' /\ ReadsSound(s)'
    BY <1>1, IdleType DEF AutoHasNext, ReadsCover, ReadsSound
  <1>3. opened' \in 0 .. MaxOpened /\ overtaken' \subseteq Sessions /\ overwrote' \in BOOLEAN
    BY SessionTypes DEF Leave
  <1> QED
    BY <1>1, <1>2, <1>3, SessionStep

\* A session that changes only what it does, and is not about to commit.
LEMMA MoveStep ==
  ASSUME PaperInv, NEW s \in Sessions, NEW o \in Session,
         sess' = [sess EXCEPT ![s] = o], o.pc \notin {"inserting", "committing"},
         o.pc \in {"choosing", "sizing"} => o.auto, o.auto => o.next >= 1,
         seen' \in [Sessions -> SeenType], ReadsSound(s)',
         \A t \in Sessions \ {s} : seen'[t] = seen[t],
         UNCHANGED <<rowVars, mark, booked>>,
         opened' \in 0 .. MaxOpened, overtaken' \subseteq Sessions, overwrote' \in BOOLEAN
  PROVE  PaperInv'
  <1>1. /\ sess' \in [Sessions -> Session] /\ sess'[s] = o
        /\ \A t \in Sessions \ {s} : sess'[t] = sess[t]
    BY SessionTypes
  <1>2. AutoHasNext(s)' /\ ReadsCover(s)'
    BY <1>1 DEF AutoHasNext, ReadsCover
  <1> QED
    BY <1>1, <1>2, SessionStep

\* The steps before place_order.
LEMMA OpenStep ==
  ASSUME PaperInv, NEW s \in Sessions, OpenOrder(s) \/ OpenAuto(s)
  PROVE  PaperInv'
  <1>1. /\ seen' = [seen EXCEPT ![s].cash = cash] /\ Count(s)
        /\ UNCHANGED <<rowVars, mark, booked>>
    BY DEF OpenOrder, OpenAuto
  <1>2. /\ seen' \in [Sessions -> SeenType] /\ ReadsSound(s)'
        /\ \A t \in Sessions \ {s} : seen'[t] = seen[t]
    BY <1>1, SessionTypes DEF SeenType, ReadsSound
  <1>3. opened' \in 0 .. MaxOpened /\ overtaken' \subseteq Sessions /\ overwrote' \in BOOLEAN
    BY <1>1, CountTypes
  <1>4. PICK o \in Session : /\ sess' = [sess EXCEPT ![s] = o]
                             /\ o.pc \notin {"inserting", "committing"}
                             /\ o.pc \in {"choosing", "sizing"} => o.auto
                             /\ o.auto => o.next >= 1
    <2>1. CASE OpenOrder(s)
      <3>1. PICK side \in {"BUY", "SELL"}, q \in Quantities, limit \in Prices \cup {NoLimit} :
              sess' = [sess EXCEPT ![s] = [IdleSession EXCEPT !.pc = "quoting", !.side = side,
                                                              !.quantity = q, !.limit = limit]]
        BY <2>1 DEF OpenOrder
      <3> DEFINE o == [IdleSession EXCEPT !.pc = "quoting", !.side = side,
                                          !.quantity = q, !.limit = limit]
      <3>2. o \in Session /\ o.pc = "quoting" /\ ~o.auto
        BY PaperAssumption DEF IdleSession, Session
      <3> HIDE DEF o
      <3> QED
        BY <3>1, <3>2 DEF o
    <2>2. CASE OpenAuto(s)
      <3> DEFINE o == [IdleSession EXCEPT !.pc = "choosing", !.auto = TRUE, !.next = 1]
      <3>1. o \in Session /\ o.pc = "choosing" /\ o.auto /\ o.next >= 1
        <4>1. o \in Session /\ o.pc = "choosing" /\ o.auto /\ o.next = 1
          BY DEF IdleSession, Session
        <4> QED
          BY <4>1
      <3>2. sess' = [sess EXCEPT ![s] = o]
        BY <2>2 DEF OpenAuto
      <3> HIDE DEF o
      <3> QED
        BY <3>1, <3>2
    <2> QED
      BY <2>1, <2>2
  <1> QED
    BY <1>1, <1>2, <1>3, <1>4, MoveStep

LEMMA LoopStep ==
  ASSUME PaperInv, NEW s \in Sessions, ChooseSignal(s) \/ SkipSignal(s) \/ Size(s)
  PROVE  PaperInv'
  <1>1. /\ seen' \in [Sessions -> SeenType] /\ ReadsSound(s)'
        /\ \A t \in Sessions \ {s} : seen'[t] = seen[t]
    <2>1. CASE ChooseSignal(s)
      <3> DEFINE c == Cash(s)
                 p == IF Position(s).quantity > 0 THEN Position(s) ELSE seen[s].position
      <3>1. seen' = [seen EXCEPT ![s].cash = c, ![s].position = p]
        BY <2>1, SessionTypes DEF ChooseSignal, SeenType
      <3>2. Position(s).quantity > 0 => Position(s).row
        BY ZeroPositions DEF Position, PaperInv, PaperTypeOK, ReadsSound
      <3>3. /\ c \in Nat /\ p \in Positions \cup {Unread}
            /\ p # Unread => p.row
        BY <3>2, SessionTypes DEF SeenType, ReadsSound
      <3> HIDE DEF c, p
      <3> QED
        BY <3>1, <3>3, SessionTypes DEF SeenType, ReadsSound
    <2>2. CASE SkipSignal(s) \/ Size(s)
      BY <2>2, SessionTypes DEF SkipSignal, Size, ReadsSound
    <2> QED
      BY <2>1, <2>2
  <1>2. UNCHANGED <<rowVars, mark, booked, opened, overtaken, overwrote>>
    BY DEF ChooseSignal, SkipSignal, Size
  <1>3. opened' \in 0 .. MaxOpened /\ overtaken' \subseteq Sessions /\ overwrote' \in BOOLEAN
    BY <1>2, SessionTypes
  <1>4. sess[s] \in Session /\ AutoHasNext(s)
    BY SessionTypes
  <1>5. PICK o \in Session : /\ sess' = [sess EXCEPT ![s] = o]
                             /\ o.pc \notin {"inserting", "committing"}
                             /\ o.pc \in {"choosing", "sizing"} => o.auto
                             /\ o.auto => o.next >= 1
    <2>1. CASE ChooseSignal(s)
      <3> DEFINE o == [sess[s] EXCEPT !.pc = "sizing", !.side = Signals[sess[s].next]]
      <3>1. sess' = [sess EXCEPT ![s] = o] /\ sess[s].pc = "choosing"
            /\ sess[s].next \in Nat /\ sess[s].next <= Len(Signals)
        BY <1>4, <2>1, SessionTypes DEF ChooseSignal, Session
      <3>2. Signals[sess[s].next] \in {"BUY", "SELL"} /\ sess[s].auto /\ sess[s].next >= 1
        BY <1>4, <3>1, PaperAssumption DEF AutoHasNext
      <3>3. o \in Session /\ o.pc = "sizing" /\ o.auto /\ o.next >= 1
        BY <1>4, <3>2 DEF Session
      <3> HIDE DEF o
      <3> QED
        BY <3>1, <3>3
    <2>2. CASE SkipSignal(s)
      <3> DEFINE o == [sess[s] EXCEPT !.pc = "choosing", !.next = @ + 1]
      <3>1. sess' = [sess EXCEPT ![s] = o] /\ sess[s].pc \in {"choosing", "sizing"}
        BY <1>4, <2>2, SessionTypes DEF SkipSignal, Session
      <3>2. sess[s].auto /\ sess[s].next \in Nat /\ sess[s].next >= 1
        BY <1>4, <3>1 DEF Session, AutoHasNext
      <3>3. sess[s].next + 1 \in Nat /\ sess[s].next + 1 >= 1
        BY <3>2
      <3>4. o \in Session /\ o.pc = "choosing" /\ o.auto /\ o.next >= 1
        BY <1>4, <3>2, <3>3 DEF Session
      <3> HIDE DEF o
      <3> QED
        BY <3>1, <3>4
    <2>3. CASE Size(s)
      <3>1. PICK q \in (IF sess[s].side = "SELL" THEN {Position(s).quantity} ELSE Quantities) :
              sess' = [sess EXCEPT ![s].pc = "quoting", ![s].quantity = q]
        BY <2>3 DEF Size
      <3>2. q \in Nat /\ sess[s].pc = "sizing"
        BY <2>3, SessionTypes, PaperAssumption DEF Size, Positions
      <3> DEFINE o == [sess[s] EXCEPT !.pc = "quoting", !.quantity = q]
      <3>3. sess' = [sess EXCEPT ![s] = o]
        BY <1>4, <3>1, SessionTypes DEF Session
      <3>4. o \in Session /\ o.pc = "quoting" /\ (o.auto => o.next >= 1)
        BY <1>4, <3>2 DEF Session, AutoHasNext
      <3> HIDE DEF o
      <3> QED
        BY <3>3, <3>4
    <2> QED
      BY <2>1, <2>2, <2>3
  <1> QED
    BY <1>1, <1>2, <1>3, <1>5, MoveStep

\* The checks of place_order are what makes the commit safe.
LEMMA QuoteStep ==
  ASSUME PaperInv, NEW s \in Sessions, Quote(s)
  PROVE  PaperInv'
  <1>1. PICK market \in Prices :
          LET price == ExecutionPrice(s, market) IN
          /\ Crosses(s, market) /\ Covered(s, price)
          /\ sess' = [sess EXCEPT ![s].price = price, ![s].limit = NoLimit,
                                  ![s].pc = IF Position(s).row THEN "committing" ELSE "inserting"]
    BY DEF Quote
  <1> DEFINE price == ExecutionPrice(s, market)
             c == Cash(s)
             p == IF Position(s).row THEN Position(s) ELSE ZeroRow
             pc == IF Position(s).row THEN "committing" ELSE "inserting"
             o == [sess[s] EXCEPT !.price = price, !.limit = NoLimit, !.pc = pc]
  <1>2. sess[s] \in Session /\ sess[s].pc = "quoting" /\ AutoHasNext(s)
    BY SessionTypes DEF Quote
  <1>3. price \in Nat
    BY <1>2, PaperAssumption DEF ExecutionPrice, Session
  <1>4. /\ c \in Nat /\ p \in Positions /\ p.row
        /\ sess[s].side = "BUY"  => c >= price * sess[s].quantity
        /\ sess[s].side = "SELL" => p.quantity >= sess[s].quantity
    <2>1. c \in Nat /\ Position(s) \in Positions /\ Covered(s, price)
      BY <1>1, SessionTypes
    <2>2. ~Position(s).row => Position(s).quantity = 0
      BY ZeroPositions DEF Position, PaperInv, PaperTypeOK, ReadsSound
    <2> QED
      BY <2>1, <2>2, ZeroPositions DEF Covered
  <1>5. sess' = [sess EXCEPT ![s] = o] /\ seen' = [seen EXCEPT ![s].cash = c, ![s].position = p]
    BY <1>1, <1>2, SessionTypes DEF Quote, Session
  <1>6. o \in Session /\ o.quantity = sess[s].quantity /\ o.price = price
        /\ o.side = sess[s].side /\ o.auto = sess[s].auto /\ o.next = sess[s].next
        /\ o.pc \in {"inserting", "committing"}
    BY <1>2, <1>3 DEF Session
  <1> HIDE DEF price, c, p, pc, o
  <1>7. /\ sess' \in [Sessions -> Session] /\ seen' \in [Sessions -> SeenType]
        /\ sess'[s] = o /\ seen'[s].cash = c /\ seen'[s].position = p
        /\ \A t \in Sessions \ {s} : sess'[t] = sess[t] /\ seen'[t] = seen[t]
    BY <1>4, <1>5, <1>6, SessionTypes DEF SeenType
  <1>8. AutoHasNext(s)' /\ ReadsSound(s)'
    BY <1>2, <1>4, <1>6, <1>7 DEF AutoHasNext, ReadsSound
  <1>9. ReadsCover(s)'
    <2>1. Unread \notin Nat /\ p # Unread
      BY <1>4, PaperAssumption
    <2> QED
      BY <1>4, <1>6, <1>7, <2>1 DEF ReadsCover
  <1> QED
    BY <1>7, <1>8, <1>9, SessionTypes, SessionStep DEF Quote

LEMMA OtherSessionStep ==
  ASSUME PaperInv, NEW s \in Sessions,
         EndAuto(s) \/ Reject(s) \/ Insert(s) \/ Die(s)
  PROVE  PaperInv'
  <1>1. UNCHANGED <<rowVars, mark, booked, opened, overwrote>>
    BY DEF EndAuto, Reject, Insert, Die
  <1>2. CASE Leave(s)
    BY <1>1, <1>2, LeaveStep
  <1>3. sess[s] \in Session /\ AutoHasNext(s) /\ ReadsCover(s) /\ ReadsSound(s)
    BY SessionTypes
  <1>4. CASE Reject(s) /\ sess[s].auto
    <2>1. sess[s].next \in Nat /\ sess[s].next + 1 \in Nat /\ sess[s].next + 1 >= 1
      BY <1>3 DEF Session
    <2> DEFINE o == [sess[s] EXCEPT !.pc = "choosing", !.next = @ + 1]
    <2>2. sess' = [sess EXCEPT ![s] = o] /\ UNCHANGED seen
      BY <1>3, <1>4, SessionTypes DEF Reject, Session
    <2>3. o \in Session /\ o.pc = "choosing" /\ o.auto /\ o.next >= 1
      BY <1>3, <1>4, <2>1 DEF Session
    <2> HIDE DEF o
    <2>4. seen' \in [Sessions -> SeenType] /\ ReadsSound(s)' /\ opened' \in 0 .. MaxOpened
      BY <1>1, <1>3, <2>2, SessionTypes DEF ReadsSound
    <2>5. overtaken' \subseteq Sessions /\ overwrote' \in BOOLEAN
      BY <1>1, <1>4, SessionTypes DEF Reject
    <2> QED
      BY <1>1, <2>2, <2>3, <2>4, <2>5, MoveStep
  <1>5. CASE Insert(s) /\ ~position.row
    <2> DEFINE o == [sess[s] EXCEPT !.pc = "committing"]
    <2>1. sess' = [sess EXCEPT ![s] = o] /\ UNCHANGED seen /\ sess[s].pc = "inserting"
      BY <1>3, <1>5, SessionTypes DEF Insert, Session
    <2>2. o \in Session /\ o.pc = "committing" /\ o.auto = sess[s].auto
          /\ o.next = sess[s].next /\ o.side = sess[s].side
          /\ o.quantity = sess[s].quantity /\ o.price = sess[s].price
      BY <1>3 DEF Session
    <2> HIDE DEF o
    <2>3. /\ sess' \in [Sessions -> Session] /\ sess'[s] = o
          /\ seen' \in [Sessions -> SeenType]
          /\ \A t \in Sessions \ {s} : sess'[t] = sess[t] /\ seen'[t] = seen[t]
      BY <2>1, <2>2, SessionTypes
    <2>4. AutoHasNext(s)' /\ ReadsCover(s)' /\ ReadsSound(s)'
      BY <1>3, <2>1, <2>2, <2>3 DEF AutoHasNext, ReadsCover, ReadsSound
    <2>5. /\ opened' \in 0 .. MaxOpened /\ overtaken' \subseteq Sessions
          /\ overwrote' \in BOOLEAN
      BY <1>1, <1>5, SessionTypes DEF Insert
    <2> QED
      BY <1>1, <2>3, <2>4, <2>5, SessionTypes, SessionStep
  <1> QED
    BY <1>2, <1>4, <1>5 DEF EndAuto, Reject, Insert, Die

\* Archiving and marking to market leave cash and quantity alone.
LEMMA ServiceStep ==
  ASSUME PaperInv, Archive \/ MarkRead \/ MarkWrite \/ MarkFails
  PROVE  PaperInv'
  <1>1. UNCHANGED <<cash, sess, seen, booked, opened, overtaken, overwrote>>
    BY DEF Archive, MarkRead, MarkWrite, MarkFails, rowVars
  <1>2. /\ position' \in Positions /\ position'.row = position.row
        /\ ~position'.row => position' = NoPosition
        /\ status' \in {"active", "archived"} /\ mark' \in Nat \cup {Unread}
        /\ mark' # Unread => position'.row
    <2>1. /\ position \in Positions /\ mark \in Nat \cup {Unread}
          /\ status \in {"active", "archived"}
          /\ ~position.row => position = NoPosition
          /\ mark # Unread => position.row
      BY DEF PaperInv, PaperTypeOK, NeverOverdrawn, Positions
    <2>2. CASE MarkWrite
      <3>1. PICK price \in Prices : position' = [position EXCEPT !.market_value = mark * price]
        BY <2>2 DEF MarkWrite
      <3> DEFINE value == mark * price
      <3>2. mark \in Nat /\ price \in Nat /\ position.row
        BY <2>1, <2>2, PaperAssumption DEF MarkWrite
      <3>3. value \in Nat
        BY <3>2
      <3>4. position' = [position EXCEPT !.market_value = value]
        BY <3>1
      <3> HIDE DEF value
      <3>5. position' \in Positions /\ position'.row
        BY <2>1, <3>2, <3>3, <3>4 DEF Positions
      <3>6. status' = status /\ mark' = Unread
        BY <2>2 DEF MarkWrite
      <3> QED
        BY <2>1, <3>2, <3>5, <3>6
    <2>3. CASE MarkRead
      <3>1. position' = position /\ status' = status /\ mark' = position.quantity
            /\ position.quantity > 0
        BY <2>3 DEF MarkRead, rowVars
      <3>2. position.row
        BY <2>1, <3>1, ZeroPositions
      <3>3. position.quantity \in Nat
        BY <2>1 DEF Positions
      <3> QED
        BY <2>1, <3>1, <3>2, <3>3
    <2>4. CASE Archive \/ MarkFails
      <3>1. position' = position /\ status' \in {status, "archived"} /\ mark' \in {mark, Unread}
        BY <2>4 DEF Archive, MarkFails, rowVars
      <3> QED
        BY <2>1, <3>1
    <2> QED
      BY <2>2, <2>3, <2>4
  <1>3. PaperTypeOK'
    BY <1>1, <1>2 DEF PaperInv, PaperTypeOK, Positions
  <1>4. NeverOverdrawn'
    BY <1>1, <1>2 DEF PaperInv, NeverOverdrawn, Positions
  <1>5. \A t \in Sessions : (AutoHasNext(t) /\ ReadsCover(t) /\ ReadsSound(t))'
    BY <1>1 DEF PaperInv, AutoHasNext, ReadsCover, ReadsSound
  <1> QED
    BY <1>2, <1>3, <1>4, <1>5 DEF PaperInv

\* The invariant is inductive.
THEOREM PaperInvariant == PaperSpec => []PaperInv
  <1>1. PaperInit => PaperInv
    BY PaperInitInv
  <1>2. PaperInv /\ [PaperNext]_paperVars => PaperInv'
    <2> SUFFICES ASSUME PaperInv, [PaperNext]_paperVars PROVE PaperInv'
      OBVIOUS
    <2>1. CASE Archive \/ MarkRead \/ MarkWrite \/ MarkFails
      BY <2>1, ServiceStep
    <2>2. ASSUME NEW s \in Sessions, Trading(s) PROVE PaperInv'
      BY <2>2, OpenStep, LoopStep, QuoteStep, OtherSessionStep, CommitStep DEF Trading
    <2>3. CASE UNCHANGED paperVars
      BY <2>3 DEF paperVars, PaperInv, PaperTypeOK, NeverOverdrawn,
                  AutoHasNext, ReadsCover, ReadsSound
    <2> QED
      BY <2>1, <2>2, <2>3 DEF PaperNext
  <1> QED
    BY <1>1, <1>2, PTL DEF PaperSpec

\* The rows and the sessions have the types the code gives them.
THEOREM PaperTypes == PaperSpec => []PaperTypeOK
  <1>1. PaperInv => PaperTypeOK
    BY DEF PaperInv
  <1> QED
    BY <1>1, PaperInvariant, PTL

\* Overlapping sessions can lose an update; they cannot overdraw the account or
\* sell more than is held, since a commit writes the very values the session
\* checked.
THEOREM Solvent == PaperSpec => []NeverOverdrawn
  <1>1. PaperInv => NeverOverdrawn
    BY DEF PaperInv
  <1> QED
    BY <1>1, PaperInvariant, PTL

\* After the account is archived and the last session has ended nothing fills:
\* only the opening of a session could lead there, and it reads the status.
THEOREM ArchivedIsQuiet == PaperSpec => QuietAfterArchive
  <1> DEFINE Quiet == status = "archived" /\ \A s \in Sessions : sess[s].pc = "idle"
             Stays == booked' = booked /\ \A s \in Sessions : sess'[s].pc = "idle"
  <1>1. ASSUME [PaperNext]_paperVars, Quiet PROVE Stays
    <2>1. CASE Archive \/ MarkRead \/ MarkWrite \/ MarkFails
      BY <1>1, <2>1 DEF Archive, MarkRead, MarkWrite, MarkFails
    <2>2. ASSUME NEW s \in Sessions, Trading(s) PROVE FALSE
      BY <1>1, <2>2 DEF Trading, OpenOrder, OpenAuto, ChooseSignal, SkipSignal, Size,
                        EndAuto, Quote, Reject, Insert, Commit, Die
    <2>3. CASE UNCHANGED paperVars
      BY <1>1, <2>3 DEF paperVars
    <2> QED
      BY <1>1, <2>1, <2>2, <2>3 DEF PaperNext
  <1> QED
    BY <1>1, PTL DEF PaperSpec, QuietAfterArchive

-----------------------------------------------------------------------------
(* The books.                                                              *)

\* What a session has read is what the rows still say, unless another one has
\* committed since.
Current(s) ==
    s \notin overtaken =>
        /\ seen[s].cash # Unread => seen[s].cash = cash
        /\ seen[s].position # Unread => /\ seen[s].position.quantity = position.quantity
                                        /\ seen[s].position.avg_cost = position.avg_cost

BookInv ==
    /\ \A s \in Sessions : sess[s].pc = "idle" => seen[s].cash = Unread /\ seen[s].position = Unread
    /\ \A s \in Sessions : Current(s)
    /\ ~overwrote => Balanced

\* A session that read the rows as they are fills its order on them.
LEMMA CommitFills ==
  ASSUME PaperInv, BookInv, NEW s \in Sessions, s \notin overtaken, Commit(s)
  PROVE  /\ sess[s].price \in Nat /\ sess[s].quantity \in Nat
         /\ sess[s].side \in {"BUY", "SELL"}
         /\ sess[s].side = "BUY" =>
              /\ cash >= sess[s].price * sess[s].quantity
              /\ cash' = cash - sess[s].price * sess[s].quantity
              /\ position'.quantity = position.quantity + sess[s].quantity
         /\ sess[s].side = "SELL" =>
              /\ position.quantity >= sess[s].quantity
              /\ cash' = cash + sess[s].price * sess[s].quantity
              /\ position'.quantity = position.quantity - sess[s].quantity
  <1> DEFINE o == sess[s]
             p == seen[s].position
             new == IF o.side = "BUY" THEN Bought(p, o.quantity, o.price)
                                      ELSE Sold(p, o.quantity, o.price)
             row == [position EXCEPT !.row = TRUE]
             notional == o.price * o.quantity
  <1>1. /\ o.quantity \in Nat /\ o.price \in Nat /\ notional \in Nat
        /\ o.side \in {"BUY", "SELL"} /\ o.pc = "committing"
    BY DEF Commit, PaperInv, PaperTypeOK, Session
  <1>2. /\ p \in Positions /\ p.row /\ seen[s].cash \in Nat
        /\ o.side = "BUY" => seen[s].cash >= notional
        /\ o.side = "SELL" => p.quantity >= o.quantity
        /\ seen[s].cash = cash /\ p.quantity = position.quantity
    BY <1>1 DEF PaperInv, PaperTypeOK, ReadsCover, ReadsSound, BookInv, Current
  <1>3. row \in Positions /\ row.row /\ row.quantity = position.quantity
    <2>1. position \in Positions
      BY DEF PaperInv, PaperTypeOK, NeverOverdrawn, Positions
    <2> QED
      BY <2>1 DEF Positions
  <1>4. /\ new \in Positions /\ new.row
        /\ new.quantity = IF o.side = "BUY" THEN p.quantity + o.quantity
                                            ELSE p.quantity - o.quantity
    <2> HIDE DEF o, p
    <2>1. CASE o.side = "BUY"
      <3>1. new = Bought(p, o.quantity, o.price)
        BY <2>1
      <3> HIDE DEF new
      <3> QED
        BY <1>1, <1>2, <2>1, <3>1, TradedPosition
    <2>2. CASE o.side = "SELL"
      <3>1. new = Sold(p, o.quantity, o.price)
        BY <2>2
      <3> HIDE DEF new
      <3> QED
        BY <1>1, <1>2, <2>2, <3>1, TradedPosition
    <2> QED
      BY <1>1, <2>1, <2>2
  <1>5. position' = Merged(row, p, new)
    BY DEF Commit
  <1>6. position'.quantity = new.quantity
    <2> HIDE DEF row, p, new
    <2> QED
      BY <1>2, <1>3, <1>4, <1>5, MergedFields
  <1>7. cash' = IF o.side = "BUY" THEN cash - notional ELSE cash + notional
    BY <1>2 DEF Commit
  <1> HIDE DEF row, new, p
  <1> QED
    BY <1>1, <1>2, <1>4, <1>6, <1>7

LEMMA CommitBalanced ==
  ASSUME PaperInv, BookInv, ~overwrote, NEW s \in Sessions, s \notin overtaken, Commit(s)
  PROVE  Balanced'
  <1> DEFINE o == sess[s]
             notional == o.price * o.quantity
  <1>1. /\ o.price \in Nat /\ o.quantity \in Nat /\ notional \in Nat
        /\ o.side \in {"BUY", "SELL"}
        /\ o.side = "BUY"  => cash' = cash - notional /\ position'.quantity = position.quantity + o.quantity
        /\ o.side = "SELL" => cash' = cash + notional /\ position'.quantity = position.quantity - o.quantity
    BY CommitFills
  <1>2. /\ booked \in [cash: Int, quantity: Int] /\ Balance \in Nat
        /\ cash = Balance + booked.cash /\ position.quantity = booked.quantity
    BY PaperAssumption DEF PaperInv, PaperTypeOK, BookInv, Balanced
  <1>3. /\ booked'.cash = booked.cash + (IF o.side = "BUY" THEN -1 ELSE 1) * notional
        /\ booked'.quantity = booked.quantity + (IF o.side = "BUY" THEN 1 ELSE -1) * o.quantity
    <2>1. (IF o.side = "BUY" THEN -1 ELSE 1) * o.price * o.quantity
            = (IF o.side = "BUY" THEN -1 ELSE 1) * notional
      BY <1>1
    <2> QED
      BY <2>1 DEF Commit
  <1>4. o.side = "BUY" \/ o.side = "SELL"
    BY <1>1
  <1> HIDE DEF o, notional
  <1> QED
    BY <1>1, <1>2, <1>3, <1>4 DEF Balanced

\* What a commit leaves behind: the session has read nothing, and every other
\* session that has read something is overtaken.
LEMMA CommitLeaves ==
  ASSUME PaperInv, NEW s \in Sessions, Commit(s)
  PROVE  /\ seen'[s].cash = Unread /\ seen'[s].position = Unread
         /\ sess'[s].pc \in {"idle", "choosing"}
         /\ \A t \in Sessions \ {s} : sess'[t] = sess[t] /\ seen'[t] = seen[t]
         /\ \A t \in Sessions \ {s} : t \notin overtaken' => seen[t] = Nothing
         /\ overwrote' = (overwrote \/ s \in overtaken)
  <1>1. sess \in [Sessions -> Session] /\ seen \in [Sessions -> SeenType] /\ sess[s] \in Session
    BY DEF PaperInv, PaperTypeOK, SeenType
  <1>2. /\ sess' = [sess EXCEPT ![s] = IF sess[s].auto
                                         THEN [sess[s] EXCEPT !.pc = "choosing", !.next = @ + 1]
                                         ELSE IdleSession]
        /\ seen' = [seen EXCEPT ![s] = Nothing]
        /\ overtaken' = {t \in Sessions \ {s} : seen[t] # Nothing}
        /\ overwrote' = (overwrote \/ s \in overtaken)
    BY DEF Commit
  <1>3. [sess[s] EXCEPT !.pc = "choosing", !.next = @ + 1].pc = "choosing"
    BY <1>1 DEF Session
  <1>4. sess'[s].pc \in {"idle", "choosing"}
    BY <1>1, <1>2, <1>3, IdleType
  <1> QED
    BY <1>1, <1>2, <1>4, IdleType

\* A session that looks at the rows, or does not, while they stay as they are.
LEMMA BookFrame ==
  ASSUME BookInv, NEW s \in Sessions,
         UNCHANGED <<rowVars, booked, overtaken, overwrote>>,
         sess[s].pc # "idle", sess'[s].pc # "idle",
         \A t \in Sessions \ {s} : sess'[t] = sess[t] /\ seen'[t] = seen[t],
         seen'[s].cash \in {Cash(s), seen[s].cash},
         \/ seen'[s].position = seen[s].position
         \/ /\ seen'[s].position.quantity = Position(s).quantity
            /\ seen'[s].position.avg_cost = Position(s).avg_cost
  PROVE  BookInv'
  <1>1. Current(s)'
    BY DEF BookInv, Current, Cash, Position, rowVars
  <1>2. \A t \in Sessions \ {s} : Current(t)'
    BY DEF BookInv, Current, rowVars
  <1>3. Balanced' = Balanced
    BY DEF Balanced, rowVars
  <1> QED
    BY <1>1, <1>2, <1>3 DEF BookInv

LEMMA BookStep ==
  ASSUME PaperInv, PaperInv', BookInv, [PaperNext]_paperVars
  PROVE  BookInv'
  <1>1. sess \in [Sessions -> Session] /\ seen \in [Sessions -> SeenType]
    BY DEF PaperInv, PaperTypeOK, SeenType
  <1>2. CASE Archive \/ MarkRead \/ MarkWrite \/ MarkFails
    <2>1. UNCHANGED <<cash, sess, seen, booked, overtaken, overwrote>>
      BY <1>2 DEF Archive, MarkRead, MarkWrite, MarkFails, rowVars
    <2>2. position'.quantity = position.quantity /\ position'.avg_cost = position.avg_cost
      <3>1. CASE MarkWrite
        <4>1. position \in [row: BOOLEAN, quantity: Int, avg_cost: Nat, market_value: Nat]
          BY DEF PaperInv, PaperTypeOK
        <4> QED
          BY <3>1, <4>1 DEF MarkWrite
      <3> QED
        BY <1>2, <3>1 DEF Archive, MarkRead, MarkFails, rowVars
    <2> QED
      BY <2>1, <2>2 DEF BookInv, Balanced, Current
  <1>3. ASSUME NEW s \in Sessions, Trading(s) PROVE BookInv'
    <2>1. CASE OpenOrder(s) \/ OpenAuto(s)
      <3>1. /\ sess[s].pc = "idle" /\ sess'[s].pc # "idle"
            /\ \A t \in Sessions \ {s} : sess'[t] = sess[t] /\ seen'[t] = seen[t]
            /\ UNCHANGED <<rowVars, booked, overtaken, overwrote>>
        BY <1>1, <2>1 DEF OpenOrder, OpenAuto, Count, IdleSession
      <3>2. seen'[s].cash = cash /\ seen'[s].position = seen[s].position /\ seen[s].position = Unread
        <4>1. seen'[s].cash = cash /\ seen'[s].position = seen[s].position
          BY <1>1, <2>1 DEF OpenOrder, OpenAuto, SeenType
        <4> QED
          BY <3>1, <4>1 DEF BookInv
      <3>3. \A t \in Sessions : Current(t)'
        BY <3>1, <3>2 DEF BookInv, Current, rowVars
      <3>4. Balanced' = Balanced
        BY <3>1 DEF Balanced, rowVars
      <3> QED
        BY <3>1, <3>3, <3>4 DEF BookInv
    <2>2. CASE Leave(s) /\ UNCHANGED <<rowVars, booked, overwrote>>
      <3>1. /\ sess'[s].pc = "idle" /\ seen'[s].cash = Unread /\ seen'[s].position = Unread
            /\ \A t \in Sessions \ {s} : sess'[t] = sess[t] /\ seen'[t] = seen[t]
            /\ overtaken' = overtaken \ {s}
        BY <1>1, <2>2, IdleType DEF Leave
      <3>2. \A t \in Sessions : Current(t)'
        BY <2>2, <3>1 DEF BookInv, Current, rowVars
      <3>3. Balanced' = Balanced
        BY <2>2 DEF Balanced, rowVars
      <3> QED
        BY <2>2, <3>1, <3>2, <3>3 DEF BookInv
    <2>4. CASE Commit(s)
      <3>1. \A t \in Sessions : Current(t)'
        BY <2>4, CommitLeaves, IdleType DEF Current
      <3>2. ASSUME ~overwrote' PROVE Balanced'
        BY <2>4, <3>2, CommitLeaves, CommitBalanced
      <3>3. \A t \in Sessions : sess'[t].pc = "idle" => seen'[t].cash = Unread /\ seen'[t].position = Unread
        BY <2>4, CommitLeaves DEF BookInv
      <3> QED
        BY <3>1, <3>2, <3>3 DEF BookInv
    <2>5. CASE Quote(s)
      <3>1. PICK market \in Prices :
              /\ sess' = [sess EXCEPT ![s].price = ExecutionPrice(s, market), ![s].limit = NoLimit,
                                      ![s].pc = IF Position(s).row THEN "committing" ELSE "inserting"]
        BY <2>5 DEF Quote
      <3> DEFINE c == Cash(s)
                 p == IF Position(s).row THEN Position(s) ELSE ZeroRow
      <3>2. seen' = [seen EXCEPT ![s].cash = c, ![s].position = p]
        BY <2>5 DEF Quote
      <3>3. p.quantity = Position(s).quantity /\ p.avg_cost = Position(s).avg_cost
        <4>1. NoPosition.avg_cost = ZeroRow.avg_cost
          BY DEF NoPosition, ZeroRow
        <4> QED
          BY <4>1, ZeroPositions DEF Position, PaperInv, PaperTypeOK, ReadsSound
      <3>4. sess'[s].pc # "idle" /\ sess[s].pc # "idle"
            /\ UNCHANGED <<rowVars, booked, overtaken, overwrote>>
            /\ \A t \in Sessions \ {s} : sess'[t] = sess[t]
        BY <1>1, <2>5, <3>1 DEF Quote, Session
      <3> HIDE DEF c, p
      <3>5. seen'[s].cash = c /\ seen'[s].position = p
            /\ \A t \in Sessions \ {s} : seen'[t] = seen[t]
        BY <1>1, <3>2 DEF SeenType
      <3> QED
        BY <3>3, <3>4, <3>5, BookFrame DEF c
    <2>6. CASE ChooseSignal(s)
      <3> DEFINE c == Cash(s)
                 p == IF Position(s).quantity > 0 THEN Position(s) ELSE seen[s].position
      <3>1. seen' = [seen EXCEPT ![s].cash = c, ![s].position = p]
        BY <1>1, <2>6 DEF ChooseSignal, SeenType
      <3>2. sess'[s].pc # "idle" /\ sess[s].pc # "idle"
            /\ UNCHANGED <<rowVars, booked, overtaken, overwrote>>
            /\ \A t \in Sessions \ {s} : sess'[t] = sess[t]
        BY <1>1, <2>6 DEF ChooseSignal, Session
      <3>3. p = seen[s].position \/ p = Position(s)
        OBVIOUS
      <3> HIDE DEF c, p
      <3>4. seen'[s].cash = c /\ seen'[s].position = p
            /\ \A t \in Sessions \ {s} : seen'[t] = seen[t]
        BY <1>1, <3>1 DEF SeenType
      <3> QED
        BY <3>2, <3>3, <3>4, BookFrame DEF c
    <2>7. CASE SkipSignal(s) \/ Size(s) \/ (Reject(s) /\ sess[s].auto) \/ (Insert(s) /\ ~position.row)
      <3>1. /\ UNCHANGED <<rowVars, booked, overtaken, overwrote, seen>> /\ sess[s].pc # "idle"
            /\ sess'[s].pc # "idle" /\ \A t \in Sessions \ {s} : sess'[t] = sess[t]
        BY <1>1, <2>7 DEF SkipSignal, Size, Reject, Insert, Session
      <3> QED
        BY <3>1, BookFrame
    <2>8. CASE EndAuto(s) \/ (Reject(s) /\ ~sess[s].auto) \/ (Insert(s) /\ position.row) \/ Die(s)
      BY <2>2, <2>8 DEF EndAuto, Reject, Insert, Die
    <2> QED
      BY <1>3, <2>1, <2>4, <2>5, <2>6, <2>7, <2>8 DEF Trading
  <1>4. CASE UNCHANGED paperVars
    BY <1>4 DEF paperVars, BookInv, Balanced, Current
  <1> QED
    BY <1>2, <1>3, <1>4 DEF PaperNext

\* The books balance when the account is created.
LEMMA BooksStart == PaperInit => BookInv
  <1> SUFFICES ASSUME PaperInit PROVE BookInv
    OBVIOUS
  <1>1. \A s \in Sessions : /\ sess[s].pc = "idle"
                            /\ seen[s].cash = Unread /\ seen[s].position = Unread
    BY IdleType DEF PaperInit
  <1>2. Balanced
    BY ZeroPositions, PaperAssumption DEF PaperInit, Balanced
  <1> QED
    BY <1>1, <1>2 DEF BookInv, Current

\* The reading of a session is current until another one commits.
LEMMA BookInvariant == PaperSpec => [](PaperInv /\ BookInv)
  <1>1. PaperInit => BookInv
    BY BooksStart
  <1>2. PaperInv /\ PaperInv' /\ BookInv /\ [PaperNext]_paperVars => BookInv'
    BY BookStep
  <1> QED
    BY <1>1, <1>2, PaperInvariant, PTL DEF PaperSpec

\* As long as no session commits past a commit it has not seen, cash and
\* holding are what the filled orders add up to, through overlapping sessions,
\* rejections, rollbacks, the loop of the automatic trading in one session, and
\* the market-value job (place_order, auto_trade_from_signals).
THEOREM Books == PaperSpec => []BooksBalance
  <1>1. BookInv => BooksBalance
    BY DEF BookInv, BooksBalance
  <1> QED
    BY <1>1, BookInvariant, PTL

-----------------------------------------------------------------------------
(* The orders.                                                             *)

\* An order that passed the quote has a price; it is for one of the quantities,
\* or a sale of the whole position that the session has read.
Ordered(s) ==
    /\ sess[s].pc = "sizing" /\ sess[s].side = "SELL" => seen[s].position # Unread
    /\ sess[s].pc \in {"quoting", "inserting", "committing"} =>
         \/ sess[s].quantity \in Quantities
         \/ /\ sess[s].side = "SELL" /\ seen[s].position # Unread
            /\ sess[s].quantity = seen[s].position.quantity
    /\ sess[s].pc \in {"inserting", "committing"} => sess[s].price \in Prices

OrderInv == \A s \in Sessions : Ordered(s)

LEMMA OrderStep ==
  ASSUME PaperInv, OrderInv, [PaperNext]_paperVars
  PROVE  OrderInv'
  <1>1. sess \in [Sessions -> Session] /\ seen \in [Sessions -> SeenType]
    BY DEF PaperInv, PaperTypeOK, SeenType
  <1>2. CASE UNCHANGED <<sess, seen>>
    BY <1>2 DEF OrderInv, Ordered
  <1>3. ASSUME NEW s \in Sessions, Trading(s) PROVE OrderInv'
    <2> SUFFICES Ordered(s)' /\ \A t \in Sessions \ {s} : sess'[t] = sess[t] /\ seen'[t] = seen[t]
      BY DEF OrderInv, Ordered
    <2>1. sess[s] \in Session /\ Ordered(s)
      BY <1>1 DEF OrderInv
    <2>2. CASE OpenOrder(s)
      <3>1. PICK side \in {"BUY", "SELL"}, q \in Quantities, limit \in Prices \cup {NoLimit} :
              sess' = [sess EXCEPT ![s] = [IdleSession EXCEPT !.pc = "quoting", !.side = side,
                                                              !.quantity = q, !.limit = limit]]
        BY <2>2 DEF OpenOrder
      <3> DEFINE o == [IdleSession EXCEPT !.pc = "quoting", !.side = side,
                                          !.quantity = q, !.limit = limit]
      <3>2. o.pc = "quoting" /\ o.quantity = q
        BY DEF IdleSession
      <3> HIDE DEF o
      <3>3. sess'[s] = o /\ \A t \in Sessions \ {s} : sess'[t] = sess[t] /\ seen'[t] = seen[t]
        BY <1>1, <2>2, <3>1 DEF OpenOrder, o
      <3> QED
        BY <3>2, <3>3 DEF Ordered
    <2>3. CASE OpenAuto(s)
      <3>1. sess'[s].pc = "choosing" /\ \A t \in Sessions \ {s} : sess'[t] = sess[t] /\ seen'[t] = seen[t]
        BY <1>1, <2>3 DEF OpenAuto, IdleSession
      <3> QED
        BY <3>1 DEF Ordered
    <2>4. CASE ChooseSignal(s)
      <3> DEFINE side == Signals[sess[s].next]
                 c == Cash(s)
                 p == IF Position(s).quantity > 0 THEN Position(s) ELSE seen[s].position
      <3>1. /\ sess' = [sess EXCEPT ![s].pc = "sizing", ![s].side = side]
            /\ side = "SELL" => Position(s).quantity > 0
        BY <2>4 DEF ChooseSignal
      <3>2. seen' = [seen EXCEPT ![s].cash = c, ![s].position = p]
        BY <1>1, <2>4 DEF ChooseSignal, SeenType
      <3>3. Position(s) # Unread
        BY SessionTypes, PaperAssumption
      <3>4. side = "SELL" => p # Unread
        BY <3>1, <3>3
      <3> HIDE DEF side, c, p
      <3>5. /\ sess'[s].pc = "sizing" /\ sess'[s].side = side
            /\ seen'[s].position = p
            /\ \A t \in Sessions \ {s} : sess'[t] = sess[t] /\ seen'[t] = seen[t]
        BY <1>1, <2>1, <3>1, <3>2 DEF Session, SeenType
      <3> QED
        BY <3>4, <3>5 DEF Ordered
    <2>5. CASE SkipSignal(s) \/ (Reject(s) /\ sess[s].auto)
      <3>1. /\ sess'[s].pc = "choosing"
            /\ \A t \in Sessions \ {s} : sess'[t] = sess[t] /\ seen'[t] = seen[t]
        BY <1>1, <2>1, <2>5 DEF SkipSignal, Reject, Session
      <3> QED
        BY <3>1 DEF Ordered
    <2>6. CASE Size(s)
      <3>1. PICK q \in (IF sess[s].side = "SELL" THEN {Position(s).quantity} ELSE Quantities) :
              sess' = [sess EXCEPT ![s].pc = "quoting", ![s].quantity = q]
        BY <2>6 DEF Size
      <3>2. /\ sess'[s].pc = "quoting" /\ sess'[s].quantity = q /\ sess'[s].side = sess[s].side
            /\ \A t \in Sessions \ {s} : sess'[t] = sess[t]
        BY <1>1, <2>1, <3>1 DEF Session
      <3>3. seen' = seen /\ sess[s].pc = "sizing"
        BY <2>6 DEF Size
      <3>4. sess[s].side = "SELL" => seen[s].position # Unread /\ q = seen[s].position.quantity
        BY <2>1, <3>1, <3>3 DEF Ordered, Position
      <3> QED
        BY <3>1, <3>2, <3>3, <3>4 DEF Ordered
    <2>7. CASE Quote(s)
      <3>1. PICK market \in Prices :
              sess' = [sess EXCEPT ![s].price = ExecutionPrice(s, market), ![s].limit = NoLimit,
                                   ![s].pc = IF Position(s).row THEN "committing" ELSE "inserting"]
        BY <2>7 DEF Quote
      <3> DEFINE price == ExecutionPrice(s, market)
                 c == Cash(s)
                 p == IF Position(s).row THEN Position(s) ELSE ZeroRow
      <3>2. price \in Prices
        BY <2>1 DEF ExecutionPrice, Session
      <3>3. seen' = [seen EXCEPT ![s].cash = c, ![s].position = p] /\ sess[s].pc = "quoting"
        BY <2>7 DEF Quote
      <3>4. p # Unread
        BY SessionTypes, ZeroPositions, PaperAssumption
      <3>5. seen[s].position # Unread => p = seen[s].position
        BY DEF PaperInv, ReadsSound, Position
      <3> HIDE DEF price, c, p
      <3>6. /\ sess'[s].pc \in {"inserting", "committing"} /\ sess'[s].price = price
            /\ sess'[s].side = sess[s].side /\ sess'[s].quantity = sess[s].quantity
            /\ seen'[s].position = p
            /\ \A t \in Sessions \ {s} : sess'[t] = sess[t] /\ seen'[t] = seen[t]
        BY <1>1, <2>1, <3>1, <3>3 DEF Session, SeenType, price
      <3> QED
        BY <2>1, <3>2, <3>3, <3>4, <3>5, <3>6 DEF Ordered
    <2>8. CASE Insert(s) /\ ~position.row
      <3>1. /\ sess[s].pc = "inserting" /\ sess'[s].pc = "committing"
            /\ sess'[s].price = sess[s].price /\ sess'[s].quantity = sess[s].quantity
            /\ sess'[s].side = sess[s].side /\ seen' = seen
            /\ \A t \in Sessions \ {s} : sess'[t] = sess[t]
        BY <1>1, <2>1, <2>8 DEF Insert, Session
      <3> QED
        BY <2>1, <3>1 DEF Ordered
    <2>9. CASE Leave(s)
      <3>1. sess'[s].pc = "idle" /\ \A t \in Sessions \ {s} : sess'[t] = sess[t] /\ seen'[t] = seen[t]
        BY <1>1, <2>9, IdleType DEF Leave
      <3> QED
        BY <3>1 DEF Ordered
    <2>10. CASE Commit(s)
      BY <2>10, CommitLeaves DEF Ordered
    <2> QED
      BY <1>3, <2>2, <2>3, <2>4, <2>5, <2>6, <2>7, <2>8, <2>9, <2>10
      DEF Trading, EndAuto, Reject, Insert, Die
  <1> QED
    BY <1>2, <1>3 DEF PaperNext, Archive, MarkRead, MarkWrite, MarkFails, paperVars

\* Orders are for what the session may order, at a price that was quoted.
LEMMA OrderInvariant == PaperSpec => []OrderInv
  <1>1. PaperInit => OrderInv
    BY IdleType DEF PaperInit, OrderInv, Ordered
  <1>2. PaperInv /\ OrderInv /\ [PaperNext]_paperVars => OrderInv'
    BY OrderStep
  <1> QED
    BY <1>1, <1>2, PaperInvariant, PTL DEF PaperSpec

-----------------------------------------------------------------------------
(* The abstract account.                                                   *)

\* Only a commit changes cash or the holding.
LEMMA OnlyCommitsFill ==
  ASSUME PaperInv, [PaperNext]_paperVars, ~\E s \in Sessions : Commit(s)
  PROVE  UNCHANGED <<cash, position.quantity>>
  <1>1. CASE MarkWrite
    <2>1. position \in [row: BOOLEAN, quantity: Int, avg_cost: Nat, market_value: Nat]
      BY DEF PaperInv, PaperTypeOK
    <2> QED
      BY <1>1, <2>1 DEF MarkWrite
  <1>2. CASE Archive \/ MarkRead \/ MarkFails \/ UNCHANGED paperVars
    BY <1>2 DEF Archive, MarkRead, MarkFails, rowVars, paperVars
  <1>3. ASSUME NEW s \in Sessions, Trading(s) PROVE UNCHANGED <<cash, position.quantity>>
    BY <1>3 DEF Trading, OpenOrder, OpenAuto, ChooseSignal, SkipSignal, Size, EndAuto, Quote,
                Reject, Insert, Die, rowVars
  <1> QED
    BY <1>1, <1>2, <1>3 DEF PaperNext

\* The commit of a session that has not been overtaken is a fill.
LEMMA FreshCommitFills ==
  ASSUME PaperInv, BookInv, OrderInv, NEW s \in Sessions, s \notin overtaken, Commit(s)
  PROVE  Account!AccountNext
  <1> DEFINE q == sess[s].quantity
             price == sess[s].price
  <1>1. sess[s].pc = "committing"
    BY DEF Commit
  <1>2. price \in Prices /\ (q \in Quantities \/ (sess[s].side = "SELL" /\ q = position.quantity))
    BY <1>1 DEF OrderInv, Ordered, BookInv, Current
  <1>3. CASE sess[s].side = "BUY"
    <2>1. Account!Buy(q, price)
      BY <1>3, CommitFills DEF Account!Buy
    <2>2. q \in Quantities
      BY <1>2, <1>3
    <2> HIDE DEF q, price
    <2> QED
      BY <1>2, <2>1, <2>2 DEF Account!AccountNext
  <1>4. CASE sess[s].side = "SELL"
    <2>1. Account!Sell(q, price)
      BY <1>4, CommitFills DEF Account!Sell
    <2> HIDE DEF q, price
    <2> QED
      BY <1>2, <2>1 DEF Account!AccountNext
  <1> QED
    BY <1>3, <1>4, CommitFills

\* Paper trading implements the account it simulates: whatever sessions overlap,
\* every change of cash or holding is one fill on the account of that moment,
\* except for the commit of a session that has been overtaken (place_order).
THEOREM AccountImplemented == PaperSpec => ImplementsAccount
  <1>1. PaperInit => Account!AccountInit
    BY ZeroPositions DEF PaperInit, Account!AccountInit
  <1>2. PaperInv /\ BookInv /\ OrderInv /\ [PaperNext]_paperVars =>
          [Overwrite \/ Account!AccountNext]_<<cash, position.quantity>>
    BY OnlyCommitsFill, FreshCommitFills DEF Overwrite
  <1> QED
    BY <1>1, <1>2, BookInvariant, OrderInvariant, PTL DEF PaperSpec, ImplementsAccount

-----------------------------------------------------------------------------
(* The average cost.                                                       *)

InRange(v) == \E low, high \in Prices : low <= v /\ v <= high

LEMMA ProductsOrdered ==
  ASSUME NEW a \in Nat, NEW b \in Nat, NEW m \in Nat, a <= b
  PROVE  a * m <= b * m /\ m * a <= m * b /\ a * m \in Nat /\ m * a = a * m
  <1>1. PICK d \in Nat : b = a + d
    <2>1. b - a \in Nat /\ b = a + (b - a)
      OBVIOUS
    <2> QED
      BY <2>1
  <1>2. b * m = a * m + d * m /\ d * m \in Nat /\ a * m \in Nat /\ b * m \in Nat
    BY <1>1
  <1> QED
    BY <1>2

\* A quotient lies between the bounds of its numerator.
LEMMA QuotientBetween ==
  ASSUME NEW a \in Nat, NEW m \in Nat \ {0}, NEW lo \in Nat, NEW hi \in Nat,
         lo * m <= a, a < (hi + 1) * m
  PROVE  lo <= a \div m /\ a \div m <= hi
  <1> DEFINE q == a \div m
  <1>1. q \in Nat /\ q * m <= a /\ a < (q + 1) * m
    BY Z3
  <1> HIDE DEF q
  <1>2. lo <= q
    <2> SUFFICES ASSUME q + 1 <= lo PROVE FALSE
      BY <1>1
    <2>1. (q + 1) * m <= lo * m
      BY <1>1, ProductsOrdered
    <2>2. (q + 1) * m \in Nat /\ lo * m \in Nat
      BY <1>1
    <2> QED
      BY <1>1, <2>1, <2>2
  <1>3. q <= hi
    <2> SUFFICES ASSUME hi + 1 <= q PROVE FALSE
      BY <1>1
    <2>1. (hi + 1) * m <= q * m
      BY <1>1, ProductsOrdered
    <2>2. (hi + 1) * m \in Nat /\ q * m \in Nat
      BY <1>1
    <2> QED
      BY <1>1, <2>1, <2>2
  <1> QED
    BY <1>2, <1>3 DEF q

\* Rounding to the scale of the column does not leave the range of the prices.
LEMMA RoundedBetween ==
  ASSUME NEW t \in Nat, NEW n \in Nat \ {0}, NEW lo \in Nat, NEW hi \in Nat,
         lo * n <= t, t <= hi * n
  PROVE  lo <= Rounded(t, n) /\ Rounded(t, n) <= hi
  <1> DEFINE a == 2 * t + n
             m == 2 * n
  <1>1. a \in Nat /\ m \in Nat \ {0}
    OBVIOUS
  <1>2. lo * m = 2 * (lo * n) /\ (hi + 1) * m = 2 * (hi * n) + 2 * n
        /\ lo * n \in Nat /\ hi * n \in Nat
    OBVIOUS
  <1>3. lo * m <= a /\ a < (hi + 1) * m
    BY <1>2
  <1>4. Rounded(t, n) = a \div m
    BY DEF Rounded
  <1> HIDE DEF a, m
  <1> QED
    BY <1>1, <1>3, <1>4, QuotientBetween

\* A buy averages over the prices paid, from a closed position on; a sale that
\* leaves something keeps the average.
LEMMA BoughtInRange ==
  ASSUME NEW p \in Positions, NEW q \in Nat, NEW price \in Prices,
         p.quantity > 0 => InRange(p.avg_cost)
  PROVE  InRange(Bought(p, q, price).avg_cost)
  <1> DEFINE n == p.quantity + q
             total == p.quantity * p.avg_cost + q * price
  <1>1. /\ p.quantity \in Nat /\ p.avg_cost \in Nat /\ price \in Nat /\ Prices \subseteq Nat
        /\ Bought(p, q, price).avg_cost = IF p.quantity = 0 THEN price ELSE Rounded(total, n)
    BY PaperAssumption DEF Positions, Bought
  <1>2. CASE p.quantity = 0
    BY <1>1, <1>2 DEF InRange
  <1>3. CASE p.quantity # 0
    <2>1. PICK l, h \in Prices : l <= p.avg_cost /\ p.avg_cost <= h
      BY <1>1, <1>3 DEF InRange
    <2>2. PICK low \in Prices : low <= l /\ low <= price
      BY <1>1
    <2>3. PICK high \in Prices : h <= high /\ price <= high
      BY <1>1
    <2>4. /\ low \in Nat /\ high \in Nat /\ low <= p.avg_cost /\ p.avg_cost <= high
          /\ low <= price /\ price <= high
      BY <1>1, <2>1, <2>2, <2>3
    <2>5. /\ p.quantity * low <= p.quantity * p.avg_cost /\ p.quantity * p.avg_cost <= p.quantity * high
          /\ q * low <= q * price /\ q * price <= q * high
      BY <1>1, <2>4, ProductsOrdered
    <2>6. /\ low * n = p.quantity * low + q * low /\ high * n = p.quantity * high + q * high
          /\ total \in Nat /\ n \in Nat \ {0}
      BY <1>1, <1>3, <2>4
    <2>7. low * n <= total /\ total <= high * n
      <3>1. /\ p.quantity * low \in Nat /\ p.quantity * high \in Nat /\ p.quantity * p.avg_cost \in Nat
            /\ q * low \in Nat /\ q * high \in Nat /\ q * price \in Nat
        BY <1>1, <2>4
      <3> QED
        BY <2>5, <2>6, <3>1
    <2> HIDE DEF n, total
    <2>8. low <= Rounded(total, n) /\ Rounded(total, n) <= high
      BY <2>4, <2>6, <2>7, RoundedBetween
    <2> QED
      BY <1>1, <1>3, <2>8 DEF InRange
  <1> QED
    BY <1>2, <1>3

\* The average of an open position is one that prices explain.
CostInv == ~overwrote /\ position.quantity > 0 => InRange(position.avg_cost)

\* A commit of a session that has not been overtaken.
LEMMA CommitInRange ==
  ASSUME PaperInv, BookInv, OrderInv, CostInv, ~overwrote,
         NEW s \in Sessions, s \notin overtaken, Commit(s)
  PROVE  position'.quantity > 0 => InRange(position'.avg_cost)
  <1> DEFINE o == sess[s]
             p == seen[s].position
             new == IF o.side = "BUY" THEN Bought(p, o.quantity, o.price)
                                      ELSE Sold(p, o.quantity, o.price)
             row == [position EXCEPT !.row = TRUE]
  <1>1. o.quantity \in Nat /\ o.price \in Prices /\ o.price \in Nat /\ o.side \in {"BUY", "SELL"}
        /\ o.pc = "committing"
    BY PaperAssumption DEF Commit, PaperInv, PaperTypeOK, Session, OrderInv, Ordered
  <1>2. /\ p \in Positions /\ p.row /\ position \in Positions
        /\ o.side = "SELL" => p.quantity >= o.quantity
        /\ p.quantity = position.quantity /\ p.avg_cost = position.avg_cost
        /\ position.quantity > 0 => InRange(position.avg_cost)
    BY <1>1, SessionTypes DEF PaperInv, PaperTypeOK, ReadsCover, BookInv, Current, CostInv
  <1>3. new \in Positions /\ (new.quantity > 0 => InRange(new.avg_cost))
    <2> HIDE DEF o, p
    <2>1. CASE o.side = "BUY"
      <3>1. new = Bought(p, o.quantity, o.price)
        BY <2>1
      <3> HIDE DEF new
      <3> QED
        BY <1>1, <1>2, <3>1, TradedPosition, BoughtInRange
    <2>2. CASE o.side = "SELL"
      <3>1. new = Sold(p, o.quantity, o.price) /\ new \in Positions
            /\ new.quantity = p.quantity - o.quantity
        <4>1. new = Sold(p, o.quantity, o.price)
          BY <2>2
        <4>2. p \in Positions /\ p.row /\ p.quantity >= o.quantity
              /\ o.quantity \in Nat /\ o.price \in Nat
          BY <1>1, <1>2, <2>2
        <4>3. /\ Sold(p, o.quantity, o.price) \in Positions
              /\ Sold(p, o.quantity, o.price).quantity = p.quantity - o.quantity
          BY <4>2, TradedPosition
        <4> QED
          BY <4>1, <4>3
      <3>2. new.quantity > 0 => new.avg_cost = p.avg_cost /\ p.quantity > 0
        <4>1. p.quantity # o.quantity => Sold(p, o.quantity, o.price).avg_cost = p.avg_cost
          BY <1>2 DEF Sold, Positions
        <4> HIDE DEF new
        <4> QED
          BY <1>1, <1>2, <3>1, <4>1 DEF Positions
      <3> HIDE DEF new
      <3> QED
        BY <1>2, <3>1, <3>2
    <2> QED
      BY <1>1, <2>1, <2>2
  <1>4. position' = Merged(row, p, new)
    BY DEF Commit
  <1>5. row \in Positions /\ row.quantity = position.quantity /\ row.avg_cost = position.avg_cost
    BY <1>2 DEF Positions
  <1> HIDE DEF row, new, p, o
  <1>6. position'.quantity = new.quantity /\ position'.avg_cost = new.avg_cost
    BY <1>2, <1>3, <1>4, <1>5 DEF Merged, Positions
  <1> QED
    BY <1>3, <1>6

LEMMA CostStep ==
  ASSUME PaperInv, BookInv, OrderInv, CostInv, [PaperNext]_paperVars
  PROVE  CostInv'
  <1>1. CASE MarkWrite
    <2>1. position \in [row: BOOLEAN, quantity: Int, avg_cost: Nat, market_value: Nat]
      BY DEF PaperInv, PaperTypeOK
    <2>2. /\ position'.quantity = position.quantity /\ position'.avg_cost = position.avg_cost
          /\ overwrote' = overwrote
      BY <1>1, <2>1 DEF MarkWrite
    <2> QED
      BY <2>2 DEF CostInv
  <1>2. ASSUME NEW s \in Sessions, Commit(s) PROVE CostInv'
    <2> SUFFICES ASSUME ~overwrote' PROVE position'.quantity > 0 => InRange(position'.avg_cost)
      BY DEF CostInv
    <2>1. ~overwrote /\ s \notin overtaken
      BY <1>2, CommitLeaves
    <2> QED
      BY <1>2, <2>1, CommitInRange
  <1>3. CASE UNCHANGED <<position, overwrote>>
    BY <1>3 DEF CostInv
  <1>4. ASSUME NEW s \in Sessions, Trading(s), ~Commit(s) PROVE UNCHANGED <<position, overwrote>>
    BY <1>4 DEF Trading, OpenOrder, OpenAuto, Count, ChooseSignal, SkipSignal, Size, EndAuto, Quote,
                Reject, Insert, Die, rowVars
  <1> QED
    BY <1>1, <1>2, <1>3, <1>4 DEF PaperNext, Archive, MarkRead, MarkFails, rowVars, paperVars

\* As long as no session commits past a commit it has not seen, the average
\* cost of an open position lies between two prices: weighting, rounding, sales
\* and re-entry after a sale to zero never carry it out of the range of what was
\* paid (place_order).
THEOREM AverageInRange == PaperSpec => []AvgCostInRange
  <1>1. PaperInit => CostInv
    BY ZeroPositions DEF PaperInit, CostInv
  <1>2. PaperInv /\ BookInv /\ OrderInv /\ CostInv /\ [PaperNext]_paperVars => CostInv'
    BY CostStep
  <1>3. CostInv => AvgCostInRange
    BY DEF CostInv, AvgCostInRange, InRange
  <1> QED
    BY <1>1, <1>2, <1>3, BookInvariant, OrderInvariant, PTL DEF PaperSpec

=============================================================================
