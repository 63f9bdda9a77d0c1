-------------------------- MODULE NewsDrainsProofs --------------------------
(* Proofs about the drains of the news rows. *)
EXTENDS NewsDrains, TLAPS

\* Rows that wait in a batch are not the one being tried, have been tried
\* fewer times than the cap allows, and no try was seen in between.
BatchIsFresh ==
    \A d \in Drains : \A r \in batch[d] :
        /\ try[d].row # r
        /\ spent[d][r] < Cap
        /\ att[d][r] <= Cap + Clicks

\* What a lane is about to write stays within the bound.
SeenIsBounded ==
    /\ \A d \in Drains : try[d].seen <= Cap + Clicks
    /\ try["click"].row # NoRow => try["click"].seen < Cap + Clicks

\* The counter of a row that lacks its product keeps up with the tries of the
\* drain, and so does each value that is about to be written to it.
TriesAreCounted ==
    \A d \in Drains : \A r \in Rows \ done[d] :
        /\ try[d].row # r => spent[d][r] <= att[d][r]
        /\ try[d].row = r => spent[d][r] <= att[d][r] + 1 /\ spent[d][r] <= try[d].seen + 1
        /\ d = "fulltext" /\ try["click"].row = r =>
              /\ spent[d][r] <= try["click"].seen + 1
              /\ r \in batch[d] => spent[d][r] <= try["click"].seen

DInv ==
    /\ DrainTypeOK
    /\ BatchIsFresh
    /\ SeenIsBounded
    /\ TriesAreCounted
    /\ DailyBudget
-----------------------------------------------------------------------------
LEMMA RowsAreNumbers == NoRow \notin Rows
BY RowsAssumption DEF NoRow

\* Nothing has been tried at first.
LEMMA DrainInitInv == DrainInit => DInv
<1> SUFFICES ASSUME DrainInit PROVE DInv
    OBVIOUS
<1> USE NumberAssumption, RowsAssumption
<1>1. DrainTypeOK
    BY DEF DrainInit, DrainTypeOK, Idle, Lanes, Drains, NoRow
<1>2. BatchIsFresh
    BY DEF DrainInit, BatchIsFresh
<1>3. SeenIsBounded
    BY DEF DrainInit, SeenIsBounded, Idle, Lanes, Drains, NoRow
<1>4. TriesAreCounted
    BY DEF DrainInit, TriesAreCounted, Idle, Lanes, Drains, NoRow
<1>5. DailyBudget
    BY DEF DrainInit, DailyBudget
<1> QED
    BY <1>1, <1>2, <1>3, <1>4, <1>5 DEF DInv

LEMMA TickInv == ASSUME DInv, NEW d \in Drains, Tick(d) PROVE DInv'
<1> USE NumberAssumption, RowsAssumption, RowsAreNumbers DEF DInv, Lanes, Drains
<1>1. DrainTypeOK'
    BY DEF DrainTypeOK, Tick, Window, Pending, NoneOvertaken, Idle
<1>2. BatchIsFresh'
    BY DEF DrainTypeOK, BatchIsFresh, SeenIsBounded, TriesAreCounted, DailyBudget, Tick, Window, Pending, NoneOvertaken, Idle
<1>3. SeenIsBounded'
    BY DEF DrainTypeOK, SeenIsBounded, BatchIsFresh, Tick, Window, Pending, NoneOvertaken, Idle
<1>4. TriesAreCounted'
    BY DEF DrainTypeOK, BatchIsFresh, SeenIsBounded, TriesAreCounted, Tick, Window, Pending, NoneOvertaken, Idle
<1>5. DailyBudget'
    BY DEF DrainTypeOK, BatchIsFresh, TriesAreCounted, DailyBudget, Tick, Window, Pending, NoneOvertaken, Idle
<1> QED
    BY <1>1, <1>2, <1>3, <1>4, <1>5

LEMMA StartInv == ASSUME DInv, NEW d \in Drains, NEW r \in Rows, Start(d, r) PROVE DInv'
<1> USE NumberAssumption, RowsAssumption, RowsAreNumbers DEF DInv, Lanes, Drains
<1>0. PICK rest \in SUBSET batch[d] : r \notin rest /\ batch' = [batch EXCEPT ![d] = rest]
    BY DEF Start, DrainTypeOK
<1>a. att[d][r] \in 0..Cap + Clicks + 1 /\ Reads(d, r).row = r /\ Reads(d, r).seen = att[d][r]
      /\ Reads(d, r) \in [row: Rows \cup {NoRow}, seen: 0..Cap + Clicks + 1, able: BOOLEAN]
  <2>1. Product(d) = d
    BY DEF Product
  <2>2. att[d][r] \in 0..Cap + Clicks + 1
    BY DEF DrainTypeOK
  <2>3. CASE d = "summary"
    BY <2>1, <2>2, <2>3 DEF Reads
  <2>4. CASE d # "summary"
    BY <2>1, <2>2, <2>4 DEF Reads
  <2> QED
    BY <2>3, <2>4
<1>b. /\ try' = [try EXCEPT ![d] = Reads(d, r)]
      /\ spent' = [spent EXCEPT ![d][r] = @ + 1]
      /\ UNCHANGED <<done, att, rated, ticks>>
    BY DEF Start
<1>1. DrainTypeOK'
  <2>1. batch' \in [Drains -> SUBSET Rows] /\ try' \in [Lanes -> [row: Rows \cup {NoRow}, seen: 0..Cap + Clicks + 1, able: BOOLEAN]]
    BY <1>0, <1>a, <1>b DEF DrainTypeOK
  <2>2. spent' \in [Drains -> [Rows -> Nat]]
    BY <1>b DEF DrainTypeOK
  <2> QED
    BY <2>1, <2>2, <1>b DEF DrainTypeOK
<1>2. BatchIsFresh'
  <2> SUFFICES ASSUME NEW e \in Drains, NEW s \in batch'[e]
               PROVE  try'[e].row # s /\ spent'[e][s] < Cap /\ att'[e][s] <= Cap + Clicks
    BY DEF BatchIsFresh
  <2>1. s \in batch[e] /\ (e = d => s # r)
    BY <1>0 DEF DrainTypeOK
  <2>2. try[e].row # s /\ spent[e][s] < Cap /\ att[e][s] <= Cap + Clicks
    BY <2>1 DEF BatchIsFresh
  <2>3. CASE e = d
    BY <2>1, <2>2, <2>3, <1>a, <1>b DEF DrainTypeOK
  <2>4. CASE e # d
    BY <2>1, <2>2, <2>4, <1>b DEF DrainTypeOK
  <2> QED
    BY <2>3, <2>4
<1>3. SeenIsBounded'
    BY DEF DrainTypeOK, SeenIsBounded, BatchIsFresh, Start, Reads, Product, Idle
<1>4. TriesAreCounted'
    BY DEF DrainTypeOK, BatchIsFresh, SeenIsBounded, TriesAreCounted, Start, Reads, Product, Idle
<1>5. DailyBudget'
    BY DEF DrainTypeOK, BatchIsFresh, TriesAreCounted, DailyBudget, Start, Reads, Product, Idle
<1> QED
    BY <1>1, <1>2, <1>3, <1>4, <1>5

LEMMA ClickInv == ASSUME DInv, NEW r \in Rows, Click(r) PROVE DInv'
<1> USE NumberAssumption, RowsAssumption, RowsAreNumbers DEF DInv, Lanes, Drains
<1>1. DrainTypeOK'
    BY DEF DrainTypeOK, Click, Reads, Product, Idle
<1>2. BatchIsFresh'
    BY DEF DrainTypeOK, BatchIsFresh, SeenIsBounded, TriesAreCounted, DailyBudget, Click, Reads, Product, Idle
<1>3. SeenIsBounded'
    BY DEF DrainTypeOK, SeenIsBounded, BatchIsFresh, Click, Reads, Product, Idle
<1>4. TriesAreCounted'
    BY DEF DrainTypeOK, BatchIsFresh, SeenIsBounded, TriesAreCounted, Click, Reads, Product, Idle
<1>5. DailyBudget'
    BY DEF DrainTypeOK, BatchIsFresh, TriesAreCounted, DailyBudget, Click, Reads, Product, Idle
<1> QED
    BY <1>1, <1>2, <1>3, <1>4, <1>5

LEMMA SucceedsInv == ASSUME DInv, NEW l \in Lanes, Succeeds(l) PROVE DInv'
<1> USE NumberAssumption, RowsAssumption, RowsAreNumbers DEF DInv, Lanes, Drains
<1>1. DrainTypeOK'
    BY DEF DrainTypeOK, Succeeds, Product, Idle
<1>2. BatchIsFresh'
    BY DEF DrainTypeOK, BatchIsFresh, SeenIsBounded, TriesAreCounted, DailyBudget, Succeeds, Product, Idle
<1>3. SeenIsBounded'
    BY DEF DrainTypeOK, SeenIsBounded, BatchIsFresh, Succeeds, Product, Idle
<1>4. TriesAreCounted'
    BY DEF DrainTypeOK, BatchIsFresh, SeenIsBounded, TriesAreCounted, Succeeds, Product, Idle
<1>5. DailyBudget'
    BY DEF DrainTypeOK, BatchIsFresh, TriesAreCounted, DailyBudget, Succeeds, Product, Idle
<1> QED
    BY <1>1, <1>2, <1>3, <1>4, <1>5

LEMMA FailsInv == ASSUME DInv, NEW l \in Lanes, Fails(l) PROVE DInv'
<1> USE NumberAssumption, RowsAssumption, RowsAreNumbers DEF DInv, Lanes, Drains
<1>1. DrainTypeOK'
  <2>1. try[l].seen \in 0..Cap + Clicks
    BY DEF DrainTypeOK, SeenIsBounded, Fails
  <2>2. Product(l) \in Drains /\ try[l].row \in Rows
    BY DEF DrainTypeOK, Fails, Product
  <2>3. att' = [att EXCEPT ![Product(l)] = [att[Product(l)] EXCEPT ![try[l].row] = try[l].seen + 1]]
    BY DEF Fails
  <2>4. att' \in [Drains -> [Rows -> 0..Cap + Clicks + 1]]
    BY <2>1, <2>2, <2>3 DEF DrainTypeOK
  <2>5. try' \in [Lanes -> [row: Rows \cup {NoRow}, seen: 0..Cap + Clicks + 1, able: BOOLEAN]]
    BY DEF Fails, DrainTypeOK, Idle
  <2> QED
    BY <2>4, <2>5 DEF Fails, DrainTypeOK
<1>2. BatchIsFresh'
    BY DEF DrainTypeOK, BatchIsFresh, SeenIsBounded, TriesAreCounted, DailyBudget, Fails, Product, Idle
<1>3. SeenIsBounded'
    BY DEF DrainTypeOK, SeenIsBounded, BatchIsFresh, Fails, Product, Idle
<1>4. TriesAreCounted'
    BY DEF DrainTypeOK, BatchIsFresh, SeenIsBounded, TriesAreCounted, Fails, Product, Idle
<1>5. DailyBudget'
    BY DEF DrainTypeOK, BatchIsFresh, TriesAreCounted, DailyBudget, Fails, Product, Idle
<1> QED
    BY <1>1, <1>2, <1>3, <1>4, <1>5

LEMMA RateInv == ASSUME DInv, NEW r \in Rows, Rate(r) PROVE DInv'
<1> USE NumberAssumption, RowsAssumption, RowsAreNumbers DEF DInv, Lanes, Drains
<1>1. DrainTypeOK'
    BY DEF DrainTypeOK, Rate
<1>2. BatchIsFresh'
    BY DEF DrainTypeOK, BatchIsFresh, SeenIsBounded, TriesAreCounted, DailyBudget, Rate
<1>3. SeenIsBounded'
    BY DEF DrainTypeOK, SeenIsBounded, BatchIsFresh, Rate
<1>4. TriesAreCounted'
    BY DEF DrainTypeOK, BatchIsFresh, SeenIsBounded, TriesAreCounted, Rate
<1>5. DailyBudget'
    BY DEF DrainTypeOK, BatchIsFresh, TriesAreCounted, DailyBudget, Rate
<1> QED
    BY <1>1, <1>2, <1>3, <1>4, <1>5

LEMMA ResetInv == ASSUME DInv, Reset PROVE DInv'
<1> USE NumberAssumption, RowsAssumption, RowsAreNumbers DEF DInv, Lanes, Drains
<1>1. DrainTypeOK'
    BY DEF DrainTypeOK, Reset
<1>2. BatchIsFresh'
    BY DEF DrainTypeOK, BatchIsFresh, SeenIsBounded, TriesAreCounted, DailyBudget, Reset
<1>3. SeenIsBounded'
    BY DEF DrainTypeOK, SeenIsBounded, BatchIsFresh, Reset
<1>4. TriesAreCounted'
    BY DEF DrainTypeOK, BatchIsFresh, SeenIsBounded, TriesAreCounted, Reset
<1>5. DailyBudget'
    BY DEF DrainTypeOK, BatchIsFresh, TriesAreCounted, DailyBudget, Reset
<1> QED
    BY <1>1, <1>2, <1>3, <1>4, <1>5

-----------------------------------------------------------------------------
\* The invariant is inductive.
THEOREM DrainInvariant == DrainSpec => []DInv
<1>1. DInv /\ [DrainNext]_vars => DInv'
  <2> SUFFICES ASSUME DInv, [DrainNext]_vars PROVE DInv'
    OBVIOUS
  <2>1. CASE UNCHANGED vars
    <3>1. DrainTypeOK' /\ SeenIsBounded'
      BY <2>1 DEF DInv, vars, DrainTypeOK, SeenIsBounded
    <3>2. BatchIsFresh' /\ TriesAreCounted' /\ DailyBudget'
      BY <2>1 DEF DInv, vars, BatchIsFresh, TriesAreCounted, DailyBudget
    <3> QED
      BY <3>1, <3>2 DEF DInv
  <2>2. CASE \E d \in Drains : DrainWorks(d)
    <3>1. PICK d \in Drains : DrainWorks(d)
      BY <2>2
    <3>2. d \in Lanes
      BY DEF Lanes
    <3> QED
      BY <3>1, <3>2, TickInv, StartInv, SucceedsInv, FailsInv DEF DrainWorks, Ends
  <2>3. CASE Ends("click")
    BY <2>3, SucceedsInv, FailsInv DEF Ends, Lanes
  <2>4. CASE \E r \in Rows : Click(r) \/ Rate(r)
    BY <2>4, ClickInv, RateInv
  <2>5. CASE Reset
    BY <2>5, ResetInv
  <2> QED
    BY <2>1, <2>2, <2>3, <2>4, <2>5 DEF DrainNext
<1> QED
    BY <1>1, DrainInitInv, PTL DEF DrainSpec

\* Every variable has its type, and the counters their bound, which holds
\* however often readers ask beside the drain.
THEOREM DrainTypes == DrainSpec => []DrainTypeOK
BY DrainInvariant, PTL DEF DInv

\* No drain tries a row more often in a day than the cap says, though the
\* counter it goes by is written from a value that others may have changed.
THEOREM BudgetKept == DrainSpec => []DailyBudget
BY DrainInvariant, PTL DEF DInv
-----------------------------------------------------------------------------
\* Only its drain counts the attempts at a summary, and never past the cap:
\* the counters that exceed it are those of the full texts, by the tries that
\* readers ask for.
SummaryWithinCap == \A r \in Rows : att["summary"][r] <= Cap

\* What the drain of the summaries has selected or read is below the cap.
SummaryInHand ==
    /\ \A r \in batch["summary"] : att["summary"][r] < Cap
    /\ try["summary"].row # NoRow => try["summary"].seen < Cap

\* The two are inductive together: nobody writes a counter of a summary between
\* the selection of its row and the end of the try.
LEMMA SummaryStep ==
    ASSUME DInv, SummaryWithinCap, SummaryInHand, [DrainNext]_vars
    PROVE  SummaryWithinCap' /\ SummaryInHand'
<1> USE NumberAssumption, RowsAreNumbers DEF DInv, DrainTypeOK, SummaryWithinCap, SummaryInHand, Drains, Lanes
<1>1. CASE UNCHANGED vars
    BY <1>1 DEF vars
<1>2. ASSUME NEW d \in Drains, Tick(d) PROVE SummaryWithinCap' /\ SummaryInHand'
    BY <1>2 DEF Tick, Window, Pending
<1>3. ASSUME NEW d \in Drains, NEW r \in Rows, Start(d, r) PROVE SummaryWithinCap' /\ SummaryInHand'
  <2>1. PICK rest \in SUBSET batch[d] : batch' = [batch EXCEPT ![d] = rest]
    BY <1>3 DEF Start
  <2>2. r \in batch[d] /\ att' = att /\ try' = [try EXCEPT ![d] = Reads(d, r)]
    BY <1>3 DEF Start
  <2>3. Reads(d, r).seen = att[Product(d)][r]
    BY DEF Reads
  <2>4. Product("summary") = "summary"
    BY DEF Product
  <2> QED
    BY <2>1, <2>2, <2>3, <2>4
<1>4. ASSUME NEW l \in Lanes, Succeeds(l) PROVE SummaryWithinCap' /\ SummaryInHand'
    BY <1>4 DEF Succeeds, Product, Idle
<1>5. ASSUME NEW l \in Lanes, Fails(l) PROVE SummaryWithinCap' /\ SummaryInHand'
  <2>1. CASE l = "summary"
    BY <1>5, <2>1 DEF Fails, Product, Idle, BatchIsFresh, SeenIsBounded
  <2>2. CASE l # "summary"
    BY <1>5, <2>2 DEF Fails, Product, Idle
  <2> QED
    BY <2>1, <2>2
<1>6. ASSUME NEW r \in Rows, Click(r) \/ Rate(r) PROVE SummaryWithinCap' /\ SummaryInHand'
    BY <1>6 DEF Click, Rate
<1>7. CASE Reset
    BY <1>7 DEF Reset
<1>8. \A d \in Drains : d \in Lanes
    OBVIOUS
<1> HIDE DEF Drains, Lanes, DInv, DrainTypeOK, SummaryWithinCap, SummaryInHand
<1> QED
  <2>1. "click" \in Lanes
    BY DEF Lanes
  <2> QED
    BY <1>1, <1>2, <1>3, <1>4, <1>5, <1>6, <1>7, <1>8, <2>1 DEF DrainNext, DrainWorks, Ends

\* A row that is given no summary stops counting exactly at the cap, also when
\* the daily reset falls into the middle of a try.
THEOREM SummariesStopAtTheCap == DrainSpec => []SummaryWithinCap
<1>1. DrainInit => SummaryWithinCap /\ SummaryInHand
    BY NumberAssumption DEF DrainInit, SummaryWithinCap, SummaryInHand, Drains, Lanes, Idle, NoRow
<1> QED
    BY <1>1, SummaryStep, DrainInvariant, PTL DEF DrainSpec
=============================================================================
