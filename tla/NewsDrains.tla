----------------------------- MODULE NewsDrains -----------------------------
(***************************************************************************)
(* The two drains of the news rows that count their attempts and are given *)
(* a fresh start every day: the full texts                                 *)
(* (app/services/news/scheduler_fetch_full_content.py, content_fetcher.py) *)
(* and the one-sentence summaries (scheduler_summarize_news.py,            *)
(* summary_service.py), with run_news_attempts_reset_job                   *)
(* (scheduler_jobs.py).                                                    *)
(*                                                                         *)
(* Every ten minutes a drain selects the newest rows that lack its product *)
(* and have attempts left, and tries them one after the other.  A row that *)
(* keeps failing leaves the window at the cap; once a day the counters at  *)
(* the cap go back to zero.  A try reads the counter, waits for the        *)
(* network, and writes the counter it read plus one; a reader's request    *)
(* for the text of a row, which asks for no cap, and the fetch that        *)
(* follows the ingestion of a row do the same beside the drain ("click").  *)
(*                                                                         *)
(* A greater number is a newer row.                                        *)
(***************************************************************************)
EXTENDS Naturals, FiniteSets

CONSTANTS
    Rows,      \* rows of news_article
    Dead,      \* rows whose page never yields a text
    Teased,    \* rows with a body from the feed
    Notable,   \* rows the sentiment pipeline rates at the gate or above it
    Batch,     \* BATCH_SIZE, news_summary_batch_size
    Cap,       \* _MAX_FULLTEXT_ATTEMPTS, _MAX_SUMMARY_ATTEMPTS
    PerDay,    \* ticks of a drain between two resets (144)
    Clicks     \* bound: attempts counted beyond the cap

ASSUME RowsAssumption   == Rows \subseteq Nat \ {0} /\ IsFiniteSet(Rows)
ASSUME KindsAssumption  == Dead \cup Teased \cup Notable \subseteq Rows
ASSUME NumberAssumption == Batch \in Nat \ {0} /\ Cap \in Nat \ {0} /\ PerDay \in Nat /\ Clicks \in Nat

Drains == {"fulltext", "summary"}
Lanes  == Drains \cup {"click"}

NoRow == 0

VARIABLES
    done,    \* rows that have the product of each drain: full_content, summary_zh
    att,     \* fulltext_attempts and summary_attempts
    rated,   \* rows whose importance is stamped
    batch,   \* rows each drain has selected and not tried yet
    try,     \* the row each lane is at, and what it read of it
    ticks,   \* ticks left before the reset
    spent    \* tries of each row by each drain since the reset

vars == <<done, att, rated, batch, try, ticks, spent>>

Idle == [row |-> NoRow, seen |-> 0, able |-> FALSE]

\* The drain a lane works for.
Product(l) == IF l = "summary" THEN "summary" ELSE "fulltext"

DrainTypeOK ==
    /\ done \in [Drains -> SUBSET Rows]
    /\ att \in [Drains -> [Rows -> 0..Cap + Clicks + 1]]
    /\ rated \in SUBSET Rows
    /\ batch \in [Drains -> SUBSET Rows]
    /\ try \in [Lanes -> [row: Rows \cup {NoRow}, seen: 0..Cap + Clicks + 1, able: BOOLEAN]]
    /\ ticks \in [Drains -> 0..PerDay]
    /\ spent \in [Drains -> [Rows -> Nat]]

-----------------------------------------------------------------------------
DrainInit ==
    /\ done = [d \in Drains |-> {}]
    /\ att = [d \in Drains |-> [r \in Rows |-> 0]]
    /\ rated = {}
    /\ batch = [d \in Drains |-> {}]
    /\ try = [l \in Lanes |-> Idle]
    /\ ticks = [d \in Drains |-> PerDay]
    /\ spent = [d \in Drains |-> [r \in Rows |-> 0]]

\* The rows a drain may select, and those it does.
Pending(d) ==
    {r \in Rows : /\ r \notin done[d]
                  /\ att[d][r] < Cap
                  /\ d = "summary" => r \in rated}

Window(d) == {r \in Pending(d) : Cardinality({s \in Pending(d) : s > r}) < Batch}

\* A fetch takes less than the ten minutes between two ticks: one that was
\* overtaken by a try of the drain ends before the next tick.
NoneOvertaken(d) ==
    LET c == try["click"]
    IN  d = "fulltext" /\ c.row # NoRow => att[d][c.row] = c.seen

Tick(d) ==
    /\ batch[d] = {} /\ try[d] = Idle
    /\ ticks[d] > 0
    /\ NoneOvertaken(d)
    /\ batch' = [batch EXCEPT ![d] = Window(d)]
    /\ ticks' = [ticks EXCEPT ![d] = @ - 1]
    /\ UNCHANGED <<done, att, rated, try, spent>>

\* What a lane finds when it reads row r.  A summary needs a text of some
\* kind, a fetch needs a page that yields one.
Reads(l, r) ==
    [row  |-> r,
     seen |-> att[Product(l)][r],
     able |-> IF l = "summary" THEN r \in Teased \cup done["fulltext"] ELSE r \notin Dead]

\* The next row of a batch; the summary drain may have spent its 600 seconds
\* by the end of it, and leaves the others to the next tick.
Start(d, r) ==
    /\ try[d] = Idle
    /\ r \in batch[d] /\ \A s \in batch[d] : s <= r
    /\ try' = [try EXCEPT ![d] = Reads(d, r)]
    /\ \E rest \in {batch[d] \ {r}} \cup (IF d = "summary" THEN {{}} ELSE {}) :
         batch' = [batch EXCEPT ![d] = rest]
    /\ spent' = [spent EXCEPT ![d][r] = @ + 1]
    /\ UNCHANGED <<done, att, rated, ticks>>

Click(r) ==
    /\ try["click"] = Idle
    /\ r \notin done["fulltext"]
    /\ att["fulltext"][r] < Cap + Clicks
    /\ try' = [try EXCEPT !["click"] = Reads("click", r)]
    /\ UNCHANGED <<done, att, rated, batch, ticks, spent>>

\* _record_attempt_outcome, with the commit of the product.
Succeeds(l) ==
    LET t == try[l]
        d == Product(l)
    IN  /\ t.row # NoRow /\ t.able
        /\ done' = [done EXCEPT ![d] = @ \cup {t.row}]
        /\ att' = IF t.seen = 0 THEN att ELSE [att EXCEPT ![d][t.row] = 0]
        /\ try' = [try EXCEPT ![l] = Idle]
        /\ UNCHANGED <<rated, batch, ticks, spent>>

\* Mutants of Fails: a failure is counted twice, or not at all.
FailsTwice(l) ==
    LET t == try[l]
        d == Product(l)
    IN  /\ t.row # NoRow
        /\ att' = [att EXCEPT ![d][t.row] = t.seen + 2]
        /\ try' = [try EXCEPT ![l] = Idle]
        /\ UNCHANGED <<done, rated, batch, ticks, spent>>

FailsUncounted(l) ==
    /\ try[l].row # NoRow
    /\ try' = [try EXCEPT ![l] = Idle]
    /\ UNCHANGED <<done, att, rated, batch, ticks, spent>>

\* No product: the counter that was read, plus one.
Fails(l) ==
    LET t == try[l]
        d == Product(l)
    IN  /\ t.row # NoRow
        /\ att' = [att EXCEPT ![d][t.row] = t.seen + 1]
        /\ try' = [try EXCEPT ![l] = Idle]
        /\ UNCHANGED <<done, rated, batch, ticks, spent>>

\* The sentiment pipeline stamps the importance of a row.
Rate(r) ==
    /\ r \in Notable \ rated
    /\ rated' = rated \cup {r}
    /\ UNCHANGED <<done, att, batch, try, ticks, spent>>

\* Mutant of Reset: it resets the rows that are exactly at the cap.
ResetExact ==
    /\ \A d \in Drains : ticks[d] = 0
    /\ att' = [d \in Drains |-> [r \in Rows |-> IF att[d][r] = Cap THEN 0 ELSE att[d][r]]]
    /\ ticks' = [d \in Drains |-> PerDay]
    /\ spent' = [d \in Drains |-> [r \in Rows |-> 0]]
    /\ UNCHANGED <<done, rated, batch, try>>

\* run_news_attempts_reset_job, at 03:45; drains may be in the middle of a batch.
Reset ==
    /\ \A d \in Drains : ticks[d] = 0
    /\ att' = [d \in Drains |-> [r \in Rows |-> IF att[d][r] >= Cap THEN 0 ELSE att[d][r]]]
    /\ ticks' = [d \in Drains |-> PerDay]
    /\ spent' = [d \in Drains |-> [r \in Rows |-> 0]]
    /\ UNCHANGED <<done, rated, batch, try>>

-----------------------------------------------------------------------------
Ends(l) == Succeeds(l) \/ Fails(l)

DrainWorks(d) == Tick(d) \/ (\E r \in Rows : Start(d, r)) \/ Ends(d)

DrainNext ==
    \/ \E d \in Drains : DrainWorks(d)
    \/ Ends("click")
    \/ \E r \in Rows : Click(r) \/ Rate(r)
    \/ Reset

\* The drains and the reset are entries of the scheduler; a fetch ends by its
\* timeouts.
DrainSpec ==
    /\ DrainInit /\ [][DrainNext]_vars
    /\ \A d \in Drains : WF_vars(DrainWorks(d))
    /\ WF_vars(Ends("click"))
    /\ WF_vars(Reset)

-----------------------------------------------------------------------------
(* Properties.                                                             *)

\* "A genuinely un-fetchable / un-summarizable row burns at most one cap's
\* worth of retries per day", whatever readers ask for meanwhile.
DailyBudget == \A d \in Drains, r \in Rows : spent[d][r] <= Cap

\* A try fails though the row has what it takes: the outside is down.
Outage == \E l \in Lanes : try[l].able /\ Fails(l)

\* What a row is owed: its text if its page yields one, and a summary if it
\* is rated and has a text.
Served(r) ==
    /\ r \notin Dead => r \in done["fulltext"]
    /\ r \in rated /\ (r \in Teased \/ r \notin Dead) => r \in done["summary"]

\* Once an outage is over the rows it evicted come back: every row gets what
\* it is owed, past the rows that never get anything, also if it used up its
\* attempts at a summary before the text came.
Recovers == <>[][~Outage]_vars => <>[](\A r \in Rows : Served(r))
=============================================================================
