--------------------------- MODULE IndicatorDate ---------------------------
(***************************************************************************)
(* What the gate of scores and signals may believe about one trade date:   *)
(* indicator rows of the date are never taken back, and a completion       *)
(* marker never claims more coverage than the table has.                   *)
(*                                                                         *)
(* IndicatorTask implements this date with Celery tasks that are retried,  *)
(* killed and redelivered; DailyChain runs its gate on one such date for   *)
(* each trade date.                                                        *)
(***************************************************************************)
VARIABLES
    cov,     \* how much of the universe has a row of the date
    marker   \* the completion marker of the date in Redis

\* "full" is a coverage of at least INDICATOR_MIN_COVERAGE.
Extents == {"none", "partial", "full"}

\* "success" stands for success and partial, which the gate treats alike.
Outcome == {"success", "failed"}

NoMarker == [status |-> "none", enough |-> FALSE]

MarkerKinds == [status: Outcome, enough: BOOLEAN] \cup {NoMarker}

DateInit == cov = "none" /\ marker = NoMarker

\* Upserts only add rows; whoever writes the marker has counted the rows.
DateStep ==
    /\ cov' \in Extents
    /\ cov = "full" => cov' = "full"
    /\ cov = "partial" => cov' # "none"
    /\ marker' # marker =>
         marker' \in MarkerKinds \ {NoMarker} /\ (marker'.enough => cov' = "full")

DateSpec == DateInit /\ [][DateStep]_<<cov, marker>>
=============================================================================
