--------------------------- MODULE IndicatorTask ---------------------------
(***************************************************************************)
(* The indicator tasks of one A-share trade date: their dispatch by the    *)
(* scheduler (app/core/scheduler.py), their life in Celery                 *)
(* (app/core/celery_app.py), and what each does to the date                *)
(* (app/tasks/indicator.py, app/data/indicators/calculator.py).            *)
(*                                                                         *)
(* The scheduler reserves the date with SET NX EX before it sends a task.  *)
(* The reservation carries no token: whichever task of the date ends       *)
(* deletes it, tasks started by hand with scripts/trigger_indicator_calc   *)
(* included.  Messages are acknowledged late: the task of a worker that is *)
(* killed comes back when the visibility timeout of the broker is over.    *)
(*                                                                         *)
(* Time counts down in units; a task slot that is "none" is free.          *)
(***************************************************************************)
EXTENDS IndicatorDate, Integers

CONSTANTS
    Tasks,       \* dispatches and messages that may be under way at a time
    NoTask,      \* stands for no task
    Lease,       \* ex of the reservation (6 h)
    Hard,        \* time_limit of a task (6 h)
    Visible,     \* visibility_timeout of the broker (12 h)
    MaxRetries   \* max_retries of calculate_indicators

ASSUME TimesAssumption   == Lease \in Nat \ {0} /\ Hard \in Nat \ {0} /\ Visible \in Nat /\ Hard <= Visible
ASSUME RetriesAssumption == MaxRetries \in Nat
ASSUME NoTaskAssumption  == NoTask \notin Tasks

VARIABLES
    latest,     \* the date is still that of the newest A-share bar
    reserved,   \* the date lock; by is not in Redis, it records who reserved
    pc,         \* where each task is
    kind,       \* scheduled, by hand for the market, or by hand for a shard
    tries,      \* retries of each task so far
    left,       \* time left of the try, or of the visibility timeout
    claim,      \* what each task is about to put in the marker
    lapsed      \* tasks that lost their reservation by no doing of their own

taskVars == <<pc, kind, tries, left, claim>>
vars == <<cov, marker, latest, reserved, pc, kind, tries, left, claim, lapsed>>

Places == {"none", "waiting", "sending", "queued", "running", "releasing", "counting", "marking", "ending", "unacked"}

\* A worker process is executing the task.
Executing == {"running", "releasing", "counting", "marking", "ending"}

Free == [by |-> NoTask, left |-> 0]

NoClaim == [status |-> "none", enough |-> FALSE]

TaskTypeOK ==
    /\ cov \in Extents
    /\ marker \in MarkerKinds
    /\ latest \in BOOLEAN
    /\ reserved \in [by: Tasks \cup {NoTask}, left: 0..Lease]
    /\ pc \in [Tasks -> Places]
    /\ kind \in [Tasks -> {"scheduled", "market", "shard"}]
    /\ tries \in [Tasks -> 0..MaxRetries]
    /\ left \in [Tasks -> 0..Visible]
    /\ claim \in [Tasks -> [status: Outcome \cup {"none"}, enough: BOOLEAN]]
    /\ lapsed \in SUBSET Tasks

-----------------------------------------------------------------------------
TaskInit ==
    /\ DateInit
    /\ latest = TRUE
    /\ reserved = Free
    /\ pc = [t \in Tasks |-> "none"]
    /\ kind = [t \in Tasks |-> "scheduled"]
    /\ tries = [t \in Tasks |-> 0]
    /\ left = [t \in Tasks |-> 0]
    /\ claim = [t \in Tasks |-> NoClaim]
    /\ lapsed = {}

\* The task is waiting for a worker, or has not come to its end yet.
AtWork(t) == pc[t] \in {"sending", "queued", "running", "releasing", "unacked"}

Scheduled(t) == kind[t] = "scheduled"

\* Tasks other than t that lose a reservation which ends now.
Robbed(t) == {u \in Tasks \ {t} : reserved.by = u}

Go(t, place) == pc' = [pc EXCEPT ![t] = place]

\* The broker forgets the message of t.
Forget(t) ==
    /\ Go(t, "none")
    /\ tries' = [tries EXCEPT ![t] = 0]
    /\ left' = [left EXCEPT ![t] = 0]
    /\ claim' = [claim EXCEPT ![t] = NoClaim]
    /\ kind' = [kind EXCEPT ![t] = "scheduled"]
    /\ lapsed' = lapsed \ {t}
    /\ reserved' = IF reserved.by = t THEN [reserved EXCEPT !.by = NoTask] ELSE reserved

-----------------------------------------------------------------------------
(* Dispatch.                                                               *)

\* run_indicator_calculation or the fallback starts: _resolve_a_share_target_date
\* gives the date of the newest bar, once and for all, and the wait for the
\* lock daily_pipeline begins.
Resolve(t) ==
    /\ pc[t] = "none"
    /\ latest
    /\ Go(t, "waiting")
    /\ UNCHANGED <<latest, cov, marker, reserved, kind, tries, left, claim, lapsed>>

\* The lock is granted: _acquire_indicator_date_lock, for the date resolved
\* before the wait.
Reserve(t) ==
    /\ pc[t] = "waiting"
    /\ reserved.left = 0
    /\ reserved' = [by |-> t, left |-> Lease]
    /\ Go(t, "sending")
    /\ UNCHANGED <<latest, cov, marker, kind, tries, left, claim, lapsed>>

\* The lock is granted, but the date is reserved.
Skip(t) ==
    /\ pc[t] = "waiting"
    /\ reserved.left > 0
    /\ Go(t, "none")
    /\ UNCHANGED <<latest, cov, marker, reserved, kind, tries, left, claim, lapsed>>

\* The lock is not granted within 1800 s, or the process stops.
WaitFails(t) ==
    /\ pc[t] = "waiting"
    /\ Go(t, "none")
    /\ UNCHANGED <<latest, cov, marker, reserved, kind, tries, left, claim, lapsed>>

\* The bars of the next trade date land: no cron entry resolves this date again.
NewBars ==
    /\ latest
    /\ latest' = FALSE
    /\ UNCHANGED <<cov, marker, reserved, taskVars, lapsed>>

\* calculate_indicators.delay.
Send(t) ==
    /\ pc[t] = "sending"
    /\ Go(t, "queued")
    /\ UNCHANGED <<latest, cov, marker, reserved, kind, tries, left, claim, lapsed>>

\* delay raises, or the process stops before it: nothing frees the date.
SendFails(t) ==
    /\ pc[t] = "sending"
    /\ Forget(t)
    /\ UNCHANGED <<latest, cov, marker>>

\* scripts/trigger_indicator_calc.py: no reservation is asked for.
Trigger(t) ==
    /\ pc[t] = "none"
    /\ Go(t, "queued")
    /\ \E k \in {"market", "shard"} : kind' = [kind EXCEPT ![t] = k]
    /\ UNCHANGED <<latest, cov, marker, reserved, tries, left, claim, lapsed>>

-----------------------------------------------------------------------------
(* One execution of calculate_indicators.                                  *)

Start(t) ==
    /\ pc[t] = "queued"
    /\ Go(t, "running")
    /\ left' = [left EXCEPT ![t] = Hard]
    /\ UNCHANGED <<latest, cov, marker, reserved, kind, tries, claim, lapsed>>

\* _batch_calculate_indicators_sql commits chunk by chunk; a chunk that fails
\* is tried again code by code and then passed over.
Write(t) ==
    /\ pc[t] = "running"
    /\ cov # "full"
    /\ cov' = IF cov = "none" THEN "partial" ELSE "full"
    /\ UNCHANGED <<latest, marker, reserved, taskVars, lapsed>>

\* The batch returns, whatever it could not write, and logs its own status.
BatchEnds(t) ==
    /\ pc[t] = "running"
    /\ Go(t, "releasing")
    /\ claim' = [claim EXCEPT ![t].status = "success"]
    /\ UNCHANGED <<latest, cov, marker, reserved, kind, tries, left, lapsed>>

\* Mutant: every failure is retried.
BatchRaisesForever(t) ==
    /\ pc[t] = "running"
    /\ Go(t, "queued")
    /\ tries' = [tries EXCEPT ![t] = @ + 1]
    /\ left' = [left EXCEPT ![t] = 0]
    /\ UNCHANGED <<latest, cov, marker, reserved, kind, claim, lapsed>>

\* Mutant: the date lock is released in a finally clause, retries included.
BatchRaisesReleases(t) ==
    /\ pc[t] = "running"
    /\ IF tries[t] < MaxRetries
       THEN /\ Go(t, "queued")
            /\ tries' = [tries EXCEPT ![t] = @ + 1]
            /\ left' = [left EXCEPT ![t] = 0]
            /\ reserved' = Free
            /\ lapsed' = lapsed \cup Robbed(t)
            /\ UNCHANGED claim
       ELSE /\ Go(t, "releasing")
            /\ claim' = [claim EXCEPT ![t].status = "failed"]
            /\ UNCHANGED <<tries, left, reserved, lapsed>>
    /\ UNCHANGED <<latest, cov, marker, kind>>

\* The batch raises.  With retries left the message is published again with
\* a countdown and the date stays reserved; otherwise the failure is final.
BatchRaises(t) ==
    /\ pc[t] = "running"
    /\ IF tries[t] < MaxRetries
       THEN /\ Go(t, "queued")
            /\ tries' = [tries EXCEPT ![t] = @ + 1]
            /\ left' = [left EXCEPT ![t] = 0]
            /\ UNCHANGED claim
       ELSE /\ Go(t, "releasing")
            /\ claim' = [claim EXCEPT ![t].status = "failed"]
            /\ UNCHANGED <<tries, left>>
    /\ UNCHANGED <<latest, cov, marker, reserved, kind, lapsed>>

\* The marker is for runs of the whole market.
Marks(t) == kind[t] # "shard"

\* After the release, whether it worked or not.
Released(t) ==
    IF Marks(t)
    THEN Go(t, "counting") /\ UNCHANGED claim
    ELSE Go(t, "ending") /\ claim' = [claim EXCEPT ![t] = NoClaim]

\* _release_indicator_date_lock: DEL by name.
Release(t) ==
    /\ pc[t] = "releasing"
    /\ reserved' = Free
    /\ lapsed' = lapsed \cup Robbed(t)
    /\ Released(t)
    /\ UNCHANGED <<latest, cov, marker, kind, tries, left>>

\* An error of Redis is swallowed; the expiry is what is left.
ReleaseFails(t) ==
    /\ pc[t] = "releasing"
    /\ Released(t)
    /\ UNCHANGED <<latest, cov, marker, reserved, kind, tries, left, lapsed>>

\* Mutant: the marker takes the task's own success for complete coverage.
CountOwn(t) ==
    /\ pc[t] = "counting"
    /\ claim' = [claim EXCEPT ![t] = [status |-> @.status, enough |-> @.status = "success"]]
    /\ Go(t, "marking")
    /\ UNCHANGED <<latest, cov, marker, reserved, kind, tries, left, lapsed>>

\* The rows of the date are counted in the table.  The status of a run that
\* did not fail is that of the newest etl_log row of the job, success or
\* partial, whosever row it is; the gate does not tell the two apart.
Count(t) ==
    /\ pc[t] = "counting"
    /\ claim' = [claim EXCEPT ![t] = [status |-> @.status, enough |-> cov = "full"]]
    /\ Go(t, "marking")
    /\ UNCHANGED <<latest, cov, marker, reserved, kind, tries, left, lapsed>>

Mark(t) ==
    /\ pc[t] = "marking"
    /\ marker' = claim[t]
    /\ claim' = [claim EXCEPT ![t] = NoClaim]
    /\ Go(t, "ending")
    /\ UNCHANGED <<latest, cov, reserved, kind, tries, left, lapsed>>

\* The count fails in the aborted transaction of a batch that raised, or SET
\* fails; both are swallowed.
MarkFails(t) ==
    /\ pc[t] \in {"counting", "marking"}
    /\ claim' = [claim EXCEPT ![t] = NoClaim]
    /\ Go(t, "ending")
    /\ UNCHANGED <<latest, cov, marker, reserved, kind, tries, left, lapsed>>

\* The message is acknowledged.
Acknowledge(t) ==
    /\ pc[t] = "ending"
    /\ Forget(t)
    /\ UNCHANGED <<latest, cov, marker>>

-----------------------------------------------------------------------------
(* What happens to workers and messages.                                   *)

\* The container of the worker is killed: the message stays unacknowledged
\* for what remains of its visibility timeout, which runs since its delivery.
\* A task killed after its release comes back with no reservation.
Kill(t) ==
    /\ pc[t] \in Executing
    /\ Go(t, "unacked")
    /\ left' = [left EXCEPT ![t] = Visible - Hard + @]
    /\ claim' = [claim EXCEPT ![t] = NoClaim]
    /\ lapsed' = IF AtWork(t) \/ ~Scheduled(t) THEN lapsed ELSE lapsed \cup {t}
    /\ UNCHANGED <<latest, cov, marker, reserved, kind, tries>>

\* The hard limit ends the process of the task; the message of a task that
\* timed out is acknowledged.  Nothing is released and nothing marked.
HardLimit(t) ==
    /\ pc[t] \in Executing
    /\ left[t] = 0
    /\ Forget(t)
    /\ UNCHANGED <<latest, cov, marker>>

Redeliver(t) ==
    /\ pc[t] = "unacked"
    /\ left[t] = 0
    /\ Go(t, "queued")
    /\ UNCHANGED <<latest, cov, marker, reserved, kind, tries, left, claim, lapsed>>

\* Mutant: SET NX without EX.
TickNoExpiry ==
    /\ \A t \in Tasks : pc[t] \in Executing => left[t] > 0
    /\ left' = [t \in Tasks |-> IF left[t] > 0 THEN left[t] - 1 ELSE 0]
    /\ UNCHANGED <<latest, cov, marker, reserved, pc, kind, tries, claim, lapsed>>

\* A unit of time passes; no execution outlasts the hard limit.
Tick ==
    /\ \A t \in Tasks : pc[t] \in Executing => left[t] > 0
    /\ left' = [t \in Tasks |-> IF left[t] > 0 THEN left[t] - 1 ELSE 0]
    /\ reserved' = IF reserved.left > 1 THEN [reserved EXCEPT !.left = @ - 1] ELSE Free
    /\ lapsed' = IF reserved.left = 1 THEN lapsed \cup Robbed(NoTask) ELSE lapsed
    /\ UNCHANGED <<latest, cov, marker, pc, kind, tries, claim>>

-----------------------------------------------------------------------------
Dispatch(t) == Resolve(t) \/ Reserve(t) \/ Skip(t) \/ Send(t)

Execute(t) ==
    \/ Start(t)     \/ Write(t)   \/ BatchEnds(t)
    \/ Release(t)   \/ Count(t)   \/ Mark(t)      \/ Acknowledge(t)

Failure(t) ==
    \/ WaitFails(t) \/ SendFails(t) \/ BatchRaises(t) \/ ReleaseFails(t) \/ MarkFails(t)
    \/ Kill(t)      \/ HardLimit(t)

TaskStep(t) ==
    \/ Dispatch(t)  \/ Trigger(t)   \/ Redeliver(t)
    \/ Execute(t)   \/ Failure(t)

TaskNext == Tick \/ NewBars \/ \E t \in Tasks : TaskStep(t)

\* Two cron entries a day try the date as long as it is the latest, whatever
\* else is in the broker; what is dispatched goes on, workers take what is
\* queued and get on with it, and time passes.
TaskFairness ==
    /\ WF_vars(Tick)
    /\ SF_vars(\E t \in Tasks : Resolve(t))
    /\ \A t \in Tasks :
        /\ WF_vars(Reserve(t) \/ Skip(t) \/ Send(t))
        /\ WF_vars(Redeliver(t) \/ Start(t) \/ BatchEnds(t) \/ Release(t) \/ Count(t) \/ Mark(t) \/ Acknowledge(t))

TaskSpec == TaskInit /\ [][TaskNext]_vars /\ TaskFairness

-----------------------------------------------------------------------------
(* What the tasks of a date promise.                                       *)

\* Two tasks the scheduler sent for one date are never both unfinished, unless
\* one of them lost its reservation by no doing of its own: it expired (the
\* queue, the retries or a redelivery outlasted six hours), a task that ended
\* deleted it, or its worker died after the release.  This is all that
\* _acquire_indicator_date_lock gives of "no duplicate dispatch of a date".
NoDoubleDispatch ==
    \A t, u \in Tasks \ lapsed :
        /\ AtWork(t) /\ Scheduled(t)
        /\ AtWork(u) /\ Scheduled(u)
        => t = u

\* However tasks overlap, fail, die and come back, the date looks to the gate
\* as IndicatorDate says: no marker ever claims coverage the table lacks.
ImplementsDate == DateSpec

\* A failure that leaves a trace: deleting a reservation that is gone, or
\* writing the marker that is there, comes to the same whether it fails or not.
Fails(t) == Failure(t) /\ ~(Dispatch(t) \/ Execute(t))

\* A date that stays the latest until failures have stopped gets a verdict: no
\* reservation left behind by a failed dispatch, a killed worker or a failed
\* release keeps every later task of the date away.  Of a date overtaken by new
\* bars before that nothing is promised: no cron entry resolves it again.
DateGetsVerdict ==
    []latest /\ <>[][\A t \in Tasks : ~Fails(t)]_vars => <>(marker.status # "none")
=============================================================================
