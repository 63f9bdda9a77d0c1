----------------------------- MODULE DailyChain -----------------------------
(***************************************************************************)
(* One day of the A-share chain of app/core/scheduler.py, for one or more  *)
(* worker processes of the API: the daily bars, the indicator dispatch,    *)
(* the scores, the signals and the automatic paper trades, all of which    *)
(* take the lock daily_pipeline (the lease of LeaseLock).                  *)
(*                                                                         *)
(* Scores and signals first pass the indicator gate: the completion marker *)
(* of the Celery task for the date of the latest bar.  A run that does not *)
(* pass is deferred to a one-shot job half an hour later, kept in the      *)
(* memory of the scheduler that ran it, until the cutoff.  A run may also  *)
(* be discarded by the scheduler or end in an error; it is not put off     *)
(* then.                                                                   *)
(*                                                                         *)
(* Which workers run a scheduler is decided at startup by a file lock, as  *)
(* in app/main.py.  Time is counted in slots of half an hour; a job starts *)
(* within the slot it is due in.  The Celery task is seen from outside, by *)
(* its date lock, its rows and its marker.                                 *)
(***************************************************************************)
EXTENDS LeaseLock, FiniteSets

CONSTANTS
    Workers, NoWorker,
    Dates,      \* trade dates, 1..n, that bars may exist for
    Last,       \* the last slot of the day
    At,         \* [Jobs -> slots of the cron entries of each job]
    Deadline,   \* _INDICATOR_GATE_DEADLINE
    WaitFor     \* [Jobs -> wait_timeout for daily_pipeline, 0 = try once]

Jobs  == {"etl", "indicator", "fallback", "score", "signal", "paper"}
Gated == {"score", "signal"}
Slots == 0 .. Last

ASSUME ChainAssumption ==
    /\ Clients = Workers \X Jobs
    /\ 1 \in Dates /\ 0 \notin Dates
    /\ Last \in Nat /\ Deadline \in Slots
    /\ At \in [Jobs -> SUBSET Slots]
    /\ WaitFor \in [Jobs -> Nat]
ASSUME DatesAssumption == Dates \subseteq Nat
ASSUME NoWorkerAssumption == NoWorker \notin Workers

VARIABLES
    now,      \* the current slot
    worker,   \* each process: down, elected (has the file lock), leading, serving
    flock,    \* the process whose open file descriptor holds the file lock
    due,      \* cron entries of this slot that have not started yet
    retry,    \* pending one-shot jobs, in the memory of each scheduler
    waiting,  \* the runs polling for daily_pipeline: until when, for which date
    trading,  \* workers between the two locks of run_paper_trade_auto
    bar,      \* the date of the latest bar
    task,     \* the indicator task of each date, as its date lock shows it
    cov,      \* how complete the indicator rows of each date are
    marker,   \* the completion marker of each date
    scores,   \* on which indicator sets the scores of each date were computed
    signals,  \* today's signals: none finished, some from a partial set, finished on full ones
    traded,   \* whether an automatic trading pass ran today
    fate      \* what became of the deferred scores of each worker

procVars  == <<worker, flock>>
cronVars  == <<due, retry, waiting, trading>>
taskVars  == <<bar, task, cov, marker>>
outVars   == <<scores, signals, traded, fate>>
chainVars == <<holder, left, members, now, worker, flock, due, retry, waiting, trading,
               bar, task, cov, marker, scores, signals, traded, fate>>

NotWaiting == [until |-> -1, date |-> 0]
Coverage   == {"none", "partial", "full"}    \* full: at least INDICATOR_MIN_COVERAGE
Fates      == {"none", "owed", "done", "given_up", "failed", "lost"}

ChainTypeOK ==
    /\ holder \in Clients \cup {Nobody} /\ left \in Nat /\ members \subseteq Clients
    /\ now \in Slots
    /\ worker \in [Workers -> {"down", "elected", "leading", "serving"}]
    /\ flock \in Workers \cup {NoWorker}
    /\ due \in [Workers -> SUBSET Jobs]
    /\ retry \subseteq [worker: Workers, job: Gated, date: Dates, at: Slots]
    /\ waiting \in [Clients -> [until: Nat \cup {-1}, date: Dates \cup {0}]]
    /\ trading \subseteq Workers
    /\ bar \in Dates
    /\ task \in [Dates -> {"none", "queued", "reserved"}]
    /\ cov \in [Dates -> Coverage]
    /\ marker \in [Dates -> [status: {"none", "success", "failed"}, enough: BOOLEAN]]
    /\ scores \in [Dates -> SUBSET Coverage]
    /\ signals \in Coverage
    /\ traded \in BOOLEAN
    /\ fate \in [Workers -> Fates]

Idle(c) == waiting[c] = NotWaiting /\ c \notin members

ChainInit ==
    /\ LeaseInit
    /\ now = 0
    /\ worker = [w \in Workers |-> "down"] /\ flock = NoWorker
    /\ due = [w \in Workers |-> {}] /\ retry = {}
    /\ waiting = [c \in Clients |-> NotWaiting] /\ trading = {}
    /\ bar = 1
    /\ task = [d \in Dates |-> "none"] /\ cov = [d \in Dates |-> "none"]
    /\ marker = [d \in Dates |-> [status |-> "none", enough |-> FALSE]]
    /\ scores = [d \in Dates |-> {}] /\ signals = "none" /\ traded = FALSE
    /\ fate = [w \in Workers |-> "none"]

-----------------------------------------------------------------------------
(* Worker processes.                                                       *)

\* _try_acquire_scheduler_leadership: a non-blocking flock.
Startup(w) ==
    /\ worker[w] = "down"
    /\ IF flock = NoWorker
       THEN flock' = w /\ worker' = [worker EXCEPT ![w] = "elected"]
       ELSE UNCHANGED flock /\ worker' = [worker EXCEPT ![w] = "serving"]
    /\ UNCHANGED <<leaseVars, now, cronVars, taskVars, outVars>>

\* The function returns.  Its only reference to the open file was a local
\* variable, so the file is closed and the lock on it is gone; then
\* init_scheduler starts the cron entries.
StartScheduler(w) ==
    /\ worker[w] = "elected"
    /\ flock' = NoWorker
    /\ worker' = [worker EXCEPT ![w] = "leading"]
    /\ UNCHANGED <<leaseVars, now, cronVars, taskVars, outVars>>

\* The process stops, cleanly or not: its threads and its job store go, and
\* keys it holds in Redis stay.
Stop(w) ==
    /\ worker[w] # "down"
    /\ worker' = [worker EXCEPT ![w] = "down"]
    /\ flock' = IF flock = w THEN NoWorker ELSE flock
    /\ due' = [due EXCEPT ![w] = {}]
    /\ retry' = {r \in retry : r.worker # w}
    /\ waiting' = [c \in Clients |-> IF c[1] = w THEN NotWaiting ELSE waiting[c]]
    /\ members' = {c \in members : c[1] # w}
    /\ trading' = trading \ {w}
    /\ fate' = [fate EXCEPT ![w] = IF @ = "owed" THEN "lost" ELSE @]
    /\ UNCHANGED <<holder, left, now, taskVars, scores, signals, traded>>

-----------------------------------------------------------------------------
(* Starting a job.                                                         *)

\* Mutant: the gate looks at the status of the marker only.
GateByStatus(d) == marker[d].status = "success"

\* check_indicator_completion("A股", date).  The status "partial" passes the
\* gate as "success" does, and an empty universe, which counts as covered, is
\* left out.
GateOpen(d) == marker[d].status = "success" /\ marker[d].enough

\* The one-shot jobs of the worker that have come due.
Ripe(w, j) == {r \in retry : r.worker = w /\ r.job = j /\ r.at = now}

\* A cron entry of this slot or a ripe one-shot job is started.
Starts(w, j) ==
    /\ worker[w] = "leading"
    /\ Idle(<<w, j>>)
    /\ j \in due[w] \/ Ripe(w, j) # {}
    /\ due' = [due EXCEPT ![w] = @ \ {j}]

\* The scheduler discards what it reaches too late (misfire_grace_time, with a
\* pool of ten threads) or while the job still runs (max_instances); or the run
\* starts and raises before it has put itself off or asked for the lock.  Of a
\* one-shot job nothing is left.
Discard(w, j) ==
    /\ worker[w] = "leading"
    /\ j \in due[w] \/ Ripe(w, j) # {}
    /\ due' = [due EXCEPT ![w] = @ \ {j}]
    /\ retry' = retry \ Ripe(w, j)
    /\ fate' = [fate EXCEPT ![w] = IF j = "score" /\ Ripe(w, j) # {} /\ @ = "owed" THEN "failed" ELSE @]
    /\ UNCHANGED <<leaseVars, now, procVars, waiting, trading, taskVars, scores, signals, traded>>

\* Mutant: the retry chain has no cutoff.
DeferForever(w, j, d) ==
    /\ retry' = {r \in retry \ Ripe(w, j) : ~(r.worker = w /\ r.job = j /\ r.date = d)}
                   \cup {[worker |-> w, job |-> j, date |-> d, at |-> now + 1]}
    /\ fate' = [fate EXCEPT ![w] = IF j = "score" THEN "owed" ELSE @]

\* _schedule_indicator_gate_retry: the new job replaces the one of the same
\* label and date; past the cutoff, or when add_job fails, there is only an
\* error in the log.
Defer(w, j, d) ==
    \/ /\ now + 1 <= Deadline
       /\ retry' = {r \in retry \ Ripe(w, j) : ~(r.worker = w /\ r.job = j /\ r.date = d)}
                      \cup {[worker |-> w, job |-> j, date |-> d, at |-> now + 1]}
       /\ fate' = [fate EXCEPT ![w] = IF j = "score" THEN "owed" ELSE @]
    \/ /\ retry' = retry \ Ripe(w, j)
       /\ fate' = [fate EXCEPT ![w] = IF j # "score" THEN @
                                     ELSE IF now + 1 <= Deadline THEN "failed" ELSE "given_up"]

WaitForLock(w, j, d) ==
    waiting' = [waiting EXCEPT ![<<w, j>>] = [until |-> now + WaitFor[j], date |-> d]]

\* Mutant: a one-shot job is taken to have passed the gate.
StartOpenOnRetry(w, j) ==
    /\ j \in Gated /\ (GateOpen(bar) \/ Ripe(w, j) # {})
    /\ Starts(w, j)
    /\ retry' = retry \ Ripe(w, j)
    /\ WaitForLock(w, j, bar)
    /\ UNCHANGED <<leaseVars, now, procVars, trading, taskVars, outVars>>

\* run_score_calculation and run_signal_generation find the gate open for the
\* date of the latest bar and go for the lock.
StartOpen(w, j) ==
    /\ j \in Gated /\ GateOpen(bar)
    /\ Starts(w, j)
    /\ retry' = retry \ Ripe(w, j)
    /\ WaitForLock(w, j, bar)
    /\ UNCHANGED <<leaseVars, now, procVars, trading, taskVars, outVars>>

\* They find the gate closed, or cannot read the marker, which counts as closed.
StartDeferred(w, j) ==
    /\ j \in Gated
    /\ Starts(w, j)
    /\ Defer(w, j, bar)
    /\ UNCHANGED <<leaseVars, now, procVars, waiting, trading, taskVars,
                   scores, signals, traded>>

\* The other jobs go for the lock at once; the dispatch of the indicators has
\* resolved its date before.
StartPlain(w, j) ==
    /\ j \in Jobs \ Gated
    /\ Starts(w, j)
    /\ WaitForLock(w, j, bar)
    /\ UNCHANGED <<leaseVars, now, procVars, retry, trading, taskVars, outVars>>

-----------------------------------------------------------------------------
(* The lock daily_pipeline.                                                *)

Acquire(c) ==
    /\ waiting[c] # NotWaiting
    /\ Grant(c)
    /\ UNCHANGED <<now, procVars, due, retry, waiting, trading, taskVars, outVars>>

\* A run that tried once, or polled until its deadline, and found the key.
Refused(c) == waiting[c] # NotWaiting /\ c \notin members /\ holder # Nobody /\ now = waiting[c].until

\* Mutant: a score run that gets no lock is skipped, as the other jobs are.
RefuseScoreSkips(w) ==
    LET c == <<w, "score">> IN
    /\ Refused(c)
    /\ waiting' = [waiting EXCEPT ![c] = NotWaiting]
    /\ UNCHANGED <<leaseVars, now, procVars, due, retry, trading, taskVars, outVars>>

\* A score run that passed the gate and got no lock is deferred as well.
RefuseScore(w) ==
    LET c == <<w, "score">> IN
    /\ Refused(c)
    /\ Defer(w, "score", waiting[c].date)
    /\ waiting' = [waiting EXCEPT ![c] = NotWaiting]
    /\ UNCHANGED <<leaseVars, now, procVars, due, trading, taskVars, scores, signals, traded>>

\* Every other job prints a warning and is skipped.
RefuseOther(c) ==
    /\ c[2] # "score"
    /\ Refused(c)
    /\ waiting' = [waiting EXCEPT ![c] = NotWaiting]
    /\ UNCHANGED <<leaseVars, now, procVars, due, retry, trading, taskVars, outVars>>

\* A RedisError ends the run: it is not put off.  The key may have been set, and
\* then stands until it expires.
PollFails(c) ==
    /\ waiting[c] # NotWaiting /\ c \notin members
    /\ GrantUnheard(c) \/ UNCHANGED leaseVars
    /\ waiting' = [waiting EXCEPT ![c] = NotWaiting]
    /\ fate' = [fate EXCEPT ![c[1]] = IF c[2] = "score" /\ @ = "owed" THEN "failed" ELSE @]
    /\ UNCHANGED <<now, procVars, due, retry, trading, taskVars, scores, signals, traded>>

\* The end of the body, with or without an error: the key goes if it is still
\* the run's own, and stays if the release fails.
EndBody(c) ==
    /\ c \in members
    /\ GiveUp(c) \/ Quit(c)
    /\ waiting' = [waiting EXCEPT ![c] = NotWaiting]
    /\ UNCHANGED <<now, procVars, due, retry>>

-----------------------------------------------------------------------------
(* What the jobs do under the lock.                                        *)

\* The bars of the next date land, or the pipeline fails.
EndEtl(w) ==
    /\ EndBody(<<w, "etl">>)
    /\ bar' = bar \/ (bar + 1 \in Dates /\ bar' = bar + 1)
    /\ UNCHANGED <<trading, task, cov, marker, outVars>>

\* The task is submitted unless the date is reserved; the lock is released at
\* once, hours before the task ends.  When the reservation fails nothing
\* changes; when the broker does not take the task the date stays reserved.
EndIndicator(w) ==
    /\ \E j \in {"indicator", "fallback"} :
        LET d == waiting[<<w, j>>].date IN
        /\ EndBody(<<w, j>>)
        /\ \E t \in {"queued", "reserved", "none"} :
            task' = [task EXCEPT ![d] = IF @ = "none" THEN t ELSE @]
    /\ UNCHANGED <<trading, bar, cov, marker, outVars>>

\* The date scores and signals read: the latest with any indicator row.
Latest == {d \in Dates : cov[d] # "none" /\ \A e \in Dates : cov[e] # "none" => e <= d}

\* calculate_daily_scores(None)
Scored == [d \in Dates |-> IF d \in Latest THEN scores[d] \cup {cov[d]} ELSE scores[d]]

EndScore(w) ==
    /\ EndBody(<<w, "score">>)
    /\ scores' = Scored
    /\ fate' = [fate EXCEPT ![w] = IF @ = "owed" THEN "done" ELSE @]
    /\ UNCHANGED <<trading, taskVars, signals, traded>>

\* It raises, with the scores of some templates committed or none, and the run
\* is over: nobody puts it off.
ScoreRaises(w) ==
    /\ EndBody(<<w, "score">>)
    /\ scores' \in {scores, Scored}
    /\ fate' = [fate EXCEPT ![w] = IF @ = "owed" THEN "failed" ELSE @]
    /\ UNCHANGED <<trading, taskVars, signals, traded>>

\* Signals are written instrument by instrument, each from the latest rows.
WriteSignal(w) ==
    /\ <<w, "signal">> \in members
    /\ \E d \in Latest : signals' = IF cov[d] = "partial" THEN "partial" ELSE signals
    /\ UNCHANGED <<leaseVars, now, procVars, cronVars, taskVars, scores, traded, fate>>

\* It finishes, or raises on the way.
EndSignal(w) ==
    /\ EndBody(<<w, "signal">>)
    /\ signals' = (IF signals = "partial" THEN signals ELSE "full") \/ UNCHANGED signals
    /\ UNCHANGED <<trading, taskVars, scores, traded, fate>>

\* run_paper_trade_auto lets go of daily_pipeline before it trades.
EndPaper(w) ==
    /\ EndBody(<<w, "paper">>)
    /\ trading' = trading \cup {w}
    /\ UNCHANGED <<taskVars, outVars>>

Trade(w) ==
    /\ w \in trading
    /\ trading' = trading \ {w}
    /\ traded' = TRUE
    /\ UNCHANGED <<leaseVars, now, procVars, due, retry, waiting, taskVars, scores, signals, fate>>

-----------------------------------------------------------------------------
(* The Celery task, which commits chunk by chunk.                          *)

TaskWrites(d) ==
    /\ task[d] = "queued" /\ cov[d] = "none"
    /\ cov' = [cov EXCEPT ![d] = "partial"]
    /\ UNCHANGED <<leaseVars, now, procVars, cronVars, bar, task, marker, outVars>>

\* Mutant: the marker takes the end of the task for complete coverage.
TaskEndsUncounted(d) ==
    /\ task[d] = "queued"
    /\ \E t \in {"none", "reserved"} : task' = [task EXCEPT ![d] = t]
    /\ IF cov[d] = "partial"
       THEN \E v \in {"partial", "full"} : cov' = [cov EXCEPT ![d] = v]
       ELSE UNCHANGED cov
    /\ \/ UNCHANGED marker
       \/ \E s \in {"success", "failed"} :
            marker' = [marker EXCEPT ![d] = [status |-> s, enough |-> s = "success"]]
    /\ UNCHANGED <<leaseVars, now, procVars, cronVars, bar, outVars>>

\* It ends well or fails for good: the date is free again, and the marker
\* carries the status and the coverage counted in the table.  An error in the
\* release, or in writing the marker, goes unnoticed.
TaskEnds(d) ==
    /\ task[d] = "queued"
    /\ \E t \in {"none", "reserved"} : task' = [task EXCEPT ![d] = t]
    /\ IF cov[d] = "partial"
       THEN \E v \in {"partial", "full"} : cov' = [cov EXCEPT ![d] = v]
       ELSE UNCHANGED cov
    /\ \/ UNCHANGED marker
       \/ \E s \in {"success", "failed"} :
            marker' = [marker EXCEPT ![d] = [status |-> s, enough |-> cov'[d] = "full"]]
    /\ UNCHANGED <<leaseVars, now, procVars, cronVars, bar, outVars>>

\* It is killed: no marker, and the date stays reserved.
TaskDies(d) ==
    /\ task[d] = "queued"
    /\ task' = [task EXCEPT ![d] = "reserved"]
    /\ UNCHANGED <<leaseVars, now, procVars, cronVars, bar, cov, marker, outVars>>

\* The date lock expires, six hours after the dispatch; in which slot that is,
\* is left open.
ReservationExpires(d) ==
    /\ task[d] = "reserved"
    /\ task' = [task EXCEPT ![d] = "none"]
    /\ UNCHANGED <<leaseVars, now, procVars, cronVars, bar, cov, marker, outVars>>

-----------------------------------------------------------------------------
\* Dispatching a task, computing scores and the empty body of the paper trades
\* take minutes: only the bars and the signals hold the lock for longer.
Short == {"indicator", "fallback", "score", "paper"}

\* The next half hour begins when everything due in this one has started or was
\* discarded, no run is past its deadline for the lock, no run polls a lock that
\* is free, and no short body is unfinished.
NextSlot ==
    /\ now < Last
    /\ \A c \in members : c[2] \notin Short
    /\ \A w \in Workers :
        worker[w] = "leading" => due[w] = {} /\ \A j \in Gated : Ripe(w, j) = {}
    /\ \A c \in Clients :
        waiting[c] # NotWaiting => c \in members \/ (now < waiting[c].until /\ holder # Nobody)
    /\ now' = now + 1
    /\ due' = [w \in Workers |->
                 IF worker[w] = "leading" THEN {j \in Jobs : now + 1 \in At[j]} ELSE {}]
    /\ Elapse \/ (left = 0 /\ UNCHANGED leaseVars)
    /\ UNCHANGED <<procVars, retry, waiting, trading, taskVars, outVars>>

Process(w) == Startup(w) \/ StartScheduler(w) \/ Stop(w)

Start(w) ==
    \/ \E j \in Gated : StartOpen(w, j) \/ StartDeferred(w, j)
    \/ \E j \in Jobs \ Gated : StartPlain(w, j)
    \/ \E j \in Jobs : Discard(w, j)

Lock(w) ==
    \/ RefuseScore(w)
    \/ \E j \in Jobs : Acquire(<<w, j>>) \/ RefuseOther(<<w, j>>) \/ PollFails(<<w, j>>)

Work(w) ==
    \/ EndEtl(w) \/ EndIndicator(w) \/ EndScore(w) \/ ScoreRaises(w)
    \/ WriteSignal(w) \/ EndSignal(w) \/ EndPaper(w) \/ Trade(w)

Task(d) == TaskWrites(d) \/ TaskEnds(d) \/ TaskDies(d) \/ ReservationExpires(d)

ChainNext ==
    \/ NextSlot
    \/ \E w \in Workers : Process(w) \/ Start(w) \/ Lock(w) \/ Work(w)
    \/ \E d \in Dates : Task(d)

\* The clock runs, and a process does not stand still with something to do: its
\* scheduler starts or discards what is due, its runs poll, give up at their
\* deadline or fail, and its short bodies end, well or not.
Proceed(w) ==
    Start(w) \/ Lock(w) \/ EndIndicator(w) \/ EndScore(w) \/ ScoreRaises(w) \/ EndPaper(w)

ChainFairness == WF_chainVars(NextSlot) /\ \A w \in Workers : WF_chainVars(Proceed(w))

ChainSpec == ChainInit /\ [][ChainNext]_chainVars /\ ChainFairness

-----------------------------------------------------------------------------
\* Scores are computed on complete indicator sets only: "never on an
\* unfinished set" is what the gate is for.
ScoresOnFullSets == \A d \in Dates : "partial" \notin scores[d]

\* The gate is read before the run goes for the lock, and used after it: while
\* the run polls and computes, the indicators of the date it checked are
\* complete.
CheckedDateIsFull ==
    \A w \in Workers, d \in Dates : waiting[<<w, "score">>].date = d => cov[d] = "full"

\* How far a partial set can get through: no score run computes on a partial
\* set of the date it was admitted for, nor of an older one, only on one of a
\* later date whose indicators have begun to be written since.
PartialOnlyNewer ==
    [][ \A d \in Dates : "partial" \in scores'[d] \ scores[d] =>
          \E w \in Workers :
            /\ <<w, "score">> \in members \ members'
            /\ waiting[<<w, "score">>].date \in {e \in Dates : e < d /\ cov[e] = "full"} ]_chainVars

\* Seen from the chain, the rows and the marker of each trade date behave as
\* IndicatorDate says, which is what IndicatorTask implements: the chain leaves
\* out no more of the Celery tasks than that module allows.
Date(d) == INSTANCE IndicatorDate WITH cov <- cov[d], marker <- marker[d]

DatesAsPromised ==
    /\ \A d \in Dates : Date(d)!DateInit
    /\ [][\A d \in Dates : Date(d)!DateStep \/ UNCHANGED <<cov[d], marker[d]>>]_<<cov, marker>>

\* The chain itself never drops a deferred score run: as long as it is owed
\* there is a one-shot job for it, or it is polling, or it is computing.  What
\* may end it without a result is in "fate" and nothing else is: the cutoff, an
\* error of its own ("failed": add_job, a RedisError at the lock, an exception
\* before the lock or under it, or a one-shot job discarded as too late) and
\* the end of its process ("lost").
OwedScoreIsPlanned ==
    \A w \in Workers : fate[w] = "owed" =>
        \/ \E r \in retry : r.worker = w /\ r.job = "score" /\ r.at >= now
        \/ ~Idle(<<w, "score">>)

\* And it comes to an end the same day: computed, given up at the cutoff with
\* an error in the log, failed, or lost with its process.  It is neither put
\* off beyond the day nor left to poll for ever.
OwedScoreResolves ==
    \A w \in Workers : (fate[w] = "owed") ~> (fate[w] \in {"done", "given_up", "failed", "lost"})

\* At most one worker runs the cron entries (app/main.py).
OneScheduler == \A v, w \in Workers : worker[v] = "leading" /\ worker[w] = "leading" => v = w

\* The automatic trades wait for the signals of the day: when they run, no
\* signal run is polling, writing, or put off to a later half hour.
TradesAfterSignals ==
    [][ traded' /\ ~traded =>
          /\ \A w \in Workers : Idle(<<w, "signal">>)
          /\ \A r \in retry : r.job # "signal" ]_chainVars
=============================================================================
