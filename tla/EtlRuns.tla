------------------------------ MODULE EtlRuns ------------------------------
(***************************************************************************)
(* The runs of the jobs that share the lock daily_pipeline, the etl_log    *)
(* rows that record them, and the hourly cleanup of rows that stay         *)
(* "running": cleanup_stuck_etl_jobs in app/core/scheduler.py.             *)
(*                                                                         *)
(* A run takes the lock (the lease that redis_lock is, LeaseLock), inserts *)
(* a row "running", works, and writes the outcome into the row: record_etl *)
(* for scores and signals, ETLPipeline.run for the daily bars, which may   *)
(* run again with a new row inside the same lock.  A killed run leaves its *)
(* row and its key behind.  The cleanup reads the rows, marks each stuck   *)
(* one in its session, deletes by name the locks its job uses, and commits *)
(* once at the end.                                                        *)
(***************************************************************************)
EXTENDS LeaseLock

CONSTANTS
    Rows,        \* etl_log rows a behaviour may insert
    NoRow,
    Jobs,        \* ETLLog.job_name
    JobOf,       \* the job each client runs
    SharesLock,  \* the jobs that _ETL_JOB_LOCK_MAP maps to this lock
    Threshold    \* _stuck_threshold_for each job, in units of time

ASSUME JobsAssumption ==
    /\ Jobs # {}
    /\ JobOf \in [Clients -> Jobs]
    /\ SharesLock \subseteq Jobs
    /\ Threshold \in [Jobs -> Nat \ {0}]
    /\ NoRow \notin Rows

VARIABLES
    rows,    \* the etl_log table
    open,    \* the row each client's run has open
    sweep    \* the cleanup: its phase, the rows it marked, those to unlock

etlVars == <<holder, left, members, rows, open, sweep>>

\* What _resolve_status and ETLPipeline.run make of these jobs' results.
Outcomes == {"success", "partial", "failed"}
Statuses == {"absent", "running"} \cup Outcomes

EtlTypeOK ==
    /\ holder \in Clients \cup {Nobody}
    /\ left \in Nat
    /\ members \subseteq Clients
    /\ rows \in [Rows -> [job: Jobs, status: Statuses, age: Nat]]
    /\ open \in [Clients -> Rows \cup {NoRow}]
    /\ sweep \in [phase: {"off", "marking"}, marked: SUBSET Rows, locked: SUBSET Rows]

-----------------------------------------------------------------------------
AbsentRow == [job |-> CHOOSE j \in Jobs : TRUE, status |-> "absent", age |-> 0]

SweepOff == [phase |-> "off", marked |-> {}, locked |-> {}]

\* Beyond its threshold the age of a row makes no difference.
Older(row) == IF row.age < Threshold[row.job] THEN row.age + 1 ELSE row.age

\* Mutant: one threshold for every job, the shortest (the cleanup before P1-1).
StuckByShortest(row) ==
    row.status = "running" /\ \E j \in Jobs : row.age >= Threshold[j]

\* Mutant: rows are spared as long as somebody holds the lock.
StuckWhenFree(row) ==
    row.status = "running" /\ row.age >= Threshold[row.job] /\ holder = Nobody

Stuck(row) == row.status = "running" /\ row.age >= Threshold[row.job]

EtlInit ==
    /\ LeaseInit
    /\ rows = [r \in Rows |-> AbsentRow]
    /\ open = [c \in Clients |-> NoRow]
    /\ sweep = SweepOff

-----------------------------------------------------------------------------
(* A run.                                                                  *)

\* The run gets the lock, or the key without hearing of it.  A run that is
\* refused, or gives up waiting, changes nothing.
Begin(c) ==
    /\ Grant(c) \/ GrantUnheard(c)
    /\ UNCHANGED <<rows, open, sweep>>

\* start_log, and _create_log of each attempt of a pipeline.  The insert may
\* fail unnoticed: then the body goes on without a row.
StartLog(c) ==
    /\ c \in members /\ open[c] = NoRow
    /\ \E r \in Rows :
        /\ rows[r].status = "absent"
        /\ rows' = [rows EXCEPT ![r] = [job |-> JobOf[c], status |-> "running", age |-> 0]]
        /\ open' = [open EXCEPT ![c] = r]
    /\ UNCHANGED <<leaseVars, sweep>>

\* finish_log, _update_log: the outcome is written over whatever is there.
FinishLog(c) ==
    /\ open[c] # NoRow
    /\ \E s \in Outcomes : rows' = [rows EXCEPT ![open[c]].status = s]
    /\ open' = [open EXCEPT ![c] = NoRow]
    /\ UNCHANGED <<leaseVars, sweep>>

\* The commit of the outcome fails: the run ends, its row stays "running".
FinishLogFails(c) ==
    /\ open[c] # NoRow
    /\ open' = [open EXCEPT ![c] = NoRow]
    /\ UNCHANGED <<leaseVars, rows, sweep>>

\* Mutant: the end of the with block deletes the key by name.
EndRunByName(c) ==
    /\ c \in members /\ open[c] = NoRow
    /\ holder' = Nobody /\ left' = 0 /\ members' = members \ {c}
    /\ UNCHANGED <<rows, open, sweep>>

\* The end of the with block: the key goes if it is still the run's own.
EndRun(c) ==
    /\ c \in members /\ open[c] = NoRow
    /\ IF holder = c THEN GiveUp(c) ELSE Quit(c)
    /\ UNCHANGED <<rows, open, sweep>>

\* The container is killed in the middle of the run.
Kill(c) ==
    /\ c \in members
    /\ Quit(c)
    /\ open' = [open EXCEPT ![c] = NoRow]
    /\ UNCHANGED <<rows, sweep>>

-----------------------------------------------------------------------------
(* cleanup_stuck_etl_jobs.                                                 *)

\* The query and the threshold of each row's own job.
SweepScan ==
    /\ sweep.phase = "off"
    /\ LET stuck == {r \in Rows : Stuck(rows[r])} IN
        /\ stuck # {}
        /\ sweep' = [phase |-> "marking", marked |-> stuck, locked |-> stuck]
    /\ UNCHANGED <<leaseVars, rows, open>>

\* DEL lock:<name> for the row's job, whoever the key belongs to by now; a
\* failing DEL is logged and the sweep goes on.
SweepUnlock ==
    /\ \E r \in sweep.locked :
        /\ IF rows[r].job \in SharesLock THEN holder' = Nobody /\ left' = 0
           ELSE UNCHANGED <<holder, left>>
        /\ sweep' = [sweep EXCEPT !.locked = @ \ {r}]
    /\ UNCHANGED <<members, rows, open>>

SweepUnlockFails ==
    /\ \E r \in sweep.locked : sweep' = [sweep EXCEPT !.locked = @ \ {r}]
    /\ UNCHANGED <<leaseVars, rows, open>>

\* Mutant: the update selects by job name instead of by row.
SweepCommitByJob ==
    /\ sweep.phase = "marking" /\ sweep.locked = {}
    /\ rows' = [r \in Rows |->
                  IF rows[r].status # "absent" /\ \E m \in sweep.marked : rows[m].job = rows[r].job
                  THEN [rows[r] EXCEPT !.status = "failed"] ELSE rows[r]]
    /\ sweep' = SweepOff
    /\ UNCHANGED <<leaseVars, open>>

\* Mutant: the cleanup writes a status of its own.
SweepCommitStuck ==
    /\ sweep.phase = "marking" /\ sweep.locked = {}
    /\ rows' = [r \in Rows |->
                  IF r \in sweep.marked THEN [rows[r] EXCEPT !.status = "stuck"] ELSE rows[r]]
    /\ sweep' = SweepOff
    /\ UNCHANGED <<leaseVars, open>>

\* One commit at the end; the session holds no version of the rows it read.
SweepCommit ==
    /\ sweep.phase = "marking" /\ sweep.locked = {}
    /\ rows' = [r \in Rows |->
                  IF r \in sweep.marked THEN [rows[r] EXCEPT !.status = "failed"] ELSE rows[r]]
    /\ sweep' = SweepOff
    /\ UNCHANGED <<leaseVars, open>>

\* The commit fails and is rolled back, or the process dies on the way: the
\* locks deleted so far stay deleted, the rows stay "running".
SweepLost ==
    /\ sweep.phase = "marking"
    /\ sweep' = SweepOff
    /\ UNCHANGED <<leaseVars, rows, open>>

-----------------------------------------------------------------------------
\* Time passes, for the rows too.  Nothing bounds a run: it may outlive the
\* threshold of its job.
EtlTick ==
    /\ Elapse \/ (left = 0 /\ UNCHANGED leaseVars)
    /\ rows' = [r \in Rows |->
                  IF rows[r].status = "running" THEN [rows[r] EXCEPT !.age = Older(rows[r])]
                  ELSE rows[r]]
    /\ UNCHANGED <<open, sweep>>

Run(c) ==
    \/ Begin(c) \/ StartLog(c) \/ FinishLog(c) \/ FinishLogFails(c)
    \/ EndRun(c) \/ Kill(c)

Sweep == SweepScan \/ SweepUnlock \/ SweepUnlockFails \/ SweepCommit \/ SweepLost

EtlNext == EtlTick \/ Sweep \/ \E c \in Clients : Run(c)

\* The clock runs and runs end.  The hourly cron entry keeps starting the
\* cleanup, and from some point on its commits stop failing.
EtlFairness ==
    /\ WF_etlVars(EtlTick)
    /\ \A c \in Clients : WF_etlVars(FinishLog(c) \/ FinishLogFails(c))
    /\ WF_etlVars(Sweep)
    /\ <>[][~SweepLost]_etlVars

EtlSpec == EtlInit /\ [][EtlNext]_etlVars /\ EtlFairness

-----------------------------------------------------------------------------
\* A row as old as the threshold of its job, which the cleanup takes for stuck.
\* The age of a row stands still once an outcome is written.
Old(r) == rows[r].age >= Threshold[rows[r].job]

\* The row of a run at work says "running" until it is old: no sweep, however
\* it interleaves with the runs of other jobs and their thresholds, fails the
\* record of a legitimate run that is still at work ("never reaped mid-flight").
LiveRowRuns ==
    \A c \in Clients : open[c] # NoRow /\ ~Old(open[c]) => rows[open[c]].status = "running"

\* No two runs write into one row.
RowsApart == \A c, d \in Clients : open[c] # NoRow /\ open[c] = open[d] => c = d

\* The outcome of a run that ended before its threshold is final: no sweep, no
\* other run and no later commit rewrites it.  The exception are the rows of
\* runs that outlived their threshold.  Such a run may end between the query
\* and the commit of a sweep, which then writes "failed" over its outcome, or
\* end after the sweep and write its outcome over "failed"; nobody but that
\* sweep and that run does.
OutcomeIsFinal ==
    [][ \A r \in Rows :
          rows[r].status \in Outcomes /\ rows'[r].status # rows[r].status =>
            Old(r) /\ (r \in sweep.marked \/ \E c \in Clients : open[c] = r) ]_etlVars

\* A run with an open row loses the lock under its hands in two ways only: its
\* lease runs out, or the cleanup deletes the name on account of an old row of
\* a job that shares it: the row of a killed run, or of one that outlived its
\* threshold.  The end of another run, a late one included, never takes it
\* away, nor does a cleanup on account of a row that is not old.
LockLostToOldRows ==
    [][ \A c \in Clients :
          holder = c /\ open[c] # NoRow /\ holder' # c =>
            \/ EtlTick
            \/ \E r \in sweep.locked \ sweep'.locked : Old(r) /\ rows[r].job \in SharesLock ]_etlVars

\* The row of a killed run does not stay "running" for ever.
StuckRowsEnd ==
    \A r \in Rows : (rows[r].status = "running") ~> (rows[r].status # "running")
=============================================================================
