--------------------------- MODULE EtlRunsProofs ---------------------------
(***************************************************************************)
(* The hourly cleanup never fails a run at work within its threshold,      *)
(* rewrites no outcome of such a run and takes a lock away on account of   *)
(* old rows only, for any jobs, thresholds, leases and number of rows, and *)
(* however long a run takes.                                               *)
(***************************************************************************)
EXTENDS EtlRuns, TLAPS

\* What a sweep has marked was old when the sweep read it, and still is: the
\* age of a row never goes back.  This is what makes the late commit of the
\* sweep harmless to every run within its threshold.
MarkedIsOld == \A r \in sweep.marked : rows[r].status # "absent" /\ Old(r)

\* A sweep deletes locks only on account of rows it has marked.
UnlocksMarked == sweep.locked \subseteq sweep.marked

\* An open row has been inserted.
OpenIsPresent == \A c \in Clients : open[c] # NoRow => rows[open[c]].status # "absent"

\* The parts support each other: rows are apart because a new row is absent
\* before, hence neither open nor marked; a row that is open and not old is
\* not marked, and only its own run ends it.
EtlInv ==
    /\ EtlTypeOK
    /\ LiveRowRuns
    /\ RowsApart
    /\ OpenIsPresent
    /\ MarkedIsOld
    /\ UnlocksMarked

-----------------------------------------------------------------------------
\* The invariant holds before the first run.
LEMMA EtlInitInv == EtlInit => EtlInv
  BY JobsAssumption
     DEF EtlInit, LeaseInit, EtlInv, EtlTypeOK, AbsentRow, SweepOff, Statuses, Outcomes, LiveRowRuns,
         RowsApart, OpenIsPresent, MarkedIsOld, Old, UnlocksMarked

\* The steps of a run keep the invariant.
LEMMA RunStep ==
  ASSUME EtlInv, NEW c \in Clients, Run(c)
  PROVE  EtlInv'
  <1> USE JobsAssumption
      DEF EtlInv, EtlTypeOK, Statuses, Outcomes, LiveRowRuns, RowsApart, OpenIsPresent, MarkedIsOld, Old, UnlocksMarked
  <1>1. CASE Begin(c)
    BY <1>1, LeaseAssumption DEF Begin, Grant, GrantUnheard
  <1>2. CASE StartLog(c)
    BY <1>2 DEF StartLog, leaseVars
  <1>3. CASE FinishLog(c)
    BY <1>3 DEF FinishLog, leaseVars
  <1>4. CASE FinishLogFails(c)
    BY <1>4 DEF FinishLogFails, leaseVars
  <1>5. CASE EndRun(c)
    BY <1>5 DEF EndRun, GiveUp, Quit
  <1>6. CASE Kill(c)
    BY <1>6 DEF Kill, Quit
  <1> QED
    BY <1>1, <1>2, <1>3, <1>4, <1>5, <1>6 DEF Run

\* The steps of the cleanup keep the invariant.
LEMMA SweepStep == EtlInv /\ Sweep => EtlInv'
  <1> SUFFICES ASSUME EtlInv, Sweep PROVE EtlInv'
    OBVIOUS
  <1> USE JobsAssumption
      DEF EtlInv, EtlTypeOK, Statuses, Outcomes, LiveRowRuns, RowsApart, OpenIsPresent, MarkedIsOld, Old, UnlocksMarked
  <1>1. CASE SweepScan
    BY <1>1 DEF SweepScan, Stuck, leaseVars
  <1>2. CASE SweepUnlock \/ SweepUnlockFails
    BY <1>2 DEF SweepUnlock, SweepUnlockFails, leaseVars
  <1>3. CASE SweepCommit
    BY <1>3 DEF SweepCommit, SweepOff, leaseVars
  <1>4. CASE SweepLost
    BY <1>4 DEF SweepLost, SweepOff, leaseVars
  <1> QED
    BY <1>1, <1>2, <1>3, <1>4 DEF Sweep

\* Time passing keeps the invariant.
LEMMA EtlTickStep == EtlInv /\ EtlTick => EtlInv'
  <1> SUFFICES ASSUME EtlInv, EtlTick PROVE EtlInv'
    OBVIOUS
  <1> USE JobsAssumption
  <1>1. UNCHANGED <<open, sweep, members>> /\ holder' \in {holder, Nobody} /\ left' \in Nat
    BY DEF EtlInv, EtlTypeOK, EtlTick, Elapse, leaseVars
  <1>2. rows' \in [Rows -> [job: Jobs, status: Statuses, age: Nat]]
    BY DEF EtlInv, EtlTypeOK, EtlTick, Older
  <1>3. ASSUME NEW r \in Rows
        PROVE  /\ rows'[r].status = rows[r].status /\ rows'[r].job = rows[r].job
               /\ Old(r) => Old(r)'
    BY DEF EtlInv, EtlTypeOK, EtlTick, Older, Old
  <1>4. EtlTypeOK'
    BY <1>1, <1>2 DEF EtlInv, EtlTypeOK
  <1> QED
    BY <1>1, <1>3, <1>4
       DEF EtlInv, EtlTypeOK, LiveRowRuns, RowsApart, OpenIsPresent, MarkedIsOld, UnlocksMarked

\* The inductive invariant holds in every reachable state.
THEOREM EtlInvariant == EtlSpec => []EtlInv
  <1>1. EtlInv /\ [EtlNext]_etlVars => EtlInv'
    <2>1. EtlInv /\ UNCHANGED etlVars => EtlInv'
      BY DEF etlVars, EtlInv, EtlTypeOK, LiveRowRuns, RowsApart, OpenIsPresent, MarkedIsOld, Old, UnlocksMarked
    <2> QED
      BY <2>1, RunStep, SweepStep, EtlTickStep DEF EtlNext
  <1> QED
    BY EtlInitInv, <1>1, PTL DEF EtlSpec

\* Type correctness, for any jobs, rows and leases.
THEOREM EtlTypes == EtlSpec => []EtlTypeOK
  <1>1. EtlInv => EtlTypeOK
    BY DEF EtlInv
  <1> QED
    BY EtlInvariant, <1>1, PTL

\* A run at work within its threshold is never recorded as over.
THEOREM LiveRowsRun == EtlSpec => []LiveRowRuns
  <1>1. EtlInv => LiveRowRuns
    BY DEF EtlInv
  <1> QED
    BY EtlInvariant, <1>1, PTL

\* No recorded outcome is ever rewritten, but by the run and the sweep of a row
\* that had reached its threshold before it was written.
THEOREM OutcomesFinal == EtlSpec => OutcomeIsFinal
  <1> DEFINE Step == \A r \in Rows :
                rows[r].status \in Outcomes /\ rows'[r].status # rows[r].status =>
                  Old(r) /\ (r \in sweep.marked \/ \E c \in Clients : open[c] = r)
  <1>1. EtlInv /\ [EtlNext]_etlVars => Step \/ UNCHANGED etlVars
    <2> SUFFICES ASSUME EtlInv, EtlNext PROVE Step
      OBVIOUS
    <2> USE JobsAssumption DEF EtlInv, EtlTypeOK, Outcomes, LiveRowRuns, MarkedIsOld, Old
    <2>1. CASE EtlTick
      BY <2>1 DEF EtlTick
    <2>2. CASE Sweep
      BY <2>2 DEF Sweep, SweepScan, SweepUnlock, SweepUnlockFails, SweepCommit, SweepLost
    <2>3. ASSUME NEW c \in Clients, Run(c)
          PROVE  Step
      BY <2>3 DEF Run, Begin, StartLog, FinishLog, FinishLogFails, EndRun, Kill
    <2> QED
      BY <2>1, <2>2, <2>3 DEF EtlNext
  <1> QED
    BY EtlInvariant, <1>1, PTL DEF EtlSpec, OutcomeIsFinal

\* The lock of a run at work is lost to the clock or to an old row, never to the
\* end of another run nor to a cleanup on account of a row within its threshold.
THEOREM LocksLostToOldRows == EtlSpec => LockLostToOldRows
  <1> DEFINE Kept(c) == holder = c /\ open[c] # NoRow /\ holder' # c =>
                \/ EtlTick
                \/ \E r \in sweep.locked \ sweep'.locked : Old(r) /\ rows[r].job \in SharesLock
  <1>1. EtlInv /\ [EtlNext]_etlVars => (\A c \in Clients : Kept(c)) \/ UNCHANGED etlVars
    <2> SUFFICES ASSUME EtlInv, EtlNext, NEW c \in Clients PROVE Kept(c)
      OBVIOUS
    <2>1. CASE SweepUnlock
      <3>1. PICK r \in sweep.locked :
              /\ IF rows[r].job \in SharesLock THEN holder' = Nobody /\ left' = 0
                 ELSE UNCHANGED <<holder, left>>
              /\ sweep' = [sweep EXCEPT !.locked = @ \ {r}]
        BY <2>1 DEF SweepUnlock
      <3>2. r \in sweep.locked \ sweep'.locked /\ Old(r)
        BY <3>1 DEF EtlInv, EtlTypeOK, UnlocksMarked, MarkedIsOld
      <3> QED
        BY <3>1, <3>2
    <2>2. CASE Sweep /\ ~SweepUnlock
      BY <2>2 DEF Sweep, SweepScan, SweepUnlockFails, SweepCommit, SweepLost, leaseVars
    <2>3. ASSUME NEW d \in Clients, Run(d)
          PROVE  Kept(c)
      <3>1. CASE Begin(d)
        BY <3>1, LeaseAssumption DEF Begin, Grant, GrantUnheard
      <3>2. CASE EndRun(d)
        BY <3>2 DEF EndRun, GiveUp, Quit
      <3> QED
        BY <2>3, <3>1, <3>2 DEF Run, StartLog, FinishLog, FinishLogFails, Kill, Quit, leaseVars
    <2> QED
      BY <2>1, <2>2, <2>3 DEF EtlNext
  <1> QED
    BY EtlInvariant, <1>1, PTL DEF EtlSpec, LockLostToOldRows

\* Seen from the lock, the runs and the cleanup take no step that the lease
\* of LeaseLock does not, but for the DEL of the cleanup.
THEOREM RunsUseTheLease == EtlSpec => LeaseInit /\ [][LeaseNext \/ SweepUnlock]_leaseVars
  <1>1. EtlInit => LeaseInit
    BY DEF EtlInit
  <1>2. [EtlNext]_etlVars => [LeaseNext \/ SweepUnlock]_leaseVars
    <2>1. EtlTick => [LeaseNext]_leaseVars
      BY DEF EtlTick, LeaseNext
    <2>2. Sweep => UNCHANGED leaseVars \/ SweepUnlock
      BY DEF Sweep, SweepScan, SweepUnlockFails, SweepCommit, SweepLost
    <2>3. ASSUME NEW c \in Clients, Run(c)
          PROVE  [LeaseNext]_leaseVars
      BY <2>3 DEF Run, Begin, StartLog, FinishLog, FinishLogFails, EndRun, Kill, LeaseNext
    <2>4. UNCHANGED etlVars => UNCHANGED leaseVars
      BY DEF etlVars, leaseVars
    <2> QED
      BY <2>1, <2>2, <2>3, <2>4 DEF EtlNext
  <1> QED
    BY <1>1, <1>2, PTL DEF EtlSpec
=============================================================================
