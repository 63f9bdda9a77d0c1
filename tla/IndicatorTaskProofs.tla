------------------------- MODULE IndicatorTaskProofs -------------------------
(***************************************************************************)
(* What the reservation of a date and its completion marker are worth, for *)
(* any number of tasks, any limits and any number of retries.              *)
(***************************************************************************)
EXTENDS IndicatorTask, TLAPS

\* A scheduled task that has not lost its reservation is the one it is for.
Backed ==
    \A t \in Tasks \ lapsed :
        AtWork(t) /\ Scheduled(t) => reserved.by = t /\ reserved.left > 0

\* An execution is never longer than the hard limit.
LimitHolds == \A t \in Tasks : pc[t] \in Executing => left[t] <= Hard

\* A task about to write the marker has its status, and any coverage it will
\* claim is in the table.
ClaimIsCounted ==
    \A t \in Tasks :
        /\ pc[t] \in {"releasing", "counting", "marking"} => claim[t].status \in Outcome
        /\ pc[t] = "marking" /\ claim[t].enough => cov = "full"

\* NoDoubleDispatch follows from Backed, since a reservation is for one task;
\* ImplementsDate needs ClaimIsCounted, which survives the wait between the
\* count and the SET because rows are never taken back.
TaskInv == TaskTypeOK /\ Backed /\ LimitHolds /\ ClaimIsCounted

-----------------------------------------------------------------------------
\* No task and no reservation at the beginning.
LEMMA TaskInitInv == TaskInit => TaskInv
  BY TimesAssumption, RetriesAssumption
     DEF TaskInit, DateInit, TaskInv, TaskTypeOK, Backed, LimitHolds, ClaimIsCounted, AtWork, Free, NoClaim,
         NoMarker, MarkerKinds, Extents, Places, Executing

\* Dispatching a task keeps the invariant.
LEMMA DispatchStep ==
  ASSUME TaskInv, NEW t \in Tasks, Dispatch(t) \/ WaitFails(t) \/ SendFails(t) \/ Trigger(t)
  PROVE  TaskInv'
  <1> USE TimesAssumption, RetriesAssumption, NoTaskAssumption
      DEF TaskInv, TaskTypeOK, Backed, LimitHolds, ClaimIsCounted, AtWork, Scheduled, Go, Places, Executing
  <1>1. CASE Reserve(t)
    BY <1>1 DEF Reserve
  <1>2. CASE Send(t)
    BY <1>2 DEF Send
  <1>3. CASE SendFails(t)
    BY <1>3 DEF SendFails, Forget, NoClaim
  <1>4. CASE Trigger(t)
    BY <1>4 DEF Trigger
  <1>5. CASE Resolve(t)
    BY <1>5 DEF Resolve
  <1>6. CASE Skip(t)
    BY <1>6 DEF Skip
  <1>7. CASE WaitFails(t)
    BY <1>7 DEF WaitFails
  <1> QED
    BY <1>1, <1>2, <1>3, <1>4, <1>5, <1>6, <1>7 DEF Dispatch

\* What Released does to the place and the claim of a task.
LEMMA AfterRelease ==
  ASSUME TaskInv, NEW t \in Tasks, pc[t] = "releasing", Released(t)
  PROVE  /\ pc' \in [Tasks -> Places]
         /\ claim' \in [Tasks -> [status: Outcome \cup {"none"}, enough: BOOLEAN]]
         /\ pc'[t] \in {"counting", "ending"}
         /\ pc'[t] = "counting" => claim'[t] = claim[t]
         /\ \A u \in Tasks \ {t} : pc'[u] = pc[u] /\ claim'[u] = claim[u]
  <1>1. CASE Marks(t)
    BY <1>1 DEF Released, Go, TaskInv, TaskTypeOK, Places
  <1>2. CASE ~Marks(t)
    <2>1. claim' = [claim EXCEPT ![t] = NoClaim] /\ pc' = [pc EXCEPT ![t] = "ending"]
      BY <1>2 DEF Released, Go
    <2>2. NoClaim \in [status: Outcome \cup {"none"}, enough: BOOLEAN]
      BY DEF NoClaim
    <2> QED
      BY <2>1, <2>2 DEF TaskInv, TaskTypeOK, Places
  <1> QED
    BY <1>1, <1>2

\* So does an execution that nothing disturbs.
LEMMA ExecuteStep ==
  ASSUME TaskInv, NEW t \in Tasks, Execute(t)
  PROVE  TaskInv'
  <1> USE TimesAssumption, RetriesAssumption, NoTaskAssumption
      DEF TaskInv, TaskTypeOK, Backed, LimitHolds, ClaimIsCounted, AtWork, Scheduled, Go, Places, Executing
  <1>1. CASE Start(t)
    BY <1>1 DEF Start
  <1>2. CASE Write(t)
    BY <1>2 DEF Write, taskVars, Extents
  <1>3. CASE BatchEnds(t)
    BY <1>3 DEF BatchEnds, Outcome
  <1>4. CASE Release(t)
    <2>1. pc[t] = "releasing" /\ Released(t)
      BY <1>4 DEF Release
    <2> HIDE DEF Go
    <2>2. TaskTypeOK'
      BY <1>4, <2>1, AfterRelease DEF Release, Robbed, Free
    <2>3. Backed'
      BY <1>4, <2>1, AfterRelease DEF Release, Robbed
    <2>4. LimitHolds'
      BY <1>4, <2>1, AfterRelease DEF Release
    <2>5. ClaimIsCounted'
      BY <1>4, <2>1, AfterRelease, SMTT(20) DEF Release, Outcome
    <2> QED
      BY <2>2, <2>3, <2>4, <2>5
  <1>5. CASE Count(t)
    <2>1. claim' \in [Tasks -> [status: Outcome \cup {"none"}, enough: BOOLEAN]]
      <3> DEFINE c == [status |-> claim[t].status, enough |-> cov = "full"]
      <3>1. claim[t].status \in Outcome \cup {"none"} /\ (cov = "full") \in BOOLEAN
        OBVIOUS
      <3>2. c \in [status: Outcome \cup {"none"}, enough: BOOLEAN]
        BY <3>1, Zenon
      <3>3. claim' = [claim EXCEPT ![t] = c]
        BY <1>5 DEF Count
      <3> HIDE DEF c
      <3> QED
        BY <3>2, <3>3
    <2>2. TaskTypeOK' /\ Backed' /\ LimitHolds'
      BY <1>5, <2>1 DEF Count
    <2>3. ClaimIsCounted'
      BY <1>5, <2>1 DEF Count
    <2> QED
      BY <2>2, <2>3
  <1>6. CASE Mark(t)
    <2>1. marker' \in MarkerKinds
      BY <1>6 DEF Mark, MarkerKinds
    <2>2. claim' \in [Tasks -> [status: Outcome \cup {"none"}, enough: BOOLEAN]]
      BY <1>6 DEF Mark, NoClaim
    <2> QED
      BY <1>6, <2>1, <2>2 DEF Mark
  <1>7. CASE Acknowledge(t)
    BY <1>7 DEF Acknowledge, Forget, NoClaim
  <1> HIDE DEF TaskInv
  <1> QED
    BY <1>1, <1>2, <1>3, <1>4, <1>5, <1>6, <1>7, Zenon DEF Execute

\* So do failures and redelivery.
LEMMA FailureStep ==
  ASSUME TaskInv, NEW t \in Tasks, Redeliver(t) \/ Failure(t)
  PROVE  TaskInv'
  <1> USE TimesAssumption, RetriesAssumption, NoTaskAssumption
      DEF TaskInv, TaskTypeOK, Backed, LimitHolds, ClaimIsCounted, AtWork, Scheduled, Go, Places, Executing
  <1>1. CASE Redeliver(t)
    BY <1>1 DEF Redeliver
  <1>2. CASE BatchRaises(t)
    <2>1. claim' \in [Tasks -> [status: Outcome \cup {"none"}, enough: BOOLEAN]]
      BY <1>2 DEF BatchRaises, Outcome
    <2>2. CASE tries[t] < MaxRetries
      <3>1. tries' \in [Tasks -> 0..MaxRetries] /\ left' \in [Tasks -> 0..Visible]
        BY <1>2, <2>2 DEF BatchRaises
      <3>2. TaskTypeOK'
        BY <1>2, <2>1, <3>1 DEF BatchRaises
      <3>3. Backed' /\ LimitHolds' /\ ClaimIsCounted'
        BY <1>2, <2>2 DEF BatchRaises
      <3> QED
        BY <3>2, <3>3
    <2>3. CASE ~(tries[t] < MaxRetries)
      <3>1. pc' = [pc EXCEPT ![t] = "releasing"] /\ claim' = [claim EXCEPT ![t].status = "failed"]
            /\ UNCHANGED <<latest, cov, marker, reserved, kind, tries, left, lapsed>>
        BY <1>2, <2>3 DEF BatchRaises
      <3>2. TaskTypeOK' /\ Backed' /\ LimitHolds'
        BY <1>2, <2>1, <3>1 DEF BatchRaises
      <3>3. ClaimIsCounted'
        BY <1>2, <2>1, <3>1 DEF BatchRaises, Outcome
      <3> QED
        BY <3>2, <3>3
    <2> HIDE DEF TaskInv
    <2> QED
      BY <2>2, <2>3
  <1>3. CASE ReleaseFails(t)
    BY <1>3, AfterRelease DEF ReleaseFails
  <1>4. CASE MarkFails(t)
    BY <1>4 DEF MarkFails, NoClaim
  <1>5. CASE Kill(t)
    BY <1>5 DEF Kill, NoClaim
  <1>6. CASE HardLimit(t)
    BY <1>6 DEF HardLimit, Forget, NoClaim
  <1>7. CASE SendFails(t) \/ WaitFails(t)
    BY <1>7, DispatchStep
  <1> HIDE DEF TaskInv
  <1> QED
    BY <1>1, <1>2, <1>3, <1>4, <1>5, <1>6, <1>7, Zenon DEF Failure

\* New bars change nothing about what is under way.
LEMMA NewBarsStep == TaskInv /\ NewBars => TaskInv'
  BY DEF NewBars, taskVars, TaskInv, TaskTypeOK, Backed, LimitHolds, ClaimIsCounted, AtWork, Scheduled

\* A reservation that expires leaves its task lapsed.
LEMMA TickStep == TaskInv /\ Tick => TaskInv'
  <1> SUFFICES ASSUME TaskInv, Tick PROVE TaskInv'
    OBVIOUS
  <1> USE TimesAssumption, RetriesAssumption, NoTaskAssumption DEF TaskInv, Tick
  <1>1. TaskTypeOK' /\ LimitHolds' /\ ClaimIsCounted'
    BY DEF TaskTypeOK, LimitHolds, ClaimIsCounted, Free, Robbed
  <1>2. Backed'
    BY DEF TaskTypeOK, Backed, AtWork, Scheduled, Free, Robbed
  <1> QED
    BY <1>1, <1>2

\* The invariant holds in every reachable state.
THEOREM TaskInvariant == TaskSpec => []TaskInv
  <1>1. TaskInv /\ [TaskNext]_vars => TaskInv'
    <2>1. TaskInv /\ UNCHANGED vars => TaskInv'
      BY DEF vars, TaskInv, TaskTypeOK, Backed, LimitHolds, ClaimIsCounted, AtWork, Scheduled
    <2>2. ASSUME TaskInv, NEW t \in Tasks, TaskStep(t) PROVE TaskInv'
      BY <2>2, DispatchStep, ExecuteStep, FailureStep DEF TaskStep
    <2> QED
      BY <2>1, <2>2, TickStep, NewBarsStep DEF TaskNext
  <1> QED
    BY TaskInitInv, <1>1, PTL DEF TaskSpec

\* Types, with every countdown inside its limit.
THEOREM TaskTypes == TaskSpec => []TaskTypeOK
  <1>1. TaskInv => TaskTypeOK
    BY DEF TaskInv
  <1> QED
    BY TaskInvariant, <1>1, PTL

\* _acquire_indicator_date_lock keeps two scheduled tasks of a date apart as
\* long as neither lost its reservation.
THEOREM DispatchedOnce == TaskSpec => []NoDoubleDispatch
  <1>1. TaskInv => NoDoubleDispatch
    BY DEF TaskInv, Backed, NoDoubleDispatch
  <1> QED
    BY TaskInvariant, <1>1, PTL

\* The tasks implement the date the gate relies on: no marker ever claims
\* coverage the table lacks, whatever is retried, killed or redelivered.
THEOREM DateImplemented == TaskSpec => ImplementsDate
  <1>1. TaskInit => DateInit
    BY DEF TaskInit
  <1>2. TaskInv /\ [TaskNext]_vars => [DateStep]_<<cov, marker>>
    <2> SUFFICES ASSUME TaskInv, TaskNext PROVE DateStep \/ UNCHANGED <<cov, marker>>
      BY DEF vars
    <2>1. CASE Tick \/ NewBars
      BY <2>1 DEF Tick, NewBars
    <2>2. ASSUME NEW t \in Tasks, TaskStep(t)
          PROVE  DateStep \/ UNCHANGED <<cov, marker>>
      <3>1. CASE Write(t)
        BY <3>1 DEF Write, DateStep, Extents, TaskInv, TaskTypeOK
      <3>2. CASE Mark(t)
        <4>1. claim[t].status \in Outcome /\ (claim[t].enough => cov = "full") /\ cov \in Extents
              /\ claim[t] \in [status: Outcome \cup {"none"}, enough: BOOLEAN]
          BY <3>2 DEF Mark, TaskInv, TaskTypeOK, ClaimIsCounted
        <4>2. claim[t] \in MarkerKinds \ {NoMarker}
          BY <4>1 DEF MarkerKinds, NoMarker, Outcome
        <4> QED
          BY <3>2, <4>1, <4>2 DEF Mark, DateStep, Extents
      <3> QED
        BY <2>2, <3>1, <3>2
           DEF TaskStep, Dispatch, Execute, Failure, Resolve, Reserve, Skip, WaitFails, Send, Trigger,
               Redeliver, Start, BatchEnds, Release, Count,
               Acknowledge, SendFails, BatchRaises, ReleaseFails, MarkFails, Kill, HardLimit
    <2> QED
      BY <2>1, <2>2 DEF TaskNext
  <1> QED
    BY TaskInvariant, <1>1, <1>2, PTL DEF TaskSpec, ImplementsDate, DateSpec
-----------------------------------------------------------------------------
\* A marker that says the indicators of the date are enough is true of the
\* table, whenever the gate reads it.
MarkerTrue == marker.enough => cov = "full"

\* What a date promises to the gate: a marker stays true after it is written,
\* since rows are never taken back.
THEOREM MarkersAreTrue == DateSpec => []MarkerTrue
  <1>1. DateInit => MarkerTrue
    BY DEF DateInit, NoMarker, MarkerTrue
  <1>2. MarkerTrue /\ [DateStep]_<<cov, marker>> => MarkerTrue'
    BY DEF DateStep, MarkerTrue
  <1> QED
    BY <1>1, <1>2, PTL DEF DateSpec

\* So the markers of the tasks are true: by way of the refinement, for retried,
\* killed and redelivered tasks alike.
THEOREM TaskMarkersAreTrue == TaskSpec => []MarkerTrue
  BY DateImplemented, MarkersAreTrue, PTL DEF ImplementsDate
=============================================================================
