-------------------------- MODULE DailyChainProofs --------------------------
(***************************************************************************)
(* The gate, the deferred scores and the trade dates of the daily chain,   *)
(* for any number of workers and dates and any cron table.                 *)
(***************************************************************************)
EXTENDS DailyChain, WellFoundedInduction, TLAPS

\* A run that goes for the lock, or has it, has a date, and its process is
\* the one of a running scheduler.
RunsAreLed ==
    \A c \in Clients : waiting[c] # NotWaiting => waiting[c].date \in Dates /\ worker[c[1]] = "leading"

\* A run that has the lock went for it.
MembersWaited == \A c \in members : waiting[c] # NotWaiting

\* A process that has stopped has no one-shot jobs.
RetriesAreLed == \A r \in retry : worker[r.worker] = "leading"

\* Whoever writes a marker has counted the rows, and rows are never taken back.
MarkerIsCounted == \A d \in Dates : marker[d].enough => cov[d] = "full"

CInv ==
    /\ ChainTypeOK
    /\ RunsAreLed
    /\ MembersWaited
    /\ RetriesAreLed
    /\ MarkerIsCounted
    /\ CheckedDateIsFull
    /\ OwedScoreIsPlanned

\* What the waiting of a client may be, and a one-shot job.
Waits == [until: Nat \cup {-1}, date: Dates \cup {0}]
Shots == [worker: Workers, job: Gated, date: Dates, at: Slots]

-----------------------------------------------------------------------------
\* Nothing runs at first.
LEMMA ChainInitInv == ChainInit => CInv
<1> SUFFICES ASSUME ChainInit PROVE CInv
    OBVIOUS
<1> USE ChainAssumption, LeaseAssumption DEF ChainInit, LeaseInit
<1>1. ChainTypeOK
  <2>1. waiting \in [Clients -> Waits]
    <3>1. NotWaiting \in Waits
      BY DEF NotWaiting, Waits
    <3> QED
      BY <3>1
  <2>2. now \in Slots /\ holder \in Clients \cup {Nobody} /\ left \in Nat /\ members \subseteq Clients
    BY DEF Slots
  <2>3. /\ worker \in [Workers -> {"down", "elected", "leading", "serving"}]
        /\ flock \in Workers \cup {NoWorker}
        /\ due \in [Workers -> SUBSET Jobs]
        /\ retry \subseteq Shots
        /\ trading \subseteq Workers
    OBVIOUS
  <2>4. /\ bar \in Dates
        /\ task \in [Dates -> {"none", "queued", "reserved"}]
        /\ cov \in [Dates -> Coverage]
        /\ marker \in [Dates -> [status: {"none", "success", "failed"}, enough: BOOLEAN]]
        /\ scores \in [Dates -> SUBSET Coverage]
    BY DEF Coverage
  <2>5. fate \in [Workers -> Fates] /\ signals \in Coverage /\ traded \in BOOLEAN
    BY DEF Fates, Coverage
  <2> QED
    BY <2>1, <2>2, <2>3, <2>4, <2>5 DEF ChainTypeOK, Waits, Shots
<1>2. RunsAreLed /\ MembersWaited /\ RetriesAreLed /\ MarkerIsCounted
    BY DEF RunsAreLed, MembersWaited, RetriesAreLed, MarkerIsCounted
<1>3. OwedScoreIsPlanned
    BY DEF OwedScoreIsPlanned
<1>4. CheckedDateIsFull
  <2>1. \A w \in Workers : <<w, "score">> \in Clients
    BY DEF Jobs
  <2>2. \A c \in Clients : waiting[c].date = 0
    BY DEF NotWaiting
  <2> QED
    BY <2>1, <2>2 DEF CheckedDateIsFull
<1> QED
    BY <1>1, <1>2, <1>3, <1>4 DEF CInv

\* Putting a run off leaves the plans of others alone, and an owed score of
\* its own is planned.
LEMMA DeferPlans ==
    ASSUME ChainTypeOK, RetriesAreLed,
           NEW w \in Workers, NEW j \in Gated, NEW d \in Dates,
           worker[w] = "leading", worker' = worker, Defer(w, j, d)
    PROVE  /\ retry' \subseteq Shots
           /\ fate' \in [Workers -> Fates]
           /\ RetriesAreLed'
           /\ \A r \in retry : r.worker # w \/ r.job # j => r \in retry'
           /\ j = "score" /\ fate'[w] = "owed" =>
                 \E r \in retry' : r.worker = w /\ r.job = "score" /\ r.at = now + 1
           /\ \A v \in Workers : v # w \/ j # "score" => fate'[v] = fate[v]
<1> DEFINE new == [worker |-> w, job |-> j, date |-> d, at |-> now + 1]
           kept == {r \in retry \ Ripe(w, j) : ~(r.worker = w /\ r.job = j /\ r.date = d)}
<1>1. kept \subseteq retry /\ retry \ Ripe(w, j) \subseteq retry
    OBVIOUS
<1>2. retry \subseteq Shots /\ now \in Nat /\ fate \in [Workers -> Fates]
    BY ChainAssumption DEF ChainTypeOK, Slots, Shots
<1>3. \A r \in retry : r.worker # w \/ r.job # j => r \in kept /\ r \in retry \ Ripe(w, j)
    BY DEF Ripe
<1>4. CASE /\ now + 1 <= Deadline
           /\ retry' = kept \cup {new}
           /\ fate' = [fate EXCEPT ![w] = IF j = "score" THEN "owed" ELSE @]
  <2>1. new \in Shots
    BY <1>2, <1>4, ChainAssumption DEF Shots, Slots
  <2>2. new.worker = w /\ new.job = j /\ new.at = now + 1
    OBVIOUS
  <2> HIDE DEF new, kept
  <2>3. RetriesAreLed'
    BY <1>1, <1>4, <2>2 DEF RetriesAreLed
  <2>4. fate' \in [Workers -> Fates]
    BY <1>2, <1>4 DEF Fates
  <2> QED
    BY <1>1, <1>2, <1>3, <1>4, <2>1, <2>2, <2>3, <2>4
<1>5. CASE /\ retry' = retry \ Ripe(w, j)
           /\ fate' = [fate EXCEPT ![w] = IF j # "score" THEN @
                                         ELSE IF now + 1 <= Deadline THEN "failed" ELSE "given_up"]
  <2>1. RetriesAreLed'
    BY <1>1, <1>5 DEF RetriesAreLed
  <2>2. fate' \in [Workers -> Fates]
    BY <1>2, <1>5 DEF Fates
  <2> HIDE DEF kept
  <2> QED
    BY <1>1, <1>2, <1>3, <1>5, <2>1, <2>2
<1> QED
    BY <1>4, <1>5 DEF Defer

-----------------------------------------------------------------------------
(* Processes.                                                              *)

LEMMA StartupInv == ASSUME CInv, NEW w \in Workers, Startup(w) PROVE CInv'
<1> USE ChainAssumption DEF CInv, leaseVars, cronVars, taskVars, outVars
<1>1. ChainTypeOK'
    BY DEF ChainTypeOK, Startup
<1>2. RunsAreLed' /\ RetriesAreLed'
    BY DEF ChainTypeOK, Startup, RunsAreLed, RetriesAreLed
<1>3. MembersWaited' /\ MarkerIsCounted' /\ CheckedDateIsFull'
    BY DEF Startup, MembersWaited, MarkerIsCounted, CheckedDateIsFull
<1>4. OwedScoreIsPlanned'
    BY DEF Startup, OwedScoreIsPlanned, Idle
<1> QED
    BY <1>1, <1>2, <1>3, <1>4

LEMMA StartSchedulerInv == ASSUME CInv, NEW w \in Workers, StartScheduler(w) PROVE CInv'
<1> USE ChainAssumption DEF CInv, leaseVars, cronVars, taskVars, outVars
<1>1. ChainTypeOK'
    BY DEF ChainTypeOK, StartScheduler
<1>2. RunsAreLed' /\ RetriesAreLed'
    BY DEF ChainTypeOK, StartScheduler, RunsAreLed, RetriesAreLed
<1>3. MembersWaited' /\ MarkerIsCounted' /\ CheckedDateIsFull'
    BY DEF StartScheduler, MembersWaited, MarkerIsCounted, CheckedDateIsFull
<1>4. OwedScoreIsPlanned'
    BY DEF StartScheduler, OwedScoreIsPlanned, Idle
<1> QED
    BY <1>1, <1>2, <1>3, <1>4

\* A process that stops takes its runs and its plans with it.
LEMMA StopInv == ASSUME CInv, NEW w \in Workers, Stop(w) PROVE CInv'
<1> USE ChainAssumption DEF CInv, taskVars
<1>1. waiting' = [c \in Clients |-> IF c[1] = w THEN NotWaiting ELSE waiting[c]]
    BY DEF Stop
<1>2. NotWaiting \in Waits /\ NotWaiting.date = 0
    BY DEF NotWaiting, Waits
<1>3. waiting \in [Clients -> Waits]
    BY DEF ChainTypeOK, Waits
<1>4. ChainTypeOK'
  <2>1. waiting' \in [Clients -> Waits]
    BY <1>1, <1>2, <1>3
  <2>2. worker' \in [Workers -> {"down", "elected", "leading", "serving"}]
        /\ fate' \in [Workers -> Fates]
        /\ due' \in [Workers -> SUBSET Jobs]
    BY DEF ChainTypeOK, Fates, Stop
  <2> QED
    BY <2>1, <2>2 DEF ChainTypeOK, Stop, Waits
<1>5. worker' = [worker EXCEPT ![w] = "down"] /\ worker \in [Workers -> {"down", "elected", "leading", "serving"}]
    BY DEF Stop, ChainTypeOK
<1>6. RunsAreLed'
    BY <1>1, <1>5 DEF RunsAreLed
<1>7. RetriesAreLed'
    BY <1>5 DEF RetriesAreLed, Stop, ChainTypeOK
<1>8. MembersWaited'
    BY <1>1 DEF MembersWaited, Stop, ChainTypeOK
<1>9. MarkerIsCounted'
    BY DEF MarkerIsCounted, Stop
<1>10. CheckedDateIsFull'
  <2> SUFFICES ASSUME NEW v \in Workers, NEW d \in Dates, waiting'[<<v, "score">>].date = d
               PROVE  cov'[d] = "full"
    BY DEF CheckedDateIsFull
  <2>1. <<v, "score">> \in Clients /\ <<v, "score">>[1] = v
    BY DEF Jobs
  <2>2. waiting'[<<v, "score">>] = waiting[<<v, "score">>]
    BY <1>1, <1>2, <2>1
  <2> QED
    BY <2>2 DEF CheckedDateIsFull, Stop
<1>11. OwedScoreIsPlanned'
  <2> SUFFICES ASSUME NEW v \in Workers, fate'[v] = "owed"
               PROVE  \/ \E r \in retry' : r.worker = v /\ r.job = "score" /\ r.at >= now'
                      \/ ~Idle(<<v, "score">>)'
    BY DEF OwedScoreIsPlanned
  <2>1. v # w /\ fate[v] = "owed"
    BY DEF Stop, ChainTypeOK
  <2>2. <<v, "score">> \in Clients /\ <<v, "score">>[1] = v
    BY DEF Jobs
  <2>3. waiting'[<<v, "score">>] = waiting[<<v, "score">>]
    BY <1>1, <2>1, <2>2
  <2>4. <<v, "score">> \in members => <<v, "score">> \in members'
    BY <2>1, <2>2 DEF Stop
  <2>5. now' = now /\ \A r \in retry : r.worker = v => r \in retry'
    BY <2>1 DEF Stop
  <2> QED
    BY <2>1, <2>3, <2>4, <2>5 DEF OwedScoreIsPlanned, Idle
<1> QED
    BY <1>4, <1>6, <1>7, <1>8, <1>9, <1>10, <1>11
-----------------------------------------------------------------------------
(* Starting a job.                                                         *)

\* A run that goes for the lock, with the state it leaves alone.
LEMMA GoesForLock ==
    ASSUME CInv, NEW w \in Workers, NEW j \in Jobs, Starts(w, j), WaitForLock(w, j, bar)
    PROVE  /\ waiting' \in [Clients -> Waits]
           /\ due' \in [Workers -> SUBSET Jobs]
           /\ waiting'[<<w, j>>] # NotWaiting /\ waiting'[<<w, j>>].date = bar
           /\ \A c \in Clients \ {<<w, j>>} : waiting'[c] = waiting[c]
           /\ <<w, j>> \in Clients /\ <<w, j>>[1] = w /\ worker[w] = "leading"
           /\ bar \in Dates
<1> USE ChainAssumption DEF CInv, ChainTypeOK
<1> DEFINE v == [until |-> now + WaitFor[j], date |-> bar]
<1>1. v \in Waits /\ v.until # -1
    BY DEF Waits, Slots
<1>2. waiting \in [Clients -> Waits] /\ <<w, j>> \in Clients /\ <<w, j>>[1] = w
    BY DEF Waits
<1>3. waiting' = [waiting EXCEPT ![<<w, j>>] = v]
    BY DEF WaitForLock
<1>4. v.date = bar /\ bar \in Dates
    OBVIOUS
<1>5. v # NotWaiting
    BY <1>1 DEF NotWaiting
<1>6. due' \in [Workers -> SUBSET Jobs] /\ worker[w] = "leading"
    BY DEF Starts
<1> HIDE DEF v
<1> QED
    BY <1>1, <1>2, <1>3, <1>4, <1>5, <1>6

LEMMA StartOpenInv ==
    ASSUME CInv, NEW w \in Workers, NEW j \in Gated, StartOpen(w, j) PROVE CInv'
<1> USE ChainAssumption DEF leaseVars, procVars, taskVars, outVars
<1>1. j \in Jobs /\ Starts(w, j) /\ WaitForLock(w, j, bar) /\ GateOpen(bar) /\ retry' = retry \ Ripe(w, j)
    BY DEF StartOpen, Gated, Jobs
<1>2. /\ waiting' \in [Clients -> Waits]
      /\ due' \in [Workers -> SUBSET Jobs]
      /\ waiting'[<<w, j>>] # NotWaiting /\ waiting'[<<w, j>>].date = bar
      /\ \A c \in Clients \ {<<w, j>>} : waiting'[c] = waiting[c]
      /\ <<w, j>> \in Clients /\ <<w, j>>[1] = w /\ worker[w] = "leading"
      /\ bar \in Dates
    BY <1>1, GoesForLock
<1>3. UNCHANGED <<leaseVars, now, procVars, trading, taskVars, outVars>>
    BY DEF StartOpen
<1>4. ChainTypeOK'
    BY <1>1, <1>2, <1>3 DEF CInv, ChainTypeOK, Waits
<1>5. RunsAreLed' /\ MembersWaited' /\ RetriesAreLed' /\ MarkerIsCounted'
  <2>1. RunsAreLed'
    BY <1>2, <1>3 DEF CInv, RunsAreLed
  <2>2. MembersWaited'
    BY <1>2, <1>3 DEF CInv, ChainTypeOK, MembersWaited
  <2>3. RetriesAreLed' /\ MarkerIsCounted'
    BY <1>1, <1>3 DEF CInv, RetriesAreLed, MarkerIsCounted
  <2> QED
    BY <2>1, <2>2, <2>3
<1>6. CheckedDateIsFull'
  <2>1. cov[bar] = "full"
    BY <1>1, <1>2 DEF CInv, GateOpen, MarkerIsCounted
  <2>2. \A v \in Workers : <<v, "score">> \in Clients
    BY DEF Jobs
  <2> QED
    BY <1>2, <1>3, <2>1, <2>2 DEF CInv, CheckedDateIsFull
<1>7. OwedScoreIsPlanned'
  <2> SUFFICES ASSUME NEW v \in Workers, fate'[v] = "owed"
               PROVE  \/ \E r \in retry' : r.worker = v /\ r.job = "score" /\ r.at >= now'
                      \/ ~Idle(<<v, "score">>)'
    BY DEF OwedScoreIsPlanned
  <2>1. CASE <<v, "score">> = <<w, j>>
    BY <2>1, <1>2 DEF Idle
  <2>2. CASE <<v, "score">> # <<w, j>>
    <3>1. <<v, "score">> \in Clients
      BY DEF Jobs
    <3>2. \A r \in retry : r.worker = v /\ r.job = "score" => r \in retry'
      BY <1>1, <2>2 DEF Ripe
    <3> QED
      BY <2>2, <3>1, <3>2, <1>2, <1>3 DEF CInv, OwedScoreIsPlanned, Idle
  <2> QED
    BY <2>1, <2>2
<1> QED
    BY <1>4, <1>5, <1>6, <1>7 DEF CInv

LEMMA StartPlainInv ==
    ASSUME CInv, NEW w \in Workers, NEW j \in Jobs \ Gated, StartPlain(w, j) PROVE CInv'
<1> USE ChainAssumption DEF leaseVars, procVars, taskVars, outVars
<1>1. j \in Jobs /\ j # "score" /\ Starts(w, j) /\ WaitForLock(w, j, bar)
    BY DEF StartPlain, Gated, Jobs
<1>2. /\ waiting' \in [Clients -> Waits]
      /\ due' \in [Workers -> SUBSET Jobs]
      /\ waiting'[<<w, j>>] # NotWaiting /\ waiting'[<<w, j>>].date = bar
      /\ \A c \in Clients \ {<<w, j>>} : waiting'[c] = waiting[c]
      /\ <<w, j>> \in Clients /\ <<w, j>>[1] = w /\ worker[w] = "leading"
      /\ bar \in Dates
    BY <1>1, GoesForLock
<1>3. UNCHANGED <<leaseVars, now, procVars, retry, trading, taskVars, outVars>>
    BY DEF StartPlain
<1>4. ChainTypeOK'
    BY <1>1, <1>2, <1>3 DEF CInv, ChainTypeOK, Waits
<1>5. RunsAreLed' /\ MembersWaited' /\ RetriesAreLed' /\ MarkerIsCounted'
  <2>1. RunsAreLed'
    BY <1>2, <1>3 DEF CInv, RunsAreLed
  <2>2. MembersWaited'
    BY <1>2, <1>3 DEF CInv, ChainTypeOK, MembersWaited
  <2>3. RetriesAreLed' /\ MarkerIsCounted'
    BY <1>1, <1>3 DEF CInv, RetriesAreLed, MarkerIsCounted
  <2> QED
    BY <2>1, <2>2, <2>3
<1>6. \A v \in Workers : <<v, "score">> \in Clients \ {<<w, j>>}
    BY <1>1 DEF Jobs
<1>7. CheckedDateIsFull' /\ OwedScoreIsPlanned'
    BY <1>2, <1>3, <1>6 DEF CInv, CheckedDateIsFull, OwedScoreIsPlanned, Idle
<1> QED
    BY <1>4, <1>5, <1>7 DEF CInv

\* A run of w that is put off leaves the plans of the other workers alone.
LEMMA DeferKeepsPlans ==
    ASSUME CInv, NEW w \in Workers, NEW j \in Gated, NEW d \in Dates,
           worker[w] = "leading", worker' = worker, now' = now, members' = members, Defer(w, j, d),
           \A v \in Workers : <<v, "score">> # <<w, j>> => waiting'[<<v, "score">>] = waiting[<<v, "score">>]
    PROVE  OwedScoreIsPlanned'
<1> SUFFICES ASSUME NEW v \in Workers, fate'[v] = "owed"
             PROVE  \/ \E r \in retry' : r.worker = v /\ r.job = "score" /\ r.at >= now'
                    \/ ~Idle(<<v, "score">>)'
    BY DEF OwedScoreIsPlanned
<1>1. now \in Nat
    BY ChainAssumption DEF CInv, ChainTypeOK, Slots
<1>2. CASE v = w /\ j = "score"
    BY <1>1, <1>2, DeferPlans DEF CInv
<1>3. CASE v # w \/ j # "score"
  <2>1. fate[v] = "owed" /\ \A r \in retry : r.worker = v /\ r.job = "score" => r \in retry'
    BY <1>3, DeferPlans DEF CInv
  <2>2. waiting'[<<v, "score">>] = waiting[<<v, "score">>]
    BY <1>3
  <2> QED
    BY <2>1, <2>2 DEF CInv, OwedScoreIsPlanned, Idle
<1> QED
    BY <1>2, <1>3

LEMMA StartDeferredInv ==
    ASSUME CInv, NEW w \in Workers, NEW j \in Gated, StartDeferred(w, j) PROVE CInv'
<1> USE ChainAssumption DEF leaseVars, procVars, taskVars
<1>1. Starts(w, j) /\ Defer(w, j, bar) /\ UNCHANGED <<leaseVars, now, procVars, waiting, trading, taskVars,
                                                     scores, signals, traded>>
    BY DEF StartDeferred
<1>2. worker[w] = "leading" /\ bar \in Dates /\ due' \in [Workers -> SUBSET Jobs]
    BY <1>1 DEF CInv, ChainTypeOK, Starts
<1>3. /\ retry' \subseteq Shots
      /\ fate' \in [Workers -> Fates]
      /\ RetriesAreLed'
    BY <1>1, <1>2, DeferPlans DEF CInv
<1>4. ChainTypeOK'
    BY <1>1, <1>2, <1>3 DEF CInv, ChainTypeOK, Shots
<1>5. RunsAreLed' /\ MembersWaited' /\ MarkerIsCounted' /\ CheckedDateIsFull'
    BY <1>1 DEF CInv, RunsAreLed, MembersWaited, MarkerIsCounted, CheckedDateIsFull
<1>6. OwedScoreIsPlanned'
    BY <1>1, <1>2, DeferKeepsPlans
<1> QED
    BY <1>3, <1>4, <1>5, <1>6 DEF CInv
\* What is owed to a worker stays planned when its ripe one-shot job goes and
\* its fate says so.
LEMMA DiscardInv ==
    ASSUME CInv, NEW w \in Workers, NEW j \in Jobs, Discard(w, j) PROVE CInv'
<1> USE ChainAssumption DEF leaseVars, procVars, taskVars
<1>1. /\ retry' = retry \ Ripe(w, j)
      /\ fate' = [fate EXCEPT ![w] = IF j = "score" /\ Ripe(w, j) # {} /\ @ = "owed" THEN "failed" ELSE @]
      /\ UNCHANGED <<leaseVars, now, procVars, waiting, trading, taskVars, scores, signals, traded>>
    BY DEF Discard
<1>2. due' \in [Workers -> SUBSET Jobs]
    BY DEF Discard, CInv, ChainTypeOK
<1>3. fate' \in [Workers -> Fates] /\ \A v \in Workers : fate'[v] = "owed" => fate[v] = "owed"
    BY <1>1 DEF CInv, ChainTypeOK, Fates
<1>4. ChainTypeOK'
    BY <1>1, <1>2, <1>3 DEF CInv, ChainTypeOK
<1>5. RunsAreLed' /\ MembersWaited' /\ RetriesAreLed' /\ MarkerIsCounted' /\ CheckedDateIsFull'
    BY <1>1 DEF CInv, RunsAreLed, MembersWaited, RetriesAreLed, MarkerIsCounted, CheckedDateIsFull
<1>6. OwedScoreIsPlanned'
  <2> SUFFICES ASSUME NEW v \in Workers, fate'[v] = "owed"
               PROVE  \/ \E r \in retry' : r.worker = v /\ r.job = "score" /\ r.at >= now'
                      \/ ~Idle(<<v, "score">>)'
    BY DEF OwedScoreIsPlanned
  <2>1. \A r \in retry : r.worker = v /\ r.job = "score" => r \in retry'
    <3>1. CASE v = w /\ j = "score"
      BY <1>1, <1>3, <3>1 DEF CInv, ChainTypeOK
    <3>2. CASE ~(v = w /\ j = "score")
      BY <1>1, <3>2 DEF Ripe
    <3> QED
      BY <3>1, <3>2
  <2> QED
    BY <1>1, <1>3, <2>1 DEF CInv, OwedScoreIsPlanned, Idle
<1> QED
    BY <1>4, <1>5, <1>6 DEF CInv

-----------------------------------------------------------------------------
(* The lock.                                                               *)

LEMMA AcquireInv == ASSUME CInv, NEW c \in Clients, Acquire(c) PROVE CInv'
<1> USE DEF procVars, taskVars, outVars
<1>1. /\ waiting[c] # NotWaiting
      /\ holder' = c /\ left' = Ttl[c] /\ members' = members \cup {c}
      /\ UNCHANGED <<now, procVars, due, retry, waiting, trading, taskVars, outVars>>
    BY DEF Acquire, Grant
<1>2. ChainTypeOK'
    BY <1>1, LeaseAssumption DEF CInv, ChainTypeOK
<1>3. RunsAreLed' /\ MembersWaited' /\ RetriesAreLed' /\ MarkerIsCounted' /\ CheckedDateIsFull'
    BY <1>1 DEF CInv, RunsAreLed, MembersWaited, RetriesAreLed, MarkerIsCounted, CheckedDateIsFull
<1>4. OwedScoreIsPlanned'
    BY <1>1 DEF CInv, OwedScoreIsPlanned, Idle
<1> QED
    BY <1>2, <1>3, <1>4 DEF CInv

\* A run that no longer polls.
LEMMA LeavesLock ==
    ASSUME CInv, NEW c \in Clients, waiting' = [waiting EXCEPT ![c] = NotWaiting]
    PROVE  /\ waiting' \in [Clients -> Waits]
           /\ waiting'[c] = NotWaiting /\ waiting'[c].date = 0
           /\ \A b \in Clients \ {c} : waiting'[b] = waiting[b]
<1>1. waiting \in [Clients -> Waits]
    BY DEF CInv, ChainTypeOK, Waits
<1>2. NotWaiting \in Waits /\ NotWaiting.date = 0
    BY DEF NotWaiting, Waits
<1> QED
    BY <1>1, <1>2

LEMMA ScoreIsClient == \A w \in Workers : <<w, "score">> \in Clients
BY ChainAssumption DEF Jobs

\* With the coverage of the dates unchanged, no run is at an incomplete one.
LEMMA LeavingKeepsDate ==
    ASSUME CInv, NEW c \in Clients, waiting' = [waiting EXCEPT ![c] = NotWaiting], cov' = cov
    PROVE  CheckedDateIsFull'
<1>1. 0 \notin Dates
    BY ChainAssumption
<1>2. /\ waiting'[c].date = 0
      /\ \A b \in Clients \ {c} : waiting'[b] = waiting[b]
    BY LeavesLock
<1>3. ASSUME NEW w \in Workers, NEW d \in Dates, waiting'[<<w, "score">>].date = d
      PROVE  cov[d] = "full"
  <2>1. <<w, "score">> \in Clients /\ <<w, "score">> # c
    BY <1>1, <1>2, <1>3, ScoreIsClient
  <2>2. waiting[<<w, "score">>].date = d
    BY <1>2, <1>3, <2>1
  <2> QED
    BY <2>2 DEF CInv, CheckedDateIsFull
<1> QED
    BY <1>3 DEF CheckedDateIsFull

LEMMA RefuseScoreInv == ASSUME CInv, NEW w \in Workers, RefuseScore(w) PROVE CInv'
<1> USE DEF leaseVars, procVars, taskVars
<1> DEFINE c == <<w, "score">>
<1>1. /\ c \in Clients /\ c[1] = w
      /\ waiting[c] # NotWaiting /\ c \notin members
      /\ Defer(w, "score", waiting[c].date)
      /\ waiting' = [waiting EXCEPT ![c] = NotWaiting]
      /\ UNCHANGED <<leaseVars, now, procVars, due, trading, taskVars, scores, signals, traded>>
    BY ScoreIsClient DEF RefuseScore, Refused
<1>2. worker[w] = "leading" /\ waiting[c].date \in Dates /\ "score" \in Gated
    BY <1>1 DEF CInv, RunsAreLed, Gated
<1>3. /\ retry' \subseteq Shots
      /\ fate' \in [Workers -> Fates]
      /\ RetriesAreLed'
    BY <1>1, <1>2, DeferPlans DEF CInv
<1>4. /\ waiting' \in [Clients -> Waits]
      /\ waiting'[c] = NotWaiting
      /\ \A b \in Clients \ {c} : waiting'[b] = waiting[b]
    BY <1>1, LeavesLock
<1>5. OwedScoreIsPlanned'
  <2>1. \A v \in Workers : <<v, "score">> # <<w, "score">> => waiting'[<<v, "score">>] = waiting[<<v, "score">>]
    BY <1>4, ScoreIsClient
  <2> QED
    BY <1>1, <1>2, <2>1, DeferKeepsPlans
<1>6. ChainTypeOK'
    BY <1>1, <1>3, <1>4 DEF CInv, ChainTypeOK, Shots, Waits
<1>7. RunsAreLed' /\ MembersWaited'
  <2> HIDE DEF c
  <2>1. RunsAreLed'
    BY <1>1, <1>4 DEF CInv, RunsAreLed
  <2>2. MembersWaited'
    BY <1>1, <1>4 DEF CInv, ChainTypeOK, MembersWaited
  <2> QED
    BY <2>1, <2>2
<1>8. MarkerIsCounted' /\ CheckedDateIsFull'
    BY <1>1, LeavingKeepsDate DEF CInv, MarkerIsCounted
<1> QED
    BY <1>3, <1>5, <1>6, <1>7, <1>8 DEF CInv

LEMMA RefuseOtherInv == ASSUME CInv, NEW c \in Clients, RefuseOther(c) PROVE CInv'
<1> USE DEF leaseVars, procVars, taskVars, outVars
<1>1. /\ c[2] # "score" /\ c \notin members
      /\ waiting' = [waiting EXCEPT ![c] = NotWaiting]
      /\ UNCHANGED <<leaseVars, now, procVars, due, retry, trading, taskVars, outVars>>
    BY DEF RefuseOther, Refused
<1>2. /\ waiting' \in [Clients -> Waits]
      /\ waiting'[c] = NotWaiting
      /\ \A b \in Clients \ {c} : waiting'[b] = waiting[b]
    BY <1>1, LeavesLock
<1>3. ChainTypeOK'
    BY <1>1, <1>2 DEF CInv, ChainTypeOK, Waits
<1>4. RunsAreLed' /\ MembersWaited' /\ RetriesAreLed' /\ MarkerIsCounted'
  <2>1. RunsAreLed' /\ RetriesAreLed' /\ MarkerIsCounted'
    BY <1>1, <1>2 DEF CInv, RunsAreLed, RetriesAreLed, MarkerIsCounted
  <2>2. MembersWaited'
    BY <1>1, <1>2 DEF CInv, ChainTypeOK, MembersWaited
  <2> QED
    BY <2>1, <2>2
<1>5. CheckedDateIsFull'
    BY <1>1, LeavingKeepsDate
<1>6. \A w \in Workers : <<w, "score">> \in Clients \ {c}
  <2>1. c[2] # "score"
    BY <1>1
  <2>2. \A w \in Workers : <<w, "score">> # c
    BY <2>1
  <2> QED
    BY <2>2, ScoreIsClient
<1>7. OwedScoreIsPlanned'
    BY <1>1, <1>2, <1>6 DEF CInv, OwedScoreIsPlanned, Idle
<1> QED
    BY <1>3, <1>4, <1>5, <1>7 DEF CInv

\* A run that fails at the lock: an owed score is owed no more.
LEMMA PollFailsInv == ASSUME CInv, NEW c \in Clients, PollFails(c) PROVE CInv'
<1> USE DEF procVars, taskVars
<1>1. /\ c \notin members /\ members' = members
      /\ waiting' = [waiting EXCEPT ![c] = NotWaiting]
      /\ fate' = [fate EXCEPT ![c[1]] = IF c[2] = "score" /\ @ = "owed" THEN "failed" ELSE @]
      /\ UNCHANGED <<now, procVars, due, retry, trading, taskVars, scores, signals, traded>>
    BY DEF PollFails, GrantUnheard, leaseVars
<1>2. holder' \in Clients \cup {Nobody} /\ left' \in Nat
  <2>1. CASE GrantUnheard(c)
    BY <2>1, LeaseAssumption DEF GrantUnheard
  <2>2. CASE UNCHANGED leaseVars
    BY <2>2 DEF leaseVars, CInv, ChainTypeOK
  <2> QED
    BY <2>1, <2>2 DEF PollFails
<1>3. /\ waiting' \in [Clients -> Waits]
      /\ waiting'[c] = NotWaiting
      /\ \A b \in Clients \ {c} : waiting'[b] = waiting[b]
    BY <1>1, LeavesLock
<1>4. c[1] \in Workers /\ c = <<c[1], c[2]>>
    BY ChainAssumption
<1>5. /\ fate' \in [Workers -> Fates]
      /\ \A v \in Workers : fate'[v] = "owed" => fate[v] = "owed" /\ <<v, "score">> # c
    BY <1>1, <1>4 DEF CInv, ChainTypeOK, Fates
<1>6. ChainTypeOK'
    BY <1>1, <1>2, <1>3, <1>5 DEF CInv, ChainTypeOK, Waits
<1>7. RunsAreLed' /\ RetriesAreLed' /\ MarkerIsCounted'
    BY <1>1, <1>3 DEF CInv, RunsAreLed, RetriesAreLed, MarkerIsCounted
<1>8. MembersWaited'
    BY <1>1, <1>3 DEF CInv, ChainTypeOK, MembersWaited
<1>9. CheckedDateIsFull'
    BY <1>1, LeavingKeepsDate
<1>10. OwedScoreIsPlanned'
    BY <1>1, <1>3, <1>5, ScoreIsClient DEF CInv, OwedScoreIsPlanned, Idle
<1> QED
    BY <1>6, <1>7, <1>8, <1>9, <1>10 DEF CInv

-----------------------------------------------------------------------------
(* The ends of the bodies.                                                 *)

LEMMA EndBodyKeeps ==
    ASSUME CInv, NEW c \in Clients, EndBody(c)
    PROVE  /\ waiting' \in [Clients -> Waits]
           /\ holder' \in Clients \cup {Nobody} /\ left' \in Nat /\ members' \subseteq Clients
           /\ UNCHANGED <<now, procVars, due, retry>>
           /\ RunsAreLed' /\ MembersWaited' /\ RetriesAreLed'
           /\ cov' = cov => CheckedDateIsFull'
           /\ \A v \in Workers : <<v, "score">> # c =>
                 waiting'[<<v, "score">>] = waiting[<<v, "score">>]
                 /\ (<<v, "score">> \in members => <<v, "score">> \in members')
<1> USE DEF procVars
<1>1. /\ c \in members /\ members' = members \ {c}
      /\ (holder' = Nobody /\ left' = 0) \/ (holder' = holder /\ left' = left)
      /\ waiting' = [waiting EXCEPT ![c] = NotWaiting]
      /\ UNCHANGED <<now, procVars, due, retry>>
    BY DEF EndBody, GiveUp, Quit
<1>2. /\ waiting' \in [Clients -> Waits]
      /\ waiting'[c] = NotWaiting
      /\ \A b \in Clients \ {c} : waiting'[b] = waiting[b]
    BY <1>1, LeavesLock
<1>3. holder' \in Clients \cup {Nobody} /\ left' \in Nat /\ members' \subseteq Clients
    BY <1>1 DEF CInv, ChainTypeOK
<1>4. RunsAreLed' /\ MembersWaited' /\ RetriesAreLed'
  <2>1. RunsAreLed' /\ RetriesAreLed'
    BY <1>1, <1>2 DEF CInv, RunsAreLed, RetriesAreLed
  <2>2. MembersWaited'
    BY <1>1, <1>2 DEF CInv, ChainTypeOK, MembersWaited
  <2> QED
    BY <2>1, <2>2
<1>5. cov' = cov => CheckedDateIsFull'
    BY <1>1, LeavingKeepsDate
<1>6. \A v \in Workers : <<v, "score">> # c =>
          waiting'[<<v, "score">>] = waiting[<<v, "score">>]
          /\ (<<v, "score">> \in members => <<v, "score">> \in members')
    BY <1>1, <1>2, ScoreIsClient
<1> QED
    BY <1>1, <1>2, <1>3, <1>4, <1>5, <1>6

\* The body of another job does not touch what is owed.
LEMMA OtherBodyKeepsPlans ==
    ASSUME CInv, NEW c \in Clients, EndBody(c), c[2] # "score", fate' = fate
    PROVE  OwedScoreIsPlanned'
<1>1. \A v \in Workers : <<v, "score">> # c
    OBVIOUS
<1>2. now' = now /\ retry' = retry
    BY EndBodyKeeps
<1> QED
    BY <1>1, <1>2, EndBodyKeeps DEF CInv, OwedScoreIsPlanned, Idle

LEMMA EndEtlInv == ASSUME CInv, NEW w \in Workers, EndEtl(w) PROVE CInv'
<1> USE DEF procVars, outVars
<1>1. /\ EndBody(<<w, "etl">>) /\ bar' \in Dates
      /\ UNCHANGED <<trading, task, cov, marker, outVars>>
    BY DEF EndEtl, CInv, ChainTypeOK
<1>2. <<w, "etl">> \in Clients /\ <<w, "etl">>[2] # "score"
    BY ChainAssumption DEF Jobs
<1>3. ChainTypeOK'
    BY <1>1, <1>2, EndBodyKeeps DEF CInv, ChainTypeOK, Waits
<1>4. OwedScoreIsPlanned'
    BY <1>1, <1>2, OtherBodyKeepsPlans
<1>5. MarkerIsCounted'
    BY <1>1 DEF CInv, MarkerIsCounted
<1> QED
    BY <1>1, <1>2, <1>3, <1>4, <1>5, EndBodyKeeps DEF CInv

LEMMA EndIndicatorInv == ASSUME CInv, NEW w \in Workers, EndIndicator(w) PROVE CInv'
<1> USE DEF procVars, outVars
<1>1. PICK j \in {"indicator", "fallback"} :
        /\ EndBody(<<w, j>>)
        /\ \E t \in {"queued", "reserved", "none"} :
             task' = [task EXCEPT ![waiting[<<w, j>>].date] = IF @ = "none" THEN t ELSE @]
    BY DEF EndIndicator
<1>2. UNCHANGED <<trading, bar, cov, marker, outVars>>
    BY DEF EndIndicator
<1>3. <<w, j>> \in Clients /\ <<w, j>>[2] # "score"
    BY ChainAssumption DEF Jobs
<1>4. task' \in [Dates -> {"none", "queued", "reserved"}]
    BY <1>1 DEF CInv, ChainTypeOK
<1>5. ChainTypeOK'
    BY <1>1, <1>2, <1>3, <1>4, EndBodyKeeps DEF CInv, ChainTypeOK, Waits
<1>6. OwedScoreIsPlanned'
    BY <1>1, <1>2, <1>3, OtherBodyKeepsPlans
<1>7. MarkerIsCounted'
    BY <1>2 DEF CInv, MarkerIsCounted
<1> QED
    BY <1>1, <1>2, <1>3, <1>5, <1>6, <1>7, EndBodyKeeps DEF CInv

LEMMA EndSignalInv == ASSUME CInv, NEW w \in Workers, EndSignal(w) PROVE CInv'
<1> USE DEF procVars, taskVars
<1>1. /\ EndBody(<<w, "signal">>) /\ signals' \in Coverage
      /\ UNCHANGED <<trading, taskVars, scores, traded, fate>>
    BY DEF EndSignal, CInv, ChainTypeOK, Coverage
<1>2. <<w, "signal">> \in Clients /\ <<w, "signal">>[2] # "score"
    BY ChainAssumption DEF Jobs
<1>3. ChainTypeOK'
    BY <1>1, <1>2, EndBodyKeeps DEF CInv, ChainTypeOK, Waits
<1>4. OwedScoreIsPlanned'
    BY <1>1, <1>2, OtherBodyKeepsPlans
<1>5. MarkerIsCounted'
    BY <1>1 DEF CInv, MarkerIsCounted
<1> QED
    BY <1>1, <1>2, <1>3, <1>4, <1>5, EndBodyKeeps DEF CInv

LEMMA EndPaperInv == ASSUME CInv, NEW w \in Workers, EndPaper(w) PROVE CInv'
<1> USE DEF procVars, taskVars, outVars
<1>1. /\ EndBody(<<w, "paper">>) /\ trading' \subseteq Workers
      /\ UNCHANGED <<taskVars, outVars>>
    BY DEF EndPaper, CInv, ChainTypeOK
<1>2. <<w, "paper">> \in Clients /\ <<w, "paper">>[2] # "score"
    BY ChainAssumption DEF Jobs
<1>3. ChainTypeOK'
    BY <1>1, <1>2, EndBodyKeeps DEF CInv, ChainTypeOK, Waits
<1>4. OwedScoreIsPlanned'
    BY <1>1, <1>2, OtherBodyKeepsPlans
<1>5. MarkerIsCounted'
    BY <1>1 DEF CInv, MarkerIsCounted
<1> QED
    BY <1>1, <1>2, <1>3, <1>4, <1>5, EndBodyKeeps DEF CInv

\* The scores are computed, or the run fails: nothing is owed any more.
LEMMA EndScoreInv == ASSUME CInv, NEW w \in Workers, EndScore(w) \/ ScoreRaises(w) PROVE CInv'
<1> USE DEF procVars, taskVars
<1>1. /\ EndBody(<<w, "score">>)
      /\ \E f \in {"done", "failed"} : fate' = [fate EXCEPT ![w] = IF @ = "owed" THEN f ELSE @]
      /\ UNCHANGED <<trading, taskVars, signals, traded>>
    BY DEF EndScore, ScoreRaises
<1>2. <<w, "score">> \in Clients
    BY ScoreIsClient
<1>3. scores' \in [Dates -> SUBSET Coverage]
    BY DEF EndScore, ScoreRaises, Scored, CInv, ChainTypeOK
<1>4. /\ fate' \in [Workers -> Fates]
      /\ fate'[w] # "owed" /\ \A v \in Workers \ {w} : fate'[v] = fate[v]
    BY <1>1 DEF CInv, ChainTypeOK, Fates
<1>5. ChainTypeOK'
    BY <1>1, <1>2, <1>3, <1>4, EndBodyKeeps DEF CInv, ChainTypeOK, Waits
<1>6. OwedScoreIsPlanned'
  <2>1. now' = now /\ retry' = retry
    BY <1>1, <1>2, EndBodyKeeps
  <2>2. \A v \in Workers \ {w} :
            waiting'[<<v, "score">>] = waiting[<<v, "score">>]
            /\ (<<v, "score">> \in members => <<v, "score">> \in members')
    BY <1>1, <1>2, EndBodyKeeps
  <2> QED
    BY <1>4, <2>1, <2>2 DEF CInv, OwedScoreIsPlanned, Idle
<1>7. MarkerIsCounted'
    BY <1>1 DEF CInv, MarkerIsCounted
<1> QED
    BY <1>1, <1>2, <1>5, <1>6, <1>7, EndBodyKeeps DEF CInv

\* What the signals and the trades write is nothing the gate or the plans read.
LEMMA WriteSignalInv == ASSUME CInv, NEW w \in Workers, WriteSignal(w) PROVE CInv'
<1> USE DEF leaseVars, procVars, cronVars, taskVars
<1>1. /\ UNCHANGED <<leaseVars, now, procVars, cronVars, taskVars, scores, traded, fate>>
      /\ signals' \in Coverage
    BY DEF WriteSignal, CInv, ChainTypeOK, Coverage
<1>2. ChainTypeOK'
    BY <1>1 DEF CInv, ChainTypeOK
<1>3. RunsAreLed' /\ MembersWaited' /\ RetriesAreLed' /\ MarkerIsCounted' /\ CheckedDateIsFull'
    BY <1>1 DEF CInv, RunsAreLed, MembersWaited, RetriesAreLed, MarkerIsCounted, CheckedDateIsFull
<1>4. OwedScoreIsPlanned'
    BY <1>1 DEF CInv, OwedScoreIsPlanned, Idle
<1> QED
    BY <1>2, <1>3, <1>4 DEF CInv

LEMMA TradeInv == ASSUME CInv, NEW w \in Workers, Trade(w) PROVE CInv'
<1> USE DEF leaseVars, procVars, taskVars
<1>1. /\ UNCHANGED <<leaseVars, now, procVars, due, retry, waiting, taskVars, scores, signals, fate>>
      /\ trading' \subseteq Workers /\ traded' \in BOOLEAN
    BY DEF Trade, CInv, ChainTypeOK
<1>2. ChainTypeOK'
    BY <1>1 DEF CInv, ChainTypeOK
<1>3. RunsAreLed' /\ MembersWaited' /\ RetriesAreLed' /\ MarkerIsCounted' /\ CheckedDateIsFull'
    BY <1>1 DEF CInv, RunsAreLed, MembersWaited, RetriesAreLed, MarkerIsCounted, CheckedDateIsFull
<1>4. OwedScoreIsPlanned'
    BY <1>1 DEF CInv, OwedScoreIsPlanned, Idle
<1> QED
    BY <1>2, <1>3, <1>4 DEF CInv

-----------------------------------------------------------------------------
(* The Celery task and the clock.                                          *)

\* What a step of a task does to its date: rows are not taken back, and a
\* marker that is written carries the coverage counted in the table.
TaskDoes(d) ==
    /\ cov' \in [Dates -> Coverage]
    /\ \A e \in Dates \ {d} : cov'[e] = cov[e] /\ marker'[e] = marker[e]
    /\ cov[d] = "full" => cov'[d] = "full"
    /\ cov[d] = "partial" => cov'[d] # "none"
    /\ \/ marker' = marker
       \/ \E s \in {"success", "failed"} :
            /\ marker' = [marker EXCEPT ![d] = [status |-> s, enough |-> cov'[d] = "full"]]
            /\ marker'[d] = [status |-> s, enough |-> cov'[d] = "full"]
    /\ task' \in [Dates -> {"none", "queued", "reserved"}]
    /\ UNCHANGED <<leaseVars, now, procVars, cronVars, bar, outVars>>

LEMMA TaskStepDoes ==
    ASSUME ChainTypeOK, NEW d \in Dates, Task(d)
    PROVE  TaskDoes(d)
<1> USE DEF ChainTypeOK, Coverage, TaskDoes
<1>1. CASE TaskWrites(d)
    BY <1>1 DEF TaskWrites
<1>2. CASE TaskEnds(d)
  <2>1. /\ task' \in [Dates -> {"none", "queued", "reserved"}]
        /\ UNCHANGED <<leaseVars, now, procVars, cronVars, bar, outVars>>
    BY <1>2 DEF TaskEnds
  <2>2. /\ cov' \in [Dates -> Coverage]
        /\ \A e \in Dates \ {d} : cov'[e] = cov[e]
        /\ cov[d] = "full" => cov'[d] = "full"
        /\ cov[d] = "partial" => cov'[d] # "none"
    BY <1>2 DEF TaskEnds
  <2>3. \/ marker' = marker
        \/ \E s \in {"success", "failed"} :
             marker' = [marker EXCEPT ![d] = [status |-> s, enough |-> cov'[d] = "full"]]
    BY <1>2 DEF TaskEnds
  <2>4. ASSUME NEW s \in {"success", "failed"}, NEW m,
               marker' = [marker EXCEPT ![d] = m]
        PROVE  marker'[d] = m /\ \A e \in Dates \ {d} : marker'[e] = marker[e]
    BY <2>4
  <2> QED
    BY <2>1, <2>2, <2>3, <2>4
<1>3. CASE TaskDies(d)
    BY <1>3 DEF TaskDies
<1>4. CASE ReservationExpires(d)
    BY <1>4 DEF ReservationExpires
<1> QED
    BY <1>1, <1>2, <1>3, <1>4 DEF Task

LEMMA TaskInv == ASSUME CInv, NEW d \in Dates, Task(d) PROVE CInv'
<1> USE DEF leaseVars, procVars, cronVars, outVars
<1>1. TaskDoes(d)
    BY TaskStepDoes DEF CInv
<1>2. marker' \in [Dates -> [status: {"none", "success", "failed"}, enough: BOOLEAN]]
  <2>1. CASE marker' = marker
    BY <2>1 DEF CInv, ChainTypeOK
  <2>2. ASSUME NEW s \in {"success", "failed"}, NEW b \in BOOLEAN,
               marker' = [marker EXCEPT ![d] = [status |-> s, enough |-> b]]
        PROVE  marker' \in [Dates -> [status: {"none", "success", "failed"}, enough: BOOLEAN]]
    BY <2>2 DEF CInv, ChainTypeOK
  <2>3. (cov'[d] = "full") \in BOOLEAN
    OBVIOUS
  <2> QED
    BY <1>1, <2>1, <2>2, <2>3, Zenon DEF TaskDoes
<1>3. ChainTypeOK'
    BY <1>1, <1>2 DEF CInv, ChainTypeOK, TaskDoes
<1>4. RunsAreLed' /\ MembersWaited' /\ RetriesAreLed'
    BY <1>1 DEF CInv, RunsAreLed, MembersWaited, RetriesAreLed, TaskDoes
<1>5. \A e \in Dates : cov[e] = "full" => cov'[e] = "full"
    BY <1>1 DEF TaskDoes
<1>6. CheckedDateIsFull'
    BY <1>1, <1>5 DEF CInv, CheckedDateIsFull, TaskDoes
<1>7. MarkerIsCounted'
  <2> SUFFICES ASSUME NEW e \in Dates, marker'[e].enough PROVE cov'[e] = "full"
    BY DEF MarkerIsCounted
  <2>1. CASE marker'[e] = marker[e]
    BY <1>5, <2>1 DEF CInv, MarkerIsCounted
  <2>2. CASE e = d /\ \E s \in {"success", "failed"} : marker'[d] = [status |-> s, enough |-> cov'[d] = "full"]
    <3>1. PICK s \in {"success", "failed"} : marker'[d] = [status |-> s, enough |-> cov'[d] = "full"]
      BY <2>2
    <3>2. marker'[d].enough = (cov'[d] = "full")
      BY <3>1
    <3> QED
      BY <2>2, <3>2, Zenon
  <2> QED
    BY <1>1, <2>1, <2>2 DEF TaskDoes
<1>8. OwedScoreIsPlanned'
    BY <1>1 DEF CInv, OwedScoreIsPlanned, Idle, TaskDoes
<1> QED
    BY <1>3, <1>4, <1>6, <1>7, <1>8 DEF CInv

\* The clock waits for the one-shot jobs that have come due.
LEMMA NextSlotInv == ASSUME CInv, NextSlot PROVE CInv'
<1> USE DEF procVars, taskVars, outVars
<1>1. /\ now < Last /\ now' = now + 1
      /\ UNCHANGED <<procVars, retry, waiting, trading, taskVars, outVars>>
      /\ \A w \in Workers : worker[w] = "leading" => \A j \in Gated : Ripe(w, j) = {}
    BY DEF NextSlot
<1>2. members' = members /\ holder' \in Clients \cup {Nobody} /\ left' \in Nat
    BY DEF NextSlot, Elapse, leaseVars, CInv, ChainTypeOK
<1>3. due' \in [Workers -> SUBSET Jobs]
    BY DEF NextSlot
<1>4. now' \in Slots /\ now \in Nat
    BY <1>1, ChainAssumption DEF CInv, ChainTypeOK, Slots
<1>5. ChainTypeOK'
    BY <1>1, <1>2, <1>3, <1>4 DEF CInv, ChainTypeOK
<1>6. RunsAreLed' /\ MembersWaited' /\ RetriesAreLed' /\ MarkerIsCounted' /\ CheckedDateIsFull'
    BY <1>1, <1>2 DEF CInv, RunsAreLed, MembersWaited, RetriesAreLed, MarkerIsCounted, CheckedDateIsFull
<1>7. \A r \in retry : r.job = "score" /\ r.at >= now => r.at >= now'
  <2> SUFFICES ASSUME NEW r \in retry, r.job = "score", r.at >= now PROVE r.at >= now'
    OBVIOUS
  <2>1. r.worker \in Workers /\ worker[r.worker] = "leading" /\ r.at \in Nat
    BY ChainAssumption DEF CInv, ChainTypeOK, RetriesAreLed, Slots
  <2>2. r.at # now
    BY <1>1, <2>1 DEF Ripe, Gated
  <2> QED
    BY <1>1, <1>4, <2>1, <2>2
<1>8. OwedScoreIsPlanned'
    BY <1>1, <1>2, <1>7 DEF CInv, OwedScoreIsPlanned, Idle
<1> QED
    BY <1>5, <1>6, <1>8 DEF CInv
-----------------------------------------------------------------------------
LEMMA ChainStepInv == CInv /\ [ChainNext]_chainVars => CInv'
<1> SUFFICES ASSUME CInv, [ChainNext]_chainVars PROVE CInv'
    OBVIOUS
<1>1. CASE NextSlot
    BY <1>1, NextSlotInv
<1>2. ASSUME NEW w \in Workers, Process(w) PROVE CInv'
    BY <1>2, StartupInv, StartSchedulerInv, StopInv DEF Process
<1>3. ASSUME NEW w \in Workers, Start(w) PROVE CInv'
    BY <1>3, StartOpenInv, StartDeferredInv, StartPlainInv, DiscardInv DEF Start
<1>4. ASSUME NEW w \in Workers, Lock(w) PROVE CInv'
  <2>1. \A j \in Jobs : <<w, j>> \in Clients
    BY ChainAssumption
  <2> QED
    BY <1>4, <2>1, AcquireInv, RefuseScoreInv, RefuseOtherInv, PollFailsInv DEF Lock
<1>5. ASSUME NEW w \in Workers, Work(w) PROVE CInv'
    BY <1>5, EndEtlInv, EndIndicatorInv, EndScoreInv, WriteSignalInv, EndSignalInv, EndPaperInv, TradeInv DEF Work
<1>6. ASSUME NEW d \in Dates, Task(d) PROVE CInv'
    BY <1>6, TaskInv
<1>7. CASE UNCHANGED chainVars
  <2> USE <1>7 DEF chainVars
  <2>1. ChainTypeOK'
    BY DEF CInv, ChainTypeOK
  <2>2. RunsAreLed' /\ MembersWaited' /\ RetriesAreLed' /\ MarkerIsCounted' /\ CheckedDateIsFull'
    BY DEF CInv, RunsAreLed, MembersWaited, RetriesAreLed, MarkerIsCounted, CheckedDateIsFull
  <2>3. OwedScoreIsPlanned'
    BY DEF CInv, OwedScoreIsPlanned, Idle
  <2> QED
    BY <2>1, <2>2, <2>3 DEF CInv
<1> QED
    BY <1>1, <1>2, <1>3, <1>4, <1>5, <1>6, <1>7 DEF ChainNext

\* The invariant of the daily chain.
THEOREM ChainInvariant == ChainSpec => []CInv
<1> QED
    BY ChainInitInv, ChainStepInv, PTL DEF ChainSpec

\* The variables of the chain keep their types (core/scheduler.py, main.py).
THEOREM ChainTypes == ChainSpec => []ChainTypeOK
<1>1. CInv => ChainTypeOK
    BY DEF CInv
<1> QED
    BY <1>1, ChainInvariant, PTL

\* While a score run polls and computes, the date the gate admitted it for is
\* complete (run_score_calculation and check_indicator_completion).
THEOREM CheckedDates == ChainSpec => []CheckedDateIsFull
<1>1. CInv => CheckedDateIsFull
    BY DEF CInv
<1> QED
    BY <1>1, ChainInvariant, PTL

\* A deferred score run that is still owed, neither failed nor lost, has a
\* one-shot job, or is polling or computing (_schedule_indicator_gate_retry and
\* the lock timeout).
THEOREM OwedIsPlanned == ChainSpec => []OwedScoreIsPlanned
<1>1. CInv => OwedScoreIsPlanned
    BY DEF CInv
<1> QED
    BY <1>1, ChainInvariant, PTL

-----------------------------------------------------------------------------
\* Every step leaves a date alone or is a step of IndicatorDate.
LEMMA DatesStep ==
    ASSUME CInv, [ChainNext]_chainVars
    PROVE  [\A d \in Dates : Date(d)!DateStep \/ UNCHANGED <<cov[d], marker[d]>>]_<<cov, marker>>
<1>1. CASE UNCHANGED <<cov, marker>>
    BY <1>1
<1>2. ASSUME NEW e \in Dates, Task(e), NEW d \in Dates
      PROVE  Date(d)!DateStep \/ UNCHANGED <<cov[d], marker[d]>>
  <2>1. TaskDoes(e)
    BY <1>2, TaskStepDoes DEF CInv
  <2>2. CASE d # e
    BY <2>1, <2>2 DEF TaskDoes
  <2>3. CASE d = e
    <3>1. /\ cov'[d] \in {"none", "partial", "full"}
          /\ cov[d] = "full" => cov'[d] = "full"
          /\ cov[d] = "partial" => cov'[d] # "none"
      BY <2>1, <2>3 DEF TaskDoes, Coverage
    <3>2. CASE marker' = marker
      BY <3>1, <3>2 DEF Date!DateStep, Date!Extents
    <3>3. ASSUME NEW s \in {"success", "failed"}, NEW b \in BOOLEAN,
                 marker'[d] = [status |-> s, enough |-> b], b => cov'[d] = "full"
          PROVE  Date(d)!DateStep
      <4>1. /\ marker'[d] \in Date(d)!MarkerKinds \ {Date(d)!NoMarker}
            /\ marker'[d].enough => cov'[d] = "full"
        BY <3>3 DEF Date!MarkerKinds, Date!NoMarker, Date!Outcome
      <4> QED
        BY <3>1, <4>1 DEF Date!DateStep, Date!Extents
    <3>4. (cov'[d] = "full") \in BOOLEAN
      OBVIOUS
    <3> QED
      BY <2>1, <2>3, <3>2, <3>3, <3>4, Zenon DEF TaskDoes
  <2> QED
    BY <2>2, <2>3
<1>3. (\E d \in Dates : Task(d)) \/ UNCHANGED <<cov, marker>>
  <2> USE DEF leaseVars, cronVars, taskVars, outVars, procVars
  <2>1. ASSUME NEW w \in Workers, Process(w) \/ Start(w) PROVE UNCHANGED <<cov, marker>>
    BY <2>1 DEF Process, Start, Startup, StartScheduler, Stop, StartOpen, StartDeferred, StartPlain, Discard
  <2>2. ASSUME NEW w \in Workers, Lock(w) PROVE UNCHANGED <<cov, marker>>
    BY <2>2 DEF Lock, Acquire, RefuseScore, RefuseOther, PollFails
  <2>3. ASSUME NEW w \in Workers, Work(w) PROVE UNCHANGED <<cov, marker>>
    BY <2>3 DEF Work, EndEtl, EndIndicator, EndScore, ScoreRaises, WriteSignal, EndSignal, EndPaper, Trade
  <2> QED
    BY <2>1, <2>2, <2>3 DEF ChainNext, NextSlot, chainVars
<1> QED
    BY <1>1, <1>2, <1>3

\* The chain sees its trade dates as IndicatorDate promises them, and so as
\* IndicatorTask delivers them: rows stay, and a marker claims what was counted.
THEOREM DatesImplemented == ChainSpec => DatesAsPromised
<1>1. ChainInit => \A d \in Dates : Date(d)!DateInit
    BY DEF ChainInit, Date!DateInit, Date!NoMarker
<1>2. CInv /\ [ChainNext]_chainVars =>
        [\A d \in Dates : Date(d)!DateStep \/ UNCHANGED <<cov[d], marker[d]>>]_<<cov, marker>>
    BY DatesStep
<1> QED
    BY <1>1, <1>2, ChainInvariant, PTL DEF ChainSpec, DatesAsPromised

-----------------------------------------------------------------------------
\* Only the end of a score run writes scores.
LEMMA ScoresStay ==
    ASSUME [ChainNext]_chainVars, ~\E w \in Workers : EndScore(w) \/ ScoreRaises(w)
    PROVE  scores' = scores
<1> USE DEF outVars
<1>1. ASSUME NEW w \in Workers, Process(w) \/ Start(w) PROVE scores' = scores
    BY <1>1 DEF Process, Start, Startup, StartScheduler, Stop, StartOpen, StartDeferred, StartPlain, Discard
<1>2. ASSUME NEW w \in Workers, Lock(w) PROVE scores' = scores
    BY <1>2 DEF Lock, Acquire, RefuseScore, RefuseOther, PollFails
<1>3. ASSUME NEW w \in Workers, Work(w) PROVE scores' = scores
    BY <1>3 DEF Work, EndEtl, EndIndicator, WriteSignal, EndSignal, EndPaper, Trade
<1>4. ASSUME NEW d \in Dates, Task(d) PROVE scores' = scores
    BY <1>4 DEF Task, TaskWrites, TaskEnds, TaskDies, ReservationExpires
<1> QED
    BY <1>1, <1>2, <1>3, <1>4 DEF ChainNext, NextSlot, chainVars

\* A score run computes on the latest date with any row, and the date it was
\* admitted for is complete: a partial set is one of a later date.
LEMMA ScoredIsLater ==
    ASSUME CInv, NEW w \in Workers, EndScore(w) \/ ScoreRaises(w),
           NEW d \in Dates, "partial" \in scores'[d] \ scores[d]
    PROVE  /\ <<w, "score">> \in members \ members'
           /\ waiting[<<w, "score">>].date \in {e \in Dates : e < d /\ cov[e] = "full"}
<1> DEFINE c == <<w, "score">>
           e == waiting[c].date
<1>1. c \in Clients
    BY ScoreIsClient
<1>2. EndBody(c) /\ c \in members /\ c \notin members'
    BY DEF EndScore, ScoreRaises, EndBody, GiveUp, Quit
<1>3. e \in Dates /\ cov[e] = "full"
  <2>1. waiting[c] # NotWaiting
    BY <1>2 DEF CInv, MembersWaited
  <2>2. e \in Dates
    BY <1>1, <2>1 DEF CInv, RunsAreLed
  <2> QED
    BY <2>2 DEF CInv, CheckedDateIsFull
<1>4. d \in Latest /\ cov[d] = "partial"
  <2>1. scores' = [f \in Dates |-> IF f \in Latest THEN scores[f] \cup {cov[f]} ELSE scores[f]]
    BY DEF EndScore, ScoreRaises, Scored
  <2>2. scores'[d] = IF d \in Latest THEN scores[d] \cup {cov[d]} ELSE scores[d]
    BY <2>1
  <2> QED
    BY <2>2
<1>5. e <= d /\ e # d
    BY <1>3, <1>4 DEF Latest
<1>6. e < d
  <2>1. e \in Nat /\ d \in Nat
    BY <1>3, DatesAssumption
  <2> HIDE DEF e
  <2> QED
    BY <1>5, <2>1
<1> QED
    BY <1>2, <1>3, <1>6

\* How far a partial indicator set can get through the gate: a score run never
\* computes on one of the date it was admitted for, or of an older one
\* (run_score_calculation and calculate_daily_scores).
THEOREM PartialSetsAreNewer == ChainSpec => PartialOnlyNewer
<1>1. CInv /\ [ChainNext]_chainVars =>
        [\A d \in Dates : "partial" \in scores'[d] \ scores[d] =>
           \E w \in Workers :
             /\ <<w, "score">> \in members \ members'
             /\ waiting[<<w, "score">>].date \in {e \in Dates : e < d /\ cov[e] = "full"}]_chainVars
    BY ScoresStay, ScoredIsLater
<1> QED
    BY <1>1, ChainInvariant, PTL DEF ChainSpec, PartialOnlyNewer

-----------------------------------------------------------------------------
(* The one-shot jobs, and the cutoff.                                      *)

\* No one-shot job is in the past, none is beyond the cutoff, and a worker has
\* at most one for a job and a date.
ShotsWithinCutoff == \A r \in retry : now <= r.at /\ r.at <= Deadline

OneShotEach ==
    \A r, q \in retry : r.worker = q.worker /\ r.job = q.job /\ r.date = q.date => r = q

\* The steps that touch the one-shot jobs or the clock.
LEMMA ShotsChange ==
    ASSUME CInv, [ChainNext]_chainVars
    PROVE  \/ now' = now /\ retry' \subseteq retry
           \/ now' = now /\ \E w \in Workers, j \in Gated : \E d \in Dates : Defer(w, j, d)
           \/ NextSlot
<1> USE DEF leaseVars, procVars, cronVars, taskVars, outVars
<1>1. ASSUME NEW w \in Workers, Process(w) PROVE now' = now /\ retry' \subseteq retry
    BY <1>1 DEF Process, Startup, StartScheduler, Stop
<1>2. ASSUME NEW w \in Workers, Start(w)
      PROVE  \/ now' = now /\ retry' \subseteq retry
             \/ now' = now /\ \E j \in Gated : \E d \in Dates : Defer(w, j, d)
  <2>1. bar \in Dates
    BY DEF CInv, ChainTypeOK
  <2> QED
    BY <1>2, <2>1 DEF Start, StartOpen, StartDeferred, StartPlain, Discard
<1>3. ASSUME NEW w \in Workers, Lock(w)
      PROVE  \/ now' = now /\ retry' \subseteq retry
             \/ now' = now /\ \E j \in Gated : \E d \in Dates : Defer(w, j, d)
  <2>1. CASE RefuseScore(w)
    <3>1. waiting[<<w, "score">>].date \in Dates
      BY <2>1, ScoreIsClient DEF RefuseScore, Refused, CInv, RunsAreLed
    <3> QED
      BY <2>1, <3>1 DEF RefuseScore, Gated
  <2>2. CASE \E j \in Jobs : Acquire(<<w, j>>) \/ RefuseOther(<<w, j>>) \/ PollFails(<<w, j>>)
    BY <2>2 DEF Acquire, RefuseOther, PollFails
  <2> QED
    BY <1>3, <2>1, <2>2 DEF Lock
<1>4. ASSUME NEW w \in Workers, Work(w) PROVE now' = now /\ retry' \subseteq retry
    BY <1>4 DEF Work, EndEtl, EndIndicator, EndScore, ScoreRaises, WriteSignal, EndSignal, EndPaper, Trade, EndBody
<1>5. ASSUME NEW d \in Dates, Task(d) PROVE now' = now /\ retry' \subseteq retry
    BY <1>5 DEF Task, TaskWrites, TaskEnds, TaskDies, ReservationExpires
<1> QED
    BY <1>1, <1>2, <1>3, <1>4, <1>5 DEF ChainNext, chainVars

LEMMA ShotsStep ==
    ASSUME CInv, ShotsWithinCutoff, OneShotEach, [ChainNext]_chainVars
    PROVE  ShotsWithinCutoff' /\ OneShotEach'
<1> USE DEF ShotsWithinCutoff, OneShotEach
<1>1. CASE now' = now /\ retry' \subseteq retry
    BY <1>1
<1>2. ASSUME now' = now, NEW w \in Workers, NEW j \in Gated, NEW d \in Dates, Defer(w, j, d)
      PROVE  ShotsWithinCutoff' /\ OneShotEach'
  <2> DEFINE new == [worker |-> w, job |-> j, date |-> d, at |-> now + 1]
             kept == {r \in retry \ Ripe(w, j) : ~(r.worker = w /\ r.job = j /\ r.date = d)}
  <2>1. CASE now + 1 <= Deadline /\ retry' = kept \cup {new}
    <3>1. retry' = kept \cup {new}
      BY <2>1
    <3>2. new.worker = w /\ new.job = j /\ new.date = d /\ new.at = now + 1
      OBVIOUS
    <3>3. kept \subseteq retry /\ \A r \in kept : ~(r.worker = w /\ r.job = j /\ r.date = d)
      OBVIOUS
    <3>4. now \in Nat
      BY ChainAssumption DEF CInv, ChainTypeOK, Slots
    <3> HIDE DEF new, kept
    <3> QED
      BY <1>2, <2>1, <3>1, <3>2, <3>3, <3>4
  <2>2. CASE retry' = retry \ Ripe(w, j)
    <3>1. retry' \subseteq retry
      BY <2>2
    <3> QED
      BY <1>2, <3>1
  <2> QED
    BY <1>2, <2>1, <2>2 DEF Defer
<1>3. CASE NextSlot
  <2>1. now' = now + 1 /\ retry' = retry /\ now \in Nat
    BY <1>3, ChainAssumption DEF NextSlot, CInv, ChainTypeOK, Slots
  <2>2. ASSUME NEW r \in retry PROVE r.at \in Nat /\ r.at # now
    <3>1. r.worker \in Workers /\ r.job \in Gated /\ r.at \in Nat /\ worker[r.worker] = "leading"
      BY ChainAssumption DEF CInv, ChainTypeOK, RetriesAreLed, Slots
    <3>2. Ripe(r.worker, r.job) = {}
      BY <1>3, <3>1 DEF NextSlot
    <3> QED
      BY <3>1, <3>2 DEF Ripe
  <2> QED
    BY <2>1, <2>2
<1> QED
    BY <1>1, <1>2, <1>3, ShotsChange

\* A run that is put off comes back before the cutoff or not at all: no
\* one-shot job lies in the past, or beyond the cutoff, and a new one replaces
\* the one of the same job and date (_schedule_indicator_gate_retry).
THEOREM ShotsEndWithTheDay == ChainSpec => [](ShotsWithinCutoff /\ OneShotEach)
<1>1. ChainInit => ShotsWithinCutoff /\ OneShotEach
    BY DEF ChainInit, ShotsWithinCutoff, OneShotEach
<1>2. CInv /\ (ShotsWithinCutoff /\ OneShotEach) /\ [ChainNext]_chainVars =>
        (ShotsWithinCutoff /\ OneShotEach)'
    BY ShotsStep
<1> QED
    BY <1>1, <1>2, ChainInvariant, PTL DEF ChainSpec

\* So a deferred score run that is still owed after the cutoff has nothing
\* left to wait for: it is polling for the lock or computing.
OwedAfterCutoff ==
    \A w \in Workers : fate[w] = "owed" /\ now > Deadline => ~Idle(<<w, "score">>)

\* The safety half of its coming to an end the same day.
THEOREM OwedAfterCutoffRuns == ChainSpec => []OwedAfterCutoff
<1>1. CInv /\ ShotsWithinCutoff => OwedAfterCutoff
  <2> SUFFICES ASSUME CInv, ShotsWithinCutoff, NEW w \in Workers, fate[w] = "owed", now > Deadline
               PROVE  ~Idle(<<w, "score">>)
    BY DEF OwedAfterCutoff
  <2>1. now \in Nat /\ Deadline \in Nat /\ \A r \in retry : r.at \in Nat
    BY ChainAssumption DEF CInv, ChainTypeOK, Slots
  <2>2. retry = {}
    BY <2>1 DEF ShotsWithinCutoff
  <2> QED
    BY <2>2 DEF CInv, OwedScoreIsPlanned
<1> QED
    BY <1>1, ChainInvariant, ShotsEndWithTheDay, PTL

-----------------------------------------------------------------------------
(* What scores are computed on.                                            *)

\* A set of numbers with a bound has a greatest one: the least number
\* principle for the distances from the bound.
LEMMA Greatest ==
    ASSUME NEW S \in SUBSET Nat, S # {}, NEW n \in Nat, \A x \in S : x <= n
    PROVE  \E m \in S : \A x \in S : x <= m
<1> DEFINE T == {n - x : x \in S}
           R == OpToRel(<, Nat)
<1>1. \A x \in S : x \in Nat /\ n - x \in Nat
    OBVIOUS
<1>2. T \subseteq Nat /\ T # {}
    BY <1>1
<1>3. IsWellFoundedOn(R, Nat)
    BY NatLessThanWellFounded
<1>4. \A i, j \in Nat : <<i, j>> \in R <=> i < j
    BY DEF OpToRel
<1> HIDE DEF R
<1>5. PICK t \in T : \A y \in T : ~(<<y, t>> \in R)
  <2> HIDE DEF T
  <2> QED
    BY <1>2, <1>3, WFMin
<1>6. PICK m \in S : t = n - m
    BY <1>5
<1>7. \A x \in S : ~(n - x < n - m)
    BY <1>2, <1>4, <1>5, <1>6
<1> QED
    BY <1>7

\* Nothing is known of a date whose bars have not landed: no run goes for the
\* lock on its account, and no task writes rows of it.
BarIsLatest ==
    /\ \A c \in Clients : waiting[c].date <= bar
    /\ \A d \in Dates : task[d] = "queued" \/ cov[d] # "none" => d <= bar

\* What the steps do to the runs and to the dates, as far as that goes.
LEMMA DatesChange ==
    ASSUME CInv, [ChainNext]_chainVars
    PROVE  /\ bar' \in Dates /\ bar <= bar'
           /\ \A c \in Clients : waiting'[c].date \in {0, bar, waiting[c].date}
           /\ \A d \in Dates : task'[d] = "queued" =>
                 task[d] = "queued" \/ \E c \in Clients : waiting[c].date = d
           /\ \A d \in Dates : cov'[d] # "none" => cov[d] # "none" \/ task[d] = "queued"
<1> USE DEF leaseVars, procVars, cronVars, taskVars, outVars
<1>1. bar \in Dates /\ bar \in Nat /\ \A j \in Jobs, w \in Workers : <<w, j>> \in Clients
    BY ChainAssumption, DatesAssumption DEF CInv, ChainTypeOK
<1>2. waiting \in [Clients -> Waits] /\ NotWaiting.date = 0
    BY DEF CInv, ChainTypeOK, Waits, NotWaiting
<1>3. ASSUME NEW c \in Clients, waiting' = [waiting EXCEPT ![c] = NotWaiting]
      PROVE  \A b \in Clients : waiting'[b].date \in {0, bar, waiting[b].date}
    BY <1>2, <1>3
<1>4. ASSUME NEW w \in Workers, Process(w)
      PROVE  /\ UNCHANGED taskVars
             /\ \A c \in Clients : waiting'[c].date \in {0, bar, waiting[c].date}
    BY <1>2, <1>4 DEF Process, Startup, StartScheduler, Stop
<1>5. ASSUME NEW w \in Workers, NEW j \in Jobs, WaitForLock(w, j, bar)
      PROVE  \A b \in Clients : waiting'[b].date \in {0, bar, waiting[b].date}
  <2> DEFINE v == [until |-> now + WaitFor[j], date |-> bar]
  <2>1. waiting' = [waiting EXCEPT ![<<w, j>>] = v] /\ v.date = bar
    BY <1>5 DEF WaitForLock
  <2> HIDE DEF v
  <2> QED
    BY <1>1, <1>2, <2>1
<1>6. ASSUME NEW w \in Workers, Start(w)
      PROVE  /\ UNCHANGED taskVars
             /\ \A c \in Clients : waiting'[c].date \in {0, bar, waiting[c].date}
  <2>1. Gated \subseteq Jobs
    BY DEF Gated, Jobs
  <2>2. ASSUME NEW j \in Jobs, StartDeferred(w, j) \/ Discard(w, j) PROVE UNCHANGED <<waiting, taskVars>>
    BY <2>2 DEF StartDeferred, Discard
  <2>3. ASSUME NEW j \in Jobs, StartOpen(w, j) \/ StartPlain(w, j)
        PROVE  WaitForLock(w, j, bar) /\ UNCHANGED taskVars
    BY <2>3 DEF StartOpen, StartPlain
  <2> QED
    BY <1>5, <1>6, <2>1, <2>2, <2>3 DEF Start
<1>7. ASSUME NEW w \in Workers, Lock(w)
      PROVE  /\ UNCHANGED taskVars
             /\ \A c \in Clients : waiting'[c].date \in {0, bar, waiting[c].date}
  <2>1. CASE RefuseScore(w)
    BY <1>3, <2>1, ScoreIsClient DEF RefuseScore
  <2>2. ASSUME NEW j \in Jobs, Acquire(<<w, j>>)
        PROVE  UNCHANGED <<waiting, taskVars>>
    BY <2>2 DEF Acquire
  <2>3. ASSUME NEW j \in Jobs, RefuseOther(<<w, j>>) \/ PollFails(<<w, j>>)
        PROVE  waiting' = [waiting EXCEPT ![<<w, j>>] = NotWaiting] /\ UNCHANGED taskVars
    BY <2>3 DEF RefuseOther, PollFails
  <2> QED
    BY <1>1, <1>3, <1>7, <2>1, <2>2, <2>3 DEF Lock
<1>8. ASSUME NEW w \in Workers, Work(w)
      PROVE  /\ bar' \in Dates /\ bar <= bar' /\ cov' = cov
             /\ \A c \in Clients : waiting'[c].date \in {0, bar, waiting[c].date}
             /\ \A d \in Dates : task'[d] = "queued" =>
                   task[d] = "queued" \/ \E c \in Clients : waiting[c].date = d
  <2>1. CASE WriteSignal(w) \/ Trade(w)
    BY <1>1, <2>1 DEF WriteSignal, Trade
  <2>2. CASE ~(WriteSignal(w) \/ Trade(w))
    <3>1. PICK j \in Jobs : EndBody(<<w, j>>)
      BY <1>8, <2>2 DEF Work, EndEtl, EndIndicator, EndScore, ScoreRaises, EndSignal, EndPaper, Jobs
    <3>2. \A c \in Clients : waiting'[c].date \in {0, bar, waiting[c].date}
      BY <1>1, <1>3, <3>1 DEF EndBody
    <3>3. CASE EndEtl(w)
      BY <1>1, <3>2, <3>3 DEF EndEtl
    <3>4. CASE EndIndicator(w)
      <4>1. PICK i \in {"indicator", "fallback"} : \E t \in {"queued", "reserved", "none"} :
              task' = [task EXCEPT ![waiting[<<w, i>>].date] = IF @ = "none" THEN t ELSE @]
        BY <3>4 DEF EndIndicator
      <4>2. <<w, i>> \in Clients /\ task \in [Dates -> {"none", "queued", "reserved"}]
        BY <1>1 DEF Jobs, CInv, ChainTypeOK
      <4> QED
        BY <1>1, <3>2, <3>4, <4>1, <4>2 DEF EndIndicator
    <3>5. CASE EndScore(w) \/ ScoreRaises(w) \/ EndSignal(w) \/ EndPaper(w)
      BY <1>1, <3>2, <3>5 DEF EndScore, ScoreRaises, EndSignal, EndPaper
    <3> QED
      BY <1>8, <2>2, <3>3, <3>4, <3>5 DEF Work
  <2> QED
    BY <2>1, <2>2
<1>9. ASSUME NEW e \in Dates, Task(e)
      PROVE  /\ UNCHANGED <<bar, waiting>>
             /\ \A d \in Dates : task'[d] = "queued" => task[d] = "queued"
             /\ \A d \in Dates : cov'[d] # "none" => cov[d] # "none" \/ task[d] = "queued"
  <2>1. task \in [Dates -> {"none", "queued", "reserved"}] /\ cov \in [Dates -> Coverage]
    BY DEF CInv, ChainTypeOK
  <2> QED
    BY <1>9, <2>1 DEF Task, TaskWrites, TaskEnds, TaskDies, ReservationExpires
<1> QED
    BY <1>1, <1>4, <1>6, <1>7, <1>8, <1>9 DEF ChainNext, NextSlot, chainVars

LEMMA BarStep == CInv /\ BarIsLatest /\ [ChainNext]_chainVars => BarIsLatest'
<1> SUFFICES ASSUME CInv, BarIsLatest, [ChainNext]_chainVars PROVE BarIsLatest'
    OBVIOUS
<1>1. bar \in Nat /\ bar' \in Nat /\ bar <= bar' /\ Dates \subseteq Nat
    BY DatesChange, DatesAssumption DEF CInv, ChainTypeOK
<1>2. ASSUME NEW c \in Clients PROVE waiting[c].date \in Nat
  <2>1. waiting[c].date \in Dates \cup {0}
    BY DEF CInv, ChainTypeOK
  <2>2. Dates \cup {0} \subseteq Nat
    BY DatesAssumption
  <2> QED
    BY <2>1, <2>2
<1>3. ASSUME NEW c \in Clients PROVE waiting'[c].date <= bar'
  <2>1. waiting[c].date <= bar /\ waiting[c].date \in Nat
    BY <1>2 DEF BarIsLatest
  <2>2. waiting'[c].date \in {0, bar, waiting[c].date}
    BY DatesChange
  <2> QED
    BY <1>1, <2>1, <2>2
<1>4. \A d \in Dates : task'[d] = "queued" \/ cov'[d] # "none" => d <= bar
    BY DatesChange DEF BarIsLatest
<1> QED
    BY <1>1, <1>3, <1>4 DEF BarIsLatest

\* A score run in the lock has a set to compute on, and it is of the date it
\* was admitted for or of a later one.
ScoreHasRows ==
    \A w \in Workers : <<w, "score">> \in members =>
        \E d \in Latest : waiting[<<w, "score">>].date <= d

\* A score run that is admitted never ends with nothing computed, and never
\* falls back to an older date (calculate_daily_scores, whose date is the
\* latest one with any row): what is "done" was scored.
THEOREM ScoresAreComputed == ChainSpec => []ScoreHasRows
<1>1. CInv /\ BarIsLatest => ScoreHasRows
  <2> SUFFICES ASSUME CInv, BarIsLatest, NEW w \in Workers, <<w, "score">> \in members
               PROVE  \E d \in Latest : waiting[<<w, "score">>].date <= d
    BY DEF ScoreHasRows
  <2> DEFINE S == {d \in Dates : cov[d] # "none"}
             e == waiting[<<w, "score">>].date
  <2>1. e \in S
    BY ScoreIsClient DEF CInv, MembersWaited, RunsAreLed, CheckedDateIsFull
  <2>2. S \in SUBSET Nat /\ bar \in Nat /\ \A d \in S : d <= bar
    BY DatesAssumption DEF CInv, ChainTypeOK, BarIsLatest
  <2>3. PICK m \in S : \A d \in S : d <= m
    <3> HIDE DEF S
    <3> QED
      BY <2>1, <2>2, Greatest
  <2>4. m \in Latest
    BY <2>3 DEF Latest
  <2> QED
    BY <2>1, <2>3, <2>4
<1>2. ChainInit => BarIsLatest
    BY DEF ChainInit, NotWaiting, BarIsLatest
<1> QED
    BY <1>1, <1>2, BarStep, ChainInvariant, PTL DEF ChainSpec

-----------------------------------------------------------------------------
(* The file lock and the shared lock.                                      *)

ElectedHasLock == \A w \in Workers : worker[w] = "elected" => flock = w

OneElected ==
    \A v, w \in Workers : worker[v] = "elected" /\ worker[w] = "elected" => v = w

\* The election itself is sound: as long as the function that holds the file
\* runs, its process is the only one elected
\* (_try_acquire_scheduler_leadership).  It is after its return that a second
\* one may follow.
THEOREM ElectionIsSound == ChainSpec => []OneElected
<1>1. ChainInit => ElectedHasLock
    BY DEF ChainInit, ElectedHasLock
<1>2. CInv /\ ElectedHasLock /\ [ChainNext]_chainVars => ElectedHasLock'
  <2> SUFFICES ASSUME CInv, ElectedHasLock, [ChainNext]_chainVars PROVE ElectedHasLock'
    OBVIOUS
  <2> USE DEF procVars
  <2>1. worker \in [Workers -> {"down", "elected", "leading", "serving"}]
    BY DEF CInv, ChainTypeOK
  <2>2. ASSUME NEW w \in Workers, Process(w) PROVE ElectedHasLock'
    BY <2>1, <2>2, NoWorkerAssumption DEF Process, Startup, StartScheduler, Stop, ElectedHasLock
  <2>3. (\E w \in Workers : Process(w)) \/ UNCHANGED procVars
    <3>1. ASSUME NEW w \in Workers, Start(w) \/ Lock(w) PROVE UNCHANGED procVars
      BY <3>1 DEF Start, StartOpen, StartDeferred, StartPlain, Discard, Lock, Acquire, RefuseScore, RefuseOther, PollFails
    <3>2. ASSUME NEW w \in Workers, Work(w) PROVE UNCHANGED procVars
      BY <3>2 DEF Work, EndEtl, EndIndicator, EndScore, ScoreRaises, WriteSignal, EndSignal, EndPaper, Trade, EndBody
    <3>3. ASSUME NEW d \in Dates, Task(d) PROVE UNCHANGED procVars
      BY <3>3 DEF Task, TaskWrites, TaskEnds, TaskDies, ReservationExpires
    <3> QED
      BY <3>1, <3>2, <3>3 DEF ChainNext, NextSlot, chainVars
  <2> QED
    BY <2>2, <2>3 DEF ElectedHasLock
<1>3. ElectedHasLock => OneElected
    BY DEF ElectedHasLock, OneElected
<1> QED
    BY <1>1, <1>2, <1>3, ChainInvariant, PTL DEF ChainSpec

\* Several clients quit at once: the runs of a process that stops.
QuitTogether == UNCHANGED <<holder, left>> /\ members' \subseteq members

\* The chain takes and leaves daily_pipeline as the lease of LeaseLock allows,
\* and in no other way: what holds of redis_lock carries over to its runs.
THEOREM ChainUsesTheLease == ChainSpec => LeaseInit /\ [][LeaseNext \/ QuitTogether]_leaseVars
<1>1. ChainInit => LeaseInit
    BY DEF ChainInit
<1>2. [ChainNext]_chainVars => [LeaseNext \/ QuitTogether]_leaseVars
  <2> USE DEF LeaseNext
  <2>1. \A w \in Workers, j \in Jobs : <<w, j>> \in Clients
    BY ChainAssumption
  <2>2. NextSlot => [LeaseNext]_leaseVars
    BY DEF NextSlot
  <2>3. ASSUME NEW w \in Workers, Process(w) PROVE UNCHANGED leaseVars \/ QuitTogether
    BY <2>3 DEF Process, Startup, StartScheduler, Stop, QuitTogether
  <2>4. ASSUME NEW w \in Workers, Start(w) PROVE UNCHANGED leaseVars
    BY <2>4 DEF Start, StartOpen, StartDeferred, StartPlain, Discard
  <2>5. ASSUME NEW w \in Workers, Lock(w) PROVE [LeaseNext]_leaseVars
    BY <2>1, <2>5 DEF Lock, Acquire, RefuseScore, RefuseOther, PollFails
  <2>6. ASSUME NEW w \in Workers, Work(w) PROVE [LeaseNext]_leaseVars
    <3>1. CASE WriteSignal(w) \/ Trade(w)
      BY <3>1 DEF WriteSignal, Trade
    <3>2. CASE ~(WriteSignal(w) \/ Trade(w))
      <4>1. PICK j \in Jobs : EndBody(<<w, j>>)
        BY <2>6, <3>2 DEF Work, EndEtl, EndIndicator, EndScore, ScoreRaises, EndSignal, EndPaper, Jobs
      <4> QED
        BY <2>1, <4>1 DEF EndBody
    <3> QED
      BY <3>1, <3>2
  <2>7. ASSUME NEW d \in Dates, Task(d) PROVE UNCHANGED leaseVars
    BY <2>7 DEF Task, TaskWrites, TaskEnds, TaskDies, ReservationExpires
  <2>8. UNCHANGED chainVars => UNCHANGED leaseVars
    BY DEF chainVars, leaseVars
  <2> QED
    BY <2>2, <2>3, <2>4, <2>5, <2>6, <2>7, <2>8 DEF ChainNext
<1> QED
    BY <1>1, <1>2, PTL DEF ChainSpec
=============================================================================
