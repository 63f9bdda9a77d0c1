-------------------------- MODULE RedisLockProofs --------------------------
(***************************************************************************)
(* Safety of redis_lock for any set of clients, any lease lengths and any  *)
(* waiting times.                                                          *)
(***************************************************************************)
EXTENDS RedisLock, TLAPS

\* Uses of the lock that overlap hold different tokens.
TokensApart ==
    \A c, d \in Clients :
        pc[c] # "idle" /\ pc[d] # "idle" /\ token[c] = token[d] => c = d

\* A client in redis_lock that finds its own token in the key wrote the key.
TokenNamesOwner ==
    \A c \in Clients :
        pc[c] # "idle" /\ KeyExists /\ key.token = token[c] => key.by = c

\* The key is absent or has a writer.
KeyShape ==
    /\ key.left = 0 => key = NoKey
    /\ key.left > 0 => key.by \in Clients

\* LeaseIsBacked alone is not inductive: a release could delete the key of
\* another client if tokens were not apart and did not name their writer.
LockInv ==
    /\ LockTypeOK
    /\ KeyShape
    /\ TokensApart
    /\ TokenNamesOwner
    /\ LeaseIsBacked

-----------------------------------------------------------------------------
\* The lock starts with no key and everybody outside.
LEMMA InitInv == LockInit => LockInv
  BY NobodyAssumption
     DEF LockInit, LockInv, LockTypeOK, Keys, NoKey, Steps, KeyShape, TokensApart,
         TokenNamesOwner, LeaseIsBacked, KeyExists, InSection

\* A step of one client keeps the types.
LEMMA TypeStep ==
  ASSUME LockTypeOK, NEW c \in Clients, LockStep(c)
  PROVE  LockTypeOK'
  <1> USE TtlAssumption, WaitAssumption DEF LockTypeOK, Steps, Leave
  <1>1. CASE Enter(c)
    BY <1>1 DEF Enter
  <1>2. CASE Poll(c)
    BY <1>2 DEF Poll
  <1>3. CASE SetKey(c)
    BY <1>3 DEF SetKey, Keys
  <1>4. CASE SetRefused(c)
    BY <1>4 DEF SetRefused
  <1>5. CASE SetError(c)
    BY <1>5 DEF SetError, Keys
  <1>6. CASE EndBody(c)
    BY <1>6 DEF EndBody
  <1>7. CASE Release(c)
    BY <1>7 DEF Release, Keys, NoKey
  <1>8. CASE ReleaseError(c) \/ EndRefused(c) \/ Crash(c)
    BY <1>8 DEF ReleaseError, EndRefused, Crash
  <1> QED
    BY <1>1, <1>2, <1>3, <1>4, <1>5, <1>6, <1>7, <1>8 DEF LockStep

\* Time passing keeps the whole invariant: the key and the lease of its
\* writer count down together.
LEMMA TickStep == LockInv /\ LockTick => LockInv'
  <1> SUFFICES ASSUME LockInv, LockTick PROVE LockInv'
    OBVIOUS
  <1> USE NobodyAssumption DEF LockInv, LockTick, Countdown
  <1>1. LockTypeOK'
    BY DEF LockTypeOK, Keys, NoKey
  <1>2. KeyShape'
    BY DEF LockTypeOK, Keys, NoKey, KeyShape
  <1>3. TokensApart'
    BY DEF TokensApart
  <1>4. TokenNamesOwner'
    BY DEF LockTypeOK, Keys, NoKey, TokenNamesOwner, KeyExists
  <1>5. LeaseIsBacked'
    BY DEF LockTypeOK, Keys, NoKey, LeaseIsBacked, InSection
  <1> QED
    BY <1>1, <1>2, <1>3, <1>4, <1>5

\* A client that leaves redis_lock and lets the key be keeps the invariant.
LEMMA LeaveStep ==
  ASSUME LockInv, NEW c \in Clients, Leave(c), UNCHANGED key, LockTypeOK'
  PROVE  LockInv'
  BY DEF LockInv, LockTypeOK, Leave, KeyShape, TokensApart, TokenNamesOwner,
         LeaseIsBacked, KeyExists, InSection, Steps

\* Every step of a client keeps the invariant.
LEMMA ClientStep ==
  ASSUME LockInv, NEW c \in Clients, LockStep(c)
  PROVE  LockInv'
  <1>t. LockTypeOK'
    BY TypeStep DEF LockInv
  <1> USE NobodyAssumption, TtlAssumption, <1>t
      DEF LockInv, LockTypeOK, Steps, KeyExists, InSection
  <1>1. CASE Enter(c)
    BY <1>1 DEF Enter, InUse, KeyShape, TokensApart, TokenNamesOwner, LeaseIsBacked
  <1>2. CASE Poll(c)
    BY <1>2 DEF Poll, KeyShape, TokensApart, TokenNamesOwner, LeaseIsBacked
  <1>3. CASE SetKey(c)
    BY <1>3 DEF SetKey, Keys, KeyShape, TokensApart, TokenNamesOwner, LeaseIsBacked
  <1>4. CASE SetRefused(c)
    BY <1>4 DEF SetRefused, KeyShape, TokensApart, TokenNamesOwner, LeaseIsBacked
  <1>5. CASE SetError(c)
    <2>1. CASE key' = key
      BY <1>5, <2>1, LeaveStep DEF SetError
    <2>2. CASE ~KeyExists /\ key' = [by |-> c, token |-> token[c], left |-> Ttl[c]]
      BY <1>5, <2>2
         DEF SetError, Leave, Keys, KeyShape, TokensApart, TokenNamesOwner, LeaseIsBacked
    <2> QED
      BY <1>5, <2>1, <2>2 DEF SetError
  <1>6. CASE EndBody(c)
    BY <1>6 DEF EndBody, KeyShape, TokensApart, TokenNamesOwner, LeaseIsBacked
  <1>7. CASE Release(c)
    <2>1. CASE KeyExists /\ key.token = token[c]
      <3>1. key.by = c /\ key' = NoKey
        BY <1>7, <2>1 DEF Release, TokenNamesOwner
      <3> QED
        BY <1>7, <3>1
           DEF Release, Leave, Keys, NoKey, KeyShape, TokensApart, TokenNamesOwner, LeaseIsBacked
    <2>2. CASE ~(KeyExists /\ key.token = token[c])
      BY <1>7, <2>2, LeaveStep DEF Release
    <2> QED
      BY <2>1, <2>2
  <1>8. CASE ReleaseError(c) \/ EndRefused(c) \/ Crash(c)
    BY <1>8, LeaveStep DEF ReleaseError, EndRefused, Crash
  <1> QED
    BY <1>1, <1>2, <1>3, <1>4, <1>5, <1>6, <1>7, <1>8 DEF LockStep

\* Stuttering keeps the invariant.
LEMMA StutterStep == LockInv /\ UNCHANGED lockVars => LockInv'
  BY DEF LockInv, lockVars, LockTypeOK, KeyShape, TokensApart, TokenNamesOwner,
         LeaseIsBacked, KeyExists, InSection

\* The inductive invariant holds in every reachable state.
THEOREM LockInvariant == LockSpec => []LockInv
  <1>1. LockInv /\ [LockNext]_lockVars => LockInv'
    BY TickStep, ClientStep, StutterStep DEF LockNext
  <1> QED
    BY InitInv, <1>1, PTL DEF LockSpec

-----------------------------------------------------------------------------
\* Type correctness, for any clients, lease lengths and waiting times.
THEOREM LockTypes == LockSpec => []LockTypeOK
  <1>1. LockInv => LockTypeOK
    BY DEF LockInv
  <1> QED
    BY LockInvariant, <1>1, PTL

\* A running lease is backed by the key in Redis.
THEOREM LeaseBacked == LockSpec => []LeaseIsBacked
  <1>1. LockInv => LeaseIsBacked
    BY DEF LockInv
  <1> QED
    BY LockInvariant, <1>1, PTL

\* Two leases never run at once: both would be backed by the one key.
THEOREM Exclusion == LockSpec => []LeaseExclusion
  <1>1. LeaseIsBacked => LeaseExclusion
    BY DEF LeaseIsBacked, LeaseExclusion
  <1> QED
    BY LeaseBacked, <1>1, PTL

\* A key goes before its time only by the release of its own writer.
THEOREM OwnerReleases == LockSpec => OnlyOwnerReleases
  <1> DEFINE Step == \A c \in Clients :
                key.by = c /\ key.left > 1 /\ key'.by # c => pc[c] = "releasing"
  <1>1. LockInv /\ [LockNext]_lockVars => Step \/ UNCHANGED lockVars
    <2> SUFFICES ASSUME LockInv, LockNext, NEW c \in Clients,
                        key.by = c, key.left > 1, key'.by # c
                 PROVE  pc[c] = "releasing"
      BY DEF lockVars
    <2>1. ~LockTick
      BY DEF LockTick, LockInv, LockTypeOK, Keys
    <2>2. PICK d \in Clients : LockStep(d)
      BY <2>1 DEF LockNext
    <2>3. key' # key /\ KeyExists
      BY DEF LockInv, LockTypeOK, Keys, KeyExists
    <2>4. Release(d)
      BY <2>2, <2>3 DEF LockStep, Enter, Poll, SetKey, SetRefused, SetError, EndBody,
                        ReleaseError, EndRefused, Crash
    <2>5. pc[d] = "releasing" /\ key.token = token[d]
      BY <2>3, <2>4 DEF Release
    <2> QED
      BY <2>3, <2>5 DEF LockInv, TokenNamesOwner
  <1> QED
    BY LockInvariant, <1>1, PTL DEF LockSpec, OnlyOwnerReleases

-----------------------------------------------------------------------------
\* A step of redis_lock is a step of the abstract lease or leaves it alone.
LEMMA LeaseStep ==
  LockInv /\ [LockNext]_lockVars => [Lease!LeaseNext]_(Lease!leaseVars)
  <1> DEFINE members == {c \in Clients : InSection(c)}
  <1> SUFFICES ASSUME LockInv, LockNext
               PROVE  [Lease!LeaseNext]_(Lease!leaseVars)
    BY DEF lockVars, Lease!leaseVars, InSection
  <1>1. CASE LockTick
    <2>1. members' = members
      BY <1>1 DEF LockTick, InSection
    <2>2. CASE KeyExists
      <3>1. Lease!Elapse
        BY <1>1, <2>1, <2>2
           DEF LockTick, LockInv, LockTypeOK, Keys, NoKey, KeyExists, Lease!Elapse
      <3> QED
        BY <3>1 DEF Lease!LeaseNext
    <2>3. CASE ~KeyExists
      <3>1. key' = key
        BY <1>1, <2>3 DEF LockTick, LockInv, LockTypeOK, Keys, KeyShape, KeyExists
      <3> QED
        BY <2>1, <3>1 DEF Lease!leaseVars
    <2> QED
      BY <2>2, <2>3
  <1>2. ASSUME NEW c \in Clients, LockStep(c)
        PROVE  [Lease!LeaseNext]_(Lease!leaseVars)
    <2> USE DEF LockInv, LockTypeOK, Keys, NoKey, KeyShape, KeyExists, InSection, Leave
    <2>1. CASE Enter(c) \/ Poll(c) \/ SetRefused(c) \/ EndBody(c) \/ EndRefused(c)
      <3>1. key' = key /\ members' = members
        BY <2>1 DEF Enter, Poll, SetRefused, EndBody, EndRefused
      <3> QED
        BY <3>1 DEF Lease!leaseVars
    <2>2. CASE SetKey(c)
      <3>1. members' = members \cup {c}
        BY <2>2 DEF SetKey
      <3>2. Lease!Grant(c)
        BY <2>2, <3>1 DEF SetKey, Lease!Grant
      <3> QED
        BY <3>2 DEF Lease!LeaseNext
    <2>3. CASE SetError(c)
      <3>1. members' = members
        BY <2>3 DEF SetError
      <3>2. CASE key' = key
        BY <3>1, <3>2 DEF Lease!leaseVars
      <3>3. CASE ~KeyExists /\ key' = [by |-> c, token |-> token[c], left |-> Ttl[c]]
        <4>1. Lease!GrantUnheard(c)
          BY <3>1, <3>3 DEF Lease!GrantUnheard
        <4> QED
          BY <4>1 DEF Lease!LeaseNext
      <3> QED
        BY <2>3, <3>2, <3>3 DEF SetError
    <2>4. CASE Release(c)
      <3>1. members' = members \ {c} /\ c \in members
        BY <2>4 DEF Release
      <3>2. CASE KeyExists /\ key.token = token[c]
        <4>1. key.by = c /\ key' = NoKey
          BY <2>4, <3>2 DEF Release, TokenNamesOwner
        <4>2. Lease!GiveUp(c)
          BY <3>1, <4>1, NobodyAssumption DEF Lease!GiveUp
        <4> QED
          BY <4>2 DEF Lease!LeaseNext
      <3>3. CASE ~(KeyExists /\ key.token = token[c])
        <4>1. Lease!Quit(c)
          BY <2>4, <3>1, <3>3 DEF Release, Lease!Quit
        <4> QED
          BY <4>1 DEF Lease!LeaseNext
      <3> QED
        BY <3>2, <3>3
    <2>5. CASE ReleaseError(c) \/ Crash(c)
      <3>1. key' = key /\ members' = members \ {c}
        BY <2>5 DEF ReleaseError, Crash
      <3>2. Lease!Quit(c)
        BY <3>1 DEF Lease!Quit
      <3> QED
        BY <3>2 DEF Lease!LeaseNext
    <2> QED
      BY <1>2, <2>1, <2>2, <2>3, <2>4, <2>5 DEF LockStep
  <1> QED
    BY <1>1, <1>2 DEF LockNext

\* redis_lock implements the abstract lease, step by step (the safety part of
\* ImplementsLease; that the lease elapses is checked by TLC).
THEOREM LeaseImplemented ==
  LockSpec => Lease!LeaseInit /\ [][Lease!LeaseNext]_(Lease!leaseVars)
  <1>1. LockInit => Lease!LeaseInit
    BY DEF LockInit, NoKey, InSection, Lease!LeaseInit
  <1> QED
    BY <1>1, LeaseStep, LockInvariant, PTL DEF LockSpec
-----------------------------------------------------------------------------
\* A key, whoever wrote it and whatever became of its writer, has no more than
\* the writer's own lease left: a client that dies, or whose release or SET
\* reply is lost, keeps the others out for that long and no longer.
KeyWithinLease == KeyExists => key.left <= Ttl[key.by]

\* Nothing of redis_lock prolongs a key that is there.
THEOREM KeysStayWithinTheLease == LockSpec => []KeyWithinLease
  <1>1. LockInit => KeyWithinLease
    BY DEF LockInit, NoKey, KeyWithinLease, KeyExists
  <1>2. LockInv /\ KeyWithinLease /\ [LockNext]_lockVars => KeyWithinLease'
    <2> SUFFICES ASSUME LockInv, KeyWithinLease, [LockNext]_lockVars
                 PROVE  KeyWithinLease'
      OBVIOUS
    <2> USE TtlAssumption
        DEF LockInv, LockTypeOK, Keys, NoKey, KeyShape, KeyWithinLease, KeyExists, Leave
    <2>1. CASE UNCHANGED lockVars
      BY <2>1 DEF lockVars
    <2>2. CASE LockTick
      BY <2>2 DEF LockTick
    <2>3. ASSUME NEW c \in Clients, LockStep(c) PROVE KeyWithinLease'
      <3>1. CASE key' = key
        BY <3>1
      <3>2. CASE key' = [by |-> c, token |-> token[c], left |-> Ttl[c]]
        BY <3>2
      <3>3. CASE key' = NoKey
        BY <3>3
      <3> QED
        BY <2>3, <3>1, <3>2, <3>3
           DEF LockStep, Enter, Poll, SetKey, SetRefused, SetError, EndBody, Release,
               ReleaseError, EndRefused, Crash
    <2> QED
      BY <2>1, <2>2, <2>3 DEF LockNext
  <1> QED
    BY <1>1, <1>2, LockInvariant, PTL DEF LockSpec
=============================================================================
