---------------------------- MODULE MCRedisLock ----------------------------
(* Three users of one lock name: one that tries once and two that wait, as *)
(* run_a_share_etl, run_score_calculation and run_signal_generation do.    *)
EXTENDS RedisLock, TLC

CONSTANTS etl, score, signal

MCClients == {etl, score, signal}
MCTtl  == (etl :> 2) @@ (score :> 1) @@ (signal :> 3)
MCWait == (etl :> 0) @@ (score :> 2) @@ (signal :> 2)
=============================================================================
