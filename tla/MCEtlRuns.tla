----------------------------- MODULE MCEtlRuns -----------------------------
(* Two jobs on daily_pipeline: the daily bars have a short lease and        *)
(* threshold, the signals long ones.                                        *)
EXTENDS EtlRuns, TLC

CONSTANTS etl, signal

MCClients   == {etl, signal}
MCTtl       == (etl :> 1) @@ (signal :> 2)
MCJobs      == {"a_share_daily_etl", "signal_generation"}
MCJobOf     == (etl :> "a_share_daily_etl") @@ (signal :> "signal_generation")
MCThreshold == ("a_share_daily_etl" :> 2) @@ ("signal_generation" :> 3)
=============================================================================
