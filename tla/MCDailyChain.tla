---------------------------- MODULE MCDailyChain ----------------------------
(* The day of the cron table, with its half hours compressed: indicators,   *)
(* scores, signals and trades in the morning, the bars in the afternoon,    *)
(* the indicator fallback after them, the cutoff in the evening.            *)
EXTENDS DailyChain, TLC

MCClients == Workers \X Jobs
MCAt == [etl |-> {5}, indicator |-> {1}, fallback |-> {7},
         score |-> {2}, signal |-> {3}, paper |-> {4}]
MCWaitFor == [etl |-> 0, indicator |-> 1, fallback |-> 1,
              score |-> 1, signal |-> 1, paper |-> 2]
MCLease == [etl |-> 2, indicator |-> 2, fallback |-> 2,
            score |-> 1, signal |-> 2, paper |-> 2]
MCTtl == [c \in MCClients |-> MCLease[c[2]]]
=============================================================================
