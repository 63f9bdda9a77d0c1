SPECIFICATION ChainSpec
CONSTANTS
    Workers = {w1}
    NoWorker = NoWorker
    Nobody = Nobody
    Clients <- MCClients
    Ttl <- MCTtl
    Dates = {1, 2}
    Last = 10
    Deadline = 8
    At <- MCAt
    WaitFor <- MCWaitFor
INVARIANT
    ScoresOnFullSets
