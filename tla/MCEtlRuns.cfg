SPECIFICATION EtlSpec
CONSTANTS
    etl = etl
    signal = signal
    Nobody = Nobody
    NoRow = NoRow
    Rows = {r1, r2}
    Clients <- MCClients
    Ttl <- MCTtl
    Jobs <- MCJobs
    JobOf <- MCJobOf
    SharesLock <- MCJobs
    Threshold <- MCThreshold
INVARIANTS
    EtlTypeOK
    LiveRowRuns
PROPERTIES
    OutcomeIsFinal
    LockLostToOldRows
    StuckRowsEnd
