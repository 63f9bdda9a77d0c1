SPECIFICATION LockSpec
CONSTANTS
    etl = etl
    score = score
    signal = signal
    Nobody = Nobody
    NoToken = NoToken
    Tokens = {t1, t2, t3, t4}
    Clients <- MCClients
    Ttl <- MCTtl
    Wait <- MCWait
INVARIANTS
    LockTypeOK
    LeaseExclusion
PROPERTIES
    OnlyOwnerReleases
    WaitingEnds
    ImplementsLease
