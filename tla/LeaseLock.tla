----------------------------- MODULE LeaseLock -----------------------------
(***************************************************************************)
(* What a lease-based lock is, without tokens, polling or a store.  At any *)
(* moment there is at most one holder.  A client is granted the lease when *)
(* there is none; the lease ends when its time is over or when its holder, *)
(* and no other client, gives it up.  Clients that crash, or whose lease   *)
(* ended under them, quit without touching the lease.                      *)
(***************************************************************************)
EXTENDS Integers

CONSTANTS
    Clients,   \* users of the lock
    Nobody,    \* stands for no client
    Ttl        \* the length of each client's lease, in units of time

ASSUME LeaseAssumption == Ttl \in [Clients -> Nat \ {0}] /\ Nobody \notin Clients

VARIABLES
    holder,   \* who holds the lease
    left,     \* how long it still holds it
    members   \* the clients that were granted a lease and have not quit

leaseVars == <<holder, left, members>>

LeaseInit == holder = Nobody /\ left = 0 /\ members = {}

Grant(c) ==
    /\ holder = Nobody /\ c \notin members
    /\ holder' = c /\ left' = Ttl[c]
    /\ members' = members \cup {c}

\* The lease is granted and the client never learns of it.
GrantUnheard(c) ==
    /\ holder = Nobody
    /\ holder' = c /\ left' = Ttl[c]
    /\ UNCHANGED members

GiveUp(c) ==
    /\ holder = c /\ c \in members
    /\ holder' = Nobody /\ left' = 0
    /\ members' = members \ {c}

Quit(c) ==
    /\ members' = members \ {c}
    /\ UNCHANGED <<holder, left>>

Elapse ==
    /\ left > 0
    /\ left' = left - 1
    /\ holder' = IF left = 1 THEN Nobody ELSE holder
    /\ UNCHANGED members

LeaseNext ==
    \/ Elapse
    \/ \E c \in Clients : Grant(c) \/ GrantUnheard(c) \/ GiveUp(c) \/ Quit(c)

LeaseSpec == LeaseInit /\ [][LeaseNext]_leaseVars /\ WF_leaseVars(Elapse)
=============================================================================
