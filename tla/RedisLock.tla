----------------------------- MODULE RedisLock -----------------------------
(***************************************************************************)
(* The distributed lock every scheduled job of the back end takes:         *)
(* redis_lock in app/core/redis_client.py.                                 *)
(*                                                                         *)
(* A client is one use of the context manager: a scheduler thread, a       *)
(* manual "run now" thread, or a thread of another API worker.  It reads   *)
(* the clock once to make its token, tries SET NX EX once or polls until a *)
(* deadline, runs the body of the with statement, and finally runs a Lua   *)
(* script that deletes the key if it still holds the client's token.       *)
(*                                                                         *)
(* Nothing renews the key while the body runs, so the key can expire under *)
(* a body that is still running.  What the lock promises is therefore      *)
(* exclusion for the length of the lease and no longer.                    *)
(*                                                                         *)
(* Time is relative: key.left, wait[c] and lease[c] count down together,   *)
(* one unit per Tick, so the state space is finite with no bound on runs.  *)
(***************************************************************************)
EXTENDS Integers

CONSTANTS
    Clients,   \* users of one lock name
    Tokens,    \* readings of time.time(), rendered as text
    Nobody,    \* stands for no client
    NoToken,   \* stands for no token
    Ttl,       \* expire_seconds of each client, in units of time
    Wait       \* wait_timeout of each client; 0 is None: try once

ASSUME TtlAssumption    == Ttl \in [Clients -> Nat \ {0}]
ASSUME WaitAssumption   == Wait \in [Clients -> Nat]
ASSUME NobodyAssumption == Nobody \notin Clients /\ NoToken \notin Tokens

VARIABLES
    key,     \* the Redis key lock:<name>; it exists while key.left > 0
    pc,      \* where each client is inside redis_lock
    token,   \* each client's token
    wait,    \* units of time left until each client's deadline
    lease    \* units of time left of the lease of each client's own SET

lockVars == <<key, pc, token, wait, lease>>

Steps == {"idle", "polling", "setting", "body", "refused", "releasing"}

NoKey == [by |-> Nobody, token |-> NoToken, left |-> 0]

\* key.by is not stored in Redis: it records who wrote the key.
Keys == [by: Clients \cup {Nobody}, token: Tokens \cup {NoToken}, left: Nat]

LockTypeOK ==
    /\ key \in Keys
    /\ pc \in [Clients -> Steps]
    /\ token \in [Clients -> Tokens \cup {NoToken}]
    /\ wait \in [Clients -> Nat]
    /\ lease \in [Clients -> Nat]

-----------------------------------------------------------------------------
KeyExists == key.left > 0

\* The client is between a successful SET and the end of redis_lock.
InSection(c) == pc[c] \in {"body", "releasing"}

InUse == {token[c] : c \in {d \in Clients : pc[d] # "idle"}} \cup {key.token}

Countdown(n) == IF n > 0 THEN n - 1 ELSE 0

LockInit ==
    /\ key = NoKey
    /\ pc = [c \in Clients |-> "idle"]
    /\ token = [c \in Clients |-> NoToken]
    /\ wait = [c \in Clients |-> 0]
    /\ lease = [c \in Clients |-> 0]

\* The client is out of redis_lock, by whatever path.
Leave(c) ==
    /\ pc' = [pc EXCEPT ![c] = "idle"]
    /\ token' = [token EXCEPT ![c] = NoToken]
    /\ wait' = [wait EXCEPT ![c] = 0]
    /\ lease' = [lease EXCEPT ![c] = 0]

-----------------------------------------------------------------------------
(* The steps of redis_lock.                                                *)

\* Mutant: two overlapping uses of the lock may read the same clock value.
EnterSameReading(c) ==
    /\ pc[c] = "idle"
    /\ \E t \in Tokens : token' = [token EXCEPT ![c] = t]
    /\ wait' = [wait EXCEPT ![c] = Wait[c]]
    /\ pc' = [pc EXCEPT ![c] = IF Wait[c] = 0 THEN "setting" ELSE "polling"]
    /\ UNCHANGED <<key, lease>>

\* The token is a reading of the clock: no two uses of the lock that overlap
\* are taken to read the same floating-point number.
Enter(c) ==
    /\ pc[c] = "idle"
    /\ \E t \in Tokens \ InUse : token' = [token EXCEPT ![c] = t]
    /\ wait' = [wait EXCEPT ![c] = Wait[c]]
    /\ pc' = [pc EXCEPT ![c] = IF Wait[c] = 0 THEN "setting" ELSE "polling"]
    /\ UNCHANGED <<key, lease>>

\* Mutant: the loop forgets its deadline.
PollForever(c) ==
    /\ pc[c] = "polling"
    /\ pc' = [pc EXCEPT ![c] = "setting"]
    /\ UNCHANGED <<key, token, wait, lease>>

\* while time.time() < deadline
Poll(c) ==
    /\ pc[c] = "polling"
    /\ pc' = [pc EXCEPT ![c] = IF wait[c] > 0 THEN "setting" ELSE "refused"]
    /\ UNCHANGED <<key, token, wait, lease>>

\* Mutant: SET without NX.
SetKeyAnyway(c) ==
    /\ pc[c] = "setting"
    /\ key' = [by |-> c, token |-> token[c], left |-> Ttl[c]]
    /\ lease' = [lease EXCEPT ![c] = Ttl[c]]
    /\ pc' = [pc EXCEPT ![c] = "body"]
    /\ wait' = [wait EXCEPT ![c] = 0]
    /\ UNCHANGED token

\* Mutant: SET NX without EX; Redis gives -1 as the time to live of such a key.
SetKeyNoExpiry(c) ==
    /\ pc[c] = "setting"
    /\ ~KeyExists
    /\ key' = [by |-> c, token |-> token[c], left |-> -1]
    /\ lease' = [lease EXCEPT ![c] = Ttl[c]]
    /\ pc' = [pc EXCEPT ![c] = "body"]
    /\ wait' = [wait EXCEPT ![c] = 0]
    /\ UNCHANGED token

\* SET NX EX finds no key.
SetKey(c) ==
    /\ pc[c] = "setting"
    /\ ~KeyExists
    /\ key' = [by |-> c, token |-> token[c], left |-> Ttl[c]]
    /\ lease' = [lease EXCEPT ![c] = Ttl[c]]
    /\ pc' = [pc EXCEPT ![c] = "body"]
    /\ wait' = [wait EXCEPT ![c] = 0]
    /\ UNCHANGED token

\* SET NX EX finds a key: sleep and poll again, or give up at once.
SetRefused(c) ==
    /\ pc[c] = "setting"
    /\ KeyExists
    /\ pc' = [pc EXCEPT ![c] = IF Wait[c] = 0 THEN "refused" ELSE "polling"]
    /\ UNCHANGED <<key, token, wait, lease>>

\* The connection fails during SET: the error leaves redis_lock before the
\* try, whether the server ran the command or not.
SetError(c) ==
    /\ pc[c] = "setting"
    /\ \/ key' = key
       \/ /\ ~KeyExists
          /\ key' = [by |-> c, token |-> token[c], left |-> Ttl[c]]
    /\ Leave(c)

\* The body returns or raises.
EndBody(c) ==
    /\ pc[c] = "body"
    /\ pc' = [pc EXCEPT ![c] = "releasing"]
    /\ UNCHANGED <<key, token, wait, lease>>

\* Mutant: the key is deleted by name, without comparing the token.
ReleaseByName(c) ==
    /\ pc[c] = "releasing"
    /\ key' = NoKey
    /\ Leave(c)

\* The script deletes the key if it still holds the client's token.
Release(c) ==
    /\ pc[c] = "releasing"
    /\ key' = IF KeyExists /\ key.token = token[c] THEN NoKey ELSE key
    /\ Leave(c)

\* A RedisError in the script is suppressed: the key stays until it expires.
ReleaseError(c) ==
    /\ pc[c] = "releasing"
    /\ UNCHANGED key
    /\ Leave(c)

\* The body of the with statement runs with acquired = False.
EndRefused(c) ==
    /\ pc[c] = "refused"
    /\ UNCHANGED key
    /\ Leave(c)

-----------------------------------------------------------------------------
(* The environment.                                                        *)

\* The process of the client is killed.  Nothing of redis_lock runs.
Crash(c) ==
    /\ pc[c] # "idle"
    /\ UNCHANGED key
    /\ Leave(c)

LockTick ==
    /\ key' = IF key.left > 1 THEN [key EXCEPT !.left = @ - 1] ELSE NoKey
    /\ wait' = [c \in Clients |-> Countdown(wait[c])]
    /\ lease' = [c \in Clients |-> Countdown(lease[c])]
    /\ UNCHANGED <<pc, token>>

-----------------------------------------------------------------------------
LockStep(c) ==
    \/ Enter(c)   \/ Poll(c)    \/ SetKey(c)  \/ SetRefused(c) \/ SetError(c)
    \/ EndBody(c) \/ Release(c) \/ ReleaseError(c) \/ EndRefused(c)
    \/ Crash(c)

LockNext == LockTick \/ \E c \in Clients : LockStep(c)

\* The clock runs, and a client inside redis_lock keeps going; whether its
\* body ever ends is the caller's affair.
LockFairness ==
    /\ WF_lockVars(LockTick)
    /\ \A c \in Clients :
        /\ WF_lockVars(Poll(c) \/ SetKey(c) \/ SetRefused(c))
        /\ WF_lockVars(Release(c) \/ ReleaseError(c))

LockSpec == LockInit /\ [][LockNext]_lockVars /\ LockFairness

-----------------------------------------------------------------------------
(* What the lock promises.                                                 *)

\* Two clients are never in the section while both leases run, whatever
\* crashes, lost replies and failed releases came before: the SET NX, the
\* expiry and the compare-and-delete of redis_lock together.
LeaseExclusion ==
    \A c, d \in Clients :
        /\ InSection(c) /\ lease[c] > 0
        /\ InSection(d) /\ lease[d] > 0
        => c = d

\* A client in the section whose lease still runs is the one Redis knows as
\* the holder, with exactly the time the client believes it has: nobody else
\* released, replaced or shortened the key.
LeaseIsBacked ==
    \A c \in Clients :
        InSection(c) /\ lease[c] > 0 => key.by = c /\ key.left = lease[c]

\* A key goes before its time only by the script of the client that wrote it:
\* a late holder that wakes up after its own lease ended does not delete the
\* next holder's key ("delete only if we still own the lock").
OnlyOwnerReleases ==
    [][ \A c \in Clients :
          key.by = c /\ key.left > 1 /\ key'.by # c => pc[c] = "releasing" ]_lockVars

\* A client that waits gets the lock or is refused: polling is not for ever.
WaitingEnds ==
    \A c \in Clients : (pc[c] = "polling") ~> (pc[c] \notin {"polling", "setting"})

\* redis_lock is an implementation of a lease: the key and its expiry are the
\* lease, the clients in the section its members.
Lease == INSTANCE LeaseLock WITH
            holder  <- key.by,
            left    <- key.left,
            members <- {c \in Clients : InSection(c)}

\* Every step of redis_lock is a step of the abstract lease or none at all; in
\* particular a release ends the lease only of the client that releases.
ImplementsLease == Lease!LeaseSpec
=============================================================================
