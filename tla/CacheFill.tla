------------------------------ MODULE CacheFill ------------------------------
(***************************************************************************)
(* EnhancedRedisCache.getOrSet                                             *)
(* (src/common/cache/enhanced-redis-cache.service.ts): callers that miss   *)
(* an entry compete for a lock in Redis; the one that gets it generates    *)
(* the entry, the others look again a few times and then generate it       *)
(* themselves.  Tags, invalidation and refresh are TaggedCache's matter;   *)
(* keys do not affect each other here, so there is one entry.              *)
(*                                                                         *)
(* The lock carries the time it was taken at, runs out after lockTtl       *)
(* seconds, and is released by reading it and then deleting it.            *)
(***************************************************************************)
EXTENDS Naturals

CONSTANTS
    Callers,    \* concurrent requests for the entry
    Stamps,     \* values of Date.now() that callers sign the lock with
    Free,       \* no lock
    MaxTries,   \* looks by a caller that was refused the lock (5)
    MaxFailures \* bound: failing commands, failing factories and restarts

ASSUME FillAssumption ==
    Free \notin Stamps /\ MaxTries \in Nat /\ MaxFailures \in Nat

VARIABLES
    cached,     \* is the entry in Redis?
    lock,       \* the lock in Redis: a stamp or Free
    at,         \* [Callers -> where getOrSet awaits something]
    stamp,      \* [Callers -> lockValue, or Free before it is taken]
    holds,      \* [Callers -> was this call given the lock?]
    tries,      \* [Callers -> looks left]
    failures,   \* failures so far
    lapsed      \* history: the lock failed a call that is in progress

fillVars == <<cached, lock, at, stamp, holds, tries, failures, lapsed>>

FillInit ==
    /\ cached = FALSE
    /\ lock = Free
    /\ at = [c \in Callers |-> "idle"]
    /\ stamp = [c \in Callers |-> Free]
    /\ holds = [c \in Callers |-> FALSE]
    /\ tries = [c \in Callers |-> 0]
    /\ failures = 0
    /\ lapsed = FALSE

Goto(c, where) == at' = [at EXCEPT ![c] = where]

\* Mutant: the next call starts with this call's signature.
BugAnswered(c) ==
    /\ Goto(c, "idle")
    /\ tries' = [tries EXCEPT ![c] = 0]
    /\ UNCHANGED <<stamp, holds>>

\* The call is over; what it remembered of the lock goes with it.
Answered(c) ==
    /\ Goto(c, "idle")
    /\ stamp' = [stamp EXCEPT ![c] = Free]
    /\ holds' = [holds EXCEPT ![c] = FALSE]
    /\ tries' = [tries EXCEPT ![c] = 0]

-----------------------------------------------------------------------------

\* getOrSet: the first look.
GetOrSet(c) ==
    /\ at[c] = "idle"
    /\ Goto(c, "get")
    /\ UNCHANGED <<cached, lock, stamp, holds, tries, failures>>

\* A miss signs for the lock with the current time.
Sign(c) ==
    /\ Goto(c, "lock")
    /\ \E s \in Stamps : stamp' = [stamp EXCEPT ![c] = s]
    /\ UNCHANGED <<holds, tries>>

Get(c) ==
    /\ at[c] = "get"
    /\ IF cached THEN Answered(c) ELSE Sign(c)
    /\ UNCHANGED <<cached, lock, failures>>

\* acquireLock: set if absent; handleLockResult: generate, or wait.
AcquireLock(c) ==
    /\ at[c] = "lock"
    /\ \/ /\ lock = Free
          /\ lock' = stamp[c]
          /\ holds' = [holds EXCEPT ![c] = TRUE]
          /\ Goto(c, "generate")
          /\ UNCHANGED tries
       \/ /\ lock # Free
          /\ Goto(c, "wait")
          /\ tries' = [tries EXCEPT ![c] = MaxTries]
          /\ UNCHANGED <<lock, holds>>
    /\ UNCHANGED <<cached, stamp, failures>>

LookAgain(c) == tries[c] > 0 /\ tries' = [tries EXCEPT ![c] = @ - 1] /\ UNCHANGED at

\* Mutant: the waiter never gives up.
BugWaitForValueOrGenerate(c) ==
    /\ at[c] = "wait"
    /\ cached /\ Goto(c, "release") /\ UNCHANGED tries
    /\ UNCHANGED <<cached, lock, stamp, holds, failures>>

\* waitForValueOrGenerate.
WaitForValueOrGenerate(c) ==
    /\ at[c] = "wait"
    /\ \/ tries[c] > 0 /\ cached /\ Goto(c, "release") /\ UNCHANGED tries
       \/ ~ cached /\ LookAgain(c)
       \/ tries[c] = 0 /\ Goto(c, "generate") /\ UNCHANGED tries
    /\ UNCHANGED <<cached, lock, stamp, holds, failures>>

\* generateAndCacheValue asks the factory and stores its value; after an error
\* the factory is asked again and the value only returned.
Generate(c) ==
    /\ \/ at[c] = "generate" /\ Goto(c, "store")
       \/ at[c] = "direct" /\ Goto(c, "release")
    /\ UNCHANGED <<cached, lock, stamp, holds, tries, failures>>

Store(c) ==
    /\ at[c] = "store"
    /\ cached' = TRUE
    /\ Goto(c, "release")
    /\ UNCHANGED <<lock, stamp, holds, tries, failures>>

\* Mutant: the lock is deleted whoever signed it.
BugReleaseLock(c) ==
    /\ at[c] = "release"
    /\ Goto(c, "unlock") /\ UNCHANGED <<stamp, holds, tries>>
    /\ UNCHANGED <<cached, lock, failures>>

\* releaseLock: read the lock, and only if it carries the own stamp ...
ReleaseLock(c) ==
    /\ at[c] = "release"
    /\ IF lock = stamp[c]
       THEN Goto(c, "unlock") /\ UNCHANGED <<stamp, holds, tries>>
       ELSE Answered(c)
    /\ UNCHANGED <<cached, lock, failures>>

\* ... delete it.
Unlock(c) ==
    /\ at[c] = "unlock"
    /\ lock' = Free
    /\ Answered(c)
    /\ UNCHANGED <<cached, failures>>

Proceed(c) ==
    \/ Get(c) \/ AcquireLock(c) \/ WaitForValueOrGenerate(c) \/ Generate(c)
    \/ Store(c) \/ ReleaseLock(c) \/ Unlock(c)

\* A command or the factory fails: a failing look is a miss, getOrSet falls
\* back to the factory, set and releaseLock swallow their errors.
FillFails(c) ==
    /\ failures < MaxFailures /\ failures' = failures + 1
    /\ \/ at[c] = "get" /\ Sign(c)
       \/ at[c] \in {"lock", "generate"} /\ Goto(c, "direct") /\ UNCHANGED <<stamp, holds, tries>>
       \/ at[c] = "wait" /\ LookAgain(c) /\ UNCHANGED <<stamp, holds>>
       \/ at[c] \in {"direct", "store"} /\ Goto(c, "release") /\ UNCHANGED <<stamp, holds, tries>>
       \/ at[c] \in {"release", "unlock"} /\ Answered(c)
    /\ UNCHANGED <<cached, lock>>

\* The entry's time to live ends, or it is invalidated.
EntryGone ==
    /\ cached /\ cached' = FALSE
    /\ UNCHANGED <<lock, at, stamp, holds, tries, failures>>

\* lockTtl seconds have passed, however long the holder takes.
LockExpires ==
    /\ lock # Free /\ lock' = Free
    /\ UNCHANGED <<cached, at, stamp, holds, tries, failures>>

\* The process is replaced; its lock stays in Redis.
Restart ==
    /\ failures < MaxFailures /\ failures' = failures + 1
    /\ at' = [c \in Callers |-> "idle"]
    /\ stamp' = [c \in Callers |-> Free]
    /\ holds' = [c \in Callers |-> FALSE]
    /\ tries' = [c \in Callers |-> 0]
    /\ UNCHANGED <<cached, lock>>

-----------------------------------------------------------------------------

\* Calls that have signed for the lock.
Asking == {c \in Callers : stamp[c] # Free}
SameMoment == \E c, d \in Asking : c # d /\ stamp[c] = stamp[d]

Remember ==
    lapsed' = (/\ Asking' # {}
               /\ \/ lapsed
                  \/ SameMoment'
                  \/ lock # Free /\ lock' = Free /\ at' = at)

FillNext ==
    /\ \/ \E c \in Callers : GetOrSet(c) \/ Proceed(c) \/ FillFails(c)
       \/ EntryGone
       \/ LockExpires
       \/ Restart
    /\ Remember

FillSpec == FillInit /\ [][FillNext]_fillVars

\* A call in progress goes on: Redis and the factory answer or fail, and the
\* pauses between looks end.  Nothing makes locks or entries run out.
FairFillSpec == FillSpec /\ \A c \in Callers : WF_fillVars(Proceed(c) /\ Remember)

-----------------------------------------------------------------------------
(* Properties *)

Places == {"idle", "get", "lock", "wait", "generate", "direct", "store",
           "release", "unlock"}

\* Every variable has its type; a call past its first look has signed.
FillTypeOK ==
    /\ cached \in BOOLEAN
    /\ lock \in Stamps \cup {Free}
    /\ at \in [Callers -> Places]
    /\ stamp \in [Callers -> Stamps \cup {Free}]
    /\ \A c \in Callers : stamp[c] = Free <=> at[c] \in {"idle", "get"}
    /\ holds \in [Callers -> BOOLEAN]
    /\ tries \in [Callers -> 0..MaxTries]
    /\ failures \in 0..MaxFailures
    /\ lapsed \in BOOLEAN

\* At most one call in progress was given the lock, unless the lock has run out
\* under a call in progress or two calls signed in the same millisecond: as
\* long as neither happened, reading the lock and deleting it in two commands
\* takes it from nobody.
OneHolder ==
    ~ lapsed => \A c, d \in Callers : holds[c] /\ holds[d] => c = d

\* Every call is answered, whatever fails and even if the holder of the lock
\* never stores anything: waiters do not wait for each other.
EveryCallAnswered ==
    \A c \in Callers : at[c] # "idle" ~> at[c] = "idle"

=============================================================================
