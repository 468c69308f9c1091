--------------------------- MODULE Caching_proofs ---------------------------
(***************************************************************************)
(* Theorems about two protocols with Redis:                                *)
(* CacheFill, for any number of callers and stamps, and MenuCatalog, for any*)
(* number of requests, edits and refused commands.                         *)
(***************************************************************************)
EXTENDS MenuCatalog, CacheFill, TLAPS

-----------------------------------------------------------------------------
(* The lock of getOrSet.                                                   *)

\* The initial state is typed.
LEMMA FillInitType == FillInit => FillTypeOK
<1>1. 0 \in 0..MaxTries /\ 0 \in 0..MaxFailures
  BY FillAssumption
<1> QED
  BY <1>1, FillAssumption DEF FillInit, FillTypeOK, Places

\* What happens to a single call keeps the types: the call goes somewhere, and
\* has signed exactly if that is past its first look.
LEMMA CallTyped ==
    ASSUME FillTypeOK, NEW c \in Callers, NEW where \in Places, NEW s \in Stamps \cup {Free},
           s = Free <=> where \in {"idle", "get"},
           NEW h \in BOOLEAN, NEW n \in 0..MaxTries,
           at' = [at EXCEPT ![c] = where],
           stamp' = [stamp EXCEPT ![c] = s],
           holds' = [holds EXCEPT ![c] = h],
           tries' = [tries EXCEPT ![c] = n],
           cached' \in BOOLEAN, lock' \in Stamps \cup {Free},
           failures' \in 0..MaxFailures, lapsed' \in BOOLEAN
    PROVE  FillTypeOK'
  BY DEF FillTypeOK

\* A step of a call.
LEMMA MoveTyped ==
    ASSUME FillTypeOK, lapsed' \in BOOLEAN, NEW c \in Callers,
           \/ GetOrSet(c) \/ Proceed(c) \/ FillFails(c)
    PROVE  FillTypeOK'
<1> USE FillAssumption
<1>0. /\ at = [at EXCEPT ![c] = at[c]] /\ at[c] \in Places
      /\ stamp = [stamp EXCEPT ![c] = stamp[c]] /\ stamp[c] \in Stamps \cup {Free}
      /\ holds = [holds EXCEPT ![c] = holds[c]] /\ holds[c] \in BOOLEAN
      /\ tries = [tries EXCEPT ![c] = tries[c]] /\ tries[c] \in 0..MaxTries
      /\ cached \in BOOLEAN /\ lock \in Stamps \cup {Free} /\ failures \in 0..MaxFailures
      /\ 0 \in 0..MaxTries /\ MaxTries \in 0..MaxTries
      /\ stamp[c] = Free <=> at[c] \in {"idle", "get"}
  BY DEF FillTypeOK
<1>p. Places = {"idle", "get", "lock", "wait", "generate", "direct", "store",
                "release", "unlock"}
  BY DEF Places
<1>1. ASSUME Answered(c), cached' \in BOOLEAN, lock' \in Stamps \cup {Free},
             failures' \in 0..MaxFailures
      PROVE  FillTypeOK'
  BY <1>0, <1>1, <1>p, CallTyped DEF Answered, Goto
<1>2. ASSUME Sign(c), UNCHANGED <<cached, lock>>, failures' \in 0..MaxFailures
      PROVE  FillTypeOK'
  <2>1. PICK s \in Stamps : stamp' = [stamp EXCEPT ![c] = s]
    BY <1>2 DEF Sign
  <2> QED
    BY <1>0, <1>2, <2>1, <1>p, CallTyped DEF Sign, Goto
<1>3. ASSUME NEW where \in Places \ {"idle", "get"}, Goto(c, where),
             at[c] \notin {"idle", "get"}, UNCHANGED <<stamp, holds, tries>>,
             cached' \in BOOLEAN, lock' \in Stamps \cup {Free}, failures' \in 0..MaxFailures
      PROVE  FillTypeOK'
  BY <1>0, <1>3, CallTyped DEF Goto
<1>4. ASSUME LookAgain(c), UNCHANGED <<stamp, holds, cached, lock>>,
             failures' \in 0..MaxFailures
      PROVE  FillTypeOK'
  <2> DEFINE n == tries[c] - 1
  <2>1. n \in 0..MaxTries
    BY <1>0, <1>4 DEF LookAgain
  <2>2. tries' = [tries EXCEPT ![c] = n] /\ at' = [at EXCEPT ![c] = at[c]]
    BY <1>0, <1>4 DEF LookAgain
  <2> HIDE DEF n
  <2> QED
    BY <1>0, <1>4, <2>1, <2>2, CallTyped
<1>5. CASE GetOrSet(c)
  <2>1. stamp[c] = Free /\ "get" \in Places
    BY <1>0, <1>5, <1>p DEF GetOrSet
  <2>2. /\ at' = [at EXCEPT ![c] = "get"]
        /\ UNCHANGED <<cached, lock, stamp, holds, tries, failures>>
    BY <1>5 DEF GetOrSet, Goto
  <2> QED
    BY <1>0, <2>1, <2>2, CallTyped
<1>6. CASE Get(c)
  BY <1>0, <1>1, <1>2, <1>6 DEF Get
<1>7. CASE AcquireLock(c)
  <2>1. /\ stamp[c] \in Stamps \cup {Free} /\ stamp[c] # Free
        /\ "generate" \in Places /\ "wait" \in Places
        /\ UNCHANGED <<cached, stamp, failures>>
    BY <1>0, <1>7, <1>p DEF AcquireLock
  <2>2. CASE /\ lock' = stamp[c]
             /\ holds' = [holds EXCEPT ![c] = TRUE]
             /\ Goto(c, "generate")
             /\ UNCHANGED tries
    <3>1. at' = [at EXCEPT ![c] = "generate"] /\ tries' = [tries EXCEPT ![c] = tries[c]]
      BY <1>0, <2>2 DEF Goto
    <3> QED
      BY <1>0, <2>1, <2>2, <3>1, CallTyped
  <2>3. CASE /\ Goto(c, "wait")
             /\ tries' = [tries EXCEPT ![c] = MaxTries]
             /\ UNCHANGED <<lock, holds>>
    <3>1. at' = [at EXCEPT ![c] = "wait"] /\ holds' = [holds EXCEPT ![c] = holds[c]]
      BY <1>0, <2>3 DEF Goto
    <3> QED
      BY <1>0, <2>1, <2>3, <3>1, CallTyped
  <2> QED
    BY <1>7, <2>2, <2>3 DEF AcquireLock
<1>8. CASE WaitForValueOrGenerate(c)
  BY <1>0, <1>3, <1>4, <1>8, <1>p DEF WaitForValueOrGenerate
<1>9. CASE Generate(c)
  BY <1>0, <1>3, <1>9, <1>p DEF Generate
<1>10. CASE Store(c)
  BY <1>0, <1>3, <1>10, <1>p DEF Store
<1>11. CASE ReleaseLock(c)
  BY <1>0, <1>1, <1>3, <1>11, <1>p DEF ReleaseLock
<1>12. CASE Unlock(c)
  BY <1>0, <1>1, <1>12 DEF Unlock
<1>13. CASE FillFails(c)
  <2>1. failures' \in 0..MaxFailures /\ UNCHANGED <<cached, lock>>
    BY <1>0, <1>13 DEF FillFails
  <2> QED
    BY <1>0, <1>1, <1>2, <1>3, <1>4, <1>13, <1>p, <2>1 DEF FillFails
<1> QED
  BY <1>5, <1>6, <1>7, <1>8, <1>9, <1>10, <1>11, <1>12, <1>13 DEF Proceed

\* Whatever else happens keeps the types.
LEMMA FillNextType == FillTypeOK /\ [FillNext]_fillVars => FillTypeOK'
<1> SUFFICES ASSUME FillTypeOK, [FillNext]_fillVars
             PROVE  FillTypeOK'
  OBVIOUS
<1>1. CASE UNCHANGED fillVars
  BY <1>1 DEF fillVars, FillTypeOK
<1>2. CASE FillNext
  <2>0. lapsed' \in BOOLEAN
    BY <1>2 DEF FillNext, Remember
  <2>1. CASE EntryGone \/ LockExpires
    BY <2>0, <2>1 DEF EntryGone, LockExpires, FillTypeOK
  <2>2. CASE Restart
    BY <2>0, <2>2, FillAssumption DEF Restart, FillTypeOK, Places
  <2> QED
    BY <1>2, <2>0, <2>1, <2>2, MoveTyped DEF FillNext
<1> QED
  BY <1>1, <1>2

\* Every state of getOrSet's callers and of their lock is typed.
THEOREM FillTypeCorrect == FillSpec => []FillTypeOK
<1> QED
  BY FillInitType, FillNextType, PTL DEF FillSpec

-----------------------------------------------------------------------------
\* A call that was given the lock is still in progress.  As long as the lock has
\* not lapsed, the calls signed in different moments, and the lock in Redis
\* carries the stamp of the call that was given it, and of a call that has read
\* its own stamp there and is about to delete it.
HolderInv ==
    /\ \A c \in Callers : holds[c] => c \in Asking
    /\ ~ lapsed => /\ ~ SameMoment
                   /\ \A c \in Callers : holds[c] \/ at[c] = "unlock" => lock = stamp[c]

\* Calls that hold a lock that never lapsed hold the one lock there is.
LEMMA HolderInvSuffices == FillTypeOK /\ HolderInv => OneHolder
<1> SUFFICES ASSUME FillTypeOK, HolderInv, ~ lapsed,
                    NEW c \in Callers, NEW d \in Callers, holds[c], holds[d]
             PROVE  c = d
  BY DEF OneHolder
<1> QED
  BY DEF HolderInv, SameMoment

\* A call that ends takes its stamp and its claim with it.
LEMMA AnsweredHolder ==
    ASSUME FillTypeOK, HolderInv, Remember, NEW c \in Callers, Answered(c),
           lock' = lock \/ (lock' = Free /\ at[c] = "unlock")
    PROVE  HolderInv'
<1>1. /\ at' = [at EXCEPT ![c] = "idle"] /\ stamp' = [stamp EXCEPT ![c] = Free]
      /\ holds' = [holds EXCEPT ![c] = FALSE]
  BY DEF Answered, Goto
<1>2. \A d \in Callers : holds'[d] => (d \in Asking)'
  BY <1>1 DEF HolderInv, Asking, FillTypeOK
<1>3. ASSUME ~ lapsed'
      PROVE  /\ ~ SameMoment'
             /\ \A d \in Callers : holds'[d] \/ at'[d] = "unlock" => lock' = stamp'[d]
  <2>0. at'[c] = "idle" /\ stamp'[c] = Free /\ ~ holds'[c]
    BY <1>1 DEF FillTypeOK
  <2>1. CASE Asking' = {}
    <3>1. \A d \in Callers : stamp'[d] = Free
      BY <2>1 DEF Asking
    <3>2. \A d \in Callers \ {c} : at'[d] = at[d] /\ stamp'[d] = stamp[d] /\ holds'[d] = holds[d]
      BY <1>1 DEF FillTypeOK
    <3>3. \A d \in Callers \ {c} : ~ holds'[d] /\ at'[d] # "unlock"
      BY <3>1, <3>2 DEF HolderInv, Asking, FillTypeOK
    <3> QED
      BY <2>0, <2>1, <3>3 DEF SameMoment
  <2>2. CASE Asking' # {}
    <3>1. ~ lapsed /\ ~ SameMoment'
      BY <1>3, <2>2 DEF Remember
    <3>2. ASSUME NEW d \in Callers \ {c}, holds[d] \/ at[d] = "unlock"
          PROVE  lock' = stamp[d]
      <4>1. lock = stamp[d]
        BY <3>1, <3>2 DEF HolderInv
      <4>2. stamp[d] # Free
        BY <3>2 DEF HolderInv, Asking, FillTypeOK
      <4>3. CASE at[c] = "unlock"
        <5>1. lock = stamp[c] /\ stamp[c] # Free
          BY <3>1, <4>3 DEF HolderInv, FillTypeOK
        <5> QED
          BY <3>1, <4>1, <4>2, <5>1 DEF HolderInv, SameMoment, Asking
      <4> QED
        BY <4>1, <4>3
    <3> QED
      BY <1>1, <2>0, <3>1, <3>2 DEF FillTypeOK
  <2> QED
    BY <2>1, <2>2
<1> QED
  BY <1>2, <1>3 DEF HolderInv

\* What a call may do to the lock and to what it remembers of it, besides ending.
LEMMA MovedHolder ==
    ASSUME FillTypeOK, HolderInv, Remember, NEW c \in Callers, NEW where \in Places,
           at' = [at EXCEPT ![c] = where], where # "idle",
           UNCHANGED <<lock, holds>>,
           \/ UNCHANGED stamp
           \/ stamp[c] = Free /\ \E s \in Stamps : stamp' = [stamp EXCEPT ![c] = s],
           where = "unlock" => UNCHANGED stamp /\ lock = stamp[c]
    PROVE  HolderInv'
<1>1. \A d \in Callers : stamp[d] # Free => stamp'[d] = stamp[d]
  BY DEF FillTypeOK
<1>2. \A d \in Callers : holds'[d] => (d \in Asking)'
  BY <1>1 DEF HolderInv, Asking
<1>3. ASSUME ~ lapsed'
      PROVE  /\ ~ SameMoment'
             /\ \A d \in Callers : holds'[d] \/ at'[d] = "unlock" => lock' = stamp'[d]
  <2>1. CASE Asking' = {}
    <3>1. \A d \in Callers : stamp'[d] = Free
      BY <2>1 DEF Asking
    <3>2. \A d \in Callers : ~ holds'[d]
      BY <1>2, <2>1
    <3>3. \A d \in Callers : at'[d] = "unlock" => lock' = stamp'[d]
      BY <1>1, <3>1 DEF FillTypeOK
    <3> QED
      BY <2>1, <3>2, <3>3 DEF SameMoment
  <2>2. CASE Asking' # {}
    <3>1. ~ lapsed /\ ~ SameMoment'
      BY <1>3, <2>2 DEF Remember
    <3>2. \A d \in Callers : holds[d] \/ at[d] = "unlock" => stamp[d] # Free
      BY DEF HolderInv, Asking, FillTypeOK
    <3>3. \A d \in Callers : at'[d] = "unlock" => at[d] = "unlock" \/ (d = c /\ where = "unlock")
      BY DEF FillTypeOK
    <3> QED
      BY <1>1, <3>1, <3>2, <3>3 DEF HolderInv
  <2> QED
    BY <2>1, <2>2
<1> QED
  BY <1>2, <1>3 DEF HolderInv

\* The lock is given only while it is free, and so while nobody relies on it.
LEMMA AcquireHolder ==
    ASSUME FillTypeOK, HolderInv, Remember, NEW c \in Callers, AcquireLock(c)
    PROVE  HolderInv'
<1>1. CASE lock # Free
  <2>1. at' = [at EXCEPT ![c] = "wait"] /\ UNCHANGED <<lock, holds, stamp>> /\ "wait" \in Places
    BY <1>1 DEF AcquireLock, Goto, Places
  <2> QED
    BY <2>1, MovedHolder
<1>2. CASE lock = Free
  <2>1. /\ lock' = stamp[c] /\ holds' = [holds EXCEPT ![c] = TRUE]
        /\ at' = [at EXCEPT ![c] = "generate"] /\ UNCHANGED stamp
        /\ stamp[c] # Free
    BY <1>2 DEF AcquireLock, Goto, FillTypeOK
  <2>2. \A d \in Callers : holds'[d] => (d \in Asking)'
    BY <2>1 DEF HolderInv, Asking, FillTypeOK
  <2>3. c \in Asking'
    BY <2>1 DEF Asking
  <2>4. ASSUME ~ lapsed'
        PROVE  /\ ~ SameMoment'
               /\ \A d \in Callers : holds'[d] \/ at'[d] = "unlock" => lock' = stamp'[d]
    <3>1. ~ lapsed /\ ~ SameMoment'
      BY <2>3, <2>4 DEF Remember
    <3>2. \A d \in Callers : ~ holds[d] /\ at[d] # "unlock"
      BY <1>2, <3>1 DEF HolderInv, Asking, FillTypeOK
    <3> QED
      BY <2>1, <3>1, <3>2 DEF FillTypeOK
  <2> QED
    BY <2>2, <2>4 DEF HolderInv
<1> QED
  BY <1>1, <1>2

\* Every step of a call.
LEMMA CallHolder ==
    ASSUME FillTypeOK, HolderInv, Remember, NEW c \in Callers,
           \/ GetOrSet(c) \/ Proceed(c) \/ FillFails(c)
    PROVE  HolderInv'
<1>p. Places = {"idle", "get", "lock", "wait", "generate", "direct", "store",
                "release", "unlock"}
  BY DEF Places
<1>1. ASSUME Answered(c), UNCHANGED lock
      PROVE  HolderInv'
  BY <1>1, AnsweredHolder
<1>2. ASSUME NEW where \in Places \ {"idle", "unlock"}, Goto(c, where),
             UNCHANGED <<lock, holds, stamp>>
      PROVE  HolderInv'
  BY <1>2, MovedHolder DEF Goto
<1>3. ASSUME Sign(c), at[c] = "get", UNCHANGED lock
      PROVE  HolderInv'
  BY <1>3, <1>p, MovedHolder DEF Sign, Goto, FillTypeOK
<1>4. ASSUME at[c] = "wait", UNCHANGED <<at, lock, holds, stamp>>
      PROVE  HolderInv'
  <2>1. at' = [at EXCEPT ![c] = "wait"]
    BY <1>4 DEF FillTypeOK
  <2> QED
    BY <1>4, <1>p, <2>1, MovedHolder
<1>5. CASE GetOrSet(c)
  BY <1>2, <1>5, <1>p DEF GetOrSet
<1>6. CASE Get(c)
  BY <1>1, <1>3, <1>6 DEF Get
<1>7. CASE AcquireLock(c)
  BY <1>7, AcquireHolder
<1>8. CASE WaitForValueOrGenerate(c)
  BY <1>2, <1>4, <1>8, <1>p DEF WaitForValueOrGenerate, LookAgain
<1>9. CASE Generate(c) \/ Store(c)
  BY <1>2, <1>9, <1>p DEF Generate, Store
<1>10. CASE ReleaseLock(c)
  <2>1. CASE lock = stamp[c]
    BY <1>10, <1>p, <2>1, MovedHolder DEF ReleaseLock, Goto
  <2> QED
    BY <1>1, <1>10, <2>1 DEF ReleaseLock
<1>11. CASE Unlock(c)
  BY <1>11, AnsweredHolder DEF Unlock
<1>12. CASE FillFails(c)
  BY <1>1, <1>2, <1>3, <1>4, <1>12, <1>p DEF FillFails, LookAgain
<1> QED
  BY <1>5, <1>6, <1>7, <1>8, <1>9, <1>10, <1>11, <1>12 DEF Proceed

\* Every step keeps what is said of the holders.
LEMMA HolderNext ==
    ASSUME FillTypeOK, HolderInv, [FillNext]_fillVars
    PROVE  HolderInv'
<1>1. CASE UNCHANGED fillVars
  BY <1>1 DEF fillVars, HolderInv, Asking, SameMoment
<1>2. CASE FillNext
  <2>0. Remember
    BY <1>2 DEF FillNext
  <2>1. CASE EntryGone
    <3>1. UNCHANGED <<lock, at, stamp, holds>>
      BY <2>1 DEF EntryGone
    <3>2. lapsed' = (Asking # {} /\ (lapsed \/ SameMoment \/ (lock # Free /\ lock = Free)))
      BY <2>0, <3>1 DEF Remember, Asking, SameMoment
    <3> QED
      BY <3>1, <3>2 DEF HolderInv, SameMoment, Asking, FillTypeOK
  <2>2. CASE LockExpires
    <3>1. UNCHANGED <<at, stamp, holds>> /\ lapsed' = (Asking' # {})
      BY <2>0, <2>2 DEF LockExpires, Remember
    <3> QED
      BY <3>1 DEF HolderInv, SameMoment, Asking, FillTypeOK
  <2>3. CASE Restart
    BY <2>3 DEF Restart, HolderInv, SameMoment, Asking
  <2> QED
    BY <1>2, <2>0, <2>1, <2>2, <2>3, CallHolder DEF FillNext
<1> QED
  BY <1>1, <1>2

\* While no lock lapses and no two calls sign alike, acquireLock makes one call at
\* a time the one that generates.
THEOREM LockHasOneHolder == FillSpec => []OneHolder
<1>1. FillInit => HolderInv
  BY DEF FillInit, HolderInv, Asking, SameMoment
<1> QED
  BY <1>1, HolderNext, HolderInvSuffices, FillTypeCorrect, PTL DEF FillSpec

-----------------------------------------------------------------------------
(* Menus.                                                                  *)

\* What holds of the commands on their way, q being their sequence: a request
\* awaits only its own command; the version a reader asks for is no older than
\* what Redis had when it began; stores carry menus in the order they were
\* stored in the repository, none older than what Redis has, and the last of
\* them carries the current one.
Matching(q, waits) ==
    /\ \A i, j \in 1..Len(q) : q[i].who = q[j].who => i = j
    /\ \A i \in 1..Len(q) : waits[q[i].who] = q[i].op

Looking(q, from) ==
    \A i \in 1..Len(q) : q[i].op = "getVersion" => q[i].menu >= from[q[i].who]

Storing(q, old, new) ==
    /\ \A i \in 1..Len(q) : q[i].op = "set" => q[i].menu \in 1..new /\ q[i].menu >= old
    /\ \A i, j \in 1..Len(q) :
          i < j /\ q[i].op = "set" /\ q[j].op = "set" => q[i].menu <= q[j].menu
    /\ \A i \in 1..Len(q) : q[i].op = "set" =>
          \E j \in 1..Len(q) : q[j].op = "set" /\ q[j].menu = new

\* What a request past its looks has is no older than what Redis had.
Fresh ==
    \A r \in Requests :
        pc[r] \notin {"getLatest", "getVersion"} /\ got[r] # Nothing
            => got[r] >= floor[r]

Settled ==
    lost \/ newest = version \/ \E i \in 1..Len(sent) : sent[i].op = "set"

IInv ==
    /\ TypeOK
    /\ Matching(sent, pc)
    /\ Looking(sent, floor)
    /\ Storing(sent, newest, version)
    /\ latest \in {Nothing, newest}
    /\ Fresh
    /\ Settled

USE DEF Nothing, Versions, Ops

-----------------------------------------------------------------------------
\* Sequences of commands.

\* What follows the first command.
LEMMA TailOfCommands ==
    ASSUME NEW q \in Seq(Commands), q # <<>>
    PROVE  /\ Tail(q) \in Seq(Commands)
           /\ Head(q) = q[1] /\ Head(q) \in Commands
           /\ Len(q) \in Nat \ {0} /\ Len(Tail(q)) = Len(q) - 1
           /\ \A i \in 1..Len(Tail(q)) : Tail(q)[i] = q[i + 1] /\ i + 1 \in 1..Len(q)
           /\ \A i \in 2..Len(q) : i - 1 \in 1..Len(Tail(q)) /\ Tail(q)[i - 1] = q[i]
<1> QED
  OBVIOUS

\* A command more.
LEMMA AppendToCommands ==
    ASSUME NEW q \in Seq(Commands), NEW c \in Commands
    PROVE  /\ Append(q, c) \in Seq(Commands)
           /\ Len(q) \in Nat /\ Len(Append(q, c)) = Len(q) + 1
           /\ \A i \in 1..Len(q) : Append(q, c)[i] = q[i]
           /\ Append(q, c)[Len(q) + 1] = c
<1> QED
  OBVIOUS

\* A request without a command sends one and waits for it.
LEMMA AwaitMatches ==
    ASSUME NEW q \in Seq(Commands), NEW waits \in [Requests -> Ops \cup {"done"}],
           Matching(q, waits), NEW c \in Commands,
           \A i \in 1..Len(q) : q[i].who # c.who
    PROVE  Matching(Append(q, c), [waits EXCEPT ![c.who] = c.op])
<1> DEFINE p == Append(q, c)
<1>0. /\ Len(q) \in Nat /\ Len(p) = Len(q) + 1
      /\ \A i \in 1..Len(q) : p[i] = q[i]
      /\ p[Len(q) + 1] = c
  BY AppendToCommands
<1>2. \A i \in 1..Len(q) : q[i] \in Commands
  OBVIOUS
<1> HIDE DEF p
<1>1. \A i \in 1..Len(p) :
         (i \in 1..Len(q) /\ p[i] = q[i]) \/ (i = Len(q) + 1 /\ p[i] = c)
  BY <1>0
<1>3. \A i, j \in 1..Len(p) : p[i].who = p[j].who => i = j
  BY <1>1 DEF Matching
<1>4. c.who \in Requests /\ c.op \in Ops
  BY DEF Commands
<1>5. \A i \in 1..Len(p) : [waits EXCEPT ![c.who] = c.op][p[i].who] = p[i].op
  BY <1>1, <1>2, <1>4 DEF Matching, Commands
<1> QED
  BY <1>3, <1>5 DEF Matching, p

\* A request without a command waits for something else, or for nothing.
LEMMA OthersMatch ==
    ASSUME NEW q \in Seq(Commands), NEW waits \in [Requests -> Ops \cup {"done"}],
           Matching(q, waits), NEW r \in Requests, NEW op,
           \A i \in 1..Len(q) : q[i].who # r
    PROVE  Matching(q, [waits EXCEPT ![r] = op])
<1>1. \A i \in 1..Len(q) : q[i] \in Commands
  OBVIOUS
<1> QED
  BY <1>1 DEF Matching, Commands

\* The commands behind the first are other requests'.
LEMMA TailMatches ==
    ASSUME NEW q \in Seq(Commands), q # <<>>, NEW waits, Matching(q, waits)
    PROVE  /\ Matching(Tail(q), waits)
           /\ \A i \in 1..Len(Tail(q)) : Tail(q)[i].who # Head(q).who
           /\ waits[Head(q).who] = Head(q).op
<1>1. 1 \in 1..Len(q)
  BY TailOfCommands
<1> QED
  BY <1>1, TailOfCommands DEF Matching

\* The commands on their way stay what they are when one is answered ...
LEMMA TailLooks ==
    ASSUME NEW q \in Seq(Commands), q # <<>>, NEW from, Looking(q, from)
    PROVE  Looking(Tail(q), from)
<1> QED
  BY TailOfCommands DEF Looking

\* ... and when one is sent.
LEMMA AppendLooks ==
    ASSUME NEW q \in Seq(Commands), NEW from, Looking(q, from), NEW c \in Commands,
           c.op = "getVersion" => c.menu >= from[c.who]
    PROVE  Looking(Append(q, c), from)
<1> DEFINE p == Append(q, c)
<1>0. /\ Len(q) \in Nat /\ Len(p) = Len(q) + 1
      /\ \A i \in 1..Len(q) : p[i] = q[i]
      /\ p[Len(q) + 1] = c
  BY AppendToCommands
<1> HIDE DEF p
<1>1. \A i \in 1..Len(p) :
         (i \in 1..Len(q) /\ p[i] = q[i]) \/ (i = Len(q) + 1 /\ p[i] = c)
  BY <1>0
<1>2. Looking(p, from)
  BY <1>1 DEF Looking
<1> QED
  BY <1>2 DEF p

\* A request begins without commands.
LEMMA OthersLook ==
    ASSUME NEW q \in Seq(Commands), NEW from \in [Requests -> Nat], Looking(q, from),
           NEW r \in Requests, NEW n, \A i \in 1..Len(q) : q[i].who # r
    PROVE  Looking(q, [from EXCEPT ![r] = n])
<1>1. \A i \in 1..Len(q) : q[i] \in Commands
  OBVIOUS
<1> QED
  BY <1>1 DEF Looking, Commands

\* Once the first command is answered the stores behind it are in order; a first
\* store is no newer than they.
LEMMA TailStores ==
    ASSUME NEW q \in Seq(Commands), q # <<>>, NEW old \in Nat, NEW new \in Nat,
           Storing(q, old, new)
    PROVE  /\ Storing(Tail(q), old, new)
           /\ Head(q).op = "set" =>
                 /\ Head(q).menu \in 1..new /\ Head(q).menu >= old
                 /\ Storing(Tail(q), Head(q).menu, new)
                 /\ \/ Head(q).menu = new
                    \/ \E j \in 1..Len(Tail(q)) : Tail(q)[j].op = "set"
<1> DEFINE t == Tail(q)
<1>0. /\ Len(q) \in Nat \ {0} /\ Len(t) = Len(q) - 1 /\ Head(q) = q[1]
      /\ \A i \in 1..Len(t) : t[i] = q[i + 1] /\ i + 1 \in 1..Len(q)
      /\ \A i \in 2..Len(q) : i - 1 \in 1..Len(t) /\ t[i - 1] = q[i]
  BY TailOfCommands
<1>a. \A i \in 1..Len(q) : q[i] \in Commands
  OBVIOUS
<1>b. \A i \in 1..Len(q) : q[i].menu \in Nat
  BY <1>a, CatalogAssumption DEF Commands
<1> HIDE DEF t
<1>1. \A i \in 1..Len(t) : t[i].op = "set" => t[i].menu \in 1..new /\ t[i].menu >= old
  BY <1>0 DEF Storing
<1>2. \A i, j \in 1..Len(t) :
         i < j /\ t[i].op = "set" /\ t[j].op = "set" => t[i].menu <= t[j].menu
  <2> SUFFICES ASSUME NEW i \in 1..Len(t), NEW j \in 1..Len(t),
                      i < j, t[i].op = "set", t[j].op = "set"
               PROVE  t[i].menu <= t[j].menu
    OBVIOUS
  <2>1. i + 1 \in 1..Len(q) /\ j + 1 \in 1..Len(q) /\ i + 1 < j + 1
    BY <1>0
  <2> QED
    BY <2>1, <1>0 DEF Storing
<1>3. \A i \in 1..Len(t) : t[i].op = "set" =>
         \E j \in 1..Len(t) : t[j].op = "set" /\ t[j].menu = new
  <2> SUFFICES ASSUME NEW i \in 1..Len(t), t[i].op = "set"
               PROVE  \E j \in 1..Len(t) : t[j].op = "set" /\ t[j].menu = new
    OBVIOUS
  <2>1. i + 1 \in 1..Len(q) /\ q[i + 1] = t[i] /\ 1 \in 1..Len(q) /\ 1 < i + 1
    BY <1>0
  <2>2. PICK j \in 1..Len(q) : q[j].op = "set" /\ q[j].menu = new
    BY <2>1 DEF Storing
  <2>3. CASE j = 1
    <3>1. q[1].menu <= t[i].menu /\ t[i].menu \in 1..new
      BY <2>1, <2>2, <2>3 DEF Storing
    <3>2. t[i].menu = new
      BY <3>1, <2>2, <2>3
    <3> QED
      BY <3>2
  <2>4. CASE j # 1
    <3>1. j \in 2..Len(q)
      BY <2>4, <1>0
    <3> QED
      BY <3>1, <2>2, <1>0
  <2> QED
    BY <2>3, <2>4
<1>4. Storing(t, old, new)
  BY <1>1, <1>2, <1>3 DEF Storing
<1>5. ASSUME Head(q).op = "set"
      PROVE  /\ Head(q).menu \in 1..new /\ Head(q).menu >= old
             /\ Storing(t, Head(q).menu, new)
             /\ \/ Head(q).menu = new
                \/ \E j \in 1..Len(t) : t[j].op = "set"
  <2>1. 1 \in 1..Len(q) /\ Head(q) = q[1]
    BY <1>0
  <2>2. q[1].menu \in 1..new /\ q[1].menu >= old
    BY <2>1, <1>5 DEF Storing
  <2>3. ASSUME NEW i \in 1..Len(t), t[i].op = "set"
        PROVE  t[i].menu >= q[1].menu
    <3>1. i + 1 \in 1..Len(q) /\ q[i + 1] = t[i] /\ 1 < i + 1
      BY <1>0
    <3>2. q[1].menu <= q[i + 1].menu
      BY <3>1, <2>1, <2>3, <1>5 DEF Storing
    <3> QED
      BY <3>1, <3>2, <2>1, <1>b
  <2>4. Storing(t, q[1].menu, new)
    BY <1>1, <1>2, <1>3, <2>3 DEF Storing
  <2>5. PICK j \in 1..Len(q) : q[j].op = "set" /\ q[j].menu = new
    BY <2>1, <1>5 DEF Storing
  <2>6. q[1].menu = new \/ \E k \in 1..Len(t) : t[k].op = "set"
    <3>1. CASE j = 1
      BY <3>1, <2>5
    <3>2. CASE j # 1
      <4>1. j - 1 \in 1..Len(t) /\ t[j - 1] = q[j]
        BY <3>2, <1>0
      <4> QED
        BY <4>1, <2>5
    <3> QED
      BY <3>1, <3>2
  <2> QED
    BY <2>1, <2>2, <2>4, <2>6
<1> QED
  BY <1>4, <1>5 DEF t

\* A store that is sent carries the current menu.
LEMMA AppendStores ==
    ASSUME NEW q \in Seq(Commands), NEW old \in Nat, NEW new \in Nat,
           Storing(q, old, new), NEW c \in Commands,
           NEW cur \in Nat, new <= cur, old <= cur,
           c.op = "set" => c.menu = cur /\ cur # 0,
           c.op # "set" => cur = new
    PROVE  Storing(Append(q, c), old, cur)
<1> DEFINE p == Append(q, c)
<1>0. /\ Len(q) \in Nat /\ Len(p) = Len(q) + 1
      /\ \A i \in 1..Len(q) : p[i] = q[i]
      /\ p[Len(q) + 1] = c
  BY AppendToCommands
<1> HIDE DEF p
<1>1. \A i \in 1..Len(p) :
         (i \in 1..Len(q) /\ p[i] = q[i]) \/ (i = Len(q) + 1 /\ p[i] = c)
  BY <1>0
<1>2. \A i \in 1..Len(p) : p[i].op = "set" => p[i].menu \in 1..cur /\ p[i].menu >= old
  BY <1>1 DEF Storing
<1>3. \A i, j \in 1..Len(p) :
         i < j /\ p[i].op = "set" /\ p[j].op = "set" => p[i].menu <= p[j].menu
  <2> SUFFICES ASSUME NEW i \in 1..Len(p), NEW j \in 1..Len(p),
                      i < j, p[i].op = "set", p[j].op = "set"
               PROVE  p[i].menu <= p[j].menu
    OBVIOUS
  <2>1. i \in 1..Len(q) /\ p[i] = q[i]
    BY <1>0, <1>1
  <2>2. CASE j \in 1..Len(q) /\ p[j] = q[j]
    BY <2>1, <2>2 DEF Storing
  <2>3. CASE j = Len(q) + 1 /\ p[j] = c
    <3>1. p[i].menu \in 1..new
      BY <2>1 DEF Storing
    <3>2. p[j].menu = cur
      BY <2>3
    <3> QED
      BY <3>1, <3>2
  <2> QED
    BY <2>2, <2>3, <1>1
<1>4. \A i \in 1..Len(p) : p[i].op = "set" =>
         \E j \in 1..Len(p) : p[j].op = "set" /\ p[j].menu = cur
  <2>1. CASE c.op = "set"
    <3>1. Len(q) + 1 \in 1..Len(p)
      BY <1>0
    <3> QED
      BY <3>1, <2>1, <1>0
  <2>2. CASE c.op # "set"
    <3> SUFFICES ASSUME NEW i \in 1..Len(p), p[i].op = "set"
                 PROVE  \E j \in 1..Len(p) : p[j].op = "set" /\ p[j].menu = cur
      OBVIOUS
    <3>1. i \in 1..Len(q) /\ q[i].op = "set"
      BY <1>1, <2>2
    <3>2. PICK j \in 1..Len(q) : q[j].op = "set" /\ q[j].menu = new
      BY <3>1 DEF Storing
    <3>3. j \in 1..Len(p) /\ p[j] = q[j]
      BY <1>0
    <3> QED
      BY <3>2, <3>3, <2>2
  <2> QED
    BY <2>1, <2>2
<1>5. Storing(p, old, cur)
  BY <1>2, <1>3, <1>4 DEF Storing
<1> QED
  BY <1>5 DEF p

-----------------------------------------------------------------------------
\* What every step has to re-establish of the commands, whatever it did to the
\* rest.

\* The first command is answered and its request awaits nothing.
LEMMA AnswerKeeps ==
    ASSUME IInv, sent # <<>>, Answer(Head(sent).who, Tail(sent))
    PROVE  /\ sent' \in Seq(Commands)
           /\ pc' \in [Requests -> Ops \cup {"done"}]
           /\ Matching(sent', pc')
           /\ Looking(sent', floor)
           /\ Storing(sent', newest, version)
<1>1. sent \in Seq(Commands) /\ pc \in [Requests -> Ops \cup {"done"}]
  BY DEF IInv, TypeOK
<1>2. newest \in Nat /\ version \in Nat
  BY CatalogAssumption DEF IInv, TypeOK
<1>3. Tail(sent) \in Seq(Commands) /\ Head(sent) \in Commands
  BY <1>1, TailOfCommands
<1>4. Head(sent).who \in Requests
  BY <1>3 DEF Commands
<1>5. Matching(Tail(sent), pc)
  BY <1>1, TailMatches DEF IInv
<1>6. \A i \in 1..Len(Tail(sent)) : Tail(sent)[i].who # Head(sent).who
  BY <1>1, TailMatches DEF IInv
<1>7. Matching(Tail(sent), [pc EXCEPT ![Head(sent).who] = "done"])
  BY <1>1, <1>3, <1>4, <1>5, <1>6, OthersMatch
<1>8. Looking(Tail(sent), floor)
  BY <1>1, TailLooks DEF IInv
<1>9. Storing(Tail(sent), newest, version)
  BY <1>1, <1>2, TailStores DEF IInv
<1> QED
  BY <1>1, <1>3, <1>4, <1>7, <1>8, <1>9 DEF Answer

\* The first command is answered and its request sends another.
LEMMA NextCommandKeeps ==
    ASSUME IInv, sent # <<>>, NEW op \in Ops, NEW v \in 0..MaxVersion,
           Await(Head(sent).who, op, v, Tail(sent)),
           op = "getVersion" => v >= floor[Head(sent).who],
           op = "set" => v = version /\ version # 0
    PROVE  /\ sent' \in Seq(Commands)
           /\ pc' \in [Requests -> Ops \cup {"done"}]
           /\ Matching(sent', pc')
           /\ Looking(sent', floor)
           /\ Storing(sent', newest, version)
<1> DEFINE c == Command(Head(sent).who, op, v)
           q == Tail(sent)
<1>1. sent \in Seq(Commands) /\ pc \in [Requests -> Ops \cup {"done"}]
  BY DEF IInv, TypeOK
<1>2. newest \in Nat /\ version \in 0..MaxVersion /\ version \in Nat /\ newest <= version
  BY CatalogAssumption DEF IInv, TypeOK
<1>3. q \in Seq(Commands) /\ Head(sent) \in Commands
  BY <1>1, TailOfCommands
<1>4. Head(sent).who \in Requests
  BY <1>3 DEF Commands
<1>b. /\ c \in Commands /\ c.who = Head(sent).who /\ c.op = op /\ c.menu = v
  BY <1>4 DEF Command, Commands
<1>5. /\ Matching(q, pc)
      /\ \A i \in 1..Len(q) : q[i].who # Head(sent).who
  BY <1>1, TailMatches DEF IInv
<1>6. Looking(q, floor)
  BY <1>1, TailLooks DEF IInv
<1>7. Storing(q, newest, version)
  BY <1>1, <1>2, TailStores DEF IInv
<1>8. sent' = Append(q, c) /\ pc' = [pc EXCEPT ![c.who] = c.op]
  BY <1>b DEF Await
<1> HIDE DEF c, q
<1>9. sent' \in Seq(Commands)
  BY <1>3, <1>b, <1>8, AppendToCommands
<1>10. pc' \in [Requests -> Ops \cup {"done"}]
  BY <1>1, <1>4, <1>8, <1>b
<1>11. Matching(sent', pc')
  BY <1>1, <1>3, <1>5, <1>8, <1>b, AwaitMatches
<1>12. Looking(sent', floor)
  BY <1>3, <1>6, <1>8, <1>b, AppendLooks
<1>13. Storing(sent', newest, version)
  BY <1>2, <1>3, <1>7, <1>8, <1>b, AppendStores
<1> QED
  BY <1>9, <1>10, <1>11, <1>12, <1>13

\* A request that begins has no command on its way.
LEMMA BeginningIsAlone ==
    ASSUME IInv, NEW r \in Requests, pc[r] = "done"
    PROVE  \A i \in 1..Len(sent) : sent[i].who # r
<1>1. \A i \in 1..Len(sent) : sent[i] \in Commands
  BY DEF IInv, TypeOK
<1> QED
  BY <1>1 DEF IInv, Matching, Commands

\* What FallBack does keeps the commands in order and gives its request the
\* current menu.
LEMMA FallBackKeeps ==
    ASSUME IInv, sent # <<>>, FallBack(Head(sent).who, Tail(sent))
    PROVE  /\ sent' \in Seq(Commands)
           /\ pc' \in [Requests -> Ops \cup {"done"}]
           /\ Matching(sent', pc')
           /\ Looking(sent', floor)
           /\ Storing(sent', newest, version)
           /\ got' = [got EXCEPT ![Head(sent).who] = version]
<1>0. version \in 0..MaxVersion
  BY DEF IInv, TypeOK
<1>1. CASE version = Nothing
  BY <1>1, AnswerKeeps DEF FallBack
<1>2. CASE version # Nothing
  <2>1. Await(Head(sent).who, "set", version, Tail(sent))
    BY <1>2 DEF FallBack
  <2> QED
    BY <1>0, <1>2, <2>1, NextCommandKeeps DEF FallBack
<1> QED
  BY <1>1, <1>2

\* A store that was on its way still is after a look was answered.
LEMMA StaysSettled ==
    ASSUME IInv, sent # <<>>, Head(sent).op # "set", UNCHANGED <<version, newest, lost>>,
           sent' = Tail(sent) \/ \E c \in Commands : sent' = Append(Tail(sent), c)
    PROVE  Settled'
<1>0. sent \in Seq(Commands)
  BY DEF IInv, TypeOK
<1>1. CASE \E i \in 1..Len(sent) : sent[i].op = "set"
  <2>1. PICK i \in 1..Len(sent) : sent[i].op = "set"
    BY <1>1
  <2>2. i \in 2..Len(sent)
    BY <1>0, <2>1, TailOfCommands
  <2>3. i - 1 \in 1..Len(Tail(sent)) /\ Tail(sent)[i - 1].op = "set"
    BY <1>0, <2>1, <2>2, TailOfCommands
  <2>4. Tail(sent) \in Seq(Commands)
    BY <1>0, TailOfCommands
  <2>5. i - 1 \in 1..Len(sent') /\ sent'[i - 1].op = "set"
    <3>1. CASE sent' = Tail(sent)
      BY <2>3, <3>1
    <3>2. CASE \E c \in Commands : sent' = Append(Tail(sent), c)
      <4>1. PICK c \in Commands : sent' = Append(Tail(sent), c)
        BY <3>2
      <4> QED
        BY <2>3, <2>4, <4>1, AppendToCommands
    <3> QED
      BY <3>1, <3>2
  <2> QED
    BY <2>5 DEF Settled
<1>2. CASE lost \/ newest = version
  BY <1>2 DEF Settled
<1> QED
  BY <1>1, <1>2 DEF IInv, Settled

\* What the answer to a look has to establish apart from the commands: the
\* request still looks, or has a menu no older than when it began.
LEMMA LookKeeps ==
    ASSUME IInv, sent # <<>>, Head(sent).op # "set",
           UNCHANGED <<version, latest, kept, newest, lost, floor>>,
           faults' \in 0..MaxFaults,
           NEW op \in Ops \cup {"done"},
           \/ op = "done" /\ Answer(Head(sent).who, Tail(sent))
           \/ op # "done" /\ \E v \in 0..MaxVersion :
                  /\ Await(Head(sent).who, op, v, Tail(sent))
                  /\ op = "getVersion" => v >= floor[Head(sent).who]
                  /\ op = "set" => v = version /\ version # 0,
           NEW m \in 0..version,
           got' = [got EXCEPT ![Head(sent).who] = m],
           op \notin {"getLatest", "getVersion"} => m = Nothing \/ m >= floor[Head(sent).who]
    PROVE  IInv'
<1>1. sent \in Seq(Commands) /\ pc \in [Requests -> Ops \cup {"done"}]
  BY DEF IInv, TypeOK
<1>2. Head(sent) \in Commands /\ Tail(sent) \in Seq(Commands)
  BY <1>1, TailOfCommands
<1>3. Head(sent).who \in Requests
  BY <1>2 DEF Commands
<1>4. /\ sent' \in Seq(Commands)
      /\ pc' \in [Requests -> Ops \cup {"done"}]
      /\ Matching(sent', pc')
      /\ Looking(sent', floor)
      /\ Storing(sent', newest, version)
  <2>1. CASE op = "done"
    BY <2>1, AnswerKeeps
  <2>2. CASE op # "done"
    BY <2>2, NextCommandKeeps
  <2> QED
    BY <2>1, <2>2
<1>5. /\ pc' = [pc EXCEPT ![Head(sent).who] = op]
      /\ sent' = Tail(sent) \/ \E c \in Commands : sent' = Append(Tail(sent), c)
  <2>1. CASE op = "done"
    BY <2>1 DEF Answer
  <2>2. CASE op # "done"
    <3>1. PICK v \in 0..MaxVersion : Await(Head(sent).who, op, v, Tail(sent))
      BY <2>2
    <3>2. Command(Head(sent).who, op, v) \in Commands
      BY <1>3, <2>2 DEF Command, Commands
    <3> QED
      BY <3>1, <3>2 DEF Await
  <2> QED
    BY <2>1, <2>2
<1>6. Settled'
  BY <1>5, StaysSettled
<1>7. got' \in [Requests -> 0..version]
  BY DEF IInv, TypeOK
<1>8. TypeOK'
  BY <1>4, <1>7 DEF IInv, TypeOK
<1>9. Fresh'
  <2> SUFFICES ASSUME NEW r \in Requests,
                      pc'[r] \notin {"getLatest", "getVersion"}, got'[r] # Nothing
               PROVE  got'[r] >= floor[r]
    BY DEF Fresh
  <2>1. CASE r = Head(sent).who
    <3>1. pc'[r] = op /\ got'[r] = m
      BY <1>1, <1>3, <1>5, <2>1 DEF IInv, TypeOK
    <3> QED
      BY <2>1, <3>1
  <2>2. CASE r # Head(sent).who
    <3>1. pc'[r] = pc[r] /\ got'[r] = got[r]
      BY <1>1, <1>5, <2>2 DEF IInv, TypeOK
    <3> QED
      BY <3>1 DEF IInv, Fresh
  <2> QED
    BY <2>1, <2>2
<1> QED
  BY <1>4, <1>6, <1>8, <1>9 DEF IInv

\* FallBack is such an answer.
LEMMA FallBackIsALook ==
    ASSUME IInv, sent # <<>>, Head(sent).op # "set",
           UNCHANGED <<version, latest, kept, newest, lost, floor>>,
           faults' \in 0..MaxFaults, FallBack(Head(sent).who, Tail(sent))
    PROVE  IInv'
<1>0. sent \in Seq(Commands)
  BY DEF IInv, TypeOK
<1>1. Head(sent).who \in Requests
  BY <1>0, TailOfCommands DEF Commands
<1>2. /\ version \in Nat /\ newest \in Nat /\ newest <= version
      /\ floor[Head(sent).who] \in Nat /\ floor[Head(sent).who] <= newest
  BY <1>1, CatalogAssumption DEF IInv, TypeOK
<1>3. /\ version \in 0..version /\ version >= floor[Head(sent).who]
      /\ version \in 0..MaxVersion
  BY <1>2 DEF IInv, TypeOK
<1>4. got' = [got EXCEPT ![Head(sent).who] = version]
  BY DEF FallBack
<1>5. CASE version = Nothing
  <2>1. Answer(Head(sent).who, Tail(sent))
    BY <1>5 DEF FallBack
  <2>2. "done" \in Ops \cup {"done"}
    OBVIOUS
  <2> QED
    BY <1>3, <1>4, <2>1, <2>2, LookKeeps
<1>6. CASE version # Nothing
  <2>1. Await(Head(sent).who, "set", version, Tail(sent))
    BY <1>6 DEF FallBack
  <2>2. "set" \in Ops \cup {"done"}
    OBVIOUS
  <2> QED
    BY <1>3, <1>4, <1>6, <2>1, <2>2, LookKeeps
<1> QED
  BY <1>5, <1>6

\* A store has been answered: its request, which had its menu before, is done.
LEMMA StoreKeeps ==
    ASSUME IInv, sent # <<>>, Head(sent).op = "set",
           Answer(Head(sent).who, Tail(sent)),
           UNCHANGED <<version, floor>>, faults' \in 0..MaxFaults,
           \/ StoreMenu(Head(sent).menu) /\ UNCHANGED got
           \/ /\ lost' = TRUE /\ UNCHANGED <<latest, kept, newest>>
              /\ got' = [got EXCEPT ![Head(sent).who] = Nothing]
    PROVE  IInv'
<1>1. sent \in Seq(Commands) /\ pc \in [Requests -> Ops \cup {"done"}]
  BY DEF IInv, TypeOK
<1>2. Head(sent) \in Commands /\ Tail(sent) \in Seq(Commands)
  BY <1>1, TailOfCommands
<1>3. Head(sent).who \in Requests
  BY <1>2 DEF Commands
<1>4. newest \in Nat /\ version \in Nat
  BY CatalogAssumption DEF IInv, TypeOK
<1>5. /\ Head(sent).menu \in 1..version /\ Head(sent).menu >= newest
      /\ Storing(Tail(sent), Head(sent).menu, version)
      /\ \/ Head(sent).menu = version
         \/ \E j \in 1..Len(Tail(sent)) : Tail(sent)[j].op = "set"
  BY <1>1, <1>4, TailStores DEF IInv
<1>6. /\ sent' \in Seq(Commands)
      /\ pc' \in [Requests -> Ops \cup {"done"}]
      /\ Matching(sent', pc')
      /\ Looking(sent', floor)
      /\ Storing(sent', newest, version)
  BY AnswerKeeps
<1>7. sent' = Tail(sent) /\ pc' = [pc EXCEPT ![Head(sent).who] = "done"]
  BY DEF Answer
<1>a. /\ got' \in [Requests -> 0..version]
      /\ \A r \in Requests : got'[r] # Nothing => got'[r] = got[r]
  <2>1. got \in [Requests -> 0..version] /\ 0 \in 0..version
    BY <1>4 DEF IInv, TypeOK
  <2> QED
    BY <1>3, <2>1
<1>8. Fresh'
  <2> SUFFICES ASSUME NEW r \in Requests,
                      pc'[r] \notin {"getLatest", "getVersion"}, got'[r] # Nothing
               PROVE  got'[r] >= floor[r]
    BY DEF Fresh
  <2>1. pc[r] \notin {"getLatest", "getVersion"}
    <3>1. CASE r = Head(sent).who
      <4>1. pc[r] = "set"
        BY <1>1, <3>1, TailMatches DEF IInv
      <4> QED
        BY <4>1
    <3>2. CASE r # Head(sent).who
      BY <1>1, <1>7, <3>2
    <3> QED
      BY <3>1, <3>2
  <2> QED
    BY <1>a, <2>1 DEF IInv, Fresh
<1>9. CASE StoreMenu(Head(sent).menu)
  <2>1. /\ newest' = Head(sent).menu /\ latest' = Head(sent).menu
        /\ kept' = kept \cup {Head(sent).menu} /\ lost' = FALSE
    BY <1>4, <1>5, <1>9 DEF StoreMenu
  <2>2. floor \in [Requests -> 0..newest']
    BY <1>4, <1>5, <2>1 DEF IInv, TypeOK
  <2>3. TypeOK'
    <3>0. kept \subseteq 1..version
      BY DEF IInv, TypeOK
    <3>1. /\ latest' \in 0..version' /\ newest' \in 0..version'
          /\ kept' \subseteq 1..version'
      <4> DEFINE m == Head(sent).menu
      <4>1. m \in 1..version
        BY <1>5
      <4> HIDE DEF m
      <4>2. m \in 0..version /\ kept \cup {m} \subseteq 1..version
        BY <1>4, <3>0, <4>1
      <4> QED
        BY <2>1, <4>2 DEF m
    <3> QED
      BY <1>6, <1>a, <2>1, <2>2, <3>1 DEF IInv, TypeOK
  <2>4. Storing(sent', newest', version)
    BY <1>5, <1>7, <2>1
  <2>5. Settled'
    BY <1>5, <1>7, <2>1 DEF Settled
  <2> QED
    BY <1>6, <1>8, <2>1, <2>3, <2>4, <2>5 DEF IInv
<1>10. CASE lost' = TRUE /\ UNCHANGED <<latest, kept, newest>>
  <2>1. TypeOK'
    BY <1>6, <1>a, <1>10 DEF IInv, TypeOK
  <2>2. Settled'
    BY <1>10 DEF Settled
  <2> QED
    BY <1>6, <1>8, <1>10, <2>1, <2>2 DEF IInv
<1> QED
  BY <1>9, <1>10

-----------------------------------------------------------------------------
\* The invariant is inductive.

\* The invariant holds of an empty cache.
LEMMA InitInv == Init => IInv
<1> SUFFICES ASSUME Init PROVE IInv
  OBVIOUS
<1>1. TypeOK
  <2>1. sent \in Seq(Commands)
    BY DEF Init
  <2>2. /\ version \in 0..MaxVersion /\ faults \in 0..MaxFaults
        /\ latest \in 0..version /\ newest \in 0..version /\ kept \subseteq 1..version
    BY CatalogAssumption DEF Init
  <2>3. 0 \in 0..0 /\ version = 0 /\ newest = 0
    BY DEF Init
  <2>4. /\ pc \in [Requests -> Ops \cup {"done"}]
        /\ got \in [Requests -> 0..version] /\ floor \in [Requests -> 0..newest]
        /\ lost \in BOOLEAN
    BY <2>3 DEF Init
  <2> QED
    BY <2>1, <2>2, <2>4 DEF TypeOK
<1>2. Matching(sent, pc) /\ Looking(sent, floor) /\ Storing(sent, newest, version)
  BY DEF Init, Matching, Looking, Storing
<1> QED
  BY <1>1, <1>2 DEF Init, IInv, Fresh, Settled

\* A reader begins.
LEMMA GetMenuInv == ASSUME IInv, NEW r \in Requests, GetMenu(r) PROVE IInv'
<1> DEFINE c == Command(r, "getLatest", Nothing)
<1>1. sent \in Seq(Commands) /\ pc \in [Requests -> Ops \cup {"done"}]
  BY DEF IInv, TypeOK
<1>2. newest \in Nat /\ version \in Nat /\ newest <= version
  BY CatalogAssumption DEF IInv, TypeOK
<1>3. c \in Commands /\ c.who = r /\ c.op = "getLatest"
  BY CatalogAssumption DEF Command, Commands
<1>4. \A i \in 1..Len(sent) : sent[i].who # r
  BY BeginningIsAlone DEF GetMenu
<1>5. sent' = Append(sent, c) /\ pc' = [pc EXCEPT ![c.who] = c.op]
  BY <1>3 DEF GetMenu, Await
<1> HIDE DEF c
<1>6. floor \in [Requests -> Nat] /\ floor' = [floor EXCEPT ![r] = newest]
  BY <1>2 DEF IInv, TypeOK, GetMenu
<1>7. sent' \in Seq(Commands)
  BY <1>1, <1>3, <1>5, AppendToCommands
<1>8. Matching(sent', pc')
  BY <1>1, <1>3, <1>4, <1>5, AwaitMatches DEF IInv
<1>9. Looking(sent', floor')
  <2>1. Looking(sent, floor')
    BY <1>1, <1>4, <1>6, OthersLook DEF IInv
  <2> QED
    BY <1>1, <1>3, <1>5, <2>1, AppendLooks
<1>10. Storing(sent', newest', version')
  <2>1. Storing(Append(sent, c), newest, version)
    BY <1>1, <1>2, <1>3, AppendStores DEF IInv
  <2> QED
    BY <1>5, <2>1 DEF GetMenu
<1>11. TypeOK'
  <2>1. floor' \in [Requests -> 0..newest]
    BY <1>2, <1>6 DEF IInv, TypeOK
  <2>2. pc' \in [Requests -> Ops \cup {"done"}]
    BY <1>1, <1>3, <1>5
  <2>3. got' \in [Requests -> 0..version]
    BY <1>2 DEF IInv, TypeOK, GetMenu
  <2> QED
    BY <1>7, <2>1, <2>2, <2>3 DEF IInv, TypeOK, GetMenu
<1>12. Fresh'
  <2>1. pc'[r] = "getLatest" /\ got' = [got EXCEPT ![r] = Nothing]
    BY <1>1, <1>3, <1>5 DEF GetMenu
  <2>2. \A s \in Requests : s # r => pc'[s] = pc[s] /\ got'[s] = got[s] /\ floor'[s] = floor[s]
    BY <1>1, <1>3, <1>5, <1>6, <2>1 DEF IInv, TypeOK
  <2> QED
    BY <2>1, <2>2 DEF IInv, Fresh
<1>13. Settled'
  <2>1. Len(sent) \in Nat /\ Len(sent') = Len(sent) + 1
        /\ \A i \in 1..Len(sent) : sent'[i] = sent[i]
    BY <1>1, <1>3, <1>5, AppendToCommands
  <2> QED
    BY <2>1 DEF IInv, Settled, GetMenu
<1> QED
  BY <1>8, <1>9, <1>10, <1>11, <1>12, <1>13 DEF IInv, GetMenu

\* An edit sends its store behind all others.
LEMMA UpsertMenuInv ==
    ASSUME IInv, NEW r \in Requests, NEW expected \in Versions, UpsertMenu(r, expected)
    PROVE  IInv'
<1> DEFINE c == Command(r, "set", version + 1)
<1>1. sent \in Seq(Commands) /\ pc \in [Requests -> Ops \cup {"done"}]
  BY DEF IInv, TypeOK
<1>2. /\ newest \in Nat /\ version \in Nat /\ newest <= version
      /\ version' = version + 1 /\ version' \in 0..MaxVersion
  BY CatalogAssumption DEF IInv, TypeOK, UpsertMenu
<1>3. c \in Commands /\ c.who = r /\ c.op = "set" /\ c.menu = version + 1
  BY <1>2 DEF Command, Commands
<1>4. \A i \in 1..Len(sent) : sent[i].who # r
  BY BeginningIsAlone DEF UpsertMenu
<1>5. sent' = Append(sent, c) /\ pc' = [pc EXCEPT ![c.who] = c.op]
  BY <1>3 DEF UpsertMenu, Await
<1> HIDE DEF c
<1>6. floor \in [Requests -> Nat] /\ floor' = [floor EXCEPT ![r] = newest]
  BY <1>2 DEF IInv, TypeOK, UpsertMenu
<1>7. sent' \in Seq(Commands)
  BY <1>1, <1>3, <1>5, AppendToCommands
<1>8. Matching(sent', pc')
  BY <1>1, <1>3, <1>4, <1>5, AwaitMatches DEF IInv
<1>9. Looking(sent', floor')
  <2>1. Looking(sent, floor')
    BY <1>1, <1>4, <1>6, OthersLook DEF IInv
  <2> QED
    BY <1>1, <1>3, <1>5, <2>1, AppendLooks
<1>10. Storing(sent', newest', version')
  <2>1. Storing(Append(sent, c), newest, version + 1)
    BY <1>1, <1>2, <1>3, AppendStores DEF IInv
  <2> QED
    BY <1>2, <1>5, <2>1 DEF UpsertMenu
<1>11. TypeOK'
  <2>1. floor' \in [Requests -> 0..newest]
    BY <1>2, <1>6 DEF IInv, TypeOK
  <2>2. pc' \in [Requests -> Ops \cup {"done"}]
    BY <1>1, <1>3, <1>5
  <2>3. got' \in [Requests -> 0..version']
    <3>1. got \in [Requests -> 0..version]
      BY DEF IInv, TypeOK
    <3>2. got' = [got EXCEPT ![r] = version + 1]
      BY DEF UpsertMenu
    <3>3. got \in [Requests -> 0..version']
      BY <1>2, <3>1
    <3> QED
      BY <1>2, <3>2, <3>3
  <2>4. latest \in 0..version' /\ kept \subseteq 1..version' /\ newest \in 0..version'
    BY <1>2 DEF IInv, TypeOK
  <2> QED
    BY <1>2, <1>7, <2>1, <2>2, <2>3, <2>4 DEF IInv, TypeOK, UpsertMenu
<1>12. Fresh'
  <2>1. got' = [got EXCEPT ![r] = version + 1]
    BY DEF UpsertMenu
  <2>2. \A s \in Requests : s # r => pc'[s] = pc[s] /\ got'[s] = got[s] /\ floor'[s] = floor[s]
    BY <1>1, <1>3, <1>5, <1>6, <2>1 DEF IInv, TypeOK
  <2>3. got'[r] >= floor'[r]
    BY <1>2, <1>6, <2>1 DEF IInv, TypeOK
  <2> QED
    BY <2>2, <2>3 DEF IInv, Fresh
<1>13. Settled'
  <2>1. Len(sent) + 1 \in 1..Len(sent') /\ sent'[Len(sent) + 1] = c
    BY <1>1, <1>3, <1>5, AppendToCommands
  <2> QED
    BY <1>3, <2>1 DEF Settled
<1> QED
  BY <1>8, <1>9, <1>10, <1>11, <1>12, <1>13 DEF IInv, UpsertMenu

\* Redis executes a command, or it fails: a store is answered, or a look.
LEMMA ExecuteInv == ASSUME IInv, Execute PROVE IInv'
<1> DEFINE c == Head(sent)
           q == Tail(sent)
<1>0. /\ sent # <<>>
      /\ UNCHANGED <<version, faults, floor>> /\ faults' \in 0..MaxFaults
      /\ sent \in Seq(Commands)
  BY DEF Execute, IInv, TypeOK
<1>1. c \in Commands /\ c.who \in Requests
  BY <1>0, TailOfCommands DEF Commands
<1>2. /\ version \in Nat /\ newest \in Nat /\ newest <= version
      /\ floor[c.who] \in Nat /\ floor[c.who] <= newest
      /\ got \in [Requests -> 0..version]
  BY <1>1, CatalogAssumption DEF IInv, TypeOK
<1>a. \A v \in 0..version : v \in 0..MaxVersion
  BY <1>2, CatalogAssumption DEF IInv, TypeOK
<1>3. CASE /\ c.op = "set"
           /\ StoreMenu(c.menu)
           /\ Answer(c.who, q)
           /\ UNCHANGED got
  BY <1>0, <1>3, StoreKeeps
<1>4. ASSUME c.op = "getLatest", AfterGetLatest(c.who, q),
             UNCHANGED <<latest, kept, newest, lost>>
      PROVE  IInv'
  <2>1. CASE latest = Nothing
    <3>1. FallBack(c.who, q)
      BY <1>4, <2>1 DEF AfterGetLatest
    <3> QED
      BY <1>0, <1>4, <3>1, FallBackIsALook
  <2>2. CASE latest # Nothing
    <3>1. Await(c.who, "getVersion", latest, q) /\ UNCHANGED got
      BY <1>4, <2>2 DEF AfterGetLatest
    <3>2. latest \in 0..version /\ latest >= floor[c.who]
      BY <1>2, <2>2 DEF IInv, TypeOK
    <3>a. latest \in 0..MaxVersion
      BY <1>a, <3>2
    <3>3. got' = [got EXCEPT ![c.who] = got[c.who]] /\ got[c.who] \in 0..version
      BY <1>1, <1>2, <3>1
    <3>4. "getVersion" \in Ops \cup {"done"}
      OBVIOUS
    <3> QED
      BY <1>0, <1>4, <3>1, <3>2, <3>a, <3>3, <3>4, LookKeeps
  <2> QED
    BY <2>1, <2>2
<1>5. ASSUME c.op = "getVersion", AfterGetVersion(c.who, c.menu, q),
             UNCHANGED <<latest, kept, newest, lost>>
      PROVE  IInv'
  <2>1. CASE c.menu \notin kept
    <3>1. FallBack(c.who, q)
      BY <1>5, <2>1 DEF AfterGetVersion
    <3> QED
      BY <1>0, <1>5, <3>1, FallBackIsALook
  <2>2. CASE c.menu \in kept
    <3>1. /\ Answer(c.who, q)
          /\ got' = [got EXCEPT ![c.who] = c.menu]
      BY <1>5, <2>2 DEF AfterGetVersion
    <3>2. c.menu \in 0..version
      <4>1. c.menu \in 1..version
        BY <2>2 DEF IInv, TypeOK
      <4> HIDE DEF c
      <4> QED
        BY <1>2, <4>1
    <3>3. c.menu >= floor[c.who]
      <4>1. 1 \in 1..Len(sent) /\ c = sent[1]
        BY <1>0, TailOfCommands
      <4> QED
        BY <1>5, <4>1 DEF IInv, Looking
    <3>4. "done" \in Ops \cup {"done"}
      OBVIOUS
    <3> QED
      BY <1>0, <1>5, <3>1, <3>2, <3>3, <3>4, LookKeeps
  <2> QED
    BY <2>1, <2>2
<1> QED
  BY <1>3, <1>4, <1>5 DEF Execute

\* The first command is refused.
LEMMA FailInv == ASSUME IInv, Fail PROVE IInv'
<1> DEFINE c == Head(sent)
<1>0. /\ sent # <<>>
      /\ Answer(c.who, Tail(sent))
      /\ got' = [got EXCEPT ![c.who] = Nothing]
      /\ lost' = (lost \/ c.op = "set")
      /\ UNCHANGED <<version, latest, kept, newest, floor>>
  BY DEF Fail
<1>1. faults' \in 0..MaxFaults
  <2>1. faults \in 0..MaxFaults /\ faults < MaxFaults /\ faults' = faults + 1
    BY DEF Fail, IInv, TypeOK
  <2> QED
    BY <2>1, CatalogAssumption
<1>2. CASE c.op = "set"
  BY <1>0, <1>1, <1>2, StoreKeeps
<1>3. CASE c.op # "set"
  <2>1. UNCHANGED lost
    BY <1>0, <1>3 DEF IInv, TypeOK
  <2>2. Nothing \in 0..version /\ "done" \in Ops \cup {"done"}
    BY CatalogAssumption DEF IInv, TypeOK
  <2> QED
    BY <1>0, <1>1, <1>3, <2>1, <2>2, LookKeeps
<1> QED
  BY <1>2, <1>3

\* A key is evicted.
LEMMA EvictInv == ASSUME IInv, Evict PROVE IInv'
<1>1. /\ UNCHANGED <<version, sent, pc, got, faults, newest, lost, floor>>
      /\ latest' \in {Nothing, latest} /\ kept' \subseteq kept
  BY DEF Evict
<1>2. TypeOK'
  BY <1>1, CatalogAssumption DEF IInv, TypeOK
<1> QED
  BY <1>1, <1>2 DEF IInv, Fresh, Settled

\* Nothing happens.
LEMMA StutterInv == ASSUME IInv, UNCHANGED vars PROVE IInv'
<1> QED
  BY DEF vars, IInv, TypeOK, Fresh, Settled

\* Every step keeps the invariant.
LEMMA NextInv == IInv /\ [Next]_vars => IInv'
<1> SUFFICES ASSUME IInv, [Next]_vars PROVE IInv'
  OBVIOUS
<1>1. ASSUME NEW r \in Requests, GetMenu(r) PROVE IInv'
  BY <1>1, GetMenuInv
<1>2. ASSUME NEW r \in Requests, NEW expected \in Versions, UpsertMenu(r, expected)
      PROVE  IInv'
  BY <1>2, UpsertMenuInv
<1>3. CASE Execute
  BY <1>3, ExecuteInv
<1>4. CASE Fail
  BY <1>4, FailInv
<1>5. CASE Evict
  BY <1>5, EvictInv
<1>6. CASE UNCHANGED vars
  BY <1>6, StutterInv
<1> QED
  BY <1>1, <1>2, <1>3, <1>4, <1>5, <1>6 DEF Next

\* The invariant holds of every reachable state.
LEMMA Invariance == Spec => []IInv
<1> QED
  BY InitInv, NextInv, PTL DEF Spec

-----------------------------------------------------------------------------

\* In every reachable state every variable has its type, and Redis knows no menu
\* the repository never had.
THEOREM TypeCorrect == Spec => []TypeOK
<1>1. IInv => TypeOK
  BY DEF IInv
<1> QED
  BY <1>1, Invariance, PTL

\* No request is answered with a menu older than one Redis had when the request
\* began (getMenuBySlug, upsertMenuBySlug), and the pointer never goes back
\* (RedisMenuCache.set), whatever is refused or evicted.
THEOREM ReadersSeeStoredMenus == Spec => []ReadsSeeStoredMenus
<1>1. IInv => ReadsSeeStoredMenus
  <2> SUFFICES ASSUME IInv PROVE ReadsSeeStoredMenus
    OBVIOUS
  <2>1. \A r \in Requests : pc[r] = "done" /\ got[r] # Nothing => got[r] >= floor[r]
    BY DEF IInv, Fresh
  <2> QED
    BY <2>1 DEF IInv, ReadsSeeStoredMenus
<1> QED
  BY <1>1, Invariance, PTL

\* Where the pointer misses the current menu, a store that will correct it is on
\* its way or has been refused (RedisMenuCache.set).
THEOREM OnlyLossOutdates == Spec => []OutdatedOnlyByLoss
<1>1. IInv => OutdatedOnlyByLoss
  BY DEF IInv, Settled, OutdatedOnlyByLoss
<1> QED
  BY <1>1, Invariance, PTL

=============================================================================
