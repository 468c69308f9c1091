----------------------------- MODULE MenuCatalog -----------------------------
(***************************************************************************)
(* The menu of one restaurant (src/modules/restaurants): the repository    *)
(* keeps the current menu in the process, RedisMenuCache                   *)
(* (CACHE_PROVIDER=redis) keeps copies in Redis, one per version, and a    *)
(* pointer to the latest one.  Requests are handled concurrently; their    *)
(* commands share one connection, which the module opens before it serves  *)
(* requests (restaurants.module.ts:69), and are executed in the order sent.*)
(*                                                                         *)
(* A menu is its version.  A step is a stretch between two awaits, so a    *)
(* read of the repository and the command that stores what it gave are one *)
(* step.  Nothing listens to the client's errors: a broken connection ends *)
(* the process and the restaurant with it, so a command fails only when    *)
(* Redis refuses it.                                                       *)
(***************************************************************************)
EXTENDS Naturals, Sequences

CONSTANTS
    Requests,
    MaxVersion,  \* bound: edits of the menu
    MaxFaults    \* bound: commands Redis refuses

ASSUME CatalogAssumption == MaxVersion \in Nat /\ MaxFaults \in Nat

Nothing == 0    \* no menu, no pointer
Versions == 1..MaxVersion

VARIABLES
    version,  \* the repository's menu, or Nothing
    latest,   \* the pointer in Redis, or Nothing
    kept,     \* versions Redis has
    sent,     \* sequence of commands without an answer
    pc,       \* [Requests -> what the request awaits]
    got,      \* [Requests -> the menu it has; Nothing when answered: an error]
    faults,   \* commands refused
    newest,   \* history: the highest version ever stored in Redis
    lost,     \* history: a store was refused, and none executed since
    floor     \* [Requests -> history: newest when the request began]

vars == <<version, latest, kept, sent, pc, got, faults, newest, lost, floor>>

Init ==
    /\ version = Nothing
    /\ latest = Nothing
    /\ kept = {}
    /\ sent = <<>>
    /\ pc = [r \in Requests |-> "done"]
    /\ got = [r \in Requests |-> Nothing]
    /\ faults = 0
    /\ newest = 0
    /\ lost = FALSE
    /\ floor = [r \in Requests |-> 0]

-----------------------------------------------------------------------------

Command(r, op, v) == [who |-> r, op |-> op, menu |-> v]

\* Request r sends a command after those in queue q and awaits its answer.
Await(r, op, v, q) ==
    /\ sent' = Append(q, Command(r, op, v))
    /\ pc' = [pc EXCEPT ![r] = op]

Answer(r, q) ==
    /\ sent' = q
    /\ pc' = [pc EXCEPT ![r] = "done"]

\* getMenuBySlug: first ask the cache.
GetMenu(r) ==
    /\ pc[r] = "done"
    /\ Await(r, "getLatest", Nothing, sent)
    /\ got' = [got EXCEPT ![r] = Nothing]
    /\ floor' = [floor EXCEPT ![r] = newest]
    /\ UNCHANGED <<version, latest, kept, faults, newest, lost>>

\* Mutant: the edit is left to the readers' cache to find.
BugUpsertMenu(r, expected) ==
    /\ pc[r] = "done" /\ version < MaxVersion
    /\ version \in {Nothing, expected}
    /\ version' = version + 1
    /\ got' = [got EXCEPT ![r] = version + 1]
    /\ floor' = [floor EXCEPT ![r] = newest]
    /\ UNCHANGED <<latest, kept, sent, pc, faults, newest, lost>>

\* upsertMenuBySlug: store the next version in both; an edit of another than
\* the current version is refused.
UpsertMenu(r, expected) ==
    /\ pc[r] = "done" /\ version < MaxVersion
    /\ version \in {Nothing, expected}
    /\ version' = version + 1
    /\ Await(r, "set", version + 1, sent)
    /\ got' = [got EXCEPT ![r] = version + 1]
    /\ floor' = [floor EXCEPT ![r] = newest]
    /\ UNCHANGED <<latest, kept, faults, newest, lost>>

-----------------------------------------------------------------------------

\* Mutant: the menu was read before the cache was asked.
BugFallBack(r, q) ==
    \E v \in {version} \cup (1..version) :
        /\ got' = [got EXCEPT ![r] = v]
        /\ IF v = Nothing THEN Answer(r, q) ELSE Await(r, "set", v, q)

\* The cache gives no menu: the repository's is stored there and served; no
\* menu at all is an error.
FallBack(r, q) ==
    /\ got' = [got EXCEPT ![r] = version]
    /\ IF version = Nothing THEN Answer(r, q) ELSE Await(r, "set", version, q)

\* getLatest: the pointer, then the version it points to.
AfterGetLatest(r, q) ==
    IF latest = Nothing
    THEN FallBack(r, q)
    ELSE Await(r, "getVersion", latest, q) /\ UNCHANGED got

AfterGetVersion(r, v, q) ==
    IF v \notin kept
    THEN FallBack(r, q)
    ELSE Answer(r, q) /\ got' = [got EXCEPT ![r] = v]

\* set is one transaction, and no key runs out.
StoreMenu(v) ==
    /\ latest' = v
    /\ kept' = kept \cup {v}
    /\ newest' = IF v > newest THEN v ELSE newest
    /\ lost' = FALSE

\* Redis executes the first command and its request goes on.
Execute ==
    /\ sent # <<>>
    /\ LET c == Head(sent)
           q == Tail(sent) IN
       \/ /\ c.op = "set"
          /\ StoreMenu(c.menu)
          /\ Answer(c.who, q)
          /\ UNCHANGED got
       \/ /\ \/ c.op = "getLatest" /\ AfterGetLatest(c.who, q)
             \/ c.op = "getVersion" /\ AfterGetVersion(c.who, c.menu, q)
          /\ UNCHANGED <<latest, kept, newest, lost>>
    /\ UNCHANGED <<version, faults, floor>>

\* Redis refuses the first command: its request is answered with the error,
\* also when the repository has the edit already.
Fail ==
    /\ sent # <<>>
    /\ faults < MaxFaults /\ faults' = faults + 1
    /\ LET c == Head(sent) IN
       /\ Answer(c.who, Tail(sent))
       /\ got' = [got EXCEPT ![c.who] = Nothing]
       /\ lost' = (lost \/ c.op = "set")
    /\ UNCHANGED <<version, latest, kept, newest, floor>>

\* A Redis with a memory limit evicts keys, in any order.
Evict ==
    /\ \/ latest # Nothing /\ latest' = Nothing /\ UNCHANGED kept
       \/ \E v \in kept : kept' = kept \ {v} /\ UNCHANGED latest
    /\ UNCHANGED <<version, sent, pc, got, faults, newest, lost, floor>>

Next ==
    \/ \E r \in Requests :
          \/ GetMenu(r)
          \/ \E expected \in Versions : UpsertMenu(r, expected)
    \/ Execute
    \/ Fail
    \/ Evict

Spec == Init /\ [][Next]_vars

-----------------------------------------------------------------------------
(* Properties *)

Ops == {"getLatest", "getVersion", "set"}
Commands == [who : Requests, op : Ops, menu : 0..MaxVersion]

\* Every variable has its type, and Redis knows no menu the repository never
\* had.
TypeOK ==
    /\ version \in 0..MaxVersion
    /\ latest \in 0..version
    /\ kept \subseteq 1..version
    /\ sent \in Seq(Commands)
    /\ pc \in [Requests -> Ops \cup {"done"}]
    /\ got \in [Requests -> 0..version]
    /\ faults \in 0..MaxFaults
    /\ newest \in 0..version
    /\ lost \in BOOLEAN
    /\ floor \in [Requests -> 0..newest]

\* A request that is done has no menu older than one Redis had when it began,
\* and the pointer never goes back: no reader stores a menu it read before an
\* edit over the edit, nor do two editors store theirs in the other order.
ReadsSeeStoredMenus ==
    /\ \A r \in Requests :
          pc[r] = "done" /\ got[r] # Nothing => got[r] >= floor[r]
    /\ latest \in {Nothing, newest}

\* The pointer misses the current menu only while a store is on its way or
\* because Redis refused one, and then a client was told of an error.
OutdatedOnlyByLoss ==
    \/ latest \in {Nothing, version}
    \/ lost
    \/ \E i \in 1..Len(sent) : sent[i].op = "set"

=============================================================================
