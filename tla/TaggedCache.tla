----------------------------- MODULE TaggedCache -----------------------------
(***************************************************************************)
(* EnhancedRedisCache (src/common/cache/enhanced-redis-cache.service.ts)   *)
(* in front of the menu database, as EnhancedMenuCacheService uses it:     *)
(* entries with tags, updates that are written to the database and then to *)
(* the cache, invalidation by tag, and the timer that refreshes popular    *)
(* entries.  A menu is abstracted to its version.  Which of the callers    *)
(* that miss generate the menu is CacheFill's matter; here any of them may.*)
(*                                                                         *)
(* Every Redis command is a step: the calls of one process interleave      *)
(* between commands.  Redis drops an entry when its time to live ends,     *)
(* which is possible at any time here.                                     *)
(***************************************************************************)
EXTENDS Naturals, FiniteSets

CONSTANTS
    Keys,        \* restaurants whose menus are cached; each is a tag as well
    SharedTags,  \* tags that all menus share besides their restaurant's ('menu')
    Popular,     \* the keys refreshed in the background
    Callers,     \* concurrent requests
    Sweepers,    \* concurrent invalidations
    None,        \* an absent entry, tag, key or value
    MaxVersion,  \* bound: updates of one menu
    MaxFaults    \* bound: failing commands, failing reads and restarts

ASSUME CacheAssumption ==
    /\ Popular \subseteq Keys
    /\ SharedTags \cap Keys = {}
    /\ None \notin Keys \cup SharedTags \cup Nat
    /\ MaxVersion \in Nat /\ MaxFaults \in Nat

VARIABLES
    source,     \* [Keys -> version]: the menus in the database
    data,       \* [Keys -> version or None]: the entries in Redis
    keysOf,     \* [Tags -> set of keys]: the tag sets in Redis
    tagsOf,     \* [Keys -> set of tags]: the sets that name a key's tags
    queue,      \* keys in backgroundRefreshQueue (memory)
    call,       \* [Callers -> record]: the requests in progress
    sweep,      \* [Sweepers -> record]: the invalidations in progress
    refresh,    \* the run of the background refresh
    faults,     \* faults so far
    raced       \* history: keys written while they were being invalidated

cacheVars == <<source, data, keysOf, tagsOf, queue, call, sweep, refresh,
          faults, raced>>
redis == <<data, keysOf, tagsOf>>

Tags == Keys \cup SharedTags
Versions == 0..MaxVersion

\* EnhancedMenuCacheService.getCacheOptions: the tags of a menu.
TagsFor(k) == {k} \cup SharedTags

Idle == [pc |-> "idle", key |-> None, value |-> None, renewable |-> FALSE, todo |-> {}]
Asleep == [pc |-> "idle", tag |-> None, keys |-> {}, key |-> None, todo |-> {}]
Resting == [pc |-> "idle", batch |-> {}, key |-> None, value |-> None]

CacheInit ==
    /\ source = [k \in Keys |-> 0]
    /\ data = [k \in Keys |-> None]
    /\ keysOf = [t \in Tags |-> {}]
    /\ tagsOf = [k \in Keys |-> {}]
    /\ queue = {}
    /\ call = [c \in Callers |-> Idle]
    /\ sweep = [s \in Sweepers |-> Asleep]
    /\ refresh = Resting
    /\ faults = 0
    /\ raced = {}

-----------------------------------------------------------------------------
(* Requests: getOrSet, and updateMenu followed by set *)

At(c, where) == call[c].pc = where

\* A getOrSet that misses, and has or gives up waiting for the lock.  A hit,
\* or a value that appears while waiting, is an answer and changes nothing.
GetOrSet(c, k) ==
    /\ At(c, "idle") /\ data[k] = None
    /\ call' = [call EXCEPT ![c] = [Idle EXCEPT !.pc = "generate", !.key = k,
                                               !.renewable = k \in Popular]]
    /\ UNCHANGED <<source, redis, queue, sweep, refresh, faults>>

\* Mutant: the entry is written before the menu has been read.
BugGenerate(c) ==
    /\ At(c, "generate")
    /\ call' = [call EXCEPT ![c].pc = "store"]
    /\ UNCHANGED <<source, redis, queue, sweep, refresh, faults>>

\* generateAndCacheValue: the factory reads the menu.
Generate(c) ==
    /\ At(c, "generate")
    /\ call' = [call EXCEPT ![c].pc = "store", ![c].value = source[call[c].key]]
    /\ UNCHANGED <<source, redis, queue, sweep, refresh, faults>>

\* updateMenu: the database first, then the cache, without the lock.
UpdateMenu(c, k) ==
    /\ At(c, "idle") /\ source[k] < MaxVersion
    /\ source' = [source EXCEPT ![k] = @ + 1]
    /\ call' = [call EXCEPT ![c] = [Idle EXCEPT !.pc = "store", !.key = k,
                                                !.value = source[k] + 1]]
    /\ UNCHANGED <<redis, queue, sweep, refresh, faults>>

\* setWithOptions, and the first part of handleCacheMetadata: only reads
\* pass a factory to refresh with.
Store(c) ==
    LET k == call[c].key IN
    /\ At(c, "store")
    /\ data' = [data EXCEPT ![k] = call[c].value]
    /\ queue' = IF call[c].renewable THEN queue \cup {k} ELSE queue
    /\ call' = [call EXCEPT ![c].pc = "tag", ![c].value = None,
                            ![c].todo = TagsFor(k)]
    /\ UNCHANGED <<source, keysOf, tagsOf, sweep, refresh, faults>>

\* Mutant: the set of the key's tags is not written.
BugAssociateKeyWithTags(c) ==
    LET k == call[c].key IN
    /\ At(c, "tag")
    /\ keysOf' = [t \in Tags |-> IF t \in TagsFor(k) THEN keysOf[t] \cup {k} ELSE keysOf[t]]
    /\ call' = [call EXCEPT ![c] = Idle]
    /\ UNCHANGED <<source, data, tagsOf, queue, sweep, refresh, faults>>

\* associateKeyWithTags: one set per tag, then the set of the key's tags.
AssociateKeyWithTags(c) ==
    LET k == call[c].key IN
    /\ At(c, "tag")
    /\ \/ \E t \in call[c].todo :
             /\ t = k \/ call[c].todo = {t}
             /\ keysOf' = [keysOf EXCEPT ![t] = @ \cup {k}]
             /\ call' = [call EXCEPT ![c].todo = @ \ {t}]
             /\ UNCHANGED tagsOf
       \/ /\ call[c].todo = {}
          /\ tagsOf' = [tagsOf EXCEPT ![k] = @ \cup TagsFor(k)]
          /\ call' = [call EXCEPT ![c] = Idle]
          /\ UNCHANGED keysOf
    /\ UNCHANGED <<source, data, queue, sweep, refresh, faults>>

Proceed(c) == Generate(c) \/ Store(c) \/ AssociateKeyWithTags(c)

\* A command or the factory fails: set swallows its errors and a factory that
\* fails is only asked once more for the answer, so either way nothing more is
\* written.
CallFails(c) ==
    /\ faults < MaxFaults /\ faults' = faults + 1
    /\ ~ At(c, "idle")
    /\ call' = [call EXCEPT ![c] = Idle]
    /\ UNCHANGED <<source, redis, queue, sweep, refresh>>

-----------------------------------------------------------------------------
(* Invalidation: cache.invalidate, deleteByTags and delete *)

In(s, where) == sweep[s].pc = where

\* A menu.updated or restaurant.updated event: EnhancedMenuCacheService turns
\* it into cache.invalidate with the restaurant's tag; nobody waits for that.
Invalidate(s, k) ==
    /\ In(s, "idle")
    /\ sweep' = [sweep EXCEPT ![s] = [Asleep EXCEPT !.pc = "members", !.tag = k]]
    /\ UNCHANGED <<source, redis, queue, call, refresh, faults>>

Members(s) ==
    /\ In(s, "members")
    /\ sweep' = [sweep EXCEPT ![s].pc = "next", ![s].keys = keysOf[sweep[s].tag]]
    /\ UNCHANGED <<source, redis, queue, call, refresh, faults>>

\* delete: forget the key's refresh and read its tags; with no key left, the
\* tag set is deleted, as it is by then.
DeleteNext(s) ==
    /\ In(s, "next")
    /\ \/ \E k \in sweep[s].keys :
             /\ queue' = queue \ {k}
             /\ sweep' = [sweep EXCEPT ![s].pc = "untag", ![s].key = k,
                                       ![s].keys = @ \ {k}, ![s].todo = tagsOf[k]]
             /\ UNCHANGED keysOf
       \/ /\ sweep[s].keys = {}
          /\ keysOf' = [keysOf EXCEPT ![sweep[s].tag] = {}]
          /\ sweep' = [sweep EXCEPT ![s] = Asleep]
          /\ UNCHANGED queue
    /\ UNCHANGED <<source, data, tagsOf, call, refresh, faults>>

\* removeKeyFromTags: out of each tag's set, then the set of the key's tags.
RemoveKeyFromTags(s) ==
    LET k == sweep[s].key IN
    /\ In(s, "untag")
    /\ \/ \E t \in sweep[s].todo :
             /\ keysOf' = [keysOf EXCEPT ![t] = @ \ {k}]
             /\ sweep' = [sweep EXCEPT ![s].todo = @ \ {t}]
             /\ UNCHANGED tagsOf
       \/ /\ sweep[s].todo = {}
          /\ tagsOf' = [tagsOf EXCEPT ![k] = {}]
          /\ sweep' = [sweep EXCEPT ![s].pc = "delete"]
          /\ UNCHANGED keysOf
    /\ UNCHANGED <<source, data, queue, call, refresh, faults>>

Delete(s) ==
    /\ In(s, "delete")
    /\ data' = [data EXCEPT ![sweep[s].key] = None]
    /\ sweep' = [sweep EXCEPT ![s].pc = "next", ![s].key = None]
    /\ UNCHANGED <<source, keysOf, tagsOf, queue, call, refresh, faults>>

Sweep(s) == Members(s) \/ DeleteNext(s) \/ RemoveKeyFromTags(s) \/ Delete(s)

\* A command fails: an error while untagging does not stop the deletion, one
\* of the deletion does not stop the next key's, others end the invalidation.
SweepFails(s) ==
    /\ faults < MaxFaults /\ faults' = faults + 1
    /\ \/ /\ In(s, "members") \/ (In(s, "next") /\ sweep[s].keys = {})
          /\ sweep' = [sweep EXCEPT ![s] = Asleep]
       \/ /\ In(s, "untag")
          /\ sweep' = [sweep EXCEPT ![s].pc = "delete", ![s].todo = {}]
       \/ /\ In(s, "delete")
          /\ sweep' = [sweep EXCEPT ![s].pc = "next", ![s].key = None]
    /\ UNCHANGED <<source, redis, queue, call, refresh>>

-----------------------------------------------------------------------------
(* The background refresh *)

\* The timer fires; a run in progress turns it away.
StartRefresh ==
    /\ refresh.pc = "idle" /\ queue # {}
    /\ refresh' = [Resting EXCEPT !.pc = "check", !.batch = queue]
    /\ UNCHANGED <<source, redis, queue, call, sweep, faults>>

\* shouldRefreshEntry: an entry that is gone leaves the queue; whether its
\* remaining time asks for a refresh is left open.
CheckEntry ==
    /\ refresh.pc = "check"
    /\ \/ \E k \in refresh.batch :
             \/ /\ data[k] = None
                /\ queue' = queue \ {k}
                /\ refresh' = [refresh EXCEPT !.batch = @ \ {k}]
             \/ /\ data[k] # None
                /\ refresh' = [refresh EXCEPT !.batch = @ \ {k}]
                /\ UNCHANGED queue
             \/ /\ data[k] # None
                /\ refresh' = [refresh EXCEPT !.pc = "generate", !.key = k,
                                              !.batch = @ \ {k}]
                /\ UNCHANGED queue
       \/ /\ refresh.batch = {}
          /\ refresh' = Resting
          /\ UNCHANGED queue
    /\ UNCHANGED <<source, redis, call, sweep, faults>>

\* Mutant: the refresh writes back what the cache holds, if anything.
BugRefreshEntry ==
    /\ \/ /\ refresh.pc = "generate"
          /\ refresh' = [refresh EXCEPT !.pc = "store", 
                                 !.value = IF data[refresh.key] = None THEN source[refresh.key]
                                           ELSE data[refresh.key]]
          /\ UNCHANGED data
       \/ /\ refresh.pc = "store"
          /\ data' = [data EXCEPT ![refresh.key] = refresh.value]
          /\ refresh' = [refresh EXCEPT !.pc = "check", !.key = None, !.value = None]
    /\ UNCHANGED <<source, keysOf, tagsOf, queue, call, sweep, faults>>

\* refreshEntry: the factory, then set with a time to live and nothing else.
RefreshEntry ==
    /\ \/ /\ refresh.pc = "generate"
          /\ refresh' = [refresh EXCEPT !.pc = "store", !.value = source[refresh.key]]
          /\ UNCHANGED data
       \/ /\ refresh.pc = "store"
          /\ data' = [data EXCEPT ![refresh.key] = refresh.value]
          /\ refresh' = [refresh EXCEPT !.pc = "check", !.key = None, !.value = None]
    /\ UNCHANGED <<source, keysOf, tagsOf, queue, call, sweep, faults>>

Refresh == CheckEntry \/ RefreshEntry

RefreshFails ==
    /\ faults < MaxFaults /\ faults' = faults + 1
    /\ refresh.pc \in {"generate", "store"}
    /\ refresh' = [refresh EXCEPT !.pc = "check", !.key = None, !.value = None]
    /\ UNCHANGED <<source, redis, queue, call, sweep>>

-----------------------------------------------------------------------------
(* Time and the process *)

ExpireEntry(k) ==
    /\ data[k] # None
    /\ data' = [data EXCEPT ![k] = None]
    /\ UNCHANGED <<source, keysOf, tagsOf, queue, call, sweep, refresh, faults>>

\* The process is replaced: what was in memory or in progress is gone.
Restart ==
    /\ faults < MaxFaults /\ faults' = faults + 1
    /\ queue' = {}
    /\ call' = [c \in Callers |-> Idle]
    /\ sweep' = [s \in Sweepers |-> Asleep]
    /\ refresh' = Resting
    /\ UNCHANGED <<source, redis>>

-----------------------------------------------------------------------------
(* History *)

\* A write of k is in progress: a call's, or a refresh that has chosen k.
Writing(k) ==
    \/ \E c \in Callers : call[c].key = k /\ call[c].pc \in {"store", "tag"}
    \/ refresh.key = k

\* An invalidation that may touch k is in progress.
Sweeping(k) ==
    \E s \in Sweepers : /\ sweep[s].pc # "idle"
                        /\ \/ sweep[s].tag \in TagsFor(k)
                           \/ k \in sweep[s].keys \cup {sweep[s].key}

Remember ==
    /\ raced' = {k \in Keys :
                    /\ \/ k \in raced
                       \/ (Writing(k) /\ Sweeping(k))'
                       \/ faults' # faults
                    /\ ~ (data'[k] = None /\ ~ Writing(k)' /\ ~ Sweeping(k)')}

Step ==
    \/ \E c \in Callers : \/ \E k \in Keys : GetOrSet(c, k) \/ UpdateMenu(c, k)
                          \/ Proceed(c)
                          \/ CallFails(c)
    \/ \E s \in Sweepers : \/ \E k \in Keys : Invalidate(s, k)
                           \/ Sweep(s)
                           \/ SweepFails(s)
    \/ StartRefresh \/ Refresh \/ RefreshFails
    \/ \E k \in Keys : ExpireEntry(k)
    \/ Restart

CacheNext == Step /\ Remember

CacheSpec == CacheInit /\ [][CacheNext]_cacheVars

\* Requests and the refresh proceed (the event loop serves them, Redis and
\* the database answer or fail), and an entry that is not written again runs
\* out.  Nothing makes anybody call, invalidate or start a refresh.
RewrittenOrExpired(k) ==
    \/ ExpireEntry(k)
    \/ \E c \in Callers : call[c].key = k /\ Store(c)
    \/ refresh.key = k /\ refresh.pc = "store" /\ RefreshEntry

FairCacheSpec ==
    /\ CacheSpec
    /\ \A c \in Callers : WF_cacheVars(Proceed(c) /\ Remember)
    /\ WF_cacheVars(Refresh /\ Remember)
    /\ \A k \in Keys : WF_cacheVars(RewrittenOrExpired(k) /\ Remember)

-----------------------------------------------------------------------------
(* Properties *)

CallRecord == [pc : {"idle", "generate", "store", "tag"},
               key : Keys \cup {None}, value : Versions \cup {None},
               renewable : BOOLEAN, todo : SUBSET Tags]
SweepRecord == [pc : {"idle", "members", "next", "untag", "delete"},
                tag : Tags \cup {None}, keys : SUBSET Keys,
                key : Keys \cup {None}, todo : SUBSET Tags]
RefreshRecord == [pc : {"idle", "check", "generate", "store"},
                  batch : SUBSET Keys, key : Keys \cup {None},
                  value : Versions \cup {None}]

\* Every variable has its type, and calls, invalidations and the refresh know
\* their key wherever they use it.
CacheTypeOK ==
    /\ source \in [Keys -> Versions]
    /\ data \in [Keys -> Versions \cup {None}]
    /\ keysOf \in [Tags -> SUBSET Keys]
    /\ tagsOf \in [Keys -> SUBSET Tags]
    /\ queue \subseteq Keys
    /\ call \in [Callers -> CallRecord]
    /\ \A c \in Callers : call[c].pc # "idle" => call[c].key \in Keys
    /\ \A c \in Callers : call[c].pc = "store" => call[c].value \in Versions
    /\ sweep \in [Sweepers -> SweepRecord]
    /\ \A s \in Sweepers : /\ sweep[s].pc = "members" => sweep[s].tag \in Tags
                           /\ sweep[s].pc \in {"untag", "delete"} => sweep[s].key \in Keys
    /\ refresh \in RefreshRecord
    /\ refresh.pc \in {"generate", "store"} => refresh.key \in Keys
    /\ refresh.pc = "store" => refresh.value \in Versions
    /\ faults \in 0..MaxFaults
    /\ raced \subseteq Keys

\* An entry that no write, invalidation or fault has disturbed is in the set
\* of each of its tags, and its own set names them: an invalidation by tag
\* finds it.  Refreshes, which store without tags, and entries that ran out in
\* between do not change that.
FindableByTag ==
    \A k \in Keys \ raced :
        data[k] # None /\ ~ Writing(k) /\ ~ Sweeping(k)
            => /\ \A t \in TagsFor(k) : k \in keysOf[t]
               /\ TagsFor(k) \subseteq tagsOf[k]

\* Whatever raced, an outdated menu does not stay: once a menu is not updated
\* any more, the cache ends up holding its last version or nothing.
EventuallyFresh ==
    \A k \in Keys : <>[](data[k] \in {None, source[k]})

=============================================================================
