--------------------------- MODULE Common_proofs ----------------------------
(***************************************************************************)
(* Theorems about the services of src/common: TaggedCache, for any sets of *)
(* callers, invalidations, keys and shared tags, and CircuitBreaker, for   *)
(* any number of callers and checks and any thresholds and timeouts.       *)
(***************************************************************************)
EXTENDS CircuitBreaker, TaggedCache, FiniteSetTheorems, TLAPS

-----------------------------------------------------------------------------
(* The cache: types.                                                       *)

\* None is no key, tag or version.
LEMMA NoneIsApart == None \notin Keys /\ None \notin Tags /\ None \notin Versions /\ Keys \subseteq Tags
  BY CacheAssumption DEF Tags, Versions

CallTyped(r) ==
    /\ r \in CallRecord
    /\ r.pc # "idle" => r.key \in Keys
    /\ r.pc = "store" => r.value \in Versions

SweepTyped(r) ==
    /\ r \in SweepRecord
    /\ r.pc = "members" => r.tag \in Tags
    /\ r.pc \in {"untag", "delete"} => r.key \in Keys

RefreshTyped(r) ==
    /\ r \in RefreshRecord
    /\ r.pc \in {"generate", "store"} => r.key \in Keys
    /\ r.pc = "store" => r.value \in Versions

StoresTyped ==
    /\ source \in [Keys -> Versions]
    /\ data \in [Keys -> Versions \cup {None}]
    /\ keysOf \in [Tags -> SUBSET Keys]
    /\ tagsOf \in [Keys -> SUBSET Tags]
    /\ queue \subseteq Keys
    /\ faults \in 0..MaxFaults
    /\ raced \subseteq Keys

\* The type invariant, actor by actor.
LEMMA TypedByActor ==
    CacheTypeOK <=> /\ StoresTyped
                    /\ DOMAIN call = Callers /\ call = [c \in Callers |-> call[c]]
                    /\ \A c \in Callers : CallTyped(call[c])
                    /\ DOMAIN sweep = Sweepers /\ sweep = [s \in Sweepers |-> sweep[s]]
                    /\ \A s \in Sweepers : SweepTyped(sweep[s])
                    /\ RefreshTyped(refresh)
  BY DEF CacheTypeOK, StoresTyped, CallTyped, SweepTyped, RefreshTyped

\* A step that gives a call a typed record keeps the types.
LEMMA CallMoves ==
    ASSUME CacheTypeOK, StoresTyped', UNCHANGED <<sweep, refresh>>,
           NEW c \in Callers, NEW r, CallTyped(r), call' = [call EXCEPT ![c] = r]
    PROVE  CacheTypeOK'
  BY DEF CacheTypeOK, StoresTyped, CallTyped

\* A step that gives an invalidation a typed record keeps the types.
LEMMA SweepMoves ==
    ASSUME CacheTypeOK, StoresTyped', UNCHANGED <<call, refresh>>,
           NEW s \in Sweepers, NEW r, SweepTyped(r), sweep' = [sweep EXCEPT ![s] = r]
    PROVE  CacheTypeOK'
  BY DEF CacheTypeOK, StoresTyped, SweepTyped

\* A step that gives the refresh a typed record keeps the types.
LEMMA RefreshMoves ==
    ASSUME CacheTypeOK, StoresTyped', UNCHANGED <<call, sweep>>, RefreshTyped(refresh')
    PROVE  CacheTypeOK'
  BY DEF CacheTypeOK, StoresTyped, RefreshTyped

\* Records at rest.
LEMMA AtRest == CallTyped(Idle) /\ SweepTyped(Asleep) /\ RefreshTyped(Resting)
  BY DEF CallTyped, SweepTyped, RefreshTyped, Idle, Asleep, Resting, CallRecord, SweepRecord, RefreshRecord

\* The initial state is typed.
LEMMA CacheInitTyped == CacheInit => CacheTypeOK
<1> SUFFICES ASSUME CacheInit
             PROVE  CacheTypeOK
  OBVIOUS
<1>1. 0 \in Versions /\ 0 \in 0..MaxFaults
  BY CacheAssumption DEF Versions
<1> QED
  BY <1>1, AtRest DEF CacheInit, CacheTypeOK, CallTyped, SweepTyped, RefreshTyped, Idle, Asleep, Resting

-----------------------------------------------------------------------------
\* The steps of a call keep the types.
LEMMA CallStepTyped ==
    ASSUME CacheTypeOK, raced' \subseteq Keys, NEW c \in Callers,
           \/ \E k \in Keys : GetOrSet(c, k) \/ UpdateMenu(c, k)
           \/ Proceed(c) \/ CallFails(c)
    PROVE  CacheTypeOK'
<1> USE NoneIsApart
<1>1. CallTyped(call[c]) /\ StoresTyped
  BY TypedByActor
<1>2. ASSUME NEW k \in Keys, GetOrSet(c, k)
      PROVE  CacheTypeOK'
  <2> DEFINE popular == k \in Popular
             r == [Idle EXCEPT !.pc = "generate", !.key = k, !.renewable = popular]
  <2>1. call' = [call EXCEPT ![c] = r]
    BY <1>2 DEF GetOrSet
  <2>2. StoresTyped' /\ UNCHANGED <<sweep, refresh>>
    BY <1>1, <1>2 DEF GetOrSet, redis, StoresTyped
  <2>3. CallTyped(r)
    <3>1. popular \in BOOLEAN
      OBVIOUS
    <3> HIDE DEF popular
    <3> QED
      BY <3>1, AtRest DEF CallTyped, CallRecord, Idle
  <2> QED
    BY <2>1, <2>2, <2>3, CallMoves
<1>3. ASSUME NEW k \in Keys, UpdateMenu(c, k)
      PROVE  CacheTypeOK'
  <2> DEFINE r == [Idle EXCEPT !.pc = "store", !.key = k, !.value = source[k] + 1]
  <2>1. source[k] + 1 \in Versions
    <3>1. source[k] \in 0..MaxVersion /\ source[k] < MaxVersion /\ MaxVersion \in Nat
      BY <1>1, <1>3, CacheAssumption DEF UpdateMenu, StoresTyped, Versions
    <3> QED
      BY <3>1 DEF Versions
  <2>2. call' = [call EXCEPT ![c] = r]
    BY <1>3 DEF UpdateMenu
  <2>3. StoresTyped' /\ UNCHANGED <<sweep, refresh>>
    BY <1>1, <1>3, <2>1 DEF UpdateMenu, redis, StoresTyped
  <2>4. CallTyped(r)
    BY <2>1, AtRest DEF CallTyped, CallRecord, Idle
  <2> QED
    BY <2>2, <2>3, <2>4, CallMoves
<1>4. CASE Generate(c)
  <2> DEFINE r == [call[c] EXCEPT !.pc = "store", !.value = source[call[c].key]]
  <2>1. call[c].key \in Keys /\ source[call[c].key] \in Versions
    BY <1>1, <1>4 DEF Generate, At, CallTyped, StoresTyped
  <2>2. call' = [call EXCEPT ![c] = r]
    BY <1>4 DEF Generate, CacheTypeOK
  <2>3. StoresTyped' /\ UNCHANGED <<sweep, refresh>>
    BY <1>1, <1>4 DEF Generate, redis, StoresTyped
  <2>4. CallTyped(r)
    BY <1>1, <2>1 DEF CallTyped, CallRecord
  <2> QED
    BY <2>2, <2>3, <2>4, CallMoves
<1>5. CASE Store(c)
  <2> DEFINE r == [call[c] EXCEPT !.pc = "tag", !.value = None, !.todo = TagsFor(call[c].key)]
  <2>1. call[c].key \in Keys /\ call[c].value \in Versions /\ TagsFor(call[c].key) \subseteq Tags
    BY <1>1, <1>5 DEF Store, At, CallTyped, TagsFor, Tags
  <2>2. StoresTyped' /\ UNCHANGED <<sweep, refresh>>
    BY <1>1, <1>5, <2>1 DEF Store, StoresTyped
  <2>3. call' = [call EXCEPT ![c] = r]
    BY <1>1, <1>5 DEF Store, CacheTypeOK
  <2>4. CallTyped(r)
    BY <1>1, <2>1 DEF CallTyped, CallRecord
  <2> QED
    BY <2>2, <2>3, <2>4, CallMoves
<1>6. CASE AssociateKeyWithTags(c)
  <2>1. call[c].key \in Keys /\ call[c].todo \subseteq Tags /\ TagsFor(call[c].key) \subseteq Tags
    BY <1>1, <1>6 DEF AssociateKeyWithTags, At, CallTyped, CallRecord, TagsFor, Tags
  <2>2. ASSUME NEW t \in call[c].todo, keysOf' = [keysOf EXCEPT ![t] = @ \cup {call[c].key}],
               call' = [call EXCEPT ![c].todo = @ \ {t}], UNCHANGED tagsOf
        PROVE  CacheTypeOK'
    <3> DEFINE r == [call[c] EXCEPT !.todo = call[c].todo \ {t}]
    <3>1. StoresTyped' /\ UNCHANGED <<sweep, refresh>>
      BY <1>1, <1>6, <2>1, <2>2 DEF AssociateKeyWithTags, StoresTyped
    <3>2. call' = [call EXCEPT ![c] = r]
      BY <2>2 DEF CacheTypeOK
    <3>3. CallTyped(r)
      BY <1>1, <2>1 DEF CallTyped, CallRecord
    <3> QED
      BY <3>1, <3>2, <3>3, CallMoves
  <2>3. ASSUME tagsOf' = [tagsOf EXCEPT ![call[c].key] = @ \cup TagsFor(call[c].key)],
               call' = [call EXCEPT ![c] = Idle], UNCHANGED keysOf
        PROVE  CacheTypeOK'
    <3>1. StoresTyped' /\ UNCHANGED <<sweep, refresh>>
      BY <1>1, <1>6, <2>1, <2>3 DEF AssociateKeyWithTags, StoresTyped
    <3> QED
      BY <2>3, <3>1, AtRest, CallMoves
  <2> QED
    BY <1>6, <2>2, <2>3 DEF AssociateKeyWithTags
<1>7. CASE CallFails(c)
  <2>1. StoresTyped'
    BY <1>1, <1>7, CacheAssumption DEF CallFails, StoresTyped, redis
  <2> QED
    BY <1>7, <2>1, AtRest, CallMoves DEF CallFails
<1> QED
  BY <1>2, <1>3, <1>4, <1>5, <1>6, <1>7 DEF Proceed

\* The steps of an invalidation keep the types.
LEMMA SweepStepTyped ==
    ASSUME CacheTypeOK, raced' \subseteq Keys, NEW s \in Sweepers,
           \/ \E k \in Keys : Invalidate(s, k)
           \/ Sweep(s) \/ SweepFails(s)
    PROVE  CacheTypeOK'
<1> USE NoneIsApart
<1>1. SweepTyped(sweep[s]) /\ StoresTyped
  BY TypedByActor
<1>2. ASSUME NEW k \in Keys, Invalidate(s, k)
      PROVE  CacheTypeOK'
  <2> DEFINE r == [Asleep EXCEPT !.pc = "members", !.tag = k]
  <2>1. sweep' = [sweep EXCEPT ![s] = r]
    BY <1>2 DEF Invalidate
  <2>2. StoresTyped' /\ UNCHANGED <<call, refresh>>
    BY <1>1, <1>2 DEF Invalidate, redis, StoresTyped
  <2>3. SweepTyped(r)
    BY AtRest DEF SweepTyped, SweepRecord, Asleep
  <2> QED
    BY <2>1, <2>2, <2>3, SweepMoves
<1>3. CASE Members(s)
  <2> DEFINE r == [sweep[s] EXCEPT !.pc = "next", !.keys = keysOf[sweep[s].tag]]
  <2>1. keysOf[sweep[s].tag] \subseteq Keys
    BY <1>1, <1>3 DEF Members, In, SweepTyped, StoresTyped
  <2>2. sweep' = [sweep EXCEPT ![s] = r]
    BY <1>3 DEF Members, CacheTypeOK
  <2>3. StoresTyped' /\ UNCHANGED <<call, refresh>>
    BY <1>1, <1>3 DEF Members, redis, StoresTyped
  <2>4. SweepTyped(r)
    BY <1>1, <2>1 DEF SweepTyped, SweepRecord
  <2> QED
    BY <2>2, <2>3, <2>4, SweepMoves
<1>4. CASE DeleteNext(s)
  <2>1. ASSUME NEW k \in sweep[s].keys, queue' = queue \ {k}, UNCHANGED keysOf,
               sweep' = [sweep EXCEPT ![s].pc = "untag", ![s].key = k,
                                      ![s].keys = @ \ {k}, ![s].todo = tagsOf[k]]
        PROVE  CacheTypeOK'
    <3> DEFINE r == [sweep[s] EXCEPT !.pc = "untag", !.key = k,
                                     !.keys = sweep[s].keys \ {k}, !.todo = tagsOf[k]]
    <3>1. k \in Keys /\ tagsOf[k] \subseteq Tags
      BY <1>1 DEF SweepTyped, SweepRecord, StoresTyped
    <3>2. StoresTyped' /\ UNCHANGED <<call, refresh>>
      BY <1>1, <1>4, <2>1 DEF DeleteNext, StoresTyped
    <3>3. sweep' = [sweep EXCEPT ![s] = r]
      BY <2>1 DEF CacheTypeOK
    <3>4. SweepTyped(r)
      BY <1>1, <3>1 DEF SweepTyped, SweepRecord
    <3> QED
      BY <3>2, <3>3, <3>4, SweepMoves
  <2>2. ASSUME keysOf' = [keysOf EXCEPT ![sweep[s].tag] = {}], UNCHANGED queue,
               sweep' = [sweep EXCEPT ![s] = Asleep]
        PROVE  CacheTypeOK'
    <3>1. StoresTyped' /\ UNCHANGED <<call, refresh>>
      BY <1>1, <1>4, <2>2 DEF DeleteNext, StoresTyped
    <3> QED
      BY <2>2, <3>1, AtRest, SweepMoves
  <2> QED
    BY <1>4, <2>1, <2>2 DEF DeleteNext
<1>5. CASE RemoveKeyFromTags(s)
  <2>1. sweep[s].key \in Keys /\ sweep[s].todo \subseteq Tags
    BY <1>1, <1>5 DEF RemoveKeyFromTags, In, SweepTyped, SweepRecord
  <2>2. ASSUME NEW t \in sweep[s].todo, keysOf' = [keysOf EXCEPT ![t] = @ \ {sweep[s].key}],
               sweep' = [sweep EXCEPT ![s].todo = @ \ {t}], UNCHANGED tagsOf
        PROVE  CacheTypeOK'
    <3> DEFINE r == [sweep[s] EXCEPT !.todo = sweep[s].todo \ {t}]
    <3>1. StoresTyped' /\ UNCHANGED <<call, refresh>>
      BY <1>1, <1>5, <2>1, <2>2 DEF RemoveKeyFromTags, StoresTyped
    <3>2. sweep' = [sweep EXCEPT ![s] = r]
      BY <2>2 DEF CacheTypeOK
    <3>3. SweepTyped(r)
      BY <1>1, <2>1 DEF SweepTyped, SweepRecord
    <3> QED
      BY <3>1, <3>2, <3>3, SweepMoves
  <2>3. ASSUME tagsOf' = [tagsOf EXCEPT ![sweep[s].key] = {}], UNCHANGED keysOf,
               sweep' = [sweep EXCEPT ![s].pc = "delete"]
        PROVE  CacheTypeOK'
    <3> DEFINE r == [sweep[s] EXCEPT !.pc = "delete"]
    <3>1. StoresTyped' /\ UNCHANGED <<call, refresh>>
      BY <1>1, <1>5, <2>1, <2>3 DEF RemoveKeyFromTags, StoresTyped
    <3>2. sweep' = [sweep EXCEPT ![s] = r]
      BY <2>3 DEF CacheTypeOK
    <3>3. SweepTyped(r)
      BY <1>1, <2>1 DEF SweepTyped, SweepRecord
    <3> QED
      BY <3>1, <3>2, <3>3, SweepMoves
  <2> QED
    BY <1>5, <2>2, <2>3 DEF RemoveKeyFromTags
<1>6. ASSUME StoresTyped', UNCHANGED <<call, refresh>>,
             sweep' = [sweep EXCEPT ![s].pc = "next", ![s].key = None]
      PROVE  CacheTypeOK'
  <2> DEFINE r == [sweep[s] EXCEPT !.pc = "next", !.key = None]
  <2>1. sweep' = [sweep EXCEPT ![s] = r]
    BY <1>6 DEF CacheTypeOK
  <2>2. SweepTyped(r)
    BY <1>1 DEF SweepTyped, SweepRecord
  <2> QED
    BY <1>6, <2>1, <2>2, SweepMoves
<1>7. CASE Delete(s)
  <2>1. StoresTyped'
    BY <1>1, <1>7 DEF Delete, StoresTyped
  <2> QED
    BY <1>6, <1>7, <2>1 DEF Delete
<1>8. CASE SweepFails(s)
  <2>1. StoresTyped' /\ UNCHANGED <<call, refresh>>
    BY <1>1, <1>8, CacheAssumption DEF SweepFails, StoresTyped, redis
  <2>2. CASE sweep' = [sweep EXCEPT ![s] = Asleep]
    BY <2>1, <2>2, AtRest, SweepMoves
  <2>3. CASE In(s, "untag") /\ sweep' = [sweep EXCEPT ![s].pc = "delete", ![s].todo = {}]
    <3> DEFINE r == [sweep[s] EXCEPT !.pc = "delete", !.todo = {}]
    <3>1. sweep' = [sweep EXCEPT ![s] = r]
      BY <2>3 DEF CacheTypeOK
    <3>2. SweepTyped(r)
      BY <1>1, <2>3 DEF In, SweepTyped, SweepRecord
    <3> QED
      BY <2>1, <3>1, <3>2, SweepMoves
  <2> QED
    BY <1>6, <1>8, <2>1, <2>2, <2>3 DEF SweepFails
<1> QED
  BY <1>2, <1>3, <1>4, <1>5, <1>7, <1>8 DEF Sweep

\* The steps of the refresh keep the types.
LEMMA RefreshStepTyped ==
    ASSUME CacheTypeOK, raced' \subseteq Keys, StartRefresh \/ Refresh \/ RefreshFails
    PROVE  CacheTypeOK'
<1> USE NoneIsApart
<1>1. RefreshTyped(refresh) /\ StoresTyped
  BY TypedByActor
<1>2. UNCHANGED <<call, sweep>>
  BY DEF StartRefresh, Refresh, CheckEntry, RefreshEntry, RefreshFails
<1>3. StoresTyped'
  <2>1. CASE StartRefresh
    BY <1>1, <2>1 DEF StartRefresh, redis, StoresTyped
  <2>2. CASE CheckEntry
    BY <1>1, <2>2 DEF CheckEntry, redis, StoresTyped
  <2>3. CASE RefreshEntry
    BY <1>1, <2>3 DEF RefreshEntry, RefreshTyped, StoresTyped
  <2>4. CASE RefreshFails
    BY <1>1, <2>4, CacheAssumption DEF RefreshFails, redis, StoresTyped
  <2> QED
    BY <2>1, <2>2, <2>3, <2>4 DEF Refresh
<1>4. RefreshTyped(refresh')
  <2>1. CASE StartRefresh
    BY <1>1, <2>1 DEF StartRefresh, Resting, StoresTyped, RefreshTyped, RefreshRecord
  <2>2. CASE CheckEntry
    <3>1. CASE \E k \in refresh.batch : \/ refresh' = [refresh EXCEPT !.batch = @ \ {k}]
                                        \/ refresh' = [refresh EXCEPT !.pc = "generate", !.key = k,
                                                                      !.batch = @ \ {k}]
      BY <1>1, <3>1 DEF RefreshTyped, RefreshRecord
    <3> QED
      BY <2>2, <3>1, AtRest DEF CheckEntry
  <2>3. CASE RefreshEntry
    BY <1>1, <2>3 DEF RefreshEntry, RefreshTyped, RefreshRecord, StoresTyped
  <2>4. CASE RefreshFails
    BY <1>1, <2>4 DEF RefreshFails, RefreshTyped, RefreshRecord
  <2> QED
    BY <2>1, <2>2, <2>3, <2>4 DEF Refresh
<1> QED
  BY <1>2, <1>3, <1>4, RefreshMoves

\* Every step keeps the types.
LEMMA CacheNextTyped ==
    ASSUME CacheTypeOK, [CacheNext]_cacheVars
    PROVE  CacheTypeOK'
<1>1. CASE UNCHANGED cacheVars
  BY <1>1 DEF cacheVars, CacheTypeOK
<1>2. ASSUME CacheNext
      PROVE  raced' \subseteq Keys
  BY <1>2 DEF CacheNext, Remember
<1>3. ASSUME NEW k \in Keys, ExpireEntry(k), raced' \subseteq Keys
      PROVE  CacheTypeOK'
  BY <1>3 DEF ExpireEntry, CacheTypeOK
<1>4. ASSUME Restart, raced' \subseteq Keys
      PROVE  CacheTypeOK'
  <2>1. faults' \in 0..MaxFaults
    BY <1>4, CacheAssumption DEF Restart, CacheTypeOK
  <2>2. UNCHANGED <<source, data, keysOf, tagsOf>> /\ queue' = {}
    BY <1>4 DEF Restart, redis
  <2>3. StoresTyped'
    BY <1>4, <2>1, <2>2 DEF StoresTyped, CacheTypeOK
  <2> QED
    BY <1>4, <2>3, AtRest
    DEF Restart, CacheTypeOK, StoresTyped, CallTyped, SweepTyped, RefreshTyped, Idle, Asleep, Resting
<1> QED
  BY <1>1, <1>2, <1>3, <1>4, CallStepTyped, SweepStepTyped, RefreshStepTyped DEF CacheNext, Step

\* Every state of the entries, their tags and those who work on them is typed.
THEOREM CacheTypeCorrect == CacheSpec => []CacheTypeOK
<1> QED
  BY CacheInitTyped, CacheNextTyped, PTL DEF CacheSpec

-----------------------------------------------------------------------------
(* The cache: an entry nothing disturbed has its tags.                     *)

\* A call that writes k.
Calling(k) == \E c \in Callers : call[c].key = k /\ call[c].pc \in {"store", "tag"}

\* An invalidation that has k on its list: it will delete the entry.
Held(k) == \E s \in Sweepers : /\ sweep[s].pc # "idle"
                               /\ k \in sweep[s].keys \cup {sweep[s].key}

\* The entry is in the set of each of its tags and its own set names them.
Tagged(k) == /\ \A t \in TagsFor(k) : k \in keysOf[t]
             /\ TagsFor(k) \subseteq tagsOf[k]

SweepClean(s) == /\ sweep[s].pc = "members" => sweep[s].keys = {}
                 /\ sweep[s].pc \in {"members", "next"} => sweep[s].key = None

\* What holds of an entry that nothing has disturbed.  Unless a call that writes
\* it will tag it, it is tagged as long as it is there or a refresh is about to
\* store it, or an invalidation will delete it; an invalidation of one of its
\* tags that has read the tag's set has it on its list if it is there; and a
\* call has tagged it with all tags but those it still has to do.
Undisturbed(k) ==
    /\ ~ (Writing(k) /\ Sweeping(k))
    /\ data[k] # None \/ refresh.key = k => Calling(k) \/ Tagged(k) \/ Held(k)
    /\ \A s \in Sweepers :
          sweep[s].tag \in TagsFor(k) /\ sweep[s].pc \in {"next", "untag", "delete"}
              => data[k] = None \/ Held(k)
    /\ \A c \in Callers :
          call[c].key = k /\ call[c].pc = "tag"
              => \A t \in TagsFor(k) \ call[c].todo : k \in keysOf[t]

CacheInv ==
    /\ CacheTypeOK
    /\ \A s \in Sweepers : SweepClean(s)
    /\ \A k \in Keys \ raced : Undisturbed(k)

\* An empty cache holds no entry that could miss a tag.
LEMMA CacheInitKeeps == CacheInit => CacheInv
<1> SUFFICES ASSUME CacheInit
             PROVE  CacheInv
  OBVIOUS
<1>1. \A c \in Callers : call[c].pc = "idle"
  BY DEF CacheInit, Idle
<1>2. \A s \in Sweepers : sweep[s].pc = "idle"
  BY DEF CacheInit, Asleep
<1>3. refresh.key = None /\ \A k \in Keys : data[k] = None
  BY DEF CacheInit, Resting
<1> QED
  BY <1>1, <1>2, <1>3, NoneIsApart, CacheInitTyped
  DEF CacheInv, SweepClean, Undisturbed, Sweeping

\* Who writes an entry, and what that rules out.
LEMMA WritersAndSweepers ==
    ASSUME NEW k \in Keys
    PROVE  /\ Writing(k) <=> Calling(k) \/ refresh.key = k
           /\ Held(k) => Sweeping(k)
           /\ \A s \in Sweepers : sweep[s].pc # "idle" /\ sweep[s].tag \in TagsFor(k) => Sweeping(k)
  BY DEF Writing, Calling, Held, Sweeping

\* Calls ----------------------------------------------------------------

\* A call begins, or gets as far as its write.
LEMMA CallApproaches ==
    ASSUME CacheTypeOK, NEW k \in Keys, Undisturbed(k), ~ (Writing(k) /\ Sweeping(k))',
           NEW c \in Callers, call[c].pc \notin {"store", "tag"}, call'[c].pc # "tag",
           \A d \in Callers \ {c} : call'[d] = call[d],
           UNCHANGED <<data, keysOf, tagsOf, sweep, refresh>>
    PROVE  Undisturbed(k)'
<1>1. Held(k)' = Held(k) /\ Tagged(k)' = Tagged(k) /\ (Calling(k) => Calling(k)')
  BY DEF Held, Tagged, Calling
<1> QED
  BY <1>1 DEF Undisturbed

\* A call writes the entry.
LEMMA CallStores ==
    ASSUME CacheTypeOK, NEW k \in Keys, Undisturbed(k), ~ (Writing(k) /\ Sweeping(k))',
           NEW c \in Callers, Store(c)
    PROVE  Undisturbed(k)'
<1>1. /\ call[c].pc = "store" /\ call[c].key \in Keys
      /\ UNCHANGED <<keysOf, tagsOf, sweep, refresh>>
      /\ \A d \in Callers \ {c} : call'[d] = call[d]
      /\ call'[c].pc = "tag" /\ call'[c].key = call[c].key
      /\ call'[c].todo = TagsFor(call[c].key)
      /\ \A x \in Keys \ {call[c].key} : data'[x] = data[x]
  BY DEF Store, At, CacheTypeOK, CallRecord
<1>2. Held(k)' = Held(k) /\ Tagged(k)' = Tagged(k) /\ Calling(k)' = Calling(k)
  BY <1>1 DEF Held, Tagged, Calling
<1>3. CASE call[c].key # k
  BY <1>1, <1>2, <1>3 DEF Undisturbed
<1>4. CASE call[c].key = k
  <2>1. Calling(k) /\ ~ Sweeping(k)
    BY <1>1, <1>4, WritersAndSweepers DEF Calling, Undisturbed
  <2>2. \A s \in Sweepers : ~ (sweep[s].pc # "idle" /\ sweep[s].tag \in TagsFor(k))
    BY <2>1, WritersAndSweepers
  <2> QED
    BY <1>1, <1>2, <1>4, <2>1, <2>2 DEF Undisturbed
<1> QED
  BY <1>3, <1>4

\* A call tags the entry; with the last tag the entry is tagged.
LEMMA CallTags ==
    ASSUME CacheTypeOK, NEW k \in Keys, Undisturbed(k), ~ (Writing(k) /\ Sweeping(k))',
           NEW c \in Callers, AssociateKeyWithTags(c)
    PROVE  Undisturbed(k)'
<1>1. /\ call[c].pc = "tag" /\ call[c].key \in Keys /\ call[c].todo \subseteq Tags
      /\ UNCHANGED <<data, sweep, refresh>>
      /\ \A d \in Callers \ {c} : call'[d] = call[d]
  BY DEF AssociateKeyWithTags, At, CacheTypeOK, CallRecord
<1>2. Held(k)' = Held(k) /\ TagsFor(k) \subseteq Tags
  BY <1>1, NoneIsApart DEF Held, TagsFor, Tags
<1>3. ASSUME NEW t \in call[c].todo, keysOf' = [keysOf EXCEPT ![t] = @ \cup {call[c].key}],
             call' = [call EXCEPT ![c].todo = @ \ {t}], UNCHANGED tagsOf
      PROVE  Undisturbed(k)'
  <2>1. /\ call'[c].pc = "tag" /\ call'[c].key = call[c].key
        /\ call'[c].todo = call[c].todo \ {t}
    BY <1>1, <1>3 DEF CacheTypeOK, CallRecord
  <2>2. /\ keysOf'[t] = keysOf[t] \cup {call[c].key}
        /\ \A u \in Tags \ {t} : keysOf'[u] = keysOf[u]
    BY <1>1, <1>3 DEF CacheTypeOK
  <2>3. Calling(k)' = Calling(k) /\ (Tagged(k) => Tagged(k)')
    BY <1>1, <1>2, <1>3, <2>1, <2>2 DEF Calling, Tagged
  <2>4. ASSUME NEW d \in Callers, call'[d].key = k, call'[d].pc = "tag",
               NEW u \in TagsFor(k) \ call'[d].todo
        PROVE  k \in keysOf'[u]
    <3>1. u \in Tags /\ (k \in keysOf[u] => k \in keysOf'[u])
      BY <1>2, <2>2
    <3>2. CASE d # c
      BY <1>1, <2>4, <3>1, <3>2 DEF Undisturbed
    <3>3. CASE d = c /\ u # t
      BY <1>1, <2>1, <2>4, <3>1, <3>3 DEF Undisturbed
    <3>4. CASE d = c /\ u = t
      BY <2>1, <2>2, <2>4, <3>4
    <3> QED
      BY <3>2, <3>3, <3>4
  <2> QED
    BY <1>1, <1>2, <2>3, <2>4 DEF Undisturbed
<1>4. ASSUME call[c].todo = {}, UNCHANGED keysOf, call' = [call EXCEPT ![c] = Idle],
             tagsOf' = [tagsOf EXCEPT ![call[c].key] = @ \cup TagsFor(call[c].key)]
      PROVE  Undisturbed(k)'
  <2>1. call'[c].pc = "idle" /\ call'[c].key = None
    BY <1>4 DEF CacheTypeOK, Idle
  <2>2. /\ tagsOf'[call[c].key] = tagsOf[call[c].key] \cup TagsFor(call[c].key)
        /\ \A x \in Keys \ {call[c].key} : tagsOf'[x] = tagsOf[x]
    BY <1>1, <1>4 DEF CacheTypeOK
  <2>3. CASE call[c].key = k
    <3>1. Tagged(k)'
      BY <1>1, <1>4, <2>2, <2>3 DEF Undisturbed, Tagged
    <3> QED
      BY <1>1, <1>2, <1>4, <2>1, <3>1 DEF Undisturbed
  <2>4. CASE call[c].key # k
    <3>1. Calling(k)' = Calling(k) /\ Tagged(k)' = Tagged(k)
      BY <1>1, <1>4, <2>1, <2>2, <2>4 DEF Calling, Tagged
    <3> QED
      BY <1>1, <1>2, <1>4, <2>1, <3>1 DEF Undisturbed
  <2> QED
    BY <2>3, <2>4
<1> QED
  BY <1>3, <1>4 DEF AssociateKeyWithTags

\* A call's step keeps what is said of an undisturbed entry.
LEMMA CallKeeps ==
    ASSUME CacheTypeOK, NEW k \in Keys, Undisturbed(k), ~ (Writing(k) /\ Sweeping(k))',
           NEW c \in Callers, Proceed(c) \/ \E x \in Keys : GetOrSet(c, x) \/ UpdateMenu(c, x)
    PROVE  Undisturbed(k)'
<1>1. CASE Generate(c)
  <2>1. /\ call[c].pc = "generate" /\ call'[c].pc = "store"
        /\ \A d \in Callers \ {c} : call'[d] = call[d]
        /\ UNCHANGED <<data, keysOf, tagsOf, sweep, refresh>>
    BY <1>1 DEF Generate, At, redis, CacheTypeOK, CallRecord
  <2> QED
    BY <2>1, CallApproaches
<1>2. ASSUME NEW x \in Keys, GetOrSet(c, x) \/ UpdateMenu(c, x)
      PROVE  Undisturbed(k)'
  <2>1. /\ call[c].pc = "idle" /\ call'[c].pc \in {"generate", "store"}
        /\ \A d \in Callers \ {c} : call'[d] = call[d]
        /\ UNCHANGED <<data, keysOf, tagsOf, sweep, refresh>>
    <3>1. PICK r : call' = [call EXCEPT ![c] = r] /\ r.pc \in {"generate", "store"}
      <4>1. CASE GetOrSet(c, x)
        <5> DEFINE r == [Idle EXCEPT !.pc = "generate", !.key = x, !.renewable = x \in Popular]
        <5>1. r.pc = "generate"
          BY DEF Idle
        <5>2. call' = [call EXCEPT ![c] = r]
          BY <4>1 DEF GetOrSet
        <5> HIDE DEF r
        <5> QED
          BY <5>1, <5>2
      <4>2. CASE UpdateMenu(c, x)
        <5> DEFINE r == [Idle EXCEPT !.pc = "store", !.key = x, !.value = source[x] + 1]
        <5>1. r.pc = "store"
          BY DEF Idle
        <5>2. call' = [call EXCEPT ![c] = r]
          BY <4>2 DEF UpdateMenu
        <5> HIDE DEF r
        <5> QED
          BY <5>1, <5>2
      <4> QED
        BY <1>2, <4>1, <4>2
    <3> QED
      BY <1>2, <3>1 DEF GetOrSet, UpdateMenu, At, redis, CacheTypeOK
  <2> QED
    BY <2>1, CallApproaches
<1> QED
  BY <1>1, <1>2, CallStores, CallTags DEF Proceed

\* Invalidations --------------------------------------------------------

\* What a step of one invalidation leaves alone.
LEMMA OtherSweeps ==
    ASSUME NEW k \in Keys, NEW s \in Sweepers,
           \A q \in Sweepers \ {s} : sweep'[q] = sweep[q],
           sweep[s].pc # "idle" /\ k \in sweep[s].keys \cup {sweep[s].key}
             => sweep'[s].pc # "idle" /\ k \in sweep'[s].keys \cup {sweep'[s].key}
    PROVE  Held(k) => Held(k)'
  BY DEF Held

\* An invalidation moves on without touching k's entry or its tags.
LEMMA SweepMovesOn ==
    ASSUME CacheTypeOK, NEW k \in Keys, Undisturbed(k), ~ (Writing(k) /\ Sweeping(k))',
           NEW s \in Sweepers, UNCHANGED <<call, refresh>>, data'[k] = data[k],
           \A t \in TagsFor(k) : k \in keysOf[t] => k \in keysOf'[t],
           tagsOf'[k] = tagsOf[k],
           \A q \in Sweepers \ {s} : sweep'[q] = sweep[q],
           Held(k) => Held(k)',
           sweep'[s].pc \in {"next", "untag", "delete"} /\ sweep'[s].tag \in TagsFor(k)
             => data[k] = None \/ Held(k)'
    PROVE  Undisturbed(k)'
<1>1. Calling(k)' = Calling(k) /\ (Tagged(k) => Tagged(k)')
  BY DEF Calling, Tagged
<1>2. ASSUME NEW q \in Sweepers, sweep'[q].tag \in TagsFor(k),
             sweep'[q].pc \in {"next", "untag", "delete"}
      PROVE  data'[k] = None \/ Held(k)'
  <2>1. CASE q = s
    BY <1>2, <2>1
  <2>2. CASE q # s
    BY <1>2, <2>2 DEF Undisturbed
  <2> QED
    BY <2>1, <2>2
<1> QED
  BY <1>1, <1>2 DEF Undisturbed

\* An invalidation has dealt with k: it will delete the entry, or has done so,
\* or has emptied the set of one of its tags.
LEMMA SweepTouches ==
    ASSUME CacheTypeOK, NEW k \in Keys, Undisturbed(k), ~ (Writing(k) /\ Sweeping(k))',
           Sweeping(k), UNCHANGED <<call, refresh>>, data'[k] = None \/ Held(k)'
    PROVE  Undisturbed(k)'
<1>1. ~ Calling(k) /\ refresh.key # k
  BY WritersAndSweepers DEF Undisturbed
<1>2. Calling(k)' = Calling(k)
  BY DEF Calling
<1>3. \A c \in Callers : ~ (call'[c].key = k /\ call'[c].pc = "tag")
  BY <1>1 DEF Calling
<1> QED
  BY <1>1, <1>2, <1>3 DEF Undisturbed

\* An invalidation's step keeps what is said of an undisturbed entry.
LEMMA SweepKeeps ==
    ASSUME CacheTypeOK, \A s \in Sweepers : SweepClean(s),
           NEW k \in Keys, Undisturbed(k), ~ (Writing(k) /\ Sweeping(k))',
           NEW s \in Sweepers, Sweep(s) \/ \E x \in Keys : Invalidate(s, x)
    PROVE  Undisturbed(k)'
<1> USE NoneIsApart
<1>1. SweepClean(s) /\ TagsFor(k) \subseteq Tags /\ sweep[s].todo \subseteq Tags
  BY DEF TagsFor, Tags, CacheTypeOK, SweepRecord
<1>2. CASE \E x \in Keys : Invalidate(s, x)
  <2>1. /\ sweep[s].pc = "idle" /\ sweep'[s].pc = "members"
        /\ \A q \in Sweepers \ {s} : sweep'[q] = sweep[q]
        /\ UNCHANGED <<data, keysOf, tagsOf, call, refresh>>
    <3>1. PICK r : sweep' = [sweep EXCEPT ![s] = r] /\ r.pc = "members"
      <4>1. \A v : [Asleep EXCEPT !.pc = "members", !.tag = v].pc = "members"
        BY DEF Asleep
      <4> QED
        BY <1>2, <4>1 DEF Invalidate
    <3> QED
      BY <1>2, <3>1 DEF Invalidate, In, redis, CacheTypeOK
  <2>2. Held(k) => Held(k)'
    BY <2>1, OtherSweeps
  <2> QED
    BY <2>1, <2>2, SweepMovesOn
<1>3. CASE Members(s)
  <2>1. /\ sweep[s].pc = "members" /\ sweep'[s].pc = "next"
        /\ sweep'[s].keys = keysOf[sweep[s].tag] /\ sweep'[s].key = sweep[s].key
        /\ sweep'[s].tag = sweep[s].tag
        /\ \A q \in Sweepers \ {s} : sweep'[q] = sweep[q]
        /\ UNCHANGED <<data, keysOf, tagsOf, call, refresh>>
    BY <1>3 DEF Members, In, redis, CacheTypeOK, SweepRecord
  <2>2. Held(k) => Held(k)'
    BY <1>1, <2>1, OtherSweeps DEF SweepClean
  <2>3. ASSUME sweep[s].tag \in TagsFor(k), data[k] # None
        PROVE  Held(k)'
    <3>1. Sweeping(k) /\ ~ Calling(k)
      BY <2>1, <2>3, WritersAndSweepers DEF Undisturbed
    <3>2. Tagged(k) \/ Held(k)
      BY <2>3, <3>1 DEF Undisturbed
    <3>3. Tagged(k) => Held(k)'
      BY <2>1, <2>3 DEF Tagged, Held
    <3> QED
      BY <2>2, <3>2, <3>3
  <2> QED
    BY <2>1, <2>2, <2>3, SweepMovesOn
<1>4. CASE DeleteNext(s)
  <2>1. sweep[s].pc = "next" /\ UNCHANGED <<data, tagsOf, call, refresh>>
    BY <1>4 DEF DeleteNext, In
  <2>2. ASSUME NEW x \in sweep[s].keys, UNCHANGED keysOf,
               sweep' = [sweep EXCEPT ![s].pc = "untag", ![s].key = x,
                                      ![s].keys = @ \ {x}, ![s].todo = tagsOf[x]]
        PROVE  Undisturbed(k)'
    <3>1. /\ sweep'[s].pc = "untag" /\ sweep'[s].key = x
          /\ sweep'[s].keys = sweep[s].keys \ {x} /\ sweep'[s].tag = sweep[s].tag
          /\ \A q \in Sweepers \ {s} : sweep'[q] = sweep[q]
      BY <2>2 DEF CacheTypeOK, SweepRecord
    <3>2. Held(k) => Held(k)'
      BY <1>1, <2>1, <3>1, OtherSweeps DEF SweepClean
    <3>3. sweep'[s].tag \in TagsFor(k) => data[k] = None \/ Held(k)'
      BY <2>1, <3>1, <3>2 DEF Undisturbed
    <3> QED
      BY <2>1, <2>2, <3>1, <3>2, <3>3, SweepMovesOn
  <2>3. ASSUME sweep[s].keys = {}, keysOf' = [keysOf EXCEPT ![sweep[s].tag] = {}],
               sweep' = [sweep EXCEPT ![s] = Asleep]
        PROVE  Undisturbed(k)'
    <3>1. /\ sweep'[s].pc = "idle"
          /\ \A q \in Sweepers \ {s} : sweep'[q] = sweep[q]
          /\ \A t \in Tags : t # sweep[s].tag => keysOf'[t] = keysOf[t]
      BY <2>3 DEF CacheTypeOK, Asleep
    <3>2. Held(k) => Held(k)'
      BY <1>1, <2>1, <2>3, <3>1, OtherSweeps DEF SweepClean
    <3>3. CASE sweep[s].tag \in TagsFor(k)
      <4>1. Sweeping(k) /\ (data[k] = None \/ Held(k))
        BY <2>1, <3>3, WritersAndSweepers DEF Undisturbed
      <4> QED
        BY <2>1, <3>2, <4>1, SweepTouches
    <3>4. CASE sweep[s].tag \notin TagsFor(k)
      <4>1. \A t \in TagsFor(k) : keysOf'[t] = keysOf[t]
        BY <1>1, <3>1, <3>4
      <4> QED
        BY <2>1, <3>1, <3>2, <4>1, SweepMovesOn
    <3> QED
      BY <3>3, <3>4
  <2> QED
    BY <1>4, <2>2, <2>3 DEF DeleteNext
<1>5. CASE RemoveKeyFromTags(s)
  <2>1. /\ sweep[s].pc = "untag" /\ UNCHANGED <<data, call, refresh>>
        /\ sweep[s].key \in Keys
    BY <1>5 DEF RemoveKeyFromTags, In, CacheTypeOK
  <2>2. /\ sweep'[s].pc \in {"untag", "delete"} /\ sweep'[s].key = sweep[s].key
        /\ sweep'[s].keys = sweep[s].keys /\ sweep'[s].tag = sweep[s].tag
        /\ \A q \in Sweepers \ {s} : sweep'[q] = sweep[q]
    BY <1>5, <2>1 DEF RemoveKeyFromTags, CacheTypeOK, SweepRecord
  <2>3. Held(k) => Held(k)'
    BY <2>1, <2>2, OtherSweeps
  <2>4. CASE sweep[s].key = k
    <3>1. Held(k) /\ Sweeping(k)
      BY <2>1, <2>4, WritersAndSweepers DEF Held
    <3> QED
      BY <2>1, <2>3, <3>1, SweepTouches
  <2>5. CASE sweep[s].key # k
    <3>1. /\ \A t \in Tags : k \in keysOf[t] => k \in keysOf'[t]
          /\ tagsOf'[k] = tagsOf[k]
      BY <1>1, <1>5, <2>1, <2>5 DEF RemoveKeyFromTags, CacheTypeOK
    <3>2. sweep'[s].tag \in TagsFor(k) => data[k] = None \/ Held(k)'
      BY <2>1, <2>2, <2>3 DEF Undisturbed
    <3> QED
      BY <1>1, <2>1, <2>2, <2>3, <3>1, <3>2, SweepMovesOn
  <2> QED
    BY <2>4, <2>5
<1>6. CASE Delete(s)
  <2>1. /\ sweep[s].pc = "delete" /\ sweep[s].key \in Keys
        /\ UNCHANGED <<keysOf, tagsOf, call, refresh>>
        /\ data'[sweep[s].key] = None
        /\ \A x \in Keys \ {sweep[s].key} : data'[x] = data[x]
        /\ sweep'[s].pc = "next" /\ sweep'[s].key = None /\ sweep'[s].tag = sweep[s].tag
        /\ sweep'[s].keys = sweep[s].keys
        /\ \A q \in Sweepers \ {s} : sweep'[q] = sweep[q]
    BY <1>6 DEF Delete, In, CacheTypeOK, SweepRecord
  <2>2. CASE sweep[s].key = k
    <3>1. Sweeping(k)
      BY <2>1, <2>2, WritersAndSweepers DEF Held
    <3> QED
      BY <2>1, <2>2, <3>1, SweepTouches
  <2>3. CASE sweep[s].key # k
    <3>1. Held(k) => Held(k)'
      BY <2>1, <2>3, OtherSweeps
    <3>2. sweep'[s].tag \in TagsFor(k) => data[k] = None \/ Held(k)'
      BY <2>1, <3>1 DEF Undisturbed
    <3> QED
      BY <2>1, <2>3, <3>1, <3>2, SweepMovesOn
  <2> QED
    BY <2>2, <2>3
<1> QED
  BY <1>2, <1>3, <1>4, <1>5, <1>6 DEF Sweep

\* The refresh and time ---------------------------------------------------

\* The refresh stores only what it chose while it was there, without its tags:
\* they are still there.
LEMMA RefreshKeeps ==
    ASSUME CacheTypeOK, NEW k \in Keys, Undisturbed(k), ~ (Writing(k) /\ Sweeping(k))',
           StartRefresh \/ Refresh \/ \E x \in Keys : ExpireEntry(x)
    PROVE  Undisturbed(k)'
<1> USE NoneIsApart
<1>1. UNCHANGED <<keysOf, tagsOf, call, sweep>>
  BY DEF StartRefresh, Refresh, CheckEntry, RefreshEntry, ExpireEntry, redis
<1>2. refresh'.key = k => data[k] # None \/ refresh.key = k
  <2>1. CASE StartRefresh \/ \E x \in Keys : ExpireEntry(x)
    <3>1. \A v : [Resting EXCEPT !.pc = "check", !.batch = v].key = None
      BY DEF Resting
    <3> QED
      BY <2>1, <3>1 DEF StartRefresh, ExpireEntry
  <2>2. CASE CheckEntry
    <3>1. Resting.key = None
      BY DEF Resting
    <3>2. ASSUME NEW x \in refresh.batch, refresh' = [refresh EXCEPT !.batch = @ \ {x}]
          PROVE  refresh'.key = refresh.key
      BY <3>2 DEF CacheTypeOK, RefreshRecord
    <3>3. ASSUME NEW x \in refresh.batch,
                 refresh' = [refresh EXCEPT !.pc = "generate", !.key = x, !.batch = @ \ {x}]
          PROVE  refresh'.key = x
      BY <3>3 DEF CacheTypeOK, RefreshRecord
    <3>4. CASE refresh' = Resting
      BY <3>1, <3>4
    <3>5. CASE \E x \in refresh.batch : refresh' = [refresh EXCEPT !.batch = @ \ {x}]
      BY <3>2, <3>5
    <3>6. CASE \E x \in refresh.batch :
                 /\ data[x] # None
                 /\ refresh' = [refresh EXCEPT !.pc = "generate", !.key = x, !.batch = @ \ {x}]
      BY <3>3, <3>6
    <3> QED
      BY <2>2, <3>4, <3>5, <3>6 DEF CheckEntry
  <2>3. CASE RefreshEntry
    BY <2>3 DEF RefreshEntry, CacheTypeOK, RefreshRecord
  <2> QED
    BY <2>1, <2>2, <2>3 DEF Refresh
<1>3. data'[k] = data[k] \/ data'[k] = None \/ refresh.key = k
  BY DEF StartRefresh, Refresh, CheckEntry, RefreshEntry, ExpireEntry, redis, CacheTypeOK
<1>4. Calling(k)' = Calling(k) /\ Held(k)' = Held(k) /\ Tagged(k)' = Tagged(k)
  BY <1>1 DEF Calling, Held, Tagged
<1>5. refresh.key = k => \A s \in Sweepers : sweep[s].pc = "idle" \/ sweep[s].tag \notin TagsFor(k)
  BY WritersAndSweepers DEF Undisturbed
<1> QED
  BY <1>1, <1>2, <1>3, <1>4, <1>5 DEF Undisturbed

-----------------------------------------------------------------------------
\* A key is taken for undisturbed again when nothing is left of it.
LEMMA NothingLeft ==
    ASSUME NEW k \in Keys, (data[k] = None /\ ~ Writing(k) /\ ~ Sweeping(k))'
    PROVE  Undisturbed(k)'
  BY DEF Undisturbed, Writing, Sweeping, Calling

\* An invalidation that reads the members of a tag has no keys on its list yet.
LEMMA SweepsStayClean ==
    ASSUME CacheTypeOK, \A s \in Sweepers : SweepClean(s), Step
    PROVE  \A s \in Sweepers : SweepClean(s)'
<1>1. ASSUME UNCHANGED sweep
      PROVE  \A s \in Sweepers : SweepClean(s)'
  BY <1>1 DEF SweepClean
<1>2. ASSUME NEW s \in Sweepers,
             \/ \E k \in Keys : Invalidate(s, k)
             \/ Sweep(s) \/ SweepFails(s)
      PROVE  \A q \in Sweepers : SweepClean(q)'
  <2>1. \A q \in Sweepers \ {s} : sweep'[q] = sweep[q]
    BY <1>2 DEF Invalidate, Sweep, Members, DeleteNext, RemoveKeyFromTags, Delete, SweepFails,
                CacheTypeOK
  <2>2. SweepClean(s)'
    <3>1. CASE \E k \in Keys : Invalidate(s, k)
      BY <3>1 DEF Invalidate, Asleep, SweepClean, CacheTypeOK
    <3>2. CASE Members(s)
      BY <3>2 DEF Members, In, SweepClean, CacheTypeOK, SweepRecord
    <3>3. CASE DeleteNext(s)
      <4>1. CASE sweep' = [sweep EXCEPT ![s] = Asleep]
        BY <4>1 DEF Asleep, SweepClean, CacheTypeOK
      <4>2. CASE \E k \in sweep[s].keys :
                   sweep' = [sweep EXCEPT ![s].pc = "untag", ![s].key = k,
                                          ![s].keys = @ \ {k}, ![s].todo = tagsOf[k]]
        BY <4>2 DEF SweepClean, CacheTypeOK, SweepRecord
      <4> QED
        BY <3>3, <4>1, <4>2 DEF DeleteNext
    <3>4. CASE RemoveKeyFromTags(s)
      BY <3>4 DEF RemoveKeyFromTags, In, SweepClean, CacheTypeOK, SweepRecord
    <3>5. CASE Delete(s)
      BY <3>5 DEF Delete, SweepClean, CacheTypeOK, SweepRecord
    <3>6. CASE SweepFails(s)
      BY <3>6 DEF SweepFails, Asleep, SweepClean, CacheTypeOK, SweepRecord
    <3> QED
      BY <1>2, <3>1, <3>2, <3>3, <3>4, <3>5, <3>6 DEF Sweep
  <2> QED
    BY <2>1, <2>2 DEF SweepClean
<1>3. CASE Restart
  BY <1>3 DEF Restart, Asleep, SweepClean
<1>4. ASSUME NEW c \in Callers,
             \/ \E k \in Keys : GetOrSet(c, k) \/ UpdateMenu(c, k)
             \/ Proceed(c) \/ CallFails(c)
      PROVE  UNCHANGED sweep
  BY <1>4 DEF GetOrSet, UpdateMenu, Proceed, Generate, Store, AssociateKeyWithTags, CallFails
<1>5. ASSUME StartRefresh \/ Refresh \/ RefreshFails \/ \E k \in Keys : ExpireEntry(k)
      PROVE  UNCHANGED sweep
  BY <1>5 DEF StartRefresh, Refresh, CheckEntry, RefreshEntry, RefreshFails, ExpireEntry
<1> QED
  BY <1>1, <1>2, <1>3, <1>4, <1>5 DEF Step

\* Every step keeps what is said of undisturbed entries.
LEMMA CacheNextKeeps ==
    ASSUME CacheInv, [CacheNext]_cacheVars
    PROVE  CacheInv'
<1>1. CASE UNCHANGED cacheVars
  BY <1>1 DEF cacheVars, CacheInv, CacheTypeOK, SweepClean, Undisturbed, Writing, Sweeping,
              Calling, Held, Tagged
<1>2. CASE CacheNext
  <2>1. CacheTypeOK /\ CacheTypeOK' /\ \A s \in Sweepers : SweepClean(s)'
    BY <1>2, CacheNextTyped, SweepsStayClean DEF CacheInv, CacheNext
  <2>2. ASSUME NEW k \in Keys \ raced'
        PROVE  Undisturbed(k)'
    <3>1. CASE (data[k] = None /\ ~ Writing(k) /\ ~ Sweeping(k))'
      BY <3>1, NothingLeft
    <3>2. CASE k \notin raced /\ ~ (Writing(k) /\ Sweeping(k))' /\ faults' = faults
      <4>1. Undisturbed(k)
        BY <3>2 DEF CacheInv
      <4>2. faults \in Nat
        BY DEF CacheInv, CacheTypeOK
      <4>3. ~ RefreshFails /\ ~ Restart
        BY <3>2, <4>2 DEF RefreshFails, Restart
      <4>4. \A c \in Callers : ~ CallFails(c)
        BY <3>2, <4>2 DEF CallFails
      <4>5. \A s \in Sweepers : ~ SweepFails(s)
        BY <3>2, <4>2 DEF SweepFails
      <4> QED
        BY <1>2, <2>1, <3>2, <4>1, <4>3, <4>4, <4>5, CallKeeps, SweepKeeps, RefreshKeeps
        DEF CacheNext, Step, CacheInv
    <3> QED
      BY <1>2, <2>2, <3>1, <3>2 DEF CacheNext, Remember
  <2> QED
    BY <2>1, <2>2 DEF CacheInv
<1> QED
  BY <1>1, <1>2

\* The invariant holds of every reachable state.
LEMMA CacheSound == CacheSpec => []CacheInv
<1> QED
  BY CacheInitKeeps, CacheNextKeeps, PTL DEF CacheSpec

\* An entry that was not written while an invalidation of one of its tags was in
\* progress is in the sets of all its tags, so the next invalidation finds it.
THEOREM InvalidationFindsEntries == CacheSpec => []FindableByTag
<1>1. CacheInv => FindableByTag
  <2> SUFFICES ASSUME CacheInv, NEW k \in Keys \ raced,
                      data[k] # None /\ ~ Writing(k) /\ ~ Sweeping(k)
               PROVE  Tagged(k)
    BY DEF FindableByTag, Tagged
  <2> QED
    BY WritersAndSweepers DEF CacheInv, Undisturbed
<1> QED
  BY <1>1, CacheSound, PTL

-----------------------------------------------------------------------------
(* The circuit breaker.                                                    *)

USE DEF States, Outcomes, Slots

-----------------------------------------------------------------------------
(* The multiset of failures.                                               *)

(* A function's image of a finite set is finite and no larger.             *)
LEMMA ImageOfFinite ==
  ASSUME NEW S, NEW f, IsFiniteSet(S)
  PROVE  /\ IsFiniteSet({f[x] : x \in S})
         /\ Cardinality({f[x] : x \in S}) <= Cardinality(S)
<1> DEFINE T == {f[x] : x \in S}
           g == [x \in S |-> f[x]]
<1>1. g \in Surjection(S, T)
  BY DEF Surjection
<1> HIDE DEF g, T
<1>2. IsFiniteSet(T) /\ Cardinality(T) <= Cardinality(S)
  BY <1>1, FS_Surjection
<1> QED
  BY <1>2 DEF T

(* A multiset of failures of any finite size has room for one more: the    *)
(* slots in use cannot cover 1 .. Cardinality(failures) + 1.               *)
LEMMA FreeSlotExists ==
  ASSUME TypeOK
  PROVE  FreeSlot \in Slots /\ \A f \in failures : f.slot # FreeSlot
<1> DEFINE n == Cardinality(failures)
           slotOf == [f \in failures |-> f.slot]
           used == {slotOf[f] : f \in failures}
<1>1. n \in Nat
  BY FS_CardinalityType DEF TypeOK
<1>2. IsFiniteSet(used) /\ Cardinality(used) <= n
  BY ImageOfFinite DEF TypeOK
<1>3. Cardinality(1 .. (n + 1)) = n + 1
  BY <1>1, FS_Interval
<1>4. Cardinality(used) \in Nat
  BY <1>2, FS_CardinalityType
<1> HIDE DEF n
<1>5. ~ (1 .. (n + 1) \subseteq used)
  <2> HIDE DEF used
  <2> SUFFICES ASSUME 1 .. (n + 1) \subseteq used
               PROVE  FALSE
    OBVIOUS
  <2>1. Cardinality(1 .. (n + 1)) <= Cardinality(used)
    BY <1>2, FS_Subset
  <2> QED
    BY <1>1, <1>2, <1>3, <1>4, <2>1
<1>6. \E k \in 1 .. (n + 1) : \A f \in failures : f.slot # k
  BY <1>5
<1>7. FreeSlot \in 1 .. (n + 1) /\ \A f \in failures : f.slot # FreeSlot
  BY <1>6 DEF FreeSlot, n
<1> QED
  BY <1>1, <1>7

(* Recording a failure adds exactly one member.                            *)
LEMMA WithFailureType ==
  ASSUME TypeOK
  PROVE  /\ WithFailure \subseteq Failure /\ IsFiniteSet(WithFailure)
         /\ Cardinality(WithFailure) = Cardinality(failures) + 1
<1> DEFINE new == [slot |-> FreeSlot, age |-> 0]
<1>1. new \in Failure
  BY FreeSlotExists, CircuitAssumption DEF Failure
<1>2. new \notin failures
  BY FreeSlotExists
<1> QED
  BY <1>1, <1>2, FS_AddElement DEF WithFailure, TypeOK

(* Ageing never adds a failure.                                            *)
LEMMA AgedFailuresType ==
  ASSUME TypeOK
  PROVE  /\ AgedFailures \subseteq Failure
         /\ IsFiniteSet(AgedFailures)
         /\ Cardinality(AgedFailures) <= Cardinality(failures)
<1> DEFINE young == {g \in failures : g.age < FailureWindow}
           older == [f \in young |-> [slot |-> f.slot, age |-> f.age + 1]]
<1>1. AgedFailures = {older[f] : f \in young}
  BY DEF AgedFailures
<1>2. IsFiniteSet(young) /\ Cardinality(young) <= Cardinality(failures)
  BY FS_Subset DEF TypeOK
<1>3. IsFiniteSet(AgedFailures) /\ Cardinality(AgedFailures) <= Cardinality(young)
  BY <1>1, <1>2, ImageOfFinite
<1>4. AgedFailures \subseteq Failure
  BY CircuitAssumption DEF AgedFailures, TypeOK, Failure
<1>5. /\ Cardinality(AgedFailures) \in Nat
      /\ Cardinality(young) \in Nat
      /\ Cardinality(failures) \in Nat
  BY <1>2, <1>3, FS_CardinalityType DEF TypeOK
<1> QED
  BY <1>2, <1>3, <1>4, <1>5
-----------------------------------------------------------------------------
(* Type correctness.                                                       *)

(* The initial state is well typed.                                        *)
LEMMA InitType == Init => TypeOK
<1> SUFFICES ASSUME Init PROVE TypeOK
  OBVIOUS
<1>1. failures \subseteq Failure /\ IsFiniteSet(failures)
  BY FS_EmptySet DEF Init
<1>2. 0 \in 0 .. ResetTimeout
  BY CircuitAssumption
<1> QED
  BY <1>1, <1>2 DEF Init, TypeOK

(* Every step of the circuit keeps it well typed.                          *)
LEMMA NextType == TypeOK /\ [Next]_vars => TypeOK'
<1> SUFFICES ASSUME TypeOK, [Next]_vars
             PROVE  TypeOK'
  OBVIOUS
<1> USE CircuitAssumption
<1>1. ASSUME NEW c \in Calls, Admit(c)
      PROVE  TypeOK'
  BY <1>1 DEF Admit, TypeOK, circuit
<1>2. ASSUME NEW c \in Calls, Probe(c)
      PROVE  TypeOK'
  BY <1>2 DEF Probe, TransitionToHalfOpen, Forget, TypeOK
<1>3. ASSUME NEW c \in Calls, FastFail(c)
      PROVE  TypeOK'
  BY <1>3 DEF FastFail, Emit, TypeOK, circuit
<1>4. ASSUME ToClosed PROVE
        /\ state' \in States /\ failures' \subseteq Failure
        /\ IsFiniteSet(failures') /\ successCount' \in Nat
        /\ sinceChange' \in 0 .. ResetTimeout /\ dwell' \in 0 .. ResetTimeout
  BY <1>4, FS_EmptySet DEF ToClosed, Forget
<1>5. ASSUME NEW c \in Calls, Succeed(c)
      PROVE  TypeOK'
  <2>1. CASE state = "HALF_OPEN" /\ successCount + 1 >= SuccessThreshold
    <3>1. ToClosed /\ Emit("CLOSED")
      BY <1>5, <2>1 DEF Succeed, HandleSuccess, TypeOK
    <3> QED
      BY <1>4, <1>5, <3>1 DEF Succeed, Emit, TypeOK
  <2>2. CASE ~ (state = "HALF_OPEN" /\ successCount + 1 >= SuccessThreshold)
    BY <1>5, <2>2 DEF Succeed, HandleSuccess, AtMost, TypeOK, circuit
  <2> QED
    BY <2>1, <2>2
<1>6. ASSUME NEW c \in Calls, Fail(c)
      PROVE  TypeOK'
  <2>1. CASE state = "HALF_OPEN"
    BY <1>6, <2>1 DEF Fail, HandleFailure, OpenCircuitFromHalfOpen, Forget, Emit, TypeOK
  <2>2. CASE state # "HALF_OPEN"
    <3>1. TrackFailure
      BY <1>6, <2>2 DEF Fail, HandleFailure
    <3>2. failures' \subseteq Failure /\ IsFiniteSet(failures')
      BY <3>1, WithFailureType DEF TrackFailure
    <3>3. CASE state = "CLOSED" /\ Cardinality(WithFailure) >= FailureThreshold
      <4>1. Emit("OPEN") /\ Forget /\ state' = "OPEN" /\ sinceChange' = 0
        BY <3>1, <3>3 DEF TrackFailure
      <4> QED
        BY <1>6, <3>1, <3>2, <4>1 DEF Fail, TrackFailure, Emit, Forget, TypeOK
    <3>4. CASE ~ (state = "CLOSED" /\ Cardinality(WithFailure) >= FailureThreshold)
      <4>1. UNCHANGED <<state, sinceChange, gauge, dwell>>
        BY <3>1, <3>4 DEF TrackFailure
      <4> QED
        BY <1>6, <3>1, <3>2, <4>1 DEF Fail, TrackFailure, TypeOK
    <3> QED
      BY <3>3, <3>4
  <2> QED
    BY <2>1, <2>2
<1>7. CASE ManualReset
  BY <1>4, <1>7 DEF ManualReset, ResetCircuit, Emit, TypeOK
<1>8. CASE SetHealthCheck
  BY <1>8 DEF SetHealthCheck, TypeOK, circuit
<1>9. ASSUME NEW k \in Checks, RunHealthChecks(k) \/ CheckCircuitHealth(k)
      PROVE  TypeOK'
  BY <1>9 DEF RunHealthChecks, CheckCircuitHealth, TypeOK, circuit
<1>10. ASSUME NEW k \in Checks, ExecuteHealthCheck(k)
       PROVE  TypeOK'
  <2>1. CASE service = "up"
    BY <1>4, <1>10, <2>1 DEF ExecuteHealthCheck, ResetCircuit, Emit, TypeOK
  <2>2. CASE service # "up"
    BY <1>10, <2>2 DEF ExecuteHealthCheck, TypeOK, circuit
  <2> QED
    BY <2>1, <2>2
<1>11. CASE ServiceChanges
  BY <1>11 DEF ServiceChanges, TypeOK, circuit
<1>12. CASE Tick
  BY <1>12, AgedFailuresType DEF Tick, AtMost, TypeOK
<1>13. CASE UNCHANGED vars
  BY <1>13 DEF vars, circuit, TypeOK
<1> QED
  BY <1>1, <1>2, <1>3, <1>5, <1>6, <1>7, <1>8, <1>9, <1>10, <1>11, <1>12, <1>13
  DEF Next, Enter, Return

(* The state keeps its types in every reachable state; in particular a     *)
(* circuit never holds infinitely many failures.                           *)
THEOREM TypeCorrect == Spec => []TypeOK
<1> QED
  BY InitType, NextType, PTL DEF Spec

-----------------------------------------------------------------------------
(* Safety.                                                                 *)

(* Every return to CLOSED, by enough successes in HALF_OPEN, by a manual   *)
(* reset or by a health check, starts it with no failures; only            *)
(* trackFailureInClosedState adds one, and it tests the threshold.         *)
THEOREM OpeningIsNeverMissed == Spec => []NoMissedOpening
<1>1. Init => NoMissedOpening
  BY FS_EmptySet, CircuitAssumption DEF Init, NoMissedOpening
<1>2. TypeOK /\ NoMissedOpening /\ [Next]_vars => NoMissedOpening'
  <2> SUFFICES ASSUME TypeOK, NoMissedOpening, [Next]_vars
               PROVE  NoMissedOpening'
    OBVIOUS
  <2>1. CASE UNCHANGED <<state, failures>>
    BY <2>1 DEF NoMissedOpening
  <2>2. CASE state' # "CLOSED"
    BY <2>2 DEF NoMissedOpening
  <2>3. CASE ToClosed
    BY <2>3, FS_EmptySet, CircuitAssumption DEF ToClosed, NoMissedOpening
  <2>4. CASE Tick
    <3>1. /\ Cardinality(AgedFailures) <= Cardinality(failures)
          /\ Cardinality(AgedFailures) \in Nat /\ Cardinality(failures) \in Nat
      BY AgedFailuresType, FS_CardinalityType DEF TypeOK
    <3> QED
      BY <2>4, <3>1, CircuitAssumption DEF Tick, NoMissedOpening
  <2>5. CASE TrackFailure
    BY <2>5 DEF TrackFailure, NoMissedOpening
  <2>6. ASSUME NEW c \in Calls, Enter(c)
        PROVE  UNCHANGED <<state, failures>> \/ state' # "CLOSED"
    BY <2>6 DEF Enter, Admit, Probe, FastFail, TransitionToHalfOpen, circuit
  <2>7. ASSUME NEW c \in Calls, Return(c)
        PROVE  \/ ToClosed \/ TrackFailure
               \/ UNCHANGED <<state, failures>> \/ state' # "CLOSED"
    BY <2>7 DEF Return, Succeed, Fail, HandleSuccess, HandleFailure,
                OpenCircuitFromHalfOpen, circuit
  <2>8. ASSUME NEW k \in Checks,
               RunHealthChecks(k) \/ CheckCircuitHealth(k) \/ ExecuteHealthCheck(k)
        PROVE  ToClosed \/ UNCHANGED <<state, failures>>
    BY <2>8 DEF RunHealthChecks, CheckCircuitHealth, ExecuteHealthCheck,
                ResetCircuit, circuit
  <2>9. ASSUME ManualReset \/ SetHealthCheck \/ ServiceChanges \/ UNCHANGED vars
        PROVE  ToClosed \/ UNCHANGED <<state, failures>>
    BY <2>9 DEF ManualReset, ResetCircuit, SetHealthCheck, ServiceChanges, vars, circuit
  <2> QED
    BY <2>1, <2>2, <2>3, <2>4, <2>5, <2>6, <2>7, <2>8, <2>9 DEF Next
<1> QED
  BY <1>1, <1>2, TypeCorrect, PTL DEF Spec

(* What the emitted events amount to: the metric is raised by every        *)
(* opening, kept through HALF_OPEN, which emits nothing, and lowered by    *)
(* every closing.                                                          *)
GaugeKept == gauge <=> state # "CLOSED"

(* So the metric is right in CLOSED and in OPEN, whatever came before.     *)
THEOREM GaugeIsRight == Spec => []GaugeAgrees
<1>1. Init => GaugeKept
  BY DEF Init, GaugeKept
<1>2. GaugeKept /\ [Next]_vars => GaugeKept'
  <2> SUFFICES ASSUME GaugeKept, [Next]_vars
               PROVE  GaugeKept'
    OBVIOUS
  <2>1. ASSUME NEW c \in Calls, Enter(c)
        PROVE  GaugeKept'
    BY <2>1 DEF Enter, Admit, Probe, FastFail, TransitionToHalfOpen, Emit,
                circuit, GaugeKept
  <2>2. ASSUME NEW c \in Calls, Return(c)
        PROVE  GaugeKept'
    BY <2>2 DEF Return, Succeed, Fail, HandleSuccess, HandleFailure, TrackFailure,
                OpenCircuitFromHalfOpen, ToClosed, Emit, circuit, GaugeKept
  <2>3. ASSUME NEW k \in Checks,
               RunHealthChecks(k) \/ CheckCircuitHealth(k) \/ ExecuteHealthCheck(k)
        PROVE  GaugeKept'
    BY <2>3 DEF RunHealthChecks, CheckCircuitHealth, ExecuteHealthCheck,
                ResetCircuit, ToClosed, Emit, circuit, GaugeKept
  <2>4. ASSUME ManualReset \/ SetHealthCheck \/ ServiceChanges \/ Tick \/ UNCHANGED vars
        PROVE  GaugeKept'
    BY <2>4 DEF ManualReset, ResetCircuit, ToClosed, Emit, SetHealthCheck,
                ServiceChanges, Tick, vars, circuit, GaugeKept
  <2> QED
    BY <2>1, <2>2, <2>3, <2>4 DEF Next
<1>3. TypeOK /\ GaugeKept => GaugeAgrees
  BY DEF TypeOK, GaugeKept, GaugeAgrees
<1> QED
  BY <1>1, <1>2, <1>3, TypeCorrect, PTL DEF Spec

-----------------------------------------------------------------------------
(* The reset timeout.                                                      *)

(* What lastStateChange measures: while OPEN, the ticks since opening.     *)
TimerIsDwell == state = "OPEN" => sinceChange = dwell

(* lastStateChange is set exactly when the circuit opens, by either way,   *)
(* and left alone while it stays OPEN, by turned-away calls and by late    *)
(* failures; so the test in handleOpenCircuit measures the time in OPEN.   *)
THEOREM TestingAfterFullTimeout == Spec => FullTimeout
<1>1. Init => TimerIsDwell
  BY DEF Init, TimerIsDwell
<1>2. TypeOK /\ TimerIsDwell /\ [Next]_vars => TimerIsDwell'
  <2> SUFFICES ASSUME TimerIsDwell, [Next]_vars
               PROVE  TimerIsDwell'
    OBVIOUS
  <2>1. ASSUME NEW c \in Calls, Enter(c)
        PROVE  TimerIsDwell'
    BY <2>1 DEF Enter, Admit, Probe, FastFail, TransitionToHalfOpen,
                circuit, TimerIsDwell
  <2>2. ASSUME NEW c \in Calls, Return(c)
        PROVE  TimerIsDwell'
    BY <2>2 DEF Return, Succeed, Fail, HandleSuccess, HandleFailure, TrackFailure,
                OpenCircuitFromHalfOpen, ToClosed, Forget, circuit, TimerIsDwell
  <2>3. ASSUME NEW k \in Checks,
               RunHealthChecks(k) \/ CheckCircuitHealth(k) \/ ExecuteHealthCheck(k)
        PROVE  TimerIsDwell'
    BY <2>3 DEF RunHealthChecks, CheckCircuitHealth, ExecuteHealthCheck,
                ResetCircuit, ToClosed, circuit, TimerIsDwell
  <2>4. ASSUME ManualReset \/ SetHealthCheck \/ ServiceChanges \/ Tick \/ UNCHANGED vars
        PROVE  TimerIsDwell'
    BY <2>4 DEF ManualReset, ResetCircuit, ToClosed, SetHealthCheck,
                ServiceChanges, Tick, AtMost, vars, circuit, TimerIsDwell
  <2> QED
    BY <2>1, <2>2, <2>3, <2>4 DEF Next
<1>3. TimerIsDwell /\ [Next]_vars
        => [state = "OPEN" /\ state' = "HALF_OPEN" => dwell >= ResetTimeout]_vars
  <2> SUFFICES ASSUME TimerIsDwell, Next, state = "OPEN", state' = "HALF_OPEN"
               PROVE  dwell >= ResetTimeout
    OBVIOUS
  <2>1. PICK c \in Calls : Probe(c)
    BY DEF Next, Enter, Admit, FastFail, Return, Succeed, Fail, HandleSuccess,
           HandleFailure, TrackFailure, ToClosed, ManualReset, ResetCircuit,
           SetHealthCheck, RunHealthChecks, CheckCircuitHealth,
           ExecuteHealthCheck, ServiceChanges, Tick, circuit
  <2> QED
    BY <2>1 DEF Probe, TimerIsDwell
<1> QED
  BY <1>1, <1>2, <1>3, TypeCorrect, PTL DEF Spec, FullTimeout

-----------------------------------------------------------------------------
(* Refinement.                                                             *)

(* Every step of the circuit is, seen through its state, the requests      *)
(* inside, the number of failures in the window and the success count, a   *)
(* step of the contract or changes none of them: CLOSED opens exactly at   *)
(* the threshold, HALF_OPEN closes exactly at the success threshold, and   *)
(* nothing reaches the service through an OPEN circuit.                    *)
THEOREM BreakerImplementsContract == Spec => ImplementsContract
<1> DEFINE bad == Cardinality(failures)
           seen == <<state, inside, bad, successCount>>
<1>1. Init => Contract!ContractInit
  BY FS_EmptySet DEF Init, Contract!ContractInit
<1>2. TypeOK /\ [Next]_vars => [Contract!ContractNext]_seen
  <2> SUFFICES ASSUME TypeOK, [Next]_vars
               PROVE  [Contract!ContractNext]_seen
    OBVIOUS
  <2>1. ASSUME NEW c \in Calls, Enter(c)
        PROVE  Contract!LetThrough(c) \/ Contract!StartTesting \/ UNCHANGED seen
    BY <2>1 DEF Enter, Admit, Probe, FastFail, TransitionToHalfOpen, circuit,
                Contract!LetThrough, Contract!StartTesting
  <2>2. ASSUME ToClosed
        PROVE  Contract!Closes
    BY <2>2, FS_EmptySet DEF ToClosed, Contract!Closes
  <2>3. ASSUME NEW c \in Calls, Succeed(c)
        PROVE  Contract!Settle(c)
    <3>1. HandleSuccess
      BY <2>3 DEF Succeed
    <3>2. Contract!Good
      BY <2>2, <3>1 DEF HandleSuccess, Contract!Good, circuit
    <3> QED
      BY <2>3, <3>2 DEF Succeed, Contract!Settle
  <2>4. ASSUME NEW c \in Calls, Fail(c)
        PROVE  Contract!Settle(c)
    <3>1. HandleFailure
      BY <2>4 DEF Fail
    <3>2. CASE state = "HALF_OPEN"
      <4>1. Contract!Bad
        BY <3>1, <3>2 DEF HandleFailure, OpenCircuitFromHalfOpen, Contract!Bad
      <4> QED
        BY <2>4, <4>1 DEF Fail, Contract!Settle
    <3>3. CASE state # "HALF_OPEN"
      <4>1. TrackFailure
        BY <3>1, <3>3 DEF HandleFailure
      <4>2. Cardinality(failures') = bad + 1
        BY <4>1, WithFailureType DEF TrackFailure
      <4>3. state' = IF bad + 1 >= FailureThreshold THEN "OPEN" ELSE state
        BY <3>3, <4>1, WithFailureType DEF TrackFailure, TypeOK
      <4>4. Contract!Bad
        BY <3>3, <4>1, <4>2, <4>3 DEF TrackFailure, Contract!Bad
      <4> QED
        BY <2>4, <4>4 DEF Fail, Contract!Settle
    <3> QED
      BY <3>2, <3>3
  <2>5. ASSUME NEW k \in Checks,
               RunHealthChecks(k) \/ CheckCircuitHealth(k) \/ ExecuteHealthCheck(k)
        PROVE  Contract!ForceClosed \/ UNCHANGED seen
    BY <2>2, <2>5 DEF RunHealthChecks, CheckCircuitHealth, ExecuteHealthCheck,
                      ResetCircuit, Contract!ForceClosed, circuit
  <2>6. ASSUME ManualReset \/ SetHealthCheck \/ ServiceChanges \/ UNCHANGED vars
        PROVE  Contract!ForceClosed \/ UNCHANGED seen
    BY <2>2, <2>6 DEF ManualReset, ResetCircuit, SetHealthCheck, ServiceChanges,
                      vars, circuit, Contract!ForceClosed
  <2>7. CASE Tick
    <3>1. bad \in Nat /\ Cardinality(failures') \in Nat /\ Cardinality(failures') <= bad
      BY <2>7, AgedFailuresType, FS_CardinalityType DEF Tick, TypeOK
    <3>2. Contract!Expire
      BY <2>7, <3>1 DEF Tick, Contract!Expire
    <3> QED
      BY <3>2 DEF Contract!ContractNext
  <2> QED
    BY <2>1, <2>3, <2>4, <2>5, <2>6, <2>7 DEF Next, Return, Contract!ContractNext
<1> QED
  BY <1>1, <1>2, TypeCorrect, PTL
  DEF Spec, ImplementsContract, Contract!ContractSpec, Contract!contractVars

=============================================================================
