------------------------------- MODULE MCCaches -------------------------------
(***************************************************************************)
(* The two caches a menu is read through, in one run of TLC:               *)
(* RestaurantMenuService takes it from EnhancedRedisCache.getOrSet         *)
(* (CacheFill), RestaurantsService from RedisMenuCache (MenuCatalog).  They*)
(* share neither keys nor state, and no request uses both, so a behaviour  *)
(* follows one of them.                                                    *)
(***************************************************************************)
EXTENDS CacheFill, MenuCatalog

VARIABLE followed

cachesVars == <<followed, fillVars, vars>>

CachesInit == FillInit /\ Init /\ followed \in {"getOrSet", "menus"}

FollowFill(A) == followed = "getOrSet" /\ A /\ UNCHANGED <<followed, vars>>
FollowMenus(A) == followed = "menus" /\ A /\ UNCHANGED <<followed, fillVars>>

\* FillNext, and the disjuncts of MenuCatalog's Next.
CachesNext ==
    \/ FollowFill(FillNext)
    \/ \E r \in Requests :
          \/ FollowMenus(GetMenu(r))
          \/ \E expected \in Versions : FollowMenus(UpsertMenu(r, expected))
    \/ FollowMenus(Execute)
    \/ FollowMenus(Fail)
    \/ FollowMenus(Evict)

CachesSpec ==
    /\ CachesInit /\ [][CachesNext]_cachesVars
    /\ \A c \in Callers : WF_cachesVars(FollowFill(Proceed(c) /\ Remember))

===============================================================================
