------------------------- MODULE RuntimeCacheProofs -------------------------
(***************************************************************************)
(* CacheInv of RuntimeCache is inductive, for any number of destinations,  *)
(* configurations, callers, builds and invalidations, and implies the      *)
(* properties of the cache.                                                *)
(***************************************************************************)
EXTENDS RuntimeCache, TLAPS

(* The arbitrary values in an idle caller and an unused build have their   *)
(* types.                                                                  *)
LEMMA DefaultsTyped ==
    /\ Idle \in CallerState
    /\ NoBuild \in BuildRecord
    /\ Idle.pc = "idle" /\ NoBuild.rt = "none" /\ NoBuild.ready = "no"
<1>1. AnyRef \in Ref /\ AnyFp \in Fp
  BY CacheConstants DEF AnyRef, AnyFp
<1> QED
  BY <1>1, CacheConstants DEF Idle, NoBuild, CallerState, BuildRecord

(* Every initial state satisfies the invariant. *)
LEMMA CacheInit == Init => CacheInv
<1> SUFFICES ASSUME Init PROVE CacheInv
  OBVIOUS
<1>1. \A c \in Caller : caller[c].pc = "idle"
  BY DefaultsTyped DEF Init
<1>2. \A b \in Builds : build[b].rt = "none"
  BY DefaultsTyped DEF Init
<1>3. TypeOK
  BY <1>1, DefaultsTyped, CacheConstants DEF Init, TypeOK
<1>4. PrivateBuilds /\ RuntimeStates /\ Epochs /\ SingleFlight
         /\ NoStrandedWaiter
  BY <1>1 DEF PrivateBuilds, RuntimeStates, Epochs, SingleFlight,
              NoStrandedWaiter, Private, Building
<1>5. CacheEntries /\ OpenRuntimes /\ Registered
  BY <1>2 DEF Init, CacheEntries, OpenRuntimes, Registered
<1> QED
  BY <1>3, <1>4, <1>5 DEF CacheInv

(* What the variables refer to are builds that were started. *)
LEMMA Indices ==
    ASSUME TypeOK
    PROVE  /\ \A r \in Ref : /\ cache[r] # 0 => cache[r] \in Builds
                             /\ builds[r] # 0 => builds[r] \in Builds
           /\ \A c \in Caller : caller[c].pc \notin {"idle", "lookup"} =>
                  caller[c].bld \in Builds
           /\ closing \subseteq Builds
           /\ count \in Nat /\ 1..count \subseteq Builds
<1>1. count \in Nat /\ 1..count \subseteq Builds
  BY CacheConstants DEF TypeOK, Builds
<1> QED
  BY <1>1 DEF TypeOK

(* What the parts of the invariant speak of is unchanged. *)
LEMMA StoreDestinationKeeps ==
    ASSUME CacheInv, NEW r \in Ref, NEW f \in Fp, StoreDestination(r, f)
    PROVE  CacheInv'
<1>1. /\ UNCHANGED <<caching, cache, builds, cacheEpoch, destEpoch, count>>
      /\ UNCHANGED <<build, closing, stale, caller>>
  BY DEF StoreDestination, cacheVars
<1>2. TypeOK'
  BY <1>1 DEF CacheInv, TypeOK, StoreDestination
<1> QED
  BY <1>1, <1>2 DEF CacheInv, PrivateBuilds, RuntimeStates, CacheEntries,
      OpenRuntimes, Epochs, Registered, SingleFlight, NoStrandedWaiter,
      Private, Building, InCache

(* Nothing that is stored depends on the caching switch. *)
LEMMA SwitchCachingKeeps ==
    ASSUME CacheInv, SwitchCaching
    PROVE  CacheInv'
<1>1. /\ UNCHANGED <<cache, builds, cacheEpoch, destEpoch, count>>
      /\ UNCHANGED <<build, closing, stale, caller>>
  BY DEF SwitchCaching, cacheVars
<1>2. TypeOK'
  BY <1>1 DEF CacheInv, TypeOK, SwitchCaching
<1> QED
  BY <1>1, <1>2 DEF CacheInv, PrivateBuilds, RuntimeStates, CacheEntries,
      OpenRuntimes, Epochs, Registered, SingleFlight, NoStrandedWaiter,
      Private, Building, InCache

(* The runtime that is closed is not cached and nobody else will close it. *)
LEMMA CloseRuntimeKeeps ==
    ASSUME CacheInv, NEW b \in Builds, CloseRuntime(b)
    PROVE  CacheInv'
<1>1. /\ UNCHANGED <<cache, builds, cacheEpoch, destEpoch, count>>
      /\ UNCHANGED <<stale, caller>>
      /\ b \in closing
      /\ closing' = closing \ {b}
  BY DEF CloseRuntime, cacheVars
<1>2. build' \in [Builds -> BuildRecord] /\ build'[b].rt = "closed"
  BY DEF CacheInv, TypeOK, CloseRuntime, BuildRecord
<1>3. \A k \in Builds : /\ k # b => build'[k] = build[k]
                        /\ build'[k].ref = build[k].ref
                        /\ build'[k].fp = build[k].fp
                        /\ build'[k].ready = build[k].ready
  BY DEF CacheInv, TypeOK, CloseRuntime, BuildRecord
<1>4. TypeOK'
  BY <1>1, <1>2 DEF CacheInv, TypeOK, CloseRuntime
<1>5. PrivateBuilds'
  BY <1>1 DEF CacheInv, PrivateBuilds, Private
<1>6. RuntimeStates'
  BY <1>1, <1>3, Indices DEF CacheInv, RuntimeStates, PrivateBuilds, Private
<1>7. CacheEntries'
  BY <1>1, <1>3, Indices DEF CacheInv, CacheEntries
<1>8. OpenRuntimes'
  BY <1>1, <1>2, <1>3 DEF CacheInv, OpenRuntimes, InCache, Private
<1>9. Epochs' /\ Registered' /\ SingleFlight'
  BY <1>1 DEF CacheInv, Epochs, Registered, SingleFlight, Building
<1>10. NoStrandedWaiter'
  BY <1>1, <1>3, Indices DEF CacheInv, NoStrandedWaiter, Building
<1> QED
  BY <1>4, <1>5, <1>6, <1>7, <1>8, <1>9, <1>10 DEF CacheInv

(* The entry of the destination moves from the cache to the runtimes to be *)
(* closed, and the destination's epoch overtakes the build under way.      *)
LEMMA DropDestinationKeeps ==
    ASSUME CacheInv, NEW r \in Ref, DropDestination(r),
           UNCHANGED <<caching, count, build, caller>>,
           config' \in [Ref -> Fp], written' \in [Ref -> BOOLEAN]
    PROVE  CacheInv'
<1>1. /\ UNCHANGED <<builds, cacheEpoch>>
      /\ destEpoch[r] < MaxEpoch
      /\ \A q \in Ref : /\ cache'[q] = IF q = r THEN 0 ELSE cache[q]
                        /\ destEpoch'[q] = IF q = r THEN destEpoch[q] + 1
                                           ELSE destEpoch[q]
  BY DEF CacheInv, TypeOK, DropDestination
<1>2. \A b \in Builds : b \in closing' <=> b \in closing \/ cache[r] = b
  BY DEF DropDestination, Cached
<1>3. \A b \in Builds : b \in stale' <=>
          \/ b \in stale
          \/ \E c \in Caller : Building(c) /\ caller[c].bld = b /\ caller[c].ref = r
  BY DEF DropDestination, Underway
<1>4. \A c \in Caller : Building(c) => Private(c) /\ caller[c].bld \in 1..count
  BY DEF CacheInv, TypeOK, Building, Private
<1>5. TypeOK'
  <2>1. closing' \subseteq 1..count
    <3>1. Cached({r}) \subseteq 1..count
      BY Indices DEF CacheInv, TypeOK, Cached, Builds
    <3> QED
      BY <3>1 DEF CacheInv, TypeOK, DropDestination
  <2>2. stale' \subseteq 1..count
    BY <1>4 DEF CacheInv, TypeOK, DropDestination, Underway
  <2>3. cache' \in [Ref -> 0..count]
    BY Indices DEF CacheInv, TypeOK, DropDestination
  <2>4. destEpoch' \in [Ref -> 0..MaxEpoch]
    BY CacheConstants DEF CacheInv, TypeOK, DropDestination
  <2> QED
    BY <1>1, <2>1, <2>2, <2>3, <2>4 DEF CacheInv, TypeOK
<1>6. PrivateBuilds'
  <2>1. ASSUME NEW c \in Caller, Private(c)
        PROVE  caller[c].bld \in Builds /\ caller[c].bld # 0
    BY <2>1, Indices DEF CacheInv, Private, Builds
  <2> QED
    BY <1>1, <1>2, <2>1 DEF CacheInv, PrivateBuilds, Private
<1>7. RuntimeStates'
  BY DEF CacheInv, RuntimeStates, Private
<1>8. CacheEntries'
  BY <1>1, <1>2, <1>3, <1>4, Indices DEF CacheInv, CacheEntries, PrivateBuilds
<1>9. OpenRuntimes'
  <2>1. ASSUME NEW b \in Builds, cache[r] = b PROVE build[b].rt = "open"
    BY <2>1 DEF CacheInv, CacheEntries, Builds
  <2>2. ASSUME NEW b \in Builds, InCache(b) PROVE InCache(b)' \/ b \in closing'
    BY <2>2, <1>1, <1>2 DEF InCache
  <2> QED
    BY <1>2, <2>1, <2>2 DEF CacheInv, OpenRuntimes, Private
<1>10. Epochs'
  <2> SUFFICES ASSUME NEW c \in Caller, Building(c),
                      caller[c].cacheEpoch = cacheEpoch
               PROVE  /\ caller[c].destEpoch <= destEpoch'[caller[c].ref]
                      /\ caller[c].bld \in stale' =>
                             caller[c].destEpoch < destEpoch'[caller[c].ref]
    BY <1>1 DEF CacheInv, Epochs, Building
  <2>1. /\ caller[c].destEpoch \in Nat
        /\ caller[c].ref \in Ref
        /\ destEpoch[caller[c].ref] \in Nat
        /\ caller[c].bld \in Builds
    BY <1>4, CacheConstants, Indices DEF CacheInv, TypeOK, CallerState
  <2>2. /\ caller[c].destEpoch <= destEpoch[caller[c].ref]
        /\ caller[c].bld \in stale =>
               caller[c].destEpoch < destEpoch[caller[c].ref]
    BY DEF CacheInv, Epochs
  <2>3. caller[c].bld \in stale' => caller[c].bld \in stale \/ caller[c].ref = r
    BY <1>3, <1>4, <2>1 DEF CacheInv, PrivateBuilds
  <2> QED
    BY <1>1, <2>1, <2>2, <2>3
<1>11. Registered' /\ SingleFlight' /\ NoStrandedWaiter'
  BY <1>1 DEF CacheInv, Registered, SingleFlight, NoStrandedWaiter, Building
<1> QED
  BY <1>5, <1>6, <1>7, <1>8, <1>9, <1>10, <1>11 DEF CacheInv

(* Clearing the cache: no build under way belongs to the new epoch. *)
LEMMA DropAllKeeps ==
    ASSUME CacheInv, DropAll,
           UNCHANGED <<config, written, caching, count, build, caller>>
    PROVE  CacheInv'
<1>1. /\ cacheEpoch' = cacheEpoch + 1
      /\ cacheEpoch < MaxEpoch
      /\ \A q \in Ref : cache'[q] = 0 /\ builds'[q] = 0
  BY DEF DropAll
<1>2. \A b \in Builds : b \in closing' <=> b \in closing \/ InCache(b)
  BY DEF DropAll, Cached, InCache
<1>3. \A c \in Caller : Building(c) => Private(c) /\ caller[c].bld \in 1..count
  BY DEF CacheInv, TypeOK, Building, Private
<1>4. TypeOK'
  <2>1. closing' \subseteq 1..count
    <3>1. Cached(Ref) \subseteq 1..count
      BY Indices DEF CacheInv, TypeOK, Cached, Builds
    <3> QED
      BY <3>1 DEF CacheInv, TypeOK, DropAll
  <2>2. stale' \subseteq 1..count
    BY <1>3 DEF CacheInv, TypeOK, DropAll, Underway
  <2>3. /\ cache' \in [Ref -> 0..count]
        /\ builds' \in [Ref -> 0..count]
        /\ destEpoch' \in [Ref -> 0..MaxEpoch]
        /\ cacheEpoch' \in 0..MaxEpoch
    BY Indices, CacheConstants DEF CacheInv, TypeOK, DropAll
  <2> QED
    BY <2>1, <2>2, <2>3 DEF CacheInv, TypeOK
<1>5. PrivateBuilds'
  <2>1. ASSUME NEW c \in Caller, Private(c)
        PROVE  caller[c].bld # 0 /\ caller[c].bld \notin closing'
    <3>1. caller[c].bld \in Builds
      BY <2>1, Indices DEF CacheInv, Private
    <3> QED
      BY <2>1, <3>1, <1>2 DEF CacheInv, PrivateBuilds, InCache, Builds
  <2> QED
    BY <1>1, <2>1 DEF CacheInv, PrivateBuilds, Private
<1>6. RuntimeStates'
  BY DEF CacheInv, RuntimeStates, Private
<1>7. CacheEntries'
  BY <1>1 DEF CacheEntries
<1>8. OpenRuntimes'
  <2>1. ASSUME NEW b \in Builds, InCache(b) PROVE build[b].rt = "open"
    BY <2>1 DEF CacheInv, CacheEntries, InCache, Builds
  <2> QED
    BY <1>2, <2>1 DEF CacheInv, OpenRuntimes, Private
<1>9. Epochs'
  <2> SUFFICES ASSUME NEW c \in Caller, Building(c)
               PROVE  /\ caller[c].cacheEpoch <= cacheEpoch'
                      /\ caller[c].cacheEpoch # cacheEpoch'
    BY DEF Epochs, Building
  <2>1. caller[c].cacheEpoch \in Nat /\ cacheEpoch \in Nat
    BY CacheConstants DEF CacheInv, TypeOK, CallerState
  <2>2. caller[c].cacheEpoch <= cacheEpoch
    BY DEF CacheInv, Epochs
  <2> QED
    BY <1>1, <2>1, <2>2
<1>10. Registered' /\ SingleFlight' /\ NoStrandedWaiter'
  BY <1>1 DEF CacheInv, Registered, SingleFlight, NoStrandedWaiter, Building
<1> QED
  BY <1>4, <1>5, <1>6, <1>7, <1>8, <1>9, <1>10 DEF CacheInv

(* A caller that no build depends on goes back to the start or to another  *)
(* round.                                                                  *)
LEMMA StepBackKeeps ==
    ASSUME CacheInv, NEW c \in Caller,
           \/ caller[c].pc \in {"idle", "wait", "open_own"}
           \/ caller[c].pc = "use" /\ ~caller[c].own,
           caller' \in [Caller -> CallerState],
           \A d \in Caller : d # c => caller'[d] = caller[d],
           caller'[c].pc \in {"idle", "lookup"},
           UNCHANGED <<config, written, caching, cache, builds, cacheEpoch,
                       destEpoch, count, build, closing, stale>>
    PROVE  CacheInv'
<1>1. \A d \in Caller : /\ Private(d)' => d # c /\ Private(d)
                        /\ Building(d)' <=> d # c /\ Building(d)
                        /\ Building(d)' <=> Building(d)
  BY DEF Private, Building
<1>2. TypeOK'
  BY DEF CacheInv, TypeOK
<1>3. PrivateBuilds'
  BY <1>1 DEF CacheInv, PrivateBuilds
<1>4. RuntimeStates'
  BY <1>1 DEF CacheInv, RuntimeStates
<1>5. CacheEntries'
  BY DEF CacheInv, CacheEntries
<1>6. OpenRuntimes'
  <2>1. ASSUME NEW b \in Builds, build[b].rt = "open",
               NEW d \in Caller, Private(d), caller[d].bld = b
        PROVE  Private(d)' /\ caller'[d].bld = b
    BY <2>1 DEF CacheInv, RuntimeStates, Private
  <2> QED
    BY <2>1 DEF CacheInv, OpenRuntimes, InCache
<1>7. Epochs' /\ SingleFlight'
  BY <1>1 DEF CacheInv, Epochs, SingleFlight
<1>8. Registered' /\ NoStrandedWaiter'
  BY <1>1 DEF CacheInv, Registered, NoStrandedWaiter
<1> QED
  BY <1>2, <1>3, <1>4, <1>5, <1>6, <1>7, <1>8 DEF CacheInv

(* A caller that starts has no build yet. *)
LEMMA ReadDestinationKeeps ==
    ASSUME CacheInv, NEW c \in Caller, NEW r \in Ref, ReadDestination(c, r)
    PROVE  CacheInv'
<1>1. /\ caller' \in [Caller -> CallerState]
      /\ caller'[c].pc = "lookup"
      /\ \A d \in Caller : d # c => caller'[d] = caller[d]
  BY DefaultsTyped DEF CacheInv, TypeOK, ReadDestination, CallerState
<1> QED
  BY <1>1, StepBackKeeps DEF ReadDestination, cacheVars

(* A waiter that goes round again is typed. *)
LEMMA NextRound ==
    ASSUME NEW k \in CallerState
    PROVE  /\ [k EXCEPT !.pc = "lookup", !.bld = 0] \in CallerState
           /\ [k EXCEPT !.pc = "lookup", !.bld = 0].pc = "lookup"
<1>1. 0 \in 0..MaxBuilds
  BY CacheConstants
<1> QED
  BY <1>1 DEF CallerState

(* A waiter leaves the build it waited for to the builder. *)
LEMMA WakeKeeps ==
    ASSUME CacheInv, NEW c \in Caller, Wake(c) \/ GiveUp(c)
    PROVE  CacheInv'
<1>1. \E s \in {Idle, [caller[c] EXCEPT !.pc = "lookup", !.bld = 0]} :
          caller' = [caller EXCEPT ![c] = s]
  BY DEF Wake, GiveUp
<1>2. PICK s \in {Idle, [caller[c] EXCEPT !.pc = "lookup", !.bld = 0]} :
          caller' = [caller EXCEPT ![c] = s]
  BY <1>1
<1>3. s \in CallerState /\ s.pc \in {"idle", "lookup"}
  <2>1. caller[c] \in CallerState
    BY DEF CacheInv, TypeOK
  <2>2. /\ [caller[c] EXCEPT !.pc = "lookup", !.bld = 0] \in CallerState
        /\ [caller[c] EXCEPT !.pc = "lookup", !.bld = 0].pc = "lookup"
    BY <2>1, NextRound
  <2> QED
    BY <2>2, DefaultsTyped
<1>4. /\ caller' \in [Caller -> CallerState]
      /\ caller'[c].pc \in {"idle", "lookup"}
      /\ \A d \in Caller : d # c => caller'[d] = caller[d]
  BY <1>2, <1>3 DEF CacheInv, TypeOK
<1> QED
  BY <1>4, StepBackKeeps DEF Wake, GiveUp, cacheVars

(* A caller that finds its runtime in the cache uses it and does not close *)
(* it.                                                                     *)
LEMMA LookupHitKeeps ==
    ASSUME CacheInv, NEW c \in Caller, caller[c].pc = "lookup", Hit(c),
           caller' = [caller EXCEPT ![c].pc = "use",
                                    ![c].bld = cache[caller[c].ref],
                                    ![c].own = FALSE],
           UNCHANGED <<config, written, caching, cache, builds, cacheEpoch,
                       destEpoch, count, build, closing, stale>>
    PROVE  CacheInv'
<1> DEFINE r == caller[c].ref
           b == cache[r]
<1>1. r \in Ref /\ b \in Builds /\ b \in 1..count /\ b \in 0..MaxBuilds
  <2>1. r \in Ref /\ b # 0
    BY DEF CacheInv, TypeOK, CallerState, Hit
  <2>2. b \in 0..count /\ b \in Builds /\ count \in Nat
    BY <2>1, Indices DEF CacheInv, TypeOK
  <2> HIDE DEF r, b
  <2> QED
    BY <2>1, <2>2, CacheConstants DEF Builds
<1>2. /\ caller' \in [Caller -> CallerState]
      /\ \A d \in Caller : d # c => caller'[d] = caller[d]
      /\ caller'[c].pc = "use" /\ caller'[c].bld = b /\ caller'[c].own = FALSE
      /\ caller'[c].ref = r /\ caller'[c].fp = caller[c].fp
  <2> DEFINE k == caller[c]
             s == [k EXCEPT !.pc = "use", !.bld = b, !.own = FALSE]
  <2>1. caller' = [caller EXCEPT ![c] = s] /\ caller \in [Caller -> CallerState]
    BY DEF CacheInv, TypeOK
  <2>2. k \in CallerState
    BY <2>1
  <2>3. /\ s \in CallerState /\ s.pc = "use" /\ s.bld = b /\ s.own = FALSE
        /\ s.ref = k.ref /\ s.fp = k.fp
    <3> HIDE DEF k, b
    <3> QED
      BY <1>1, <2>2 DEF CallerState
  <2> HIDE DEF s
  <2>4. caller'[c] = s /\ \A d \in Caller : d # c => caller'[d] = caller[d]
    BY <2>1
  <2>5. caller' \in [Caller -> CallerState]
    BY <2>1, <2>3
  <2> QED
    BY <2>3, <2>4, <2>5, Zenon
<1>3. \A d \in Caller : /\ Private(d)' <=> Private(d)
                        /\ Building(d)' <=> Building(d)
                        /\ Private(d) \/ Building(d) => d # c
  BY <1>2 DEF Private, Building
<1>4. build[b].fp = caller[c].fp /\ build[b].ref = r
  BY <1>1 DEF CacheInv, CacheEntries, Hit
<1> HIDE DEF r, b
<1>5. TypeOK'
  BY <1>1, <1>2 DEF CacheInv, TypeOK
<1>6. PrivateBuilds'
  BY <1>2, <1>3, SMTT(20) DEF CacheInv, PrivateBuilds
<1>7. RuntimeStates'
  BY <1>2, <1>3, <1>4 DEF CacheInv, RuntimeStates
<1>8. CacheEntries'
  BY DEF CacheInv, CacheEntries
<1>9. OpenRuntimes'
  BY <1>2, <1>3, SMTT(20) DEF CacheInv, OpenRuntimes, InCache
<1>10. Epochs' /\ SingleFlight'
  BY <1>2, <1>3 DEF CacheInv, Epochs, SingleFlight
<1>11. Registered'
  BY <1>2, <1>3 DEF CacheInv, Registered
<1>12. NoStrandedWaiter'
  BY <1>2, <1>3 DEF CacheInv, NoStrandedWaiter
<1> QED
  BY <1>5, <1>6, <1>7, <1>8, <1>9, <1>10, <1>11, <1>12 DEF CacheInv

(* A caller waits for the registered build, which somebody is at work on. *)
LEMMA LookupWaitKeeps ==
    ASSUME CacheInv, NEW c \in Caller, caller[c].pc = "lookup",
           builds[caller[c].ref] # 0,
           caller' = [caller EXCEPT ![c].pc = "wait",
                                    ![c].bld = builds[caller[c].ref]],
           UNCHANGED <<config, written, caching, cache, builds, cacheEpoch,
                       destEpoch, count, build, closing, stale>>
    PROVE  CacheInv'
<1> DEFINE r == caller[c].ref
           b == builds[r]
<1>1. r \in Ref /\ b \in Builds /\ b \in 1..count /\ b \in 0..MaxBuilds
  <2>1. r \in Ref /\ b # 0
    BY DEF CacheInv, TypeOK, CallerState
  <2>2. b \in 0..count /\ b \in Builds /\ count \in Nat
    BY <2>1, Indices DEF CacheInv, TypeOK
  <2> HIDE DEF r, b
  <2> QED
    BY <2>1, <2>2, CacheConstants DEF Builds
<1>2. /\ caller' \in [Caller -> CallerState]
      /\ \A d \in Caller : d # c => caller'[d] = caller[d]
      /\ caller'[c].pc = "wait" /\ caller'[c].bld = b
  <2> DEFINE k == caller[c]
             s == [k EXCEPT !.pc = "wait", !.bld = b]
  <2>1. caller' = [caller EXCEPT ![c] = s] /\ caller \in [Caller -> CallerState]
    BY DEF CacheInv, TypeOK
  <2>2. k \in CallerState
    BY <2>1
  <2>3. s \in CallerState /\ s.pc = "wait" /\ s.bld = b
    <3> HIDE DEF k, b
    <3> QED
      BY <1>1, <2>2 DEF CallerState
  <2> HIDE DEF s
  <2>4. caller'[c] = s /\ \A d \in Caller : d # c => caller'[d] = caller[d]
    BY <2>1
  <2>5. caller' \in [Caller -> CallerState]
    BY <2>1, <2>3
  <2> QED
    BY <2>3, <2>4, <2>5, Zenon
<1>3. \A d \in Caller : /\ Private(d)' <=> Private(d)
                        /\ Building(d)' <=> Building(d)
                        /\ Private(d) \/ Building(d) => d # c
  BY <1>2 DEF Private, Building
<1>4. \E d \in Caller : Building(d) /\ caller[d].bld = b
  BY <1>1 DEF CacheInv, Registered
<1> HIDE DEF r, b
<1>5. TypeOK'
  BY <1>1, <1>2 DEF CacheInv, TypeOK
<1>6. PrivateBuilds'
  BY <1>2, <1>3, SMTT(20) DEF CacheInv, PrivateBuilds
<1>7. RuntimeStates'
  BY <1>2, <1>3 DEF CacheInv, RuntimeStates
<1>8. CacheEntries'
  BY DEF CacheInv, CacheEntries
<1>9. OpenRuntimes'
  BY <1>2, <1>3, SMTT(20) DEF CacheInv, OpenRuntimes, InCache
<1>10. Epochs' /\ SingleFlight'
  BY <1>2, <1>3 DEF CacheInv, Epochs, SingleFlight
<1>11. Registered'
  BY <1>2, <1>3 DEF CacheInv, Registered
<1>12. NoStrandedWaiter'
  BY <1>2, <1>3, <1>4 DEF CacheInv, NoStrandedWaiter
<1> QED
  BY <1>5, <1>6, <1>7, <1>8, <1>9, <1>10, <1>11, <1>12 DEF CacheInv

(* A new build has a number of its own and no runtime yet. *)
LEMMA NewBuildFacts ==
    ASSUME TypeOK, NEW c \in Caller, NewBuild(c)
    PROVE  /\ count + 1 \in Builds /\ count + 1 \in 0..MaxBuilds
           /\ count + 1 \notin 0..count /\ 0..count \subseteq 0..(count + 1)
           /\ 1..count \subseteq 1..(count + 1) /\ count + 1 \in 1..(count + 1)
           /\ count' = count + 1
           /\ build' \in [Builds -> BuildRecord]
           /\ build'[count + 1].rt = "none" /\ build'[count + 1].ready = "no"
           /\ build'[count + 1].ref = caller[c].ref
           /\ build'[count + 1].fp = caller[c].fp
           /\ \A k \in Builds : k # count + 1 => build'[k] = build[k]
<1>1. count \in Nat /\ count < MaxBuilds
  BY CacheConstants DEF TypeOK, NewBuild
<1>2. count + 1 \in Builds /\ count + 1 \in 0..MaxBuilds
  BY <1>1, CacheConstants DEF Builds
<1>3. caller[c].ref \in Ref /\ caller[c].fp \in Fp
  BY DEF TypeOK, CallerState
<1>4. LET n == [NoBuild EXCEPT !.ref = caller[c].ref, !.fp = caller[c].fp]
      IN  /\ n \in BuildRecord /\ n.rt = "none" /\ n.ready = "no"
          /\ n.ref = caller[c].ref /\ n.fp = caller[c].fp
  BY <1>3, DefaultsTyped DEF BuildRecord
<1>5. /\ count + 1 \notin 0..count /\ 0..count \subseteq 0..(count + 1)
      /\ 1..count \subseteq 1..(count + 1) /\ count + 1 \in 1..(count + 1)
  BY <1>1
<1>6. /\ build' \in [Builds -> BuildRecord]
      /\ build'[count + 1] =
             [NoBuild EXCEPT !.ref = caller[c].ref, !.fp = caller[c].fp]
      /\ \A k \in Builds : k # count + 1 => build'[k] = build[k]
  BY <1>2, <1>4 DEF TypeOK, NewBuild
<1> QED
  BY <1>2, <1>4, <1>5, <1>6 DEF NewBuild

(* The caller starts a build and registers it: its epochs are those of the *)
(* cache, and any other build of the destination is of an earlier epoch.   *)
LEMMA LookupStartKeeps ==
    ASSUME CacheInv, NEW c \in Caller, caller[c].pc = "lookup",
           builds[caller[c].ref] = 0, NewBuild(c),
           builds' = [builds EXCEPT ![caller[c].ref] = count + 1],
           caller' = [caller EXCEPT ![c].pc = "open", ![c].bld = count + 1,
                          ![c].cacheEpoch = cacheEpoch,
                          ![c].destEpoch = destEpoch[caller[c].ref]],
           UNCHANGED <<config, written, caching, cache, cacheEpoch, destEpoch,
                       closing, stale>>
    PROVE  CacheInv'
<1> DEFINE r == caller[c].ref
           b == count + 1
<1>1. /\ b \in Builds /\ b \in 0..MaxBuilds /\ b \notin 0..count
      /\ 0..count \subseteq 0..b /\ 1..count \subseteq 1..b /\ b \in 1..b
      /\ count' = b /\ build' \in [Builds -> BuildRecord]
      /\ build'[b].rt = "none" /\ build'[b].ready = "no"
      /\ build'[b].ref = r /\ build'[b].fp = caller[c].fp
      /\ \A k \in Builds : k # b => build'[k] = build[k]
  BY NewBuildFacts DEF CacheInv
<1>2. /\ r \in Ref /\ cacheEpoch \in 0..MaxEpoch /\ destEpoch[r] \in 0..MaxEpoch
      /\ 1..count \subseteq 0..count
  BY CacheConstants DEF CacheInv, TypeOK, CallerState
<1>3. /\ caller' \in [Caller -> CallerState]
      /\ \A d \in Caller : d # c => caller'[d] = caller[d]
      /\ caller'[c].pc = "open" /\ caller'[c].bld = b
      /\ caller'[c].ref = r /\ caller'[c].fp = caller[c].fp
      /\ caller'[c].cacheEpoch = cacheEpoch
      /\ caller'[c].destEpoch = destEpoch[r]
  <2> DEFINE k == caller[c]
             de == destEpoch[r]
             s == [k EXCEPT !.pc = "open", !.bld = b,
                            !.cacheEpoch = cacheEpoch, !.destEpoch = de]
  <2>1. caller' = [caller EXCEPT ![c] = s] /\ caller \in [Caller -> CallerState]
    BY DEF CacheInv, TypeOK
  <2>2. k \in CallerState
    BY <2>1
  <2>3. /\ s \in CallerState /\ s.pc = "open" /\ s.bld = b
        /\ s.ref = k.ref /\ s.fp = k.fp /\ s.cacheEpoch = cacheEpoch
        /\ s.destEpoch = de
    <3>1. de \in 0..MaxEpoch
      BY <1>2
    <3> HIDE DEF k, b, de
    <3> QED
      BY <1>1, <1>2, <2>2, <3>1 DEF CallerState
  <2> HIDE DEF s
  <2>4. /\ caller'[c] = s
        /\ \A d \in Caller : d # c => caller'[d] = caller[d]
    BY <2>1
  <2>5. caller' \in [Caller -> CallerState]
    BY <2>1, <2>3
  <2> QED
    BY <2>3, <2>4, <2>5, Zenon
<1>4. \A d \in Caller : /\ Private(d)' <=> d = c \/ Private(d)
                        /\ Building(d)' <=> d = c \/ Building(d)
                        /\ Private(d) \/ Building(d) => d # c
                        /\ Building(d) => Private(d)
  BY <1>3 DEF Private, Building
<1>5. /\ \A q \in Ref : cache[q] # b /\ builds[q] # b
      /\ b \notin closing /\ b \notin stale
      /\ \A d \in Caller : caller[d].pc \notin {"idle", "lookup"} =>
             caller[d].bld # b /\ caller[d].bld \in Builds
  BY <1>1, <1>2, Indices DEF CacheInv, TypeOK
<1>6. \A q \in Ref : builds'[q] = IF q = r THEN b ELSE builds[q]
  BY <1>2 DEF CacheInv, TypeOK
<1> HIDE DEF r, b
<1>7. TypeOK'
  <2>1. builds' \in [Ref -> 0..b] /\ cache \in [Ref -> 0..b]
    BY <1>1, <1>2 DEF CacheInv, TypeOK, r, b
  <2>2. \A d \in Caller : caller'[d].pc \notin {"idle", "lookup"} =>
            caller'[d].bld \in 1..b
    BY <1>1, <1>3 DEF CacheInv, TypeOK
  <2> QED
    BY <1>1, <1>3, <2>1, <2>2 DEF CacheInv, TypeOK
<1>8. PrivateBuilds'
  BY <1>3, <1>4, <1>5, SMTT(20) DEF CacheInv, PrivateBuilds, Private
<1>9. RuntimeStates'
  BY <1>1, <1>3, <1>4, <1>5 DEF CacheInv, RuntimeStates, Private
<1>10. CacheEntries'
  BY <1>1, <1>5, Indices DEF CacheInv, CacheEntries
<1>11. OpenRuntimes'
  BY <1>1, <1>3, <1>4, <1>5 DEF CacheInv, OpenRuntimes, InCache
<1>12. \A d \in Caller : d # c /\ Building(d) /\ caller[d].ref = r
           => caller[d].cacheEpoch # cacheEpoch
  <2>1. \A d \in Caller : Building(d) => caller[d].bld # 0
    BY Indices DEF CacheInv, Building, Builds
  <2> QED
    BY <2>1 DEF CacheInv, Epochs, r
<1>13. Epochs'
  <2>1. cacheEpoch <= cacheEpoch /\ destEpoch[r] <= destEpoch[r]
    BY <1>2, CacheConstants
  <2>2. ASSUME NEW d \in Caller, d # c, Building(d)
        PROVE  caller[d].cacheEpoch = cacheEpoch =>
                   builds'[caller[d].ref] = builds[caller[d].ref]
    BY <2>2, <1>6, <1>12 DEF CacheInv, TypeOK, CallerState
  <2> QED
    BY <1>2, <1>3, <1>4, <1>5, <1>6, <2>1, <2>2 DEF CacheInv, Epochs
<1>14. Registered'
  BY <1>3, <1>4, <1>6 DEF CacheInv, Registered
<1>15. SingleFlight'
  BY <1>3, <1>4, <1>12 DEF CacheInv, SingleFlight
<1>16. NoStrandedWaiter'
  <2> SUFFICES ASSUME NEW w \in Caller, caller'[w].pc = "wait"
               PROVE  \/ build'[caller'[w].bld].ready # "no"
                      \/ \E d \in Caller : Building(d)'
                                            /\ caller'[d].bld = caller'[w].bld
    BY DEF NoStrandedWaiter
  <2>1. /\ caller[w].pc = "wait" /\ caller'[w] = caller[w]
        /\ build'[caller[w].bld] = build[caller[w].bld]
    BY <1>1, <1>3, <1>5
  <2>2. CASE build[caller[w].bld].ready # "no"
    BY <2>1, <2>2
  <2>3. ASSUME NEW d \in Caller, Building(d), caller[d].bld = caller[w].bld
        PROVE  Building(d)' /\ caller'[d].bld = caller'[w].bld
    BY <2>1, <2>3, <1>3, <1>4
  <2> QED
    BY <2>1, <2>2, <2>3 DEF CacheInv, NoStrandedWaiter
<1> QED
  BY <1>7, <1>8, <1>9, <1>10, <1>11, <1>13, <1>14, <1>15, <1>16 DEF CacheInv

(* One round of cachedDestinationRuntime under cacheMu. *)
LEMMA LookupKeeps ==
    ASSUME CacheInv, NEW c \in Caller, Lookup(c)
    PROVE  CacheInv'
<1>1. CASE Hit(c)
  BY <1>1, LookupHitKeeps, Zenon DEF Lookup
<1>2. CASE ~Hit(c) /\ builds[caller[c].ref] # 0
  BY <1>2, LookupWaitKeeps, Zenon DEF Lookup
<1>3. CASE ~Hit(c) /\ builds[caller[c].ref] = 0
  BY <1>3, LookupStartKeeps, Zenon DEF Lookup
<1> QED
  BY <1>1, <1>2, <1>3

(* Without caching the caller clears the cache and opens a runtime of its  *)
(* own: the clear is a step of DropAllKeeps, the build concerns nobody.    *)
LEMMA OpenUncachedKeeps ==
    ASSUME CacheInv, NEW c \in Caller, OpenUncached(c)
    PROVE  CacheInv'
<1> DEFINE r == caller[c].ref
           b == count + 1
<1>1. /\ b \in Builds /\ b \in 0..MaxBuilds /\ b \notin 0..count
      /\ 0..count \subseteq 0..b /\ 1..count \subseteq 1..b /\ b \in 1..b
      /\ count' = b /\ build' \in [Builds -> BuildRecord]
      /\ build'[b].rt = "none" /\ build'[b].ready = "no"
      /\ build'[b].ref = r /\ build'[b].fp = caller[c].fp
      /\ \A k \in Builds : k # b => build'[k] = build[k]
  BY NewBuildFacts DEF CacheInv, OpenUncached
<1>2. /\ cacheEpoch' = cacheEpoch + 1
      /\ cacheEpoch < MaxEpoch
      /\ \A q \in Ref : cache'[q] = 0 /\ builds'[q] = 0
      /\ UNCHANGED <<config, written, caching>>
      /\ caller[c].pc = "lookup"
  BY DEF OpenUncached, DropAll
<1>3. \A k \in Builds : k \in closing' <=> k \in closing \/ InCache(k)
  BY DEF OpenUncached, DropAll, Cached, InCache
<1>4. /\ caller' \in [Caller -> CallerState]
      /\ \A d \in Caller : d # c => caller'[d] = caller[d]
      /\ caller'[c].pc = "open_own" /\ caller'[c].bld = b
      /\ caller'[c].ref = r /\ caller'[c].fp = caller[c].fp
  <2> DEFINE k == caller[c]
             s == [k EXCEPT !.pc = "open_own", !.bld = b]
  <2>1. caller' = [caller EXCEPT ![c] = s] /\ caller \in [Caller -> CallerState]
    BY DEF CacheInv, TypeOK, OpenUncached
  <2>2. k \in CallerState
    BY <2>1
  <2>3. /\ s \in CallerState /\ s.pc = "open_own" /\ s.bld = b
        /\ s.ref = k.ref /\ s.fp = k.fp
    <3> HIDE DEF k, b
    <3> QED
      BY <1>1, <2>2 DEF CallerState
  <2> HIDE DEF s
  <2> QED
    BY <2>1, <2>3
<1>5. \A d \in Caller : /\ Private(d)' <=> d = c \/ Private(d)
                        /\ Building(d)' <=> Building(d)
                        /\ Private(d) \/ Building(d) => d # c
                        /\ Building(d) => Private(d)
  BY <1>2, <1>4 DEF Private, Building
<1>6. /\ \A q \in Ref : cache[q] # b
      /\ b \notin closing
      /\ \A d \in Caller : caller[d].pc \notin {"idle", "lookup"} =>
             /\ caller[d].bld # b /\ caller[d].bld \in Builds
             /\ caller[d].bld \in 1..count
  <2>1. 1..count \subseteq 0..count
    BY CacheConstants DEF CacheInv, TypeOK
  <2> QED
    BY <1>1, <2>1, Indices DEF CacheInv, TypeOK
<1>7. 0 \notin Builds
  BY DEF Builds
<1> HIDE DEF r, b
<1>8. TypeOK'
  <2>1. closing' \subseteq 1..b
    <3>1. Cached(Ref) \subseteq 1..count
      BY Indices DEF CacheInv, TypeOK, Cached, Builds
    <3> QED
      BY <1>1, <3>1 DEF CacheInv, TypeOK, DropAll, OpenUncached
  <2>2. stale' \subseteq 1..b
    BY <1>1, <1>6 DEF CacheInv, TypeOK, DropAll, Underway, OpenUncached, Building
  <2>3. /\ cache' \in [Ref -> 0..b] /\ builds' \in [Ref -> 0..b]
        /\ destEpoch' \in [Ref -> 0..MaxEpoch] /\ cacheEpoch' \in 0..MaxEpoch
    <3>1. 0 \in 0..b /\ 0 \in 0..MaxEpoch
      BY CacheConstants DEF CacheInv, TypeOK, b
    <3>2. cacheEpoch' \in 0..MaxEpoch
      BY <1>2, CacheConstants DEF CacheInv, TypeOK
    <3> QED
      BY <3>1, <3>2 DEF DropAll, OpenUncached
  <2>4. \A d \in Caller : caller'[d].pc \notin {"idle", "lookup"} =>
            caller'[d].bld \in 1..b
    BY <1>1, <1>4 DEF CacheInv, TypeOK
  <2>5. b \in 0..MaxBuilds
    BY <1>1
  <2> QED
    BY <1>1, <1>2, <1>4, <2>1, <2>2, <2>3, <2>4 DEF CacheInv, TypeOK
<1>9. PrivateBuilds'
  <2>1. ASSUME NEW d \in Caller, Private(d)
        PROVE  /\ caller[d].bld \in Builds /\ caller[d].bld # 0
               /\ caller[d].bld # b /\ caller[d].bld \notin closing'
    <3>1. caller[d].bld \in Builds /\ caller[d].bld # b
      BY <2>1, <1>6 DEF Private
    <3> QED
      BY <2>1, <3>1, <1>3, <1>7 DEF CacheInv, PrivateBuilds, InCache
  <2>2. b \notin closing' /\ b # 0
    BY <1>1, <1>3, <1>6, <1>7 DEF InCache
  <2> QED
    BY <1>2, <1>4, <1>5, <2>1, <2>2 DEF CacheInv, PrivateBuilds
<1>10. RuntimeStates'
  BY <1>1, <1>4, <1>5, <1>6 DEF CacheInv, RuntimeStates, Private
<1>11. CacheEntries'
  BY <1>2 DEF CacheEntries
<1>12. OpenRuntimes'
  <2>1. ASSUME NEW k \in Builds, InCache(k)
        PROVE  build[k].rt = "open"
    BY <2>1, <1>7 DEF CacheInv, CacheEntries, InCache
  <2> QED
    BY <1>1, <1>3, <1>4, <1>5, <1>6, <2>1 DEF CacheInv, OpenRuntimes, InCache
<1>13. Epochs'
  <2> SUFFICES ASSUME NEW d \in Caller, Building(d), d # c
               PROVE  /\ caller[d].cacheEpoch <= cacheEpoch'
                      /\ caller[d].cacheEpoch # cacheEpoch'
    BY <1>4, <1>5 DEF Epochs
  <2>1. caller[d].cacheEpoch \in Nat /\ cacheEpoch \in Nat
    BY CacheConstants DEF CacheInv, TypeOK, CallerState
  <2>2. caller[d].cacheEpoch <= cacheEpoch
    BY DEF CacheInv, Epochs
  <2> QED
    BY <1>2, <2>1, <2>2
<1>14. Registered'
  BY <1>2 DEF Registered
<1>15. SingleFlight'
  BY <1>4, <1>5 DEF CacheInv, SingleFlight
<1>16. NoStrandedWaiter'
  BY <1>1, <1>4, <1>5, <1>6 DEF CacheInv, NoStrandedWaiter
<1> QED
  BY <1>8, <1>9, <1>10, <1>11, <1>12, <1>13, <1>14, <1>15, <1>16 DEF CacheInv

(* A build has opened its runtime, or failed to. *)
LEMMA OpenRuntimeKeeps ==
    ASSUME CacheInv, NEW c \in Caller, OpenRuntime(c)
    PROVE  CacheInv'
<1> DEFINE b == caller[c].bld
<1>1. /\ UNCHANGED <<config, written, caching, cache, builds, cacheEpoch>>
      /\ UNCHANGED <<destEpoch, count, closing, stale>>
      /\ caller[c].pc = "open"
  BY DEF OpenRuntime, cacheVars
<1>2. b \in Builds
  BY <1>1, Indices DEF CacheInv
<1>3. /\ build' \in [Builds -> BuildRecord]
      /\ build'[b].rt # "closed"
      /\ \A k \in Builds : /\ k # b => build'[k] = build[k]
                           /\ build'[k].ref = build[k].ref
                           /\ build'[k].fp = build[k].fp
                           /\ build'[k].ready = build[k].ready
  BY <1>2 DEF CacheInv, TypeOK, OpenRuntime, BuildRecord
<1>4. /\ caller' \in [Caller -> CallerState]
      /\ caller'[c].pc = "finish"
      /\ \A d \in Caller : /\ d # c => caller'[d] = caller[d]
                           /\ caller'[d].bld = caller[d].bld
                           /\ caller'[d].ref = caller[d].ref
                           /\ caller'[d].fp = caller[d].fp
                           /\ caller'[d].cacheEpoch = caller[d].cacheEpoch
                           /\ caller'[d].destEpoch = caller[d].destEpoch
  <2> DEFINE k == caller[c]
             s == [k EXCEPT !.pc = "finish"]
  <2>1. caller' = [caller EXCEPT ![c] = s] /\ caller \in [Caller -> CallerState]
    BY DEF CacheInv, TypeOK, OpenRuntime
  <2>2. k \in CallerState
    BY <2>1
  <2>3. /\ s \in CallerState /\ s.pc = "finish"
        /\ s.bld = k.bld /\ s.ref = k.ref /\ s.fp = k.fp
        /\ s.cacheEpoch = k.cacheEpoch /\ s.destEpoch = k.destEpoch
    <3> HIDE DEF k
    <3> QED
      BY <2>2 DEF CallerState
  <2> HIDE DEF s
  <2>4. caller'[c] = s /\ \A d \in Caller : d # c => caller'[d] = caller[d]
    BY <2>1
  <2>5. caller' \in [Caller -> CallerState]
    BY <2>1, <2>3
  <2> QED
    BY <2>3, <2>4, <2>5
<1>5. \A d \in Caller : /\ Private(d)' <=> Private(d)
                        /\ Building(d)' <=> Building(d)
  BY <1>1, <1>4 DEF Private, Building
<1>6. /\ Private(c)
      /\ \A d \in Caller : d # c /\ Private(d) => caller[d].bld # b
      /\ \A q \in Ref : cache[q] # b
      /\ b \notin closing
  BY <1>1 DEF CacheInv, PrivateBuilds, Private
<1> HIDE DEF b
<1>7. TypeOK'
  <2>1. \A d \in Caller : caller'[d].pc \notin {"idle", "lookup"} =>
            caller'[d].bld \in 1..count
    BY <1>1, <1>4 DEF CacheInv, TypeOK
  <2> QED
    BY <1>1, <1>3, <1>4, <2>1 DEF CacheInv, TypeOK
<1>8. PrivateBuilds'
  BY <1>1, <1>4, <1>5 DEF CacheInv, PrivateBuilds
<1>9. RuntimeStates'
  <2>1. \A d \in Caller : caller[d].pc \notin {"idle", "lookup"} =>
            caller[d].bld \in Builds
    BY Indices DEF CacheInv
  <2> QED
    BY <1>1, <1>3, <1>4, <1>6, <2>1 DEF CacheInv, RuntimeStates, Private, b
<1>10. CacheEntries'
  BY <1>1, <1>3, <1>6, Indices DEF CacheInv, CacheEntries
<1>11. OpenRuntimes'
  BY <1>1, <1>3, <1>4, <1>5, <1>6 DEF CacheInv, OpenRuntimes, InCache, b
<1>12. Epochs' /\ Registered' /\ SingleFlight'
  BY <1>1, <1>4, <1>5 DEF CacheInv, Epochs, Registered, SingleFlight
<1>13. NoStrandedWaiter'
  BY <1>1, <1>3, <1>4, <1>5, Indices DEF CacheInv, NoStrandedWaiter
<1> QED
  BY <1>7, <1>8, <1>9, <1>10, <1>11, <1>12, <1>13 DEF CacheInv

(* A caller without caching has opened a runtime that only it knows of. *)
LEMMA OpenOwnKeeps ==
    ASSUME CacheInv, NEW c \in Caller, caller[c].pc = "open_own",
           build' = [build EXCEPT ![caller[c].bld].rt = "open"],
           caller' = [caller EXCEPT ![c].pc = "use", ![c].own = TRUE],
           UNCHANGED <<config, written, caching, cache, builds, cacheEpoch,
                       destEpoch, count, closing, stale>>
    PROVE  CacheInv'
<1> DEFINE b == caller[c].bld
<1>2. b \in Builds
  BY Indices DEF CacheInv
<1>3. /\ build' \in [Builds -> BuildRecord]
      /\ build'[b].rt = "open"
      /\ \A k \in Builds : /\ k # b => build'[k] = build[k]
                           /\ build'[k].ref = build[k].ref
                           /\ build'[k].fp = build[k].fp
                           /\ build'[k].ready = build[k].ready
  BY <1>2 DEF CacheInv, TypeOK, BuildRecord
<1>4. /\ caller' \in [Caller -> CallerState]
      /\ caller'[c].pc = "use" /\ caller'[c].own
      /\ \A d \in Caller : /\ d # c => caller'[d] = caller[d]
                           /\ caller'[d].bld = caller[d].bld
                           /\ caller'[d].ref = caller[d].ref
                           /\ caller'[d].fp = caller[d].fp
  <2> DEFINE k == caller[c]
             s == [k EXCEPT !.pc = "use", !.own = TRUE]
  <2>1. caller' = [caller EXCEPT ![c] = s] /\ caller \in [Caller -> CallerState]
    BY DEF CacheInv, TypeOK
  <2>2. k \in CallerState
    BY <2>1
  <2>3. /\ s \in CallerState /\ s.pc = "use" /\ s.own = TRUE
        /\ s.bld = k.bld /\ s.ref = k.ref /\ s.fp = k.fp
    <3> HIDE DEF k
    <3> QED
      BY <2>2 DEF CallerState
  <2> HIDE DEF s
  <2>4. caller'[c] = s /\ \A d \in Caller : d # c => caller'[d] = caller[d]
    BY <2>1
  <2>5. caller' \in [Caller -> CallerState]
    BY <2>1, <2>3
  <2> QED
    BY <2>3, <2>4, <2>5
<1>5. \A d \in Caller : /\ Private(d)' <=> Private(d)
                        /\ Building(d)' <=> Building(d)
                        /\ Building(d) => d # c
  BY <1>4 DEF Private, Building
<1>6. /\ Private(c)
      /\ \A d \in Caller : d # c /\ Private(d) => caller[d].bld # b
      /\ \A q \in Ref : cache[q] # b
      /\ b \notin closing
  BY DEF CacheInv, PrivateBuilds, Private
<1> HIDE DEF b
<1>7. TypeOK'
  <2>1. \A d \in Caller : caller'[d].pc \notin {"idle", "lookup"} =>
            caller'[d].bld \in 1..count
    BY <1>4 DEF CacheInv, TypeOK
  <2> QED
    BY <1>3, <1>4, <2>1 DEF CacheInv, TypeOK
<1>8. PrivateBuilds'
  BY <1>4, <1>5 DEF CacheInv, PrivateBuilds
<1>9. RuntimeStates'
  <2>1. \A d \in Caller : caller[d].pc \notin {"idle", "lookup"} =>
            caller[d].bld \in Builds
    BY Indices DEF CacheInv
  <2>2. ASSUME NEW d \in Caller, d # c
        PROVE  /\ Private(d)' <=> Private(d)
               /\ caller'[d] = caller[d]
               /\ Private(d) => build'[caller[d].bld] = build[caller[d].bld]
    BY <2>2, <2>1, <1>3, <1>4, <1>6 DEF Private
  <2> QED
    BY <1>3, <1>4, <1>6, <2>1, <2>2 DEF CacheInv, RuntimeStates, Private, b
<1>10. CacheEntries'
  BY <1>3, <1>6, Indices DEF CacheInv, CacheEntries
<1>11. OpenRuntimes'
  BY <1>3, <1>4, <1>5, <1>6 DEF CacheInv, OpenRuntimes, InCache, b
<1>12. Epochs' /\ Registered' /\ SingleFlight'
  BY <1>4, <1>5 DEF CacheInv, Epochs, Registered, SingleFlight
<1>13. NoStrandedWaiter'
  BY <1>3, <1>4, <1>5, Indices DEF CacheInv, NoStrandedWaiter
<1> QED
  BY <1>7, <1>8, <1>9, <1>10, <1>11, <1>12, <1>13 DEF CacheInv

(* The caller closes the runtime it owns. *)
LEMMA ReleaseOwnKeeps ==
    ASSUME CacheInv, NEW c \in Caller, Release(c), caller[c].own = TRUE
    PROVE  CacheInv'
<1> DEFINE b == caller[c].bld
<1>1. /\ UNCHANGED <<config, written, caching, cache, builds, cacheEpoch>>
      /\ UNCHANGED <<destEpoch, count, closing, stale>>
      /\ caller[c].pc = "use"
  BY DEF Release, cacheVars
<1>2. b \in Builds
  BY <1>1, Indices DEF CacheInv
<1>3. /\ build' \in [Builds -> BuildRecord]
      /\ build'[b].rt = "closed"
      /\ \A k \in Builds : /\ k # b => build'[k] = build[k]
                           /\ build'[k].ref = build[k].ref
                           /\ build'[k].fp = build[k].fp
                           /\ build'[k].ready = build[k].ready
  BY <1>2 DEF CacheInv, TypeOK, BuildRecord, Release
<1>4. /\ caller' \in [Caller -> CallerState]
      /\ caller'[c].pc = "idle"
      /\ \A d \in Caller : d # c => caller'[d] = caller[d]
  BY DefaultsTyped DEF CacheInv, TypeOK, Release
<1>5. \A d \in Caller : /\ Private(d)' <=> d # c /\ Private(d)
                        /\ Building(d)' <=> Building(d)
                        /\ Building(d) => d # c
  BY <1>1, <1>4 DEF Private, Building
<1>6. /\ Private(c)
      /\ \A d \in Caller : d # c /\ Private(d) => caller[d].bld # b
      /\ \A q \in Ref : cache[q] # b
      /\ b \notin closing
  BY <1>1 DEF CacheInv, PrivateBuilds, Private
<1> HIDE DEF b
<1>7. TypeOK'
  <2>1. \A d \in Caller : caller'[d].pc \notin {"idle", "lookup"} =>
            caller'[d].bld \in 1..count
    BY <1>1, <1>4 DEF CacheInv, TypeOK
  <2> QED
    BY <1>1, <1>3, <1>4, <2>1 DEF CacheInv, TypeOK
<1>8. PrivateBuilds'
  BY <1>1, <1>4, <1>5 DEF CacheInv, PrivateBuilds
<1>9. RuntimeStates'
  <2>1. \A d \in Caller : caller[d].pc \notin {"idle", "lookup"} =>
            caller[d].bld \in Builds
    BY Indices DEF CacheInv
  <2>2. ASSUME NEW d \in Caller, d # c
        PROVE  /\ Private(d)' <=> Private(d)
               /\ caller'[d] = caller[d]
               /\ Private(d) => build'[caller[d].bld] = build[caller[d].bld]
    BY <2>2, <2>1, <1>3, <1>4, <1>6 DEF Private
  <2>3. ASSUME NEW d \in Caller, d # c, caller[d].pc = "use"
        PROVE  /\ build'[caller[d].bld].fp = build[caller[d].bld].fp
               /\ build'[caller[d].bld].ref = build[caller[d].bld].ref
    BY <2>3, <2>1, <1>3
  <2>4. ~Private(c)' /\ caller'[c].pc = "idle"
    BY <1>4, <1>5
  <2>5. ASSUME NEW d \in Caller, d # c
        PROVE  /\ caller[d].pc \in {"open", "open_own", "finish"} => Private(d)
               /\ caller[d].pc = "use" /\ caller[d].own => Private(d)
    BY DEF Private
  <2> QED
    BY <1>1, <2>2, <2>3, <2>4, <2>5 DEF CacheInv, RuntimeStates
<1>10. CacheEntries'
  <2>1. \A q \in Ref : cache[q] # 0 => build'[cache[q]] = build[cache[q]]
    BY <1>3, <1>6, Indices DEF CacheInv
  <2> QED
    BY <1>1, <2>1 DEF CacheInv, CacheEntries
<1>11. OpenRuntimes'
  <2>1. \A k \in Builds : k \in closing => k # b
    BY <1>6
  <2>2. \A k \in Builds : build'[k].rt = "open" => k # b /\ build[k].rt = "open"
    BY <1>3
  <2>3. \A k \in Builds, d \in Caller : k # b /\ Private(d) /\ caller[d].bld = k
            => Private(d)' /\ caller'[d].bld = k
    BY <1>4, <1>5 DEF b
  <2> QED
    BY <1>1, <1>3, <2>1, <2>2, <2>3 DEF CacheInv, OpenRuntimes, InCache
<1>12. Epochs' /\ Registered' /\ SingleFlight'
  BY <1>1, <1>4, <1>5 DEF CacheInv, Epochs, Registered, SingleFlight
<1>13. NoStrandedWaiter'
  BY <1>1, <1>3, <1>4, <1>5, Indices DEF CacheInv, NoStrandedWaiter
<1> QED
  BY <1>7, <1>8, <1>9, <1>10, <1>11, <1>12, <1>13 DEF CacheInv

(* The end of a build, whatever its result, as far as the builds under way *)
(* and their waiters are concerned.                                        *)
LEMMA FinishBuildFacts ==
    ASSUME CacheInv, NEW c \in Caller, FinishBuild(c)
    PROVE  /\ caller[c].pc = "finish" /\ Private(c) /\ Building(c)
           /\ caller[c].bld \in Builds /\ caller[c].bld \in 1..count
           /\ caller[c].ref \in Ref
           /\ UNCHANGED <<config, written, caching, cacheEpoch, destEpoch, count>>
           /\ UNCHANGED stale
           /\ build' \in [Builds -> BuildRecord]
           /\ build'[caller[c].bld].ready # "no"
           /\ \A k \in Builds : /\ build'[k].rt = build[k].rt
                                /\ build'[k].ref = build[k].ref
                                /\ build'[k].fp = build[k].fp
                                /\ k # caller[c].bld => build'[k] = build[k]
           /\ builds' \in [Ref -> 0..count]
           /\ \A q \in Ref : builds'[q] =
                  IF q = caller[c].ref /\ builds[q] = caller[c].bld THEN 0
                  ELSE builds[q]
           /\ caller' \in [Caller -> CallerState]
           /\ \A d \in Caller : d # c => caller'[d] = caller[d]
           /\ IF build[caller[c].bld].rt = "open"
              THEN /\ caller'[c].pc = "use"
                   /\ caller'[c].own = ~MayPublish(c)
                   /\ caller'[c].bld = caller[c].bld
                   /\ caller'[c].ref = caller[c].ref
                   /\ caller'[c].fp = caller[c].fp
              ELSE caller'[c].pc = "idle"
<1> DEFINE b == caller[c].bld
<1>1. /\ caller[c].pc = "finish"
      /\ UNCHANGED <<config, written, caching, cacheEpoch, destEpoch, count>>
      /\ UNCHANGED stale
  BY DEF FinishBuild
<1>2. b \in Builds /\ b \in 1..count /\ caller[c].ref \in Ref
  BY <1>1, Indices DEF CacheInv, TypeOK, CallerState
<1>3. build' = [build EXCEPT ![b].ready = Result(c)]
      /\ Result(c) \in {"ok", "failed"}
  BY DEF FinishBuild, Result
<1>4. /\ build' \in [Builds -> BuildRecord]
      /\ build'[b].ready # "no"
      /\ \A k \in Builds : /\ build'[k].rt = build[k].rt
                           /\ build'[k].ref = build[k].ref
                           /\ build'[k].fp = build[k].fp
                           /\ k # b => build'[k] = build[k]
  <2> HIDE DEF b
  <2> QED
    BY <1>2, <1>3 DEF CacheInv, TypeOK, BuildRecord
<1>5. /\ builds' \in [Ref -> 0..count]
      /\ \A q \in Ref : builds'[q] =
             IF q = caller[c].ref /\ builds[q] = b THEN 0 ELSE builds[q]
  <2>1. builds \in [Ref -> 0..count] /\ 0 \in 0..count
    BY CacheConstants DEF CacheInv, TypeOK
  <2> QED
    BY <1>2, <2>1 DEF FinishBuild, BuildsAfter
<1>6. /\ caller' \in [Caller -> CallerState]
      /\ \A d \in Caller : d # c => caller'[d] = caller[d]
      /\ IF build[b].rt = "open"
         THEN /\ caller'[c].pc = "use"
              /\ caller'[c].own = ~MayPublish(c)
              /\ caller'[c].bld = b
              /\ caller'[c].ref = caller[c].ref
              /\ caller'[c].fp = caller[c].fp
         ELSE caller'[c].pc = "idle"
  <2> DEFINE k == caller[c]
             own == ~MayPublish(c)
             s == IF build[b].rt = "open"
                  THEN [k EXCEPT !.pc = "use", !.own = own] ELSE Idle
  <2>1. caller' = [caller EXCEPT ![c] = s] /\ caller \in [Caller -> CallerState]
    BY DEF CacheInv, TypeOK, FinishBuild
  <2>2. k \in CallerState /\ own \in BOOLEAN
    BY <2>1 DEF MayPublish
  <2>3. /\ s \in CallerState
        /\ IF build[b].rt = "open"
           THEN /\ s.pc = "use" /\ s.own = own /\ s.bld = k.bld
                /\ s.ref = k.ref /\ s.fp = k.fp
           ELSE s.pc = "idle"
    <3> HIDE DEF k, own, b
    <3> QED
      BY <2>2, DefaultsTyped DEF CallerState
  <2>4. caller'[c] = s /\ \A d \in Caller : d # c => caller'[d] = caller[d]
    <3> HIDE DEF s
    <3> QED
      BY <2>1
  <2>5. caller' \in [Caller -> CallerState]
    <3> HIDE DEF s
    <3> QED
      BY <2>1, <2>3
  <2> HIDE DEF s, own
  <2> QED
    BY <2>3, <2>4, <2>5 DEF own
<1> QED
  BY <1>1, <1>2, <1>4, <1>5, <1>6 DEF Private, Building

(* The parts of the invariant that do not depend on the result. *)
LEMMA FinishBuildOthers ==
    ASSUME CacheInv, NEW c \in Caller, FinishBuild(c)
    PROVE  Epochs' /\ Registered' /\ SingleFlight' /\ NoStrandedWaiter'
<1> DEFINE b == caller[c].bld
           r == caller[c].ref
<1>1. /\ Private(c) /\ Building(c) /\ b \in Builds /\ r \in Ref
      /\ UNCHANGED <<cacheEpoch, destEpoch, stale>>
      /\ \A d \in Caller : d # c => caller'[d] = caller[d]
      /\ caller'[c].pc \in {"use", "idle"}
  BY FinishBuildFacts
<1>2. \A d \in Caller : Building(d)' <=> d # c /\ Building(d)
  BY <1>1 DEF Building
<1>3. \A d \in Caller : d # c /\ Building(d) =>
          caller[d].bld # b /\ caller[d].ref \in Ref
  <2>1. \A d \in Caller : Building(d) => Private(d)
    BY DEF Building, Private
  <2>2. \A d \in Caller : caller[d].ref \in Ref
    BY DEF CacheInv, TypeOK, CallerState
  <2> QED
    BY <1>1, <2>1, <2>2 DEF CacheInv, PrivateBuilds
<1>4. \A q \in Ref : builds'[q] =
          IF q = r /\ builds[q] = b THEN 0 ELSE builds[q]
  BY FinishBuildFacts
<1>5. /\ build'[b].ready # "no"
      /\ \A k \in Builds : k # b => build'[k] = build[k]
  BY FinishBuildFacts
<1>6. Epochs'
  <2> HIDE DEF r
  <2> QED
    BY <1>1, <1>2, <1>3, <1>4 DEF CacheInv, Epochs
<1>7. Registered'
  <2> SUFFICES ASSUME NEW q \in Ref, builds'[q] # 0
               PROVE  \E d \in Caller : /\ Building(d)'
                                        /\ caller'[d].bld = builds'[q]
                                        /\ caller'[d].ref = q
    BY DEF Registered
  <2>1. builds'[q] = builds[q] /\ ~(q = r /\ builds[q] = b)
    BY <1>4
  <2>2. PICK d \in Caller : /\ Building(d)
                            /\ caller[d].bld = builds[q] /\ caller[d].ref = q
    BY <2>1 DEF CacheInv, Registered
  <2> QED
    BY <2>1, <2>2, <1>1, <1>2
<1>8. SingleFlight'
  BY <1>1, <1>2 DEF CacheInv, SingleFlight
<1>9. NoStrandedWaiter'
  <2>1. ASSUME NEW w \in Caller, caller'[w].pc = "wait"
        PROVE  w # c /\ caller[w].pc = "wait" /\ caller[w].bld \in Builds
               /\ caller'[w].bld = caller[w].bld
    BY <2>1, <1>1, Indices DEF CacheInv
  <2> HIDE DEF b
  <2> QED
    BY <1>1, <1>2, <1>5, <2>1 DEF CacheInv, NoStrandedWaiter, b
<1> QED
  BY <1>6, <1>7, <1>8, <1>9

(* A build that does not publish: it failed, or an invalidation overtook   *)
(* it and its caller becomes the owner of the runtime.                     *)
LEMMA FinishUnpublishedKeeps ==
    ASSUME CacheInv, NEW c \in Caller, FinishBuild(c), ~MayPublish(c)
    PROVE  CacheInv'
<1> DEFINE b == caller[c].bld
<1>1. /\ cache' = cache /\ closing' = closing
      /\ UNCHANGED <<config, written, caching, cacheEpoch, destEpoch, count>>
      /\ UNCHANGED stale
  BY DEF FinishBuild, Displaced
<1>2. /\ Private(c) /\ caller[c].pc = "finish"
      /\ b \in Builds /\ b \in 1..count
      /\ build' \in [Builds -> BuildRecord]
      /\ builds' \in [Ref -> 0..count]
      /\ caller' \in [Caller -> CallerState]
      /\ \A d \in Caller : d # c => caller'[d] = caller[d]
  BY FinishBuildFacts
<1>3. \A k \in Builds : /\ build'[k].rt = build[k].rt
                        /\ build'[k].ref = build[k].ref
                        /\ build'[k].fp = build[k].fp
  BY FinishBuildFacts
<1>4. \/ /\ build[b].rt = "open" /\ caller'[c].pc = "use"
         /\ caller'[c].own = TRUE /\ caller'[c].bld = b
         /\ caller'[c].ref = caller[c].ref /\ caller'[c].fp = caller[c].fp
      \/ build[b].rt # "open" /\ caller'[c].pc = "idle"
  BY FinishBuildFacts
<1>5. \A d \in Caller : d # c => (Private(d)' <=> Private(d))
  BY <1>2 DEF Private
<1>6. Private(c)' => caller'[c].pc = "use" /\ caller'[c].bld = b
  BY <1>4 DEF Private
<1>7. \A d \in Caller : caller[d].pc \notin {"idle", "lookup"} =>
          caller[d].bld \in Builds
  BY Indices DEF CacheInv
<1>8. /\ build[b].fp = caller[c].fp /\ build[b].ref = caller[c].ref
  BY <1>2 DEF CacheInv, RuntimeStates
<1> HIDE DEF b
<1>9. TypeOK'
  <2>1. \A d \in Caller : caller'[d].pc \notin {"idle", "lookup"} =>
            caller'[d].bld \in 1..count
    BY <1>2, <1>4 DEF CacheInv, TypeOK
  <2> QED
    BY <1>1, <1>2, <2>1 DEF CacheInv, TypeOK
<1>10. PrivateBuilds'
  BY <1>1, <1>2, <1>5, <1>6 DEF CacheInv, PrivateBuilds, b
<1>11. RuntimeStates'
  <2>1. ASSUME NEW d \in Caller, d # c
        PROVE  /\ caller'[d] = caller[d]
               /\ Private(d)' <=> Private(d)
               /\ caller[d].pc \in {"open", "open_own", "finish"} => Private(d)
    BY <2>1, <1>2, <1>5 DEF Private
  <2>2. \/ /\ caller'[c].pc = "use" /\ build'[caller'[c].bld].rt = "open"
           /\ build'[caller'[c].bld].fp = caller'[c].fp
           /\ build'[caller'[c].bld].ref = caller'[c].ref
        \/ caller'[c].pc = "idle" /\ ~Private(c)'
    BY <1>2, <1>3, <1>4, <1>6, <1>8
  <2>3. ASSUME NEW d \in Caller, d # c, Private(d) \/ caller[d].pc = "use"
        PROVE  /\ build'[caller[d].bld].rt = build[caller[d].bld].rt
               /\ build'[caller[d].bld].fp = build[caller[d].bld].fp
               /\ build'[caller[d].bld].ref = build[caller[d].bld].ref
    <3>1. caller[d].bld \in Builds
      BY <2>3, <1>7 DEF Private
    <3> QED
      BY <3>1, <1>3
  <2> QED
    BY <2>1, <2>2, <2>3 DEF CacheInv, RuntimeStates
<1>12. CacheEntries'
  BY <1>1, <1>3, Indices DEF CacheInv, CacheEntries
<1>13. OpenRuntimes'
  <2>1. build[b].rt = "open" => Private(c)' /\ caller'[c].bld = b
    BY <1>4 DEF Private
  <2>2. ASSUME NEW k \in Builds, build[k].rt = "open",
               NEW d \in Caller, Private(d), caller[d].bld = k
        PROVE  Private(d)' /\ caller'[d].bld = k
    BY <2>1, <2>2, <1>2, <1>5 DEF b
  <2> QED
    BY <1>1, <1>3, <2>2 DEF CacheInv, OpenRuntimes, InCache
<1> QED
  BY <1>9, <1>10, <1>11, <1>12, <1>13, FinishBuildOthers DEF CacheInv

(* A build that publishes: no invalidation overtook it, so it is not       *)
(* stale, and the entry it replaces is about to be closed.                 *)
LEMMA FinishPublishedKeeps ==
    ASSUME CacheInv, NEW c \in Caller, FinishBuild(c), MayPublish(c)
    PROVE  CacheInv'
<1> DEFINE b == caller[c].bld
           r == caller[c].ref
<1>1. /\ UNCHANGED <<config, written, caching, cacheEpoch, destEpoch, count>>
      /\ UNCHANGED stale
      /\ cache' = [cache EXCEPT ![r] = b]
      /\ closing' = closing \cup Cached({r})
  BY DEF FinishBuild, Displaced
<1>2. /\ Private(c) /\ Building(c) /\ caller[c].pc = "finish"
      /\ b \in Builds /\ b \in 1..count /\ r \in Ref
      /\ build' \in [Builds -> BuildRecord]
      /\ builds' \in [Ref -> 0..count]
      /\ caller' \in [Caller -> CallerState]
      /\ \A d \in Caller : d # c => caller'[d] = caller[d]
  BY FinishBuildFacts
<1>3. \A k \in Builds : /\ build'[k].rt = build[k].rt
                        /\ build'[k].ref = build[k].ref
                        /\ build'[k].fp = build[k].fp
  BY FinishBuildFacts
<1>4. /\ build[b].rt = "open" /\ caller'[c].pc = "use"
      /\ caller'[c].own = FALSE /\ caller'[c].bld = b
      /\ caller'[c].ref = caller[c].ref /\ caller'[c].fp = caller[c].fp
  BY FinishBuildFacts DEF MayPublish
<1>5. \A d \in Caller : Private(d)' <=> d # c /\ Private(d)
  BY <1>2, <1>4 DEF Private
<1>6. /\ \A d \in Caller : d # c /\ Private(d) => caller[d].bld # b
      /\ \A q \in Ref : cache[q] # b
      /\ b \notin closing
      /\ build[b].fp = caller[c].fp /\ build[b].ref = r
  BY <1>2 DEF CacheInv, PrivateBuilds, RuntimeStates
<1>7. \A d \in Caller : Private(d) \/ caller[d].pc = "use" =>
          caller[d].bld \in Builds
  BY Indices DEF CacheInv, Private
<1>8. \A q \in Ref : cache'[q] = IF q = r THEN b ELSE cache[q]
  BY <1>1, <1>2 DEF CacheInv, TypeOK
<1>9. /\ \A k \in Builds : k \in closing' <=> k \in closing \/ cache[r] = k
      /\ closing' \subseteq Builds
  BY <1>1, Indices DEF Cached, CacheInv
<1>10. b \notin stale
  <2>1. caller[c].destEpoch \in Nat /\ destEpoch[r] \in Nat
    BY <1>2, CacheConstants DEF CacheInv, TypeOK, CallerState
  <2>2. caller[c].destEpoch = destEpoch[r] /\ caller[c].cacheEpoch = cacheEpoch
    BY DEF MayPublish
  <2>3. b \in stale => caller[c].destEpoch < destEpoch[r]
    BY <1>2, <2>2 DEF CacheInv, Epochs
  <2> QED
    BY <2>1, <2>2, <2>3
<1>11. 0 \notin Builds
  BY DEF Builds
<1> HIDE DEF b, r
<1>12. TypeOK'
  <2>1. \A d \in Caller : caller'[d].pc \notin {"idle", "lookup"} =>
            caller'[d].bld \in 1..count
    BY <1>2, <1>4 DEF CacheInv, TypeOK
  <2>2. cache' \in [Ref -> 0..count]
    <3>1. b \in 0..count
      BY <1>2, Indices DEF CacheInv
    <3> QED
      BY <1>1, <1>2, <3>1 DEF CacheInv, TypeOK
  <2>3. closing' \subseteq 1..count
    <3>1. Cached({r}) \subseteq 1..count
      BY <1>2, Indices DEF CacheInv, TypeOK, Cached, Builds
    <3> QED
      BY <1>1, <3>1 DEF CacheInv, TypeOK
  <2> QED
    BY <1>1, <1>2, <2>1, <2>2, <2>3 DEF CacheInv, TypeOK
<1>13. PrivateBuilds'
  <2>1. ASSUME NEW d \in Caller, d # c, Private(d)
        PROVE  caller[d].bld \notin closing' /\ caller[d].bld # b
    BY <2>1, <1>2, <1>6, <1>7, <1>9 DEF CacheInv, PrivateBuilds
  <2> QED
    BY <1>2, <1>5, <1>8, <2>1 DEF CacheInv, PrivateBuilds
<1>14. RuntimeStates'
  <2>1. ASSUME NEW d \in Caller, d # c
        PROVE  /\ caller'[d] = caller[d]
               /\ Private(d)' <=> Private(d)
               /\ caller[d].pc \in {"open", "open_own", "finish"} => Private(d)
    BY <2>1, <1>2, <1>5 DEF Private
  <2>2. /\ caller'[c].pc = "use" /\ caller'[c].own = FALSE /\ ~Private(c)'
        /\ build'[caller'[c].bld].fp = caller'[c].fp
        /\ build'[caller'[c].bld].ref = caller'[c].ref
    BY <1>2, <1>3, <1>4, <1>5, <1>6 DEF r
  <2>3. ASSUME NEW d \in Caller, d # c, Private(d) \/ caller[d].pc = "use"
        PROVE  /\ build'[caller[d].bld].rt = build[caller[d].bld].rt
               /\ build'[caller[d].bld].fp = build[caller[d].bld].fp
               /\ build'[caller[d].bld].ref = build[caller[d].bld].ref
    BY <2>3, <1>3, <1>7
  <2> QED
    BY <2>1, <2>2, <2>3 DEF CacheInv, RuntimeStates
<1>15. CacheEntries'
  <2>1. /\ build'[b].rt = "open" /\ build'[b].ref = r
        /\ b \notin closing' \cup stale'
    BY <1>1, <1>2, <1>3, <1>4, <1>6, <1>9, <1>10
  <2>2. ASSUME NEW q \in Ref, q # r, cache[q] # 0
        PROVE  /\ build'[cache[q]].rt = "open"
               /\ build'[cache[q]].ref = q
               /\ cache[q] \notin closing' \cup stale'
    <3>1. /\ cache[q] \in Builds
          /\ build[cache[q]].rt = "open" /\ build[cache[q]].ref = q
          /\ cache[q] \notin closing \cup stale
      BY <2>2, Indices DEF CacheInv, CacheEntries
    <3>2. cache[q] # cache[r]
      BY <2>2, <3>1, <1>2, <1>11 DEF CacheInv, CacheEntries
    <3> QED
      BY <3>1, <3>2, <1>1, <1>3, <1>9
  <2> QED
    BY <1>8, <2>1, <2>2 DEF CacheEntries
<1>16. OpenRuntimes'
  <2>1. ASSUME NEW k \in Builds, cache[r] = k PROVE build[k].rt = "open"
    BY <2>1, <1>2, <1>11 DEF CacheInv, CacheEntries
  <2>2. ASSUME NEW k \in Builds, InCache(k) PROVE InCache(k)' \/ k \in closing'
    BY <2>2, <1>8, <1>9 DEF InCache
  <2>3. ASSUME NEW k \in Builds, k = b PROVE InCache(k)'
    BY <2>3, <1>2, <1>8 DEF InCache
  <2>4. ASSUME NEW k \in Builds, NEW d \in Caller, Private(d),
               caller[d].bld = k, k # b
        PROVE  Private(d)' /\ caller'[d].bld = k
    BY <2>4, <1>2, <1>5 DEF b
  <2> QED
    BY <1>3, <1>9, <2>1, <2>2, <2>3, <2>4 DEF CacheInv, OpenRuntimes
<1> QED
  BY <1>12, <1>13, <1>14, <1>15, <1>16, FinishBuildOthers DEF CacheInv

-----------------------------------------------------------------------------
(* Every step keeps the invariant. *)
LEMMA CacheStep == CacheInv /\ [Next]_vars => CacheInv'
<1> SUFFICES ASSUME CacheInv, [Next]_vars PROVE CacheInv'
  OBVIOUS
<1>1. ASSUME NEW c \in Caller, Acquire(c) PROVE CacheInv'
  <2>1. CASE \E r \in Ref : ReadDestination(c, r)
    BY <2>1, ReadDestinationKeeps
  <2>2. CASE OpenUncached(c)
    BY <2>2, OpenUncachedKeeps
  <2>3. CASE Lookup(c)
    BY <2>3, LookupKeeps
  <2>4. CASE Wake(c) \/ GiveUp(c)
    BY <2>4, WakeKeeps
  <2>5. CASE OpenRuntime(c)
    BY <2>5, OpenRuntimeKeeps
  <2>6. CASE OpenOwn(c)
    <3>1. CASE caller' = [caller EXCEPT ![c] = Idle] /\ UNCHANGED build
      <4>1. /\ caller' \in [Caller -> CallerState]
            /\ caller'[c].pc = "idle"
            /\ \A d \in Caller : d # c => caller'[d] = caller[d]
        BY <3>1, DefaultsTyped DEF CacheInv, TypeOK
      <4> QED
        BY <2>6, <3>1, <4>1, StepBackKeeps DEF OpenOwn, cacheVars
    <3> QED
      BY <2>6, <3>1, OpenOwnKeeps DEF OpenOwn, cacheVars
  <2>7. CASE FinishBuild(c)
    BY <2>7, FinishUnpublishedKeeps, FinishPublishedKeeps
  <2>8. CASE Release(c)
    <3>1. CASE caller[c].own = FALSE
      <4>1. /\ caller' \in [Caller -> CallerState]
            /\ caller'[c].pc = "idle"
            /\ \A d \in Caller : d # c => caller'[d] = caller[d]
        BY <2>8, DefaultsTyped DEF CacheInv, TypeOK, Release
      <4>2. /\ UNCHANGED <<config, written, caching, cache, builds, cacheEpoch,
                           destEpoch, count, build, closing, stale>>
            /\ caller[c].pc = "use" /\ ~caller[c].own
        BY <2>8, <3>1 DEF Release, cacheVars
      <4> QED
        BY <4>1, <4>2, StepBackKeeps
    <3>2. caller[c].own \in BOOLEAN
      BY DEF CacheInv, TypeOK, CallerState
    <3> QED
      BY <2>8, <3>1, <3>2, ReleaseOwnKeeps
  <2> QED
    BY <1>1, <2>1, <2>2, <2>3, <2>4, <2>5, <2>6, <2>7, <2>8 DEF Acquire
<1>2. ASSUME NEW r \in Ref, InvalidateWritten(r) \/ InvalidateKey(r)
      PROVE  CacheInv'
  <2>1. config' \in [Ref -> Fp] /\ written' \in [Ref -> BOOLEAN]
    BY <1>2 DEF CacheInv, TypeOK, InvalidateWritten, InvalidateKey
  <2> QED
    BY <1>2, <2>1, DropDestinationKeeps DEF InvalidateWritten, InvalidateKey
<1>3. ASSUME InvalidateAll PROVE CacheInv'
  BY <1>3, DropAllKeeps DEF InvalidateAll
<1>4. ASSUME UNCHANGED vars PROVE CacheInv'
  <2>1. UNCHANGED <<cache, builds, cacheEpoch, destEpoch, count>>
    BY <1>4 DEF vars
  <2>2. /\ UNCHANGED <<config, written, caching>>
        /\ UNCHANGED <<build, closing, stale, caller>>
    BY <1>4 DEF vars
  <2>3. TypeOK'
    BY <2>1, <2>2 DEF CacheInv, TypeOK
  <2> QED
    BY <2>1, <2>2, <2>3 DEF CacheInv, PrivateBuilds, RuntimeStates,
        CacheEntries, OpenRuntimes, Epochs, Registered, SingleFlight,
        NoStrandedWaiter, Private, Building, InCache
<1> QED
  BY <1>1, <1>2, <1>3, <1>4, StoreDestinationKeeps, SwitchCachingKeeps,
     CloseRuntimeKeeps DEF Next

(* The invariant holds in every reachable state, whatever the numbers of   *)
(* destinations, callers, builds and invalidations.                        *)
THEOREM CacheInvariant == Spec => []CacheInv
  BY CacheInit, CacheStep, PTL DEF Spec

(* The types, for every value of the constants. *)
THEOREM CacheTypes == Spec => []TypeOK
<1>1. CacheInv => TypeOK
  BY DEF CacheInv
<1> QED
  BY <1>1, CacheInvariant, PTL

(* A caller only uses a runtime built from the configuration it read, for  *)
(* any number of callers, waits and invalidations                          *)
(* (cachedDestinationRuntime).                                             *)
THEOREM UsesRightRuntime == Spec => []RightRuntime
<1>1. CacheInv => RightRuntime
  BY DEF CacheInv, RuntimeStates, RightRuntime
<1> QED
  BY <1>1, CacheInvariant, PTL

(* Every open runtime has exactly one party that will close it             *)
(* (finishDestinationRuntimeBuild, closeDestinationRuntime).               *)
THEOREM ClosedByOne == Spec => []OneOwner
<1>1. ASSUME CacheInv PROVE OneOwner
  <2> SUFFICES ASSUME NEW b \in Builds
               PROVE  /\ build[b].rt = "open" <=>
                             InCache(b) \/ b \in closing
                                 \/ \E c \in Holders(b) : build[b].rt = "open"
                      /\ ~(InCache(b) /\ b \in closing)
                      /\ InCache(b) \/ b \in closing => Holders(b) = {}
                      /\ \A c1, c2 \in Holders(b) : c1 = c2
                      /\ \A r1, r2 \in Ref :
                             cache[r1] = b /\ cache[r2] = b => r1 = r2
    BY DEF OneOwner
  <2>1. \A c \in Holders(b) : c \in Caller /\ Private(c) /\ caller[c].bld = b
    BY DEF Holders, Private
  <2>2. InCache(b) => build[b].rt = "open" /\ b \notin closing
    BY <1>1 DEF CacheInv, CacheEntries, InCache, Builds
  <2>3. b \in closing => build[b].rt = "open"
    BY <1>1 DEF CacheInv, OpenRuntimes
  <2>4. InCache(b) \/ b \in closing => Holders(b) = {}
    BY <1>1, <2>1 DEF CacheInv, PrivateBuilds, InCache
  <2>5. \A c1, c2 \in Holders(b) : c1 = c2
    BY <1>1, <2>1 DEF CacheInv, PrivateBuilds
  <2>6. \A r1, r2 \in Ref : cache[r1] = b /\ cache[r2] = b => r1 = r2
    BY <1>1 DEF CacheInv, CacheEntries, Builds
  <2>7. ASSUME build[b].rt = "open", ~InCache(b), b \notin closing
        PROVE  \E c \in Holders(b) : build[b].rt = "open"
    <3>1. PICK c \in Caller : Private(c) /\ caller[c].bld = b
      BY <1>1, <2>7 DEF CacheInv, OpenRuntimes
    <3>2. caller[c].pc \notin {"open", "open_own"}
      BY <1>1, <2>7, <3>1 DEF CacheInv, RuntimeStates
    <3> QED
      BY <2>7, <3>1, <3>2 DEF Holders, Private
  <2> QED
    BY <2>2, <2>3, <2>4, <2>5, <2>6, <2>7
<1> QED
  BY <1>1, CacheInvariant, PTL

(* A runtime that an invalidation overtook while it was built is never     *)
(* cached, although clearing the cache resets the destination epochs       *)
(* (clearDestinationRuntimes).                                             *)
THEOREM StaleNeverCached == Spec => []NeverPublishedStale
<1>1. ASSUME CacheInv PROVE NeverPublishedStale
  <2>1. 0 \notin stale
    BY <1>1 DEF CacheInv, TypeOK
  <2> QED
    BY <1>1, <2>1 DEF CacheInv, CacheEntries, NeverPublishedStale
<1> QED
  BY <1>1, CacheInvariant, PTL

(* Between two clears of the cache a destination has one build at a time    *)
(* (runtimeBuilds in cachedDestinationRuntime).                            *)
THEOREM OneBuildAtATime == Spec => []SingleFlight
<1>1. CacheInv => SingleFlight
  BY DEF CacheInv
<1> QED
  BY <1>1, CacheInvariant, PTL

(* A waiter is never left with a build that nobody will finish, also when  *)
(* a clear has taken it out of runtimeBuilds.                              *)
THEOREM WaitersNotStranded == Spec => []NoStrandedWaiter
<1>1. CacheInv => NoStrandedWaiter
  BY DEF CacheInv
<1> QED
  BY <1>1, CacheInvariant, PTL
=============================================================================
