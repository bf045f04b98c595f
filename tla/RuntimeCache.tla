---------------------------- MODULE RuntimeCache ----------------------------
(***************************************************************************)
(* The cache of provider runtimes (provider_runtime_cache.go): one runtime *)
(* per destination, built by one caller while the others wait, dropped by  *)
(* destination writes and by OpenBao's invalidations.                      *)
(*                                                                         *)
(* What the code does under cacheMu is one action.  Opening a runtime,     *)
(* closing one and using one happen outside the mutex.                     *)
(***************************************************************************)
EXTENDS Integers

CONSTANTS
    Ref,        \* destinations
    Fp,         \* fingerprints of resolved configurations
    Caller,     \* passes and requests that need a runtime
    MaxBuilds,  \* bound: runtimes opened
    MaxEpoch    \* bound: cache epoch and destination epochs

ASSUME CacheConstants ==
    /\ MaxBuilds \in Nat
    /\ MaxEpoch \in Nat
    /\ Ref # {}
    /\ Fp # {}

VARIABLES
    config,     \* the stored configuration of a destination
    written,    \* a destination write has stored, but not yet invalidated
    caching,    \* ~cachingDisabled()
    cache,      \* runtimeCache: the build that opened the entry, 0 for none
    builds,     \* runtimeBuilds: the build under way, 0 for none
    cacheEpoch, \* runtimeCacheEpoch
    destEpoch,  \* runtimeDestinationEpochs
    count,      \* builds started
    build,      \* the builds, each with its result and its runtime
    closing,    \* runtimes taken out of the cache and about to be closed
    stale,      \* history: builds that an invalidation overtook
    caller      \* the callers' local state

vars == <<config, written, caching, cache, builds, cacheEpoch, destEpoch,
          count, build, closing, stale, caller>>
cacheVars == <<cache, builds, cacheEpoch, destEpoch>>

-----------------------------------------------------------------------------
Builds == 1..MaxBuilds

(* A build: what it opens, whether ready is closed and with which result,  *)
(* and the state of the runtime it opened.                                 *)
BuildRecord == [ref : Ref, fp : Fp, ready : {"no", "ok", "failed"},
                rt : {"none", "open", "closed"}]

(* The local state of a caller; own says that it got a release function    *)
(* that closes the runtime.                                                *)
CallerState == [pc : {"idle", "lookup", "wait", "open", "open_own", "finish",
                      "use"},
                ref : Ref, fp : Fp, bld : 0..MaxBuilds, own : BOOLEAN,
                cacheEpoch : 0..MaxEpoch, destEpoch : 0..MaxEpoch]

AnyRef == CHOOSE r \in Ref : TRUE
AnyFp == CHOOSE f \in Fp : TRUE

Idle == [pc |-> "idle", ref |-> AnyRef, fp |-> AnyFp, bld |-> 0,
         own |-> FALSE, cacheEpoch |-> 0, destEpoch |-> 0]

NoBuild == [ref |-> AnyRef, fp |-> AnyFp, ready |-> "no", rt |-> "none"]

(* The builds under way that may still publish. *)
Building(c) == caller[c].pc \in {"open", "finish"}

Underway(refs) ==
    {b \in Builds : \E c \in Caller : /\ Building(c)
                                      /\ caller[c].bld = b
                                      /\ caller[c].ref \in refs}

Cached(refs) == {b \in Builds : \E r \in refs : cache[r] = b}

-----------------------------------------------------------------------------
(* Invalidation *)

(* Mutant of DropDestination: a build under way is not told. *)
DropDestinationOnly(r) ==
    /\ destEpoch[r] < MaxEpoch
    /\ closing' = closing \cup Cached({r})
    /\ cache' = [cache EXCEPT ![r] = 0]
    /\ stale' = stale \cup Underway({r})
    /\ UNCHANGED <<builds, cacheEpoch, destEpoch>>

(* invalidateDestinationRuntime *)
DropDestination(r) ==
    /\ destEpoch[r] < MaxEpoch
    /\ closing' = closing \cup Cached({r})
    /\ cache' = [cache EXCEPT ![r] = 0]
    /\ destEpoch' = [destEpoch EXCEPT ![r] = @ + 1]
    /\ stale' = stale \cup Underway({r})
    /\ UNCHANGED <<builds, cacheEpoch>>

(* clearDestinationRuntimes: the destination epochs start again from zero, *)
(* the cache epoch tells the builds under way.                             *)
DropAll ==
    /\ cacheEpoch < MaxEpoch
    /\ closing' = closing \cup Cached(Ref)
    /\ cache' = [r \in Ref |-> 0]
    /\ builds' = [r \in Ref |-> 0]
    /\ destEpoch' = [r \in Ref |-> 0]
    /\ cacheEpoch' = cacheEpoch + 1
    /\ stale' = stale \cup Underway(Ref)

(* pathDestinationWrite: storeDestinationWrite, then the invalidation, with *)
(* the destination's lock held in between.                                  *)
StoreDestination(r, f) ==
    /\ ~written[r]
    /\ config' = [config EXCEPT ![r] = f]
    /\ written' = [written EXCEPT ![r] = TRUE]
    /\ UNCHANGED <<caching, cacheVars, count, build, closing, stale, caller>>

InvalidateWritten(r) ==
    /\ written[r]
    /\ DropDestination(r)
    /\ written' = [written EXCEPT ![r] = FALSE]
    /\ UNCHANGED <<config, caching, count, build, caller>>

(* invalidate, called by OpenBao for a key of the destination or for all.  *)
(* To the cache pathDestinationDelete is an InvalidateKey, cleanup an      *)
(* InvalidateAll.                                                          *)
InvalidateKey(r) ==
    /\ DropDestination(r)
    /\ UNCHANGED <<config, written, caching, count, build, caller>>

InvalidateAll ==
    /\ DropAll
    /\ UNCHANGED <<config, written, caching, count, build, caller>>

(* CachingDisabled is asked on every call. *)
SwitchCaching ==
    /\ caching' = ~caching
    /\ UNCHANGED <<config, written, cacheVars, count, build, closing, stale,
                   caller>>

(* closeDestinationRuntime, after cacheMu is released *)
CloseRuntime(b) ==
    /\ b \in closing
    /\ closing' = closing \ {b}
    /\ build' = [build EXCEPT ![b].rt = "closed"]
    /\ UNCHANGED <<config, written, caching, cacheVars, count, stale, caller>>

-----------------------------------------------------------------------------
(* Callers *)

(* The caller reads the destination record, some time before it asks for   *)
(* the runtime.                                                            *)
ReadDestination(c, r) ==
    /\ caller[c].pc = "idle"
    /\ caller' = [caller EXCEPT ![c] = [Idle EXCEPT !.pc = "lookup", !.ref = r,
                                                    !.fp = config[r]]]
    /\ UNCHANGED <<config, written, caching, cacheVars, count, build, closing,
                   stale>>

(* A new build for what the caller needs. *)
NewBuild(c) ==
    /\ count < MaxBuilds
    /\ count' = count + 1
    /\ build' = [build EXCEPT ![count + 1] =
                     [NoBuild EXCEPT !.ref = caller[c].ref, !.fp = caller[c].fp]]

(* destinationRuntime without caching: everything cached goes, the caller  *)
(* opens a runtime of its own.                                             *)
OpenUncached(c) ==
    /\ caller[c].pc = "lookup"
    /\ ~caching
    /\ DropAll
    /\ NewBuild(c)
    /\ caller' = [caller EXCEPT ![c].pc = "open_own", ![c].bld = count + 1]
    /\ UNCHANGED <<config, written, caching>>

(* Mutant of Hit: the fingerprint is not compared. *)
HitAny(c) == cache[caller[c].ref] # 0

(* The cached runtime was built from the caller's configuration. *)
Hit(c) ==
    LET b == cache[caller[c].ref]
    IN  b # 0 /\ build[b].fp = caller[c].fp

(* cachedDestinationRuntime, one round under cacheMu: take the entry, or   *)
(* wait for the build under way, or start one.                             *)
Lookup(c) ==
    LET r == caller[c].ref
    IN  /\ caller[c].pc = "lookup"
        /\ caching
        /\ \/ /\ Hit(c)
              /\ caller' = [caller EXCEPT ![c].pc = "use", ![c].bld = cache[r],
                                          ![c].own = FALSE]
              /\ UNCHANGED <<count, build, builds>>
           \/ /\ ~Hit(c)
              /\ builds[r] # 0
              /\ caller' = [caller EXCEPT ![c].pc = "wait", ![c].bld = builds[r]]
              /\ UNCHANGED <<count, build, builds>>
           \/ /\ ~Hit(c)
              /\ builds[r] = 0
              /\ NewBuild(c)
              /\ builds' = [builds EXCEPT ![r] = count + 1]
              /\ caller' = [caller EXCEPT ![c].pc = "open",
                                          ![c].bld = count + 1,
                                          ![c].cacheEpoch = cacheEpoch,
                                          ![c].destEpoch = destEpoch[r]]
        /\ UNCHANGED <<config, written, caching, cache, cacheEpoch, destEpoch,
                       closing, stale>>

(* A waiter goes round again when the build is there and takes over the    *)
(* error when it failed.                                                   *)
Wake(c) ==
    /\ caller[c].pc = "wait"
    /\ build[caller[c].bld].ready # "no"
    /\ caller' = [caller EXCEPT ![c] =
           IF build[@.bld].ready = "ok" THEN [@ EXCEPT !.pc = "lookup", !.bld = 0]
           ELSE Idle]
    /\ UNCHANGED <<config, written, caching, cacheVars, count, build, closing,
                   stale>>

(* The waiter's context ends. *)
GiveUp(c) ==
    /\ caller[c].pc = "wait"
    /\ caller' = [caller EXCEPT ![c] = Idle]
    /\ UNCHANGED <<config, written, caching, cacheVars, count, build, closing,
                   stale>>

(* openDestinationRuntime of a build, which may fail *)
OpenRuntime(c) ==
    /\ caller[c].pc = "open"
    /\ \E result \in {"open", "none"} :
           build' = [build EXCEPT ![caller[c].bld].rt = result]
    /\ caller' = [caller EXCEPT ![c].pc = "finish"]
    /\ UNCHANGED <<config, written, caching, cacheVars, count, closing, stale>>

(* The same of an uncached runtime, which the caller closes itself. *)
OpenOwn(c) ==
    /\ caller[c].pc = "open_own"
    /\ \/ /\ build' = [build EXCEPT ![caller[c].bld].rt = "open"]
          /\ caller' = [caller EXCEPT ![c].pc = "use", ![c].own = TRUE]
       \/ /\ caller' = [caller EXCEPT ![c] = Idle]
          /\ UNCHANGED build
    /\ UNCHANGED <<config, written, caching, cacheVars, count, closing, stale>>

(* No invalidation came between the start and the end of the build. *)
MayPublish(c) ==
    /\ build[caller[c].bld].rt = "open"
    /\ caller[c].cacheEpoch = cacheEpoch
    /\ caller[c].destEpoch = destEpoch[caller[c].ref]

(* Mutant of Displaced: the replaced entry is not closed. *)
DisplacedNone(c) == {}

(* Mutant of Displaced: a missing entry is closed too. *)
DisplacedNil(c) == IF MayPublish(c) THEN {cache[caller[c].ref]} ELSE {}

(* The entry that the publication of a build replaces. *)
Displaced(c) == IF MayPublish(c) THEN Cached({caller[c].ref}) ELSE {}

(* Mutant of BuildsAfter: whatever build is registered is removed. *)
BuildsAfterAny(c) == [builds EXCEPT ![caller[c].ref] = 0]

(* Only the build's own registration is removed: after a clear another     *)
(* build may be registered.                                                *)
BuildsAfter(c) ==
    [builds EXCEPT ![caller[c].ref] = IF @ = caller[c].bld THEN 0 ELSE @]

(* Mutant of Result: ready is closed by a build that is still registered. *)
ResultIfRegistered(c) ==
    IF builds[caller[c].ref] # caller[c].bld THEN "no"
    ELSE IF build[caller[c].bld].rt = "open" THEN "ok"
    ELSE "failed"

(* What the waiters of the build find when ready is closed. *)
Result(c) == IF build[caller[c].bld].rt = "open" THEN "ok" ELSE "failed"

(* finishDestinationRuntimeBuild *)
FinishBuild(c) ==
    LET b == caller[c].bld
        ok == build[b].rt = "open"
    IN  /\ caller[c].pc = "finish"
        /\ cache' = IF MayPublish(c) THEN [cache EXCEPT ![caller[c].ref] = b]
                    ELSE cache
        /\ closing' = closing \cup Displaced(c)
        /\ builds' = BuildsAfter(c)
        /\ build' = [build EXCEPT ![b].ready = Result(c)]
        /\ caller' = [caller EXCEPT ![c] =
               IF ok THEN [@ EXCEPT !.pc = "use", !.own = ~MayPublish(c)]
               ELSE Idle]
        /\ UNCHANGED <<config, written, caching, cacheEpoch, destEpoch, count,
                       stale>>

(* The caller has used the runtime and calls the release function. *)
Release(c) ==
    /\ caller[c].pc = "use"
    /\ build' = IF caller[c].own
                THEN [build EXCEPT ![caller[c].bld].rt = "closed"]
                ELSE build
    /\ caller' = [caller EXCEPT ![c] = Idle]
    /\ UNCHANGED <<config, written, caching, cacheVars, count, closing, stale>>

Acquire(c) ==
    \/ \E r \in Ref : ReadDestination(c, r)
    \/ OpenUncached(c)
    \/ Lookup(c)
    \/ Wake(c)
    \/ GiveUp(c)
    \/ OpenRuntime(c)
    \/ OpenOwn(c)
    \/ FinishBuild(c)
    \/ Release(c)

Init ==
    /\ config \in [Ref -> Fp]
    /\ written = [r \in Ref |-> FALSE]
    /\ caching \in BOOLEAN
    /\ cache = [r \in Ref |-> 0]
    /\ builds = [r \in Ref |-> 0]
    /\ cacheEpoch = 0
    /\ destEpoch = [r \in Ref |-> 0]
    /\ count = 0
    /\ build = [b \in Builds |-> NoBuild]
    /\ closing = {}
    /\ stale = {}
    /\ caller = [c \in Caller |-> Idle]

Next ==
    \/ \E c \in Caller : Acquire(c)
    \/ \E r \in Ref : \/ \E f \in Fp : StoreDestination(r, f)
                      \/ InvalidateWritten(r)
                      \/ InvalidateKey(r)
    \/ InvalidateAll
    \/ SwitchCaching
    \/ \E b \in Builds : CloseRuntime(b)

Spec == Init /\ [][Next]_vars

-----------------------------------------------------------------------------
(* Properties *)

(* Every variable has its type; a caller past the lookup has a build. *)
TypeOK ==
    /\ config \in [Ref -> Fp]
    /\ written \in [Ref -> BOOLEAN]
    /\ caching \in BOOLEAN
    /\ cache \in [Ref -> 0..count]
    /\ builds \in [Ref -> 0..count]
    /\ cacheEpoch \in 0..MaxEpoch
    /\ destEpoch \in [Ref -> 0..MaxEpoch]
    /\ count \in 0..MaxBuilds
    /\ build \in [Builds -> BuildRecord]
    /\ closing \subseteq 1..count
    /\ stale \subseteq 1..count
    /\ caller \in [Caller -> CallerState]
    /\ \A c \in Caller : caller[c].pc \notin {"idle", "lookup"} =>
                             caller[c].bld \in 1..count

(* A caller only ever uses a runtime of its destination that was built     *)
(* from the configuration it read (cachedDestinationRuntime), however many *)
(* rounds it waited and whatever was invalidated meanwhile.                *)
RightRuntime ==
    \A c \in Caller : caller[c].pc = "use" =>
        /\ build[caller[c].bld].fp = caller[c].fp
        /\ build[caller[c].bld].ref = caller[c].ref

(* The parties that will close an open runtime: the cache, the invalidation *)
(* that took it out, the builder that has not finished, the caller with a   *)
(* release function.                                                        *)
InCache(b) == \E r \in Ref : cache[r] = b
Holders(b) ==
    {c \in Caller : /\ caller[c].bld = b
                    /\ \/ caller[c].pc = "finish"
                       \/ caller[c].pc = "use" /\ caller[c].own}

(* Every open runtime has exactly one party that will close it, so none is *)
(* leaked and none is closed twice or cached when closed                   *)
(* (finishDestinationRuntimeBuild, closeDestinationRuntime).               *)
OneOwner ==
    \A b \in Builds :
        /\ build[b].rt = "open" <=>
               InCache(b) \/ b \in closing
                   \/ \E c \in Holders(b) : build[b].rt = "open"
        /\ ~(InCache(b) /\ b \in closing)
        /\ InCache(b) \/ b \in closing => Holders(b) = {}
        /\ \A c1, c2 \in Holders(b) : c1 = c2
        /\ \A r1, r2 \in Ref : cache[r1] = b /\ cache[r2] = b => r1 = r2

(* A runtime whose build an invalidation overtook is never cached, although *)
(* clearing the cache sets the destination epochs back to zero.             *)
NeverPublishedStale == \A r \in Ref : cache[r] \notin stale

(* Between two clears a destination has one build at a time. *)
SingleFlight ==
    \A c1, c2 \in Caller :
        /\ c1 # c2 /\ Building(c1) /\ Building(c2)
        /\ caller[c1].ref = caller[c2].ref
        => caller[c1].cacheEpoch # caller[c2].cacheEpoch

(* A caller that waits for a build is never stranded: ready is closed, or  *)
(* somebody is still at work on that build, also when a clear has removed  *)
(* it from runtimeBuilds.                                                  *)
NoStrandedWaiter ==
    \A c \in Caller : caller[c].pc = "wait" =>
        \/ build[caller[c].bld].ready # "no"
        \/ \E d \in Caller : Building(d) /\ caller[d].bld = caller[c].bld

(* The inductive strengthening of the properties above.  A caller has a     *)
(* build to itself until it publishes or closes the runtime.                *)
Private(c) ==
    \/ caller[c].pc \in {"open", "open_own", "finish"}
    \/ caller[c].pc = "use" /\ caller[c].own

PrivateBuilds ==
    \A c \in Caller : Private(c) =>
        /\ \A r \in Ref : cache[r] # caller[c].bld
        /\ caller[c].bld \notin closing
        /\ \A d \in Caller : Private(d) /\ d # c => caller[d].bld # caller[c].bld

RuntimeStates ==
    \A c \in Caller :
        /\ caller[c].pc \in {"open", "open_own"} => build[caller[c].bld].rt = "none"
        /\ caller[c].pc = "finish" => build[caller[c].bld].rt # "closed"
        /\ caller[c].pc = "use" /\ caller[c].own => build[caller[c].bld].rt = "open"
        /\ Private(c) \/ caller[c].pc = "use" =>
               /\ build[caller[c].bld].fp = caller[c].fp
               /\ build[caller[c].bld].ref = caller[c].ref

CacheEntries ==
    \A r \in Ref : cache[r] # 0 =>
        /\ build[cache[r]].rt = "open"
        /\ build[cache[r]].ref = r
        /\ cache[r] \notin closing \cup stale

OpenRuntimes ==
    \A b \in Builds :
        /\ b \in closing => build[b].rt = "open"
        /\ build[b].rt = "open" =>
               InCache(b) \/ b \in closing
                   \/ \E c \in Caller : Private(c) /\ caller[c].bld = b

(* A build of the present cache epoch is registered; an invalidation that  *)
(* overtook it has moved its destination's epoch on.                       *)
Epochs ==
    \A c \in Caller : Building(c) =>
        /\ caller[c].cacheEpoch <= cacheEpoch
        /\ caller[c].cacheEpoch = cacheEpoch =>
               /\ builds[caller[c].ref] = caller[c].bld
               /\ caller[c].destEpoch <= destEpoch[caller[c].ref]
               /\ caller[c].bld \in stale =>
                      caller[c].destEpoch < destEpoch[caller[c].ref]

Registered ==
    \A r \in Ref : builds[r] # 0 =>
        \E c \in Caller : /\ Building(c)
                          /\ caller[c].bld = builds[r] /\ caller[c].ref = r

CacheInv ==
    /\ TypeOK
    /\ PrivateBuilds
    /\ RuntimeStates
    /\ CacheEntries
    /\ OpenRuntimes
    /\ Epochs
    /\ Registered
    /\ SingleFlight
    /\ NoStrandedWaiter
=============================================================================
