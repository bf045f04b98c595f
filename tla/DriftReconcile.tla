--------------------------- MODULE DriftReconcile ---------------------------
(***************************************************************************)
(* Reconcile and drift repair of one association's objects: the drift      *)
(* sweep of the periodic callback, manual reconcile requests, the pass     *)
(* that dispatches what the sweep enqueued, and the settings that gate     *)
(* them.  None of the readers holds a lock: source, configuration, status  *)
(* and remote objects change between what they read and what they write.   *)
(*                                                                         *)
(* Times are kept as an order.  A reconcile time is its rank among the     *)
(* reconcile times in use (0: never), renumbered when a new one is taken,  *)
(* so that time goes on forever in finitely many states.                   *)
(***************************************************************************)
EXTENDS Integers, FiniteSets, Sequences, Bags, SequencesExt

CONSTANTS
    Object,         \* objects of the association: numbers, in the order of
                    \* their names
    ChangeKinds,    \* which changes of others to explore
    Batches,        \* drift_reconcile_batch settings to explore
    QueueCapacity,  \* queue_capacity
    MaxVersion,     \* bound: source versions
    MaxChanges      \* bound: requests, changes made by others, provider
                    \* errors and restarts

AllChangeKinds == {"write", "delete", "association", "destination", "config",
                   "tamper", "reconcile", "fault"}

ASSUME DriftReconcileAssumption ==
    /\ Object \subseteq Nat /\ IsFiniteSet(Object) /\ Object # {}
    /\ ChangeKinds \subseteq AllChangeKinds
    /\ Batches \cup {QueueCapacity, MaxVersion} \subseteq Nat \ {0}
    /\ MaxChanges \in Nat

VARIABLES
    source,   \* current version, versions that were deleted
    target,   \* whether the association and its destination are enabled
    cfg,      \* drift_repair, drift_reconcile_batch, restore_guard, disabled
    epoch,    \* restore epoch
    remote,   \* the remote objects
    status,   \* status records: state, version, rank of the reconcile time
    due,      \* objects whose last reconcile is an interval ago
    queue,    \* queued upserts, a bag
    sweep,    \* the drift sweep of the periodic callback
    manual,   \* a reconcile request
    call,     \* the operation being dispatched
    changes   \* requests, changes by others, errors and restarts so far

stored == <<source, target, cfg, epoch>>
vars == <<stored, remote, status, due, queue, sweep, manual, call, changes>>

-----------------------------------------------------------------------------
(* Records *)

Modes == {"off", "detect", "repair"}

Live(v) == v \notin source.deleted

(* Hashes are the number of the version the payload came from.  Edited is  *)
(* the hash of a value this mount never wrote, 0 a hash that is not there. *)
Edited == MaxVersion + 1
Missing == [there |-> FALSE, epoch |-> 0, ver |-> 0, hash |-> 0]
Written(v, e) == [there |-> TRUE, epoch |-> e, ver |-> v, hash |-> v]

Upsert(o, v, trigger) == [object |-> o, ver |-> v, trigger |-> trigger]
Upserts(v, trigger) == SetToBag({Upsert(o, v, trigger) : o \in Object})
Queued == BagToSet(queue)

HasCapacity(bag) == BagCardinality(bag) <= QueueCapacity

NoCall == [step |-> "idle", op |-> Upsert(0, 0, "user"), epoch |-> 0,
           result |-> "none"]

(* A sweep and a reconcile request work through todo with what they read   *)
(* at the start: version, association and settings.                        *)
NoRead == [step |-> "idle", todo |-> <<>>, ver |-> 0, assoc |-> FALSE,
           mode |-> "off", guard |-> FALSE, rank |-> 0,
           result |-> [state |-> "none", repairable |-> FALSE]]

(* Mutant of PutStatus: a record of the stored version is dropped too. *)
PutStatusNewer(o, v, state, rank) ==
    IF v <= status[o].ver THEN status
    ELSE [status EXCEPT ![o] =
              [state |-> state, ver |-> v,
               rank |-> IF rank = 0 THEN @.rank ELSE rank]]

(* putStatus: a record of an older version than the stored one is dropped. *)
(* Without a reconcile time of its own (rank 0) it keeps the stored one.   *)
PutStatus(o, v, state, rank) ==
    IF v < status[o].ver THEN status
    ELSE [status EXCEPT ![o] =
              [state |-> state, ver |-> v,
               rank |-> IF rank = 0 THEN @.rank ELSE rank]]

-----------------------------------------------------------------------------
(* Reconcile times *)

Ranks == ({status[o].rank : o \in Object} \cup {sweep.rank, manual.rank}) \ {0}
Renumbered(r) == Cardinality({s \in Ranks : s <= r})
NewestRank == Cardinality(Ranks) + 1
RenumberedStatus == [o \in Object |-> [status[o] EXCEPT !.rank = Renumbered(@)]]

(* driftReconcileDue *)
Due(o) == status[o].rank = 0 \/ o \in due

(* Time passes: the least recent reconciles are an interval ago. *)
Elapse ==
    /\ \E r \in Ranks :
           /\ due' = due \cup {o \in Object : status[o].rank \in 1..r}
           /\ due' # due
    /\ UNCHANGED <<stored, remote, status, queue, sweep, manual, call, changes>>

-----------------------------------------------------------------------------
(* Reading remote state *)

(* ReadState of the providers: the object, with the hash the provider can  *)
(* see (of the value, or in the metadata), and whether this mount in its   *)
(* restore epoch owns it.                                                  *)
Owned(obj) == obj.epoch = epoch

(* reconcileStateForRemoteState *)
ReconcileState(v, obj) ==
    IF ~obj.there THEN "REMOTE_MISSING"
    ELSE IF ~Owned(obj) THEN "REMOTE_OWNERSHIP_LOST"
    ELSE IF obj.ver # v \/ obj.hash \notin {0, v} THEN "DRIFTED"
    ELSE IF obj.hash = v THEN "SYNCED"
    ELSE "UNKNOWN"

(* Mutant of IsRepairableDrift: only a differing hash is repaired. *)
IsRepairableHash(v, obj) ==
    ReconcileState(v, obj) = "DRIFTED" /\ obj.ver = v /\ obj.hash # 0

(* isRepairableDrift *)
IsRepairableDrift(v, obj) ==
    ReconcileState(v, obj) = "DRIFTED" /\ obj.hash # 0

(* loadReconcileLookupContext: the association as the read began with it,  *)
(* the destination as it is now.                                           *)
LookupDisabled(r) == ~r.assoc \/ ~target.dest

(* reconcileAssociationObject: what one read of object o may conclude; a   *)
(* provider error makes it a failure.                                      *)
Results(r, o) ==
    IF LookupDisabled(r)
    THEN {[state |-> "DISABLED", repairable |-> FALSE]}
    ELSE {[state |-> ReconcileState(r.ver, remote[o]),
           repairable |-> IsRepairableDrift(r.ver, remote[o])]}
         \cup {[state |-> "DESTINATION_UNAVAILABLE", repairable |-> FALSE]}

Change(kind) ==
    /\ kind \in ChangeKinds
    /\ changes < MaxChanges
    /\ changes' = changes + 1

Faulty(result) ==
    IF result.state = "DESTINATION_UNAVAILABLE" THEN Change("fault")
    ELSE UNCHANGED changes

(* What remains to do after the first object. *)
Advance(r) ==
    IF Len(r.todo) = 1 THEN NoRead
    ELSE [r EXCEPT !.step = "read", !.todo = Tail(@), !.result = NoRead.result]

-----------------------------------------------------------------------------
(* The drift sweep *)

(* hasQueuedUpsertForAssociationObject, hasQueuedUpsertForAssociationVersion *)
HasQueuedUpsert(objects, v) ==
    \E op \in Queued : op.object \in objects /\ op.ver >= v

(* driftReconcileCandidates *)
Candidates ==
    {o \in Object :
        /\ target.assoc
        /\ Live(source.ver)
        /\ cfg.guard \/ cfg.mode = "detect"
               \/ ~HasQueuedUpsert({o}, source.ver)
        /\ Due(o)}

(* Mutant of SweepBefore: objects in the order of their names. *)
SweepBeforeByName(o, p) == o < p

(* Least recently reconciled first. *)
SweepBefore(o, p) ==
    IF status[o].rank # status[p].rank THEN status[o].rank < status[p].rank
    ELSE o < p

(* periodic and periodicDriftReconcile: the settings and the candidates    *)
(* are read once.                                                          *)
SweepStart ==
    LET sorted == SetToSortSeq(Candidates, SweepBefore)
    IN  /\ sweep.step = "idle"
        /\ ~cfg.disabled
        /\ cfg.mode # "off"
        /\ Candidates # {}
        /\ sweep' = [NoRead EXCEPT
                          !.step = "read", !.ver = source.ver, !.assoc = TRUE,
                          !.mode = cfg.mode, !.guard = cfg.guard,
                          !.todo = SubSeq(sorted, 1,
                                          Min({Len(sorted), cfg.batch})),
                          !.rank = NewestRank]
        /\ status' = RenumberedStatus
        /\ manual' = [manual EXCEPT !.rank = Renumbered(@)]
        /\ UNCHANGED <<stored, remote, due, queue, call, changes>>

SweepRead ==
    /\ sweep.step = "read"
    /\ \E result \in Results(sweep, Head(sweep.todo)) :
           /\ sweep' = [sweep EXCEPT !.step = "put", !.result = result]
           /\ Faulty(result)
    /\ UNCHANGED <<stored, remote, status, due, queue, manual, call>>

(* putReconcileStatus, whatever happened since the read. *)
PutReconcileStatus(r) ==
    LET o == Head(r.todo)
    IN  /\ status' = PutStatus(o, r.ver, r.result.state, r.rank)
        /\ due' = IF r.ver < status[o].ver THEN due ELSE due \ {o}

SweepPut ==
    /\ sweep.step = "put"
    /\ PutReconcileStatus(sweep)
    /\ sweep' = IF sweep.mode = "repair" /\ sweep.result.repairable
                THEN [sweep EXCEPT !.step = "repair"]
                ELSE Advance(sweep)
    /\ UNCHANGED <<stored, remote, queue, manual, call, changes>>

(* Mutant of RepairWanted: nobody looks for a queued upsert. *)
RepairWantedAlways(v) == HasCapacity(queue (+) Upserts(v, "drift-repair"))

(* The checks under enqueueMu: no upsert of the association is queued for  *)
(* the version or a newer one, and the queue has room.                     *)
RepairWanted(v) ==
    /\ ~HasQueuedUpsert(Object, v)
    /\ HasCapacity(queue (+) Upserts(v, "drift-repair"))

(* enqueuePeriodicDriftRepair: every object of the association is queued.  *)
(* A version that was deleted since ends the sweep with an error.          *)
SweepRepair ==
    /\ sweep.step = "repair"
    /\ sweep' = IF sweep.guard \/ Live(sweep.ver) THEN Advance(sweep)
                ELSE NoRead
    /\ queue' = IF ~sweep.guard /\ Live(sweep.ver) /\ RepairWanted(sweep.ver)
                THEN queue (+) Upserts(sweep.ver, "drift-repair")
                ELSE queue
    /\ UNCHANGED <<stored, remote, status, due, manual, call, changes>>

Sweep == SweepStart \/ SweepRead \/ SweepPut \/ SweepRepair

-----------------------------------------------------------------------------
(* Reconcile requests *)

(* reconcilePath with apply; disabled associations are looked at too. *)
ReconcileStart ==
    /\ Change("reconcile")
    /\ manual.step = "idle"
    /\ Live(source.ver)
    /\ manual' = [NoRead EXCEPT !.step = "read", !.ver = source.ver,
                                !.assoc = target.assoc, !.rank = NewestRank,
                                !.todo = SetToSortSeq(Object, <)]
    /\ status' = RenumberedStatus
    /\ sweep' = [sweep EXCEPT !.rank = Renumbered(@)]
    /\ UNCHANGED <<stored, remote, due, queue, call>>

ReconcileRead ==
    /\ manual.step = "read"
    /\ \E result \in Results(manual, Head(manual.todo)) :
           /\ manual' = [manual EXCEPT !.step = "put", !.result = result]
           /\ Faulty(result)
    /\ UNCHANGED <<stored, remote, status, due, queue, sweep, call>>

ReconcilePut ==
    /\ manual.step = "put"
    /\ PutReconcileStatus(manual)
    /\ manual' = Advance(manual)
    /\ UNCHANGED <<stored, remote, queue, sweep, call, changes>>

Reconcile == ReconcileRead \/ ReconcilePut

-----------------------------------------------------------------------------
(* Dispatch of the queued upserts, by any pass *)

Drop(ops) == [op \in Queued \ ops |-> queue[op]]

Claimed == IF call.step = "idle" THEN {} ELSE {call.op}

(* The operation leaves the queue; "none" leaves its status alone. *)
Finish(op, state) ==
    /\ queue' = queue (-) SetToBag({op})
    /\ status' = IF state = "none" THEN status
                 ELSE PutStatus(op.object, op.ver, state, 0)
    /\ call' = NoCall

(* claimDispatchableOutboxRecord, and processUpsert up to the provider     *)
(* call; the restore epoch that goes into the ownership metadata is read.  *)
DispatchLoad(op) ==
    /\ call.step = "idle"
    /\ ~cfg.disabled /\ ~cfg.guard
    /\ \/ source.ver > op.ver /\ Finish(op, "none")
       \/ /\ source.ver = op.ver
          /\ ~Live(source.ver)
          /\ Finish(op, "INTERNAL_ERROR")
       \/ /\ source.ver = op.ver
          /\ Live(source.ver)
          /\ ~target.assoc \/ ~target.dest
          /\ Finish(op, "VALIDATION_ERROR")
       \/ /\ source.ver = op.ver
          /\ Live(source.ver)
          /\ target.assoc /\ target.dest
          /\ call' = [NoCall EXCEPT !.step = "upsert", !.op = op,
                                    !.epoch = epoch]
          /\ UNCHANGED <<queue, status>>
    /\ UNCHANGED <<stored, remote, due, sweep, manual, changes>>

(* Upsert of the providers, in one step (see RemoteObject). *)
DispatchUpsert ==
    LET obj == remote[call.op.object]
        foreign == obj.there /\ obj.epoch # call.epoch
        newer == obj.there /\ ~foreign /\ obj.ver > call.op.ver
        same == obj.there /\ obj.ver = call.op.ver /\ obj.hash = call.op.ver
    IN  /\ call.step = "upsert"
        /\ call' = [call EXCEPT !.step = "commit",
                                !.result = IF foreign THEN "REMOTE_OWNERSHIP_LOST"
                                           ELSE IF newer THEN "DRIFTED"
                                           ELSE "SYNCED"]
        /\ remote' = IF foreign \/ newer \/ same THEN remote
                     ELSE [remote EXCEPT ![call.op.object] =
                               Written(call.op.ver, call.epoch)]
        /\ UNCHANGED <<stored, status, due, queue, sweep, manual, changes>>

(* A failed call: the operation waits for a retry or has used them up. *)
DispatchError ==
    /\ call.step = "upsert"
    /\ Change("fault")
    /\ \/ Finish(call.op, "DESTINATION_UNAVAILABLE")
       \/ /\ status' = PutStatus(call.op.object, call.op.ver,
                                 "DESTINATION_UNAVAILABLE", 0)
          /\ call' = NoCall
          /\ UNCHANGED queue
    /\ UNCHANGED <<stored, remote, due, sweep, manual>>

(* commitClaimedUpsertSuccess, markClaimedOperationFailed *)
DispatchCommit ==
    /\ call.step = "commit"
    /\ Finish(call.op, call.result)
    /\ UNCHANGED <<stored, remote, due, sweep, manual, changes>>

Dispatch == (\E op \in Queued : DispatchLoad(op)) \/ DispatchUpsert
                \/ DispatchError \/ DispatchCommit

-----------------------------------------------------------------------------
(* What others do meanwhile *)

(* pathDataWrite *)
Write ==
    LET v == source.ver + 1
        kept == Drop({op \in Queued \ Claimed : target.assoc})
        put == IF target.assoc /\ target.dest THEN kept (+) Upserts(v, "user")
               ELSE kept
    IN  /\ Change("write")
        /\ v <= MaxVersion
        /\ HasCapacity(put)
        /\ source' = [source EXCEPT !.ver = v]
        /\ queue' = put
        /\ UNCHANGED <<target, cfg, epoch, remote, status, due, sweep, manual,
                       call>>

(* pathDataDelete of an association with delete_mode retain; a claimed     *)
(* upsert of the version rejects it.                                       *)
DeleteSource ==
    /\ Change("delete")
    /\ Live(source.ver)
    /\ \A op \in Claimed : op.ver # source.ver
    /\ source' = [source EXCEPT !.deleted = @ \cup {source.ver}]
    /\ queue' = Drop({op \in Queued : op.ver = source.ver})
    /\ UNCHANGED <<target, cfg, epoch, remote, status, due, sweep, manual,
                   call>>

(* pathAssociationDisable: cancels what is queued, unless a pass holds     *)
(* some of it, and marks the objects.  pathAssociationEnable queues the    *)
(* current version.                                                        *)
DisableAssociation ==
    /\ Change("association")
    /\ target.assoc
    /\ Claimed = {}
    /\ target' = [target EXCEPT !.assoc = FALSE]
    /\ queue' = EmptyBag
    /\ status' = [o \in Object |->
                      PutStatus(o, source.ver, "DISABLED", 0)[o]]
    /\ UNCHANGED <<source, cfg, epoch, remote, due, sweep, manual, call>>

EnableAssociation ==
    LET put == IF Live(source.ver)
               THEN Drop({op \in Queued : op.trigger = "user"
                                              /\ op.ver = source.ver})
                        (+) Upserts(source.ver, "user")
               ELSE queue
    IN  /\ Change("association")
        /\ ~target.assoc
        /\ HasCapacity(put)
        /\ target' = [target EXCEPT !.assoc = TRUE]
        /\ queue' = put
        /\ UNCHANGED <<source, cfg, epoch, remote, status, due, sweep, manual,
                       call>>

(* pathDestinationWrite of the disabled flag *)
SwitchDestination ==
    /\ Change("destination")
    /\ target' = [target EXCEPT !.dest = ~@]
    /\ UNCHANGED <<source, cfg, epoch, remote, status, due, queue, sweep,
                   manual, call>>

(* pathConfigWrite, pathConfigRestoreGuardAcknowledgeWrite: clearing an    *)
(* active restore guard rotates the restore epoch in the same transaction. *)
(* A request changes one setting here; the batch size stays as it was.     *)
ConfigWrite ==
    /\ Change("config")
    /\ cfg' \in {[cfg EXCEPT !.guard = ~@], [cfg EXCEPT !.disabled = ~@]}
                    \cup {[cfg EXCEPT !.mode = m] : m \in Modes \ {cfg.mode}}
    /\ epoch' = IF cfg.guard /\ ~cfg'.guard THEN epoch + 1 ELSE epoch
    /\ UNCHANGED <<source, target, remote, status, due, queue, sweep, manual,
                   call>>

(* Another client of the destination edits the value, removes the object,  *)
(* its ownership metadata or its hash.                                     *)
Tamper(o) ==
    LET obj == remote[o]
    IN  /\ Change("tamper")
        /\ obj.there
        /\ \E new \in {Missing, [obj EXCEPT !.epoch = 0],
                       [obj EXCEPT !.hash = Edited], [obj EXCEPT !.hash = 0]} :
               remote' = [remote EXCEPT ![o] = new]
        /\ UNCHANGED <<stored, status, due, queue, sweep, manual, call>>

(* The process restarts; storage and remote objects are what they were. *)
Restart ==
    /\ Change("fault")
    /\ sweep' = NoRead
    /\ manual' = NoRead
    /\ call' = NoCall
    /\ UNCHANGED <<stored, remote, status, due, queue>>

Others == Write \/ DeleteSource \/ DisableAssociation \/ EnableAssociation
              \/ SwitchDestination \/ ConfigWrite \/ (\E o \in Object : Tamper(o))
              \/ ReconcileStart \/ Restart

-----------------------------------------------------------------------------
(* Version 1 has been synced to every object, none was reconciled yet. *)
Init ==
    /\ source = [ver |-> 1, deleted |-> {}]
    /\ target = [assoc |-> TRUE, dest |-> TRUE]
    /\ cfg \in [mode : Modes, batch : Batches, guard : {FALSE},
                disabled : {FALSE}]
    /\ epoch = 1
    /\ remote = [o \in Object |-> Written(1, 1)]
    /\ status = [o \in Object |-> [state |-> "SYNCED", ver |-> 1, rank |-> 0]]
    /\ due = {}
    /\ queue = EmptyBag
    /\ sweep = NoRead
    /\ manual = NoRead
    /\ call = NoCall
    /\ changes = 0

Next == Sweep \/ Reconcile \/ Dispatch \/ Elapse \/ Others

Spec == Init /\ [][Next]_vars

(* The periodic callback is called again and again, requests and provider  *)
(* calls come to an end, time passes.  Nothing is assumed of operators and *)
(* other clients.                                                          *)
FairSpec ==
    Spec /\ WF_vars(Sweep) /\ WF_vars(Reconcile) /\ WF_vars(Dispatch)
         /\ WF_vars(Elapse)

-----------------------------------------------------------------------------
(* Properties *)

Copies(op, bag) == IF op \in BagToSet(bag) THEN bag[op] ELSE 0

(* A sweep never queues a second repair of an object for a version whose   *)
(* first repair is still queued or being dispatched, although several      *)
(* objects of an association may drift and each queues all of them.        *)
OneRepair ==
    \A op \in Queued : op.trigger = "drift-repair" => Copies(op, queue) = 1

Sweeping == /\ target.assoc /\ Live(source.ver)
            /\ cfg.mode # "off" /\ ~cfg.disabled

(* However small the batch, every object is reconciled again and again     *)
(* while the sweep is on: neither other objects that are always due, nor   *)
(* one whose provider read fails, keep it out of the batch.                *)
SweepReachesAll ==
    \A o \in Object :
        <>[]Sweeping => []<><<SweepPut /\ Head(sweep.todo) = o>>_vars

(* Once nothing changes any more, what status says of an object is what a  *)
(* read of the object says: results written late, over newer ones, are     *)
(* corrected by a later sweep.                                             *)
StatusConverges ==
    <>[](Sweeping /\ target.dest) =>
        \A o \in Object :
            <>[](status[o].state = ReconcileState(source.ver, remote[o]))

(* An owned object that differs from the source, and whose hash is known. *)
OwnedDrift(o) ==
    LET obj == remote[o]
    IN  /\ obj.there /\ Owned(obj) /\ obj.hash # 0
        /\ obj.ver # source.ver \/ obj.hash # source.ver

(* In repair mode, drift of an owned object does not last: the sweep finds *)
(* it, and queues a repair again when one failed for good or had no room   *)
(* in the queue.                                                           *)
DriftRepaired ==
    <>[](Sweeping /\ target.dest /\ cfg.mode = "repair" /\ ~cfg.guard) =>
        \A o \in Object : <>[]~OwnedDrift(o)

(* A background repair is never queued for an object whose status is       *)
(* REMOTE_MISSING.                                                         *)
MissingNotRecreated ==
    [][\A o \in Object :
           status[o].state = "REMOTE_MISSING" =>
               \A v \in 1..MaxVersion :
                   Copies(Upsert(o, v, "drift-repair"), queue')
                       <= Copies(Upsert(o, v, "drift-repair"), queue)]_vars
=============================================================================
