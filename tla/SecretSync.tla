----------------------------- MODULE SecretSync -----------------------------
(***************************************************************************)
(* The durable queue of the secret-sync backend: source versions of one    *)
(* path, the outbox of remote operations they enqueue, the dispatch passes *)
(* that claim and execute those operations against the destinations, and   *)
(* the status records that report the outcome.                             *)
(*                                                                         *)
(* Everything the code does under enqueueMu is one action here; everything *)
(* a dispatch pass does between two acquisitions of that mutex (its reads  *)
(* of storage and the calls of the provider) is an action of its own, so   *)
(* user requests and other passes interleave with it.                      *)
(***************************************************************************)
EXTENDS Integers, FiniteSets

CONSTANTS
    Assoc,            \* associations of the path, one remote object each
    DeleteAssoc,      \* those whose delete_mode is "delete"
    Worker,           \* dispatch passes that may overlap in one process
    UserOps,          \* request handlers that may be called
    Lease,            \* outboxClaimLease, in clock ticks
    RetryDelay,       \* retryDelay of a failed operation, in clock ticks
    MaxAttempts,      \* maxAutomaticRetryAttempts
    QueueCapacity,    \* queue_capacity of the configuration
    RemoteCAS,        \* the provider conditions its write on what it read
    Overrun,          \* a pass may still be running when its lease expires
    MaxVersion,       \* bound: source versions written
    MaxSalt,          \* bound: salted (manual sync) operations
    MaxClaims,        \* bound: claim_attempt of a record
    MaxTime,          \* bound: clock
    MaxProc           \* bound: process incarnations

AllUserOps == {"write", "data_delete", "delete_version", "undelete",
               "destroy", "manual_sync", "enable", "disable", "retry",
               "cancel", "config"}

ASSUME ConstantsAssumption ==
    /\ IsFiniteSet(Assoc)
    /\ DeleteAssoc \subseteq Assoc
    /\ UserOps \subseteq AllUserOps
    /\ Lease \in Nat \ {0}
    /\ RetryDelay \in Nat
    /\ MaxAttempts \in Nat \ {0}
    /\ QueueCapacity \in Nat
    /\ RemoteCAS \in BOOLEAN
    /\ Overrun \in BOOLEAN
    /\ MaxVersion \in Nat
    /\ MaxSalt \in Nat
    /\ MaxClaims \in Nat
    /\ MaxTime \in Nat
    /\ MaxProc \in Nat \ {0}

None == "none"
ASSUME NoneAssumption == None \notin Assoc

VARIABLES
    cur,        \* metadata.CurrentVersion of the path, 0 before the first write
    vstate,     \* the version records: "none", "live", "deleted", "destroyed"
    enabled,    \* association.Enabled
    disabling,  \* the association whose disable handler holds the path lock
    paused,     \* config.Disabled (or config.RestoreGuard)
    outbox,     \* the outbox records by operation id
    status,     \* the status records by association
    remote,     \* source version of the remote object, 0 when it is missing
    nextSalt,   \* salted operation ids handed out
    now,        \* the clock
    proc,       \* dispatchWorkerID of the running process
    pc,         \* what each dispatch pass is doing
    op,         \* the operation a pass has claimed
    rec,        \* the pass's copy of the claimed record
    seen,       \* what the provider read of the remote object
    res,        \* the failure class the pass is about to commit
    waived      \* associations whose queued work an operator cancelled

sourceVars == <<cur, vstate>>
assocVars  == <<enabled, disabling>>
passVars   == <<pc, op, rec, seen, res>>
vars == <<cur, vstate, enabled, disabling, paused, outbox, status, remote,
          nextSalt, now, proc, pc, op, rec, seen, res, waived>>

-----------------------------------------------------------------------------
(* Records *)

Versions == 1..MaxVersion

(* newOperationID: the id is a hash of the generation, path, version,      *)
(* association, object and type, plus the salt of a salted operation; the  *)
(* model uses what is hashed.  Salt 0 is the deterministic id.             *)
Ops == [kind : {"upsert", "delete"}, ver : Versions, assoc : Assoc,
        salt : 0..MaxSalt]

NoOp == [kind |-> "none", ver |-> 0, assoc |-> None, salt |-> 0]

Upsert(a, v) == [kind |-> "upsert", ver |-> v, assoc |-> a, salt |-> 0]
Delete(a, v) == [kind |-> "delete", ver |-> v, assoc |-> a, salt |-> 0]
ManualUpsert(a, v, s) == [Upsert(a, v) EXCEPT !.salt = s]

Record == [state : {"absent", "pending", "retry_wait", "failed_terminal"},
           attempts : Nat, notBefore : Nat,
           owner : Nat, expires : Nat, attempt : Nat]

(* No record is stored under the id. *)
Absent == [state |-> "absent", attempts |-> 0, notBefore |-> 0,
           owner |-> 0, expires |-> 0, attempt |-> 0]

(* newAssociationOutboxRecord: a pending record, due at once, no claim and *)
(* a zero claim_attempt.                                                   *)
NewRecord == [Absent EXCEPT !.state = "pending", !.notBefore = now]

IsQueued(r) == r.state \in {"pending", "retry_wait"}

Queued == {o \in Ops : IsQueued(outbox[o])}

IsClaimActive(r) == r.owner # 0 /\ r.expires > now

ClearClaim(r) == [r EXCEPT !.owner = 0, !.expires = 0]

(* Mutant of PutStatus: the version comparison is missing. *)
PutStatusUnordered(a, v, s) ==
    [status EXCEPT ![a] = [ver |-> v, state |-> s]]

(* putStatus: a status of an older version than the stored one is dropped. *)
PutStatus(a, v, s) ==
    IF v < status[a].ver THEN status
    ELSE [status EXCEPT ![a] = [ver |-> v, state |-> s]]

(* putOutboxRecords after cancelQueuedOutboxIDs: the operations of a       *)
(* mutation are written over whatever is stored under their ids.           *)
Replaced(put, dropped) ==
    [o \in Ops |-> IF o \in put THEN NewRecord
                   ELSE IF o \in dropped THEN Absent
                   ELSE outbox[o]]

(* Mutant of CapacityFor: off by one, the queue may be full already. *)
CapacityForBefore(put, replaced) ==
    LET additional == Cardinality({o \in put : ~IsQueued(outbox[o])})
    IN  \/ additional <= Cardinality(replaced)
        \/ Cardinality(Queued) - Cardinality(replaced) <= QueueCapacity

(* ensureQueueCapacityAfterReplacement *)
CapacityFor(put, replaced) ==
    LET additional == Cardinality({o \in put : ~IsQueued(outbox[o])})
    IN  \/ additional <= Cardinality(replaced)
        \/ Cardinality(Queued) - Cardinality(replaced) + additional
               <= QueueCapacity

EnabledAssoc == {a \in Assoc : enabled[a]}

SourceUnlocked == disabling = None

-----------------------------------------------------------------------------
(* Source mutations *)

(* pathDataWrite: the version after the current one is stored and becomes  *)
(* current, older queued upserts of the same objects that no pass holds    *)
(* are dropped, one upsert per enabled association is queued.              *)
StaleUpserts(v) ==
    {o \in Queued : /\ o.kind = "upsert"
                    /\ enabled[o.assoc]
                    /\ o.ver < v
                    /\ ~IsClaimActive(outbox[o])}

PathDataWrite ==
    LET v == cur + 1
        ops == {Upsert(a, v) : a \in EnabledAssoc}
    IN  /\ SourceUnlocked
        /\ cur < MaxVersion
        /\ CapacityFor(ops, StaleUpserts(v))
        /\ cur' = v
        /\ vstate' = [vstate EXCEPT ![v] = "live"]
        /\ outbox' = Replaced(ops, StaleUpserts(v))
        /\ waived' = waived \ EnabledAssoc
        /\ UNCHANGED <<assocVars, paused, status, remote, nextSalt, now, proc,
                       passVars>>

(* buildSourceDeletePlan: the queued upserts of the version, and a delete  *)
(* per enabled association whose delete_mode is "delete".                  *)
UpsertsOfVersion(v) == {o \in Queued : o.kind = "upsert" /\ o.ver = v}

(* Deleting or destroying the current version.  A claimed upsert of the    *)
(* version rejects the request.                                            *)
DeleteCurrent(newState) ==
    LET ops == {Delete(a, cur) : a \in EnabledAssoc \cap DeleteAssoc}
        stale == UpsertsOfVersion(cur)
    IN  /\ CapacityFor(ops, stale)
        /\ \A o \in stale : ~IsClaimActive(outbox[o])
        /\ vstate' = [vstate EXCEPT ![cur] = newState]
        /\ outbox' = Replaced(ops, stale)
        /\ waived' = waived \ {a \in DeleteAssoc : enabled[a]}
        /\ UNCHANGED <<cur, assocVars, paused, status, remote, nextSalt, now,
                       proc, passVars>>

(* Deleting, undeleting or destroying any other version, or one it cannot  *)
(* apply to, touches the version record only.                              *)
SetVersion(v, newState) ==
    /\ vstate' = [vstate EXCEPT ![v] = newState]
    /\ UNCHANGED <<cur, assocVars, paused, outbox, status, remote, nextSalt,
                   now, proc, passVars, waived>>

(* softDeleteVersion, undeleteVersion and destroyVersion *)
SoftDeleted(s) == IF s = "live" THEN "deleted" ELSE s
Undeleted(s)   == IF s = "deleted" THEN "live" ELSE s
Destroyed(s)   == "destroyed"

(* pathDataDelete applies to a live current version only. *)
PathDataDelete ==
    /\ SourceUnlocked
    /\ cur > 0
    /\ vstate[cur] = "live"
    /\ DeleteCurrent("deleted")

(* delete/<path>: mutateCurrentVersionDelete does not look at the state of *)
(* the current version, so a second delete queues its operations again.    *)
PathVersionDelete(v) ==
    /\ SourceUnlocked
    /\ v <= cur
    /\ IF v = cur THEN DeleteCurrent(SoftDeleted(vstate[v]))
       ELSE SetVersion(v, SoftDeleted(vstate[v]))

PathVersionDestroy(v) ==
    /\ SourceUnlocked
    /\ v <= cur
    /\ IF v = cur THEN DeleteCurrent(Destroyed(vstate[v]))
       ELSE SetVersion(v, Destroyed(vstate[v]))

(* undelete/<path> of the current version drops its queued deletes and     *)
(* queues upserts; a claimed delete rejects the request.                   *)
DeletesOfVersion(v) ==
    {o \in Queued : o.kind = "delete" /\ enabled[o.assoc] /\ o.ver = v}

UndeleteCurrent ==
    LET ops == {Upsert(a, cur) : a \in EnabledAssoc}
        stale == DeletesOfVersion(cur)
    IN  /\ CapacityFor(ops, stale)
        /\ \A o \in stale : ~IsClaimActive(outbox[o])
        /\ vstate' = [vstate EXCEPT ![cur] = "live"]
        /\ outbox' = Replaced(ops, stale)
        /\ waived' = waived \ EnabledAssoc
        /\ UNCHANGED <<cur, assocVars, paused, status, remote, nextSalt, now,
                       proc, passVars>>

PathVersionUndelete(v) ==
    /\ SourceUnlocked
    /\ v <= cur
    /\ IF v = cur /\ vstate[v] = "deleted" THEN UndeleteCurrent
       ELSE SetVersion(v, Undeleted(vstate[v]))

-----------------------------------------------------------------------------
(* Association requests *)

(* pathAssociationSync: one more upsert of the live current version, under *)
(* a salted id of its own.                                                 *)
PathAssociationSync(a) ==
    LET o == ManualUpsert(a, cur, nextSalt + 1)
    IN  /\ SourceUnlocked
        /\ enabled[a]
        /\ cur > 0
        /\ vstate[cur] = "live"
        /\ nextSalt < MaxSalt
        /\ CapacityFor({o}, {})
        /\ outbox' = Replaced({o}, {})
        /\ nextSalt' = nextSalt + 1
        /\ waived' = waived \ {a}
        /\ UNCHANGED <<sourceVars, assocVars, paused, status, remote, now,
                       proc, passVars>>

(* enqueueAssociationsCurrentVersion: a queued record keeps its claim and  *)
(* schedule, any other keeps its claim_attempt.                            *)
ReEnqueued(o) ==
    IF IsQueued(outbox[o]) THEN outbox[o]
    ELSE [NewRecord EXCEPT !.attempt = outbox[o].attempt]

(* pathAssociationEnable of a disabled association; when the queue is full *)
(* the record is rolled back and nothing changes.                          *)
PathAssociationEnable(a) ==
    LET o == Upsert(a, cur)
    IN  /\ SourceUnlocked
        /\ ~enabled[a]
        /\ cur > 0
        /\ vstate[cur] = "live"
        /\ CapacityFor({o}, {})
        /\ enabled' = [enabled EXCEPT ![a] = TRUE]
        /\ outbox' = [outbox EXCEPT ![o] = ReEnqueued(o)]
        /\ waived' = waived \ {a}
        /\ UNCHANGED <<sourceVars, disabling, paused, status, remote, nextSalt,
                       now, proc, passVars>>

(* pathAssociationDisable, first half: cancelQueuedOutboxForAssociation    *)
(* deletes the queued operations of the association one by one in the      *)
(* order of their (hashed) ids and stops with an error at the first one    *)
(* that a pass holds.  What it deleted before that stays deleted.          *)
AssociationDisableCancel(a) ==
    LET mine == {o \in Queued : o.assoc = a}
        held == {o \in mine : IsClaimActive(outbox[o])}
    IN  /\ SourceUnlocked
        /\ \/ /\ held = {}
              /\ outbox' = Replaced({}, mine)
              /\ disabling' = a
           \/ /\ held # {}
              /\ \E dropped \in SUBSET (mine \ held) :
                     outbox' = Replaced({}, dropped)
              /\ disabling' = disabling
        /\ UNCHANGED <<sourceVars, enabled, paused, status, remote, nextSalt,
                       now, proc, passVars, waived>>

(* Second half, after enqueueMu is released: putAssociation and            *)
(* markAssociationStatusDisabled.                                          *)
AssociationDisablePersist ==
    /\ disabling # None
    /\ enabled' = [enabled EXCEPT ![disabling] = FALSE]
    /\ status' = PutStatus(disabling, cur, "DISABLED")
    /\ disabling' = None
    /\ UNCHANGED <<sourceVars, paused, outbox, remote, nextSalt, now, proc,
                   passVars, waived>>

-----------------------------------------------------------------------------
(* Queue and configuration requests *)

(* pathQueueOperationRetry *)
PathQueueOperationRetry(o) ==
    /\ outbox[o].state \in {"retry_wait", "failed_terminal"}
    /\ ~IsClaimActive(outbox[o])
    /\ outbox' = [outbox EXCEPT ![o] =
           [ClearClaim(outbox[o]) EXCEPT !.attempts = 0, !.state = "pending",
                                         !.notBefore = now]]
    /\ UNCHANGED <<sourceVars, assocVars, paused, status, remote, nextSalt,
                   now, proc, passVars, waived>>

(* pathQueueOperationCancel *)
PathQueueOperationCancel(o) ==
    /\ outbox[o].state # "absent"
    /\ ~IsClaimActive(outbox[o])
    /\ outbox' = [outbox EXCEPT ![o] = Absent]
    /\ waived' = IF o.ver = cur THEN waived \cup {o.assoc} ELSE waived
    /\ UNCHANGED <<sourceVars, assocVars, paused, status, remote, nextSalt,
                   now, proc, passVars>>

(* pathConfigWrite of the disabled switch *)
PathConfigWrite ==
    /\ paused' = ~paused
    /\ UNCHANGED <<sourceVars, assocVars, outbox, status, remote, nextSalt,
                   now, proc, passVars, waived>>

-----------------------------------------------------------------------------
(* Dispatch passes *)

InFlight(w) == pc[w] # "idle"

(* claimDispatchableOutboxRecord *)
ClaimedRecord(r) == [r EXCEPT !.owner = proc, !.expires = now + Lease,
                              !.attempt = @ + 1]

(* Mutant of Claimable: the claim of another pass is not looked at. *)
ClaimableAlways(o) ==
    /\ IsQueued(outbox[o])
    /\ outbox[o].notBefore <= now
    /\ ~paused

Claimable(o) ==
    /\ IsQueued(outbox[o])
    /\ outbox[o].notBefore <= now
    /\ ~paused
    /\ ~IsClaimActive(outbox[o])

ClaimOutboxRecord(w, o) ==
    /\ pc[w] = "idle"
    /\ Claimable(o)
    /\ outbox[o].attempt < MaxClaims
    /\ outbox' = [outbox EXCEPT ![o] = ClaimedRecord(outbox[o])]
    /\ op' = [op EXCEPT ![w] = o]
    /\ rec' = [rec EXCEPT ![w] = ClaimedRecord(outbox[o])]
    /\ pc' = [pc EXCEPT ![w] = IF o.kind = "upsert" THEN "stale" ELSE "version"]
    /\ UNCHANGED <<sourceVars, assocVars, paused, status, remote, nextSalt,
                   now, proc, seen, res, waived>>

(* The pass is done with the operation and its locals are gone. *)
Idle(w) ==
    /\ pc' = [pc EXCEPT ![w] = "idle"]
    /\ op' = [op EXCEPT ![w] = NoOp]
    /\ rec' = [rec EXCEPT ![w] = Absent]
    /\ seen' = [seen EXCEPT ![w] = 0]
    /\ res' = [res EXCEPT ![w] = None]

(* The pass moves on to step s. *)
GoTo(w, s) ==
    /\ pc' = [pc EXCEPT ![w] = s]
    /\ UNCHANGED <<sourceVars, assocVars, paused, outbox, status, nextSalt,
                   now, proc, op, rec, waived>>

(* The pass has a failure of the given class to record. *)
Fail(w, class) ==
    /\ res' = [res EXCEPT ![w] = class]
    /\ GoTo(w, "failed")
    /\ UNCHANGED seen

(* Mutant of CheckStale: the current version counts as stale. *)
CheckStaleOrCurrent(w) ==
    /\ pc[w] = "stale"
    /\ GoTo(w, IF cur >= op[w].ver THEN "cancel" ELSE "version")
    /\ UNCHANGED <<remote, seen, res>>

(* staleUpsertForCurrentVersion *)
CheckStale(w) ==
    /\ pc[w] = "stale"
    /\ GoTo(w, IF cur > op[w].ver THEN "cancel" ELSE "version")
    /\ UNCHANGED <<remote, seen, res>>

(* loadUpsertContext and loadDeleteContext: the version an upsert sends    *)
(* must be live, the version a delete is for must not be.                  *)
LoadVersion(w) ==
    /\ pc[w] = "version"
    /\ UNCHANGED remote
    /\ IF (vstate[op[w].ver] = "live") = (op[w].kind = "upsert")
       THEN GoTo(w, "target") /\ UNCHANGED <<seen, res>>
       ELSE Fail(w, "terminal")

(* loadDispatchTargetContext *)
LoadTarget(w) ==
    /\ pc[w] = "target"
    /\ UNCHANGED remote
    /\ IF /\ op[w].kind = "delete" => op[w].assoc \in DeleteAssoc
          /\ enabled[op[w].assoc]
       THEN GoTo(w, "get") /\ UNCHANGED <<seen, res>>
       ELSE Fail(w, "terminal")

(* Mutant of ProviderGet: a newer remote version is not refused. *)
ProviderGetUnordered(w) ==
    LET found == remote[op[w].assoc]
        wanted == IF op[w].kind = "upsert" THEN op[w].ver ELSE 0
    IN  /\ pc[w] = "get"
        /\ UNCHANGED remote
        /\ seen' = [seen EXCEPT ![w] = found]
        /\ GoTo(w, IF found = wanted THEN "done" ELSE "put")
        /\ UNCHANGED res

(* The provider's read of the remote object.  An object that carries a     *)
(* newer source version is refused, one that is already as wanted needs no *)
(* write.                                                                  *)
ProviderGet(w) ==
    LET found == remote[op[w].assoc]
        wanted == IF op[w].kind = "upsert" THEN op[w].ver ELSE 0
    IN  /\ pc[w] = "get"
        /\ UNCHANGED remote
        /\ IF found > op[w].ver THEN Fail(w, "terminal")
           ELSE /\ seen' = [seen EXCEPT ![w] = found]
                /\ GoTo(w, IF found = wanted THEN "done" ELSE "put")
                /\ UNCHANGED res

(* Mutant of PutAccepted: the write carries no precondition. *)
PutAcceptedBlind(w) ==
    IF seen[w] = 0 THEN remote[op[w].assoc] = 0 ELSE remote[op[w].assoc] # 0

(* Whether the remote service accepts the write of a pass: a create needs  *)
(* the object to be missing still, an update or a delete needs it to be    *)
(* there and, where the provider sends a precondition, unchanged.          *)
PutAccepted(w) ==
    LET found == remote[op[w].assoc]
    IN  IF seen[w] = 0 THEN found = 0
        ELSE IF RemoteCAS THEN found = seen[w]
        ELSE found # 0

(* An accepted write is applied; its answer may still be lost, which the   *)
(* pass sees as an error.                                                  *)
ProviderPut(w) ==
    /\ pc[w] = "put"
    /\ IF PutAccepted(w)
       THEN /\ remote' = [remote EXCEPT ![op[w].assoc] =
                              IF op[w].kind = "upsert" THEN op[w].ver ELSE 0]
            /\ \/ GoTo(w, "done") /\ UNCHANGED <<seen, res>>
               \/ Fail(w, "retryable")
       ELSE UNCHANGED remote /\ Fail(w, "terminal")

(* The read or the write fails without an effect. *)
ProviderError(w, class) ==
    /\ pc[w] \in {"get", "put"}
    /\ UNCHANGED remote
    /\ Fail(w, class)

(* Mutant of ClaimMatches: only the owner is compared. *)
ClaimMatchesOwner(w) ==
    LET current == outbox[op[w]]
    IN  /\ current.state # "absent"
        /\ current.owner = rec[w].owner

(* outboxClaimMatches *)
ClaimMatches(w) ==
    LET current == outbox[op[w]]
    IN  /\ current.state # "absent"
        /\ current.owner = rec[w].owner
        /\ current.expires = rec[w].expires
        /\ current.attempt = rec[w].attempt

(* commitIfOutboxClaimHeld: the record and the status change only while    *)
(* the record still carries the claim of the pass.                         *)
CommitIfClaimHeld(w, newRecord, newStatus) ==
    /\ IF ClaimMatches(w)
       THEN /\ outbox' = [outbox EXCEPT ![op[w]] = newRecord]
            /\ status' = newStatus
       ELSE UNCHANGED <<outbox, status>>
    /\ Idle(w)
    /\ UNCHANGED <<sourceVars, assocVars, paused, remote, nextSalt, now, proc,
                   waived>>

(* cancelClaimedOutboxOperation *)
CommitCancel(w) ==
    /\ pc[w] = "cancel"
    /\ CommitIfClaimHeld(w, Absent, status)

(* commitClaimedUpsertSuccess and commitClaimedDeleteSuccess *)
SuccessState(o) == IF o.kind = "upsert" THEN "SYNCED" ELSE "REMOTE_MISSING"

CommitSuccess(w) ==
    /\ pc[w] = "done"
    /\ CommitIfClaimHeld(w, Absent,
           PutStatus(op[w].assoc, op[w].ver, SuccessState(op[w])))

(* Mutant of FailedRecord: the claim is cleared before the retry time is   *)
(* computed from it.                                                       *)
FailedRecordCleared(r, class) ==
    LET claimTime == ClearClaim(r).expires - Lease
        retry == class = "retryable" /\ r.attempts + 1 < MaxAttempts
    IN  [ClearClaim(r) EXCEPT
            !.attempts = @ + 1,
            !.state = IF retry THEN "retry_wait" ELSE "failed_terminal",
            !.notBefore = IF retry THEN claimTime + RetryDelay ELSE 0]

(* markOperationFailed: computed from the pass's copy of the record and    *)
(* from the time of the claim.                                             *)
FailedRecord(r, class) ==
    LET claimTime == r.expires - Lease
        retry == class = "retryable" /\ r.attempts + 1 < MaxAttempts
    IN  [ClearClaim(r) EXCEPT
            !.attempts = @ + 1,
            !.state = IF retry THEN "retry_wait" ELSE "failed_terminal",
            !.notBefore = IF retry THEN claimTime + RetryDelay ELSE 0]

CommitFailure(w) ==
    /\ pc[w] = "failed"
    /\ CommitIfClaimHeld(w, FailedRecord(rec[w], res[w]),
           PutStatus(op[w].assoc, op[w].ver, "FAILED"))

(* The pass's context is cancelled or storage fails: it returns without    *)
(* touching the record, whose claim stays until it expires.                *)
Abandon(w) ==
    /\ InFlight(w)
    /\ Idle(w)
    /\ UNCHANGED <<sourceVars, assocVars, paused, outbox, status, remote,
                   nextSalt, now, proc, waived>>

Pass(w) ==
    \/ \E o \in Ops : ClaimOutboxRecord(w, o)
    \/ CheckStale(w)
    \/ LoadVersion(w)
    \/ LoadTarget(w)
    \/ ProviderGet(w)
    \/ ProviderPut(w)
    \/ \E class \in {"retryable", "terminal"} : ProviderError(w, class)
    \/ CommitCancel(w)
    \/ CommitSuccess(w)
    \/ CommitFailure(w)
    \/ Abandon(w)

-----------------------------------------------------------------------------
(* The environment *)

(* The process dies and a new one starts: its passes and the handler that  *)
(* holds the path lock are gone, storage stays.                            *)
Restart ==
    /\ proc < MaxProc
    /\ proc' = proc + 1
    /\ pc' = [w \in Worker |-> "idle"]
    /\ op' = [w \in Worker |-> NoOp]
    /\ rec' = [w \in Worker |-> Absent]
    /\ seen' = [w \in Worker |-> 0]
    /\ res' = [w \in Worker |-> None]
    /\ disabling' = None
    /\ UNCHANGED <<sourceVars, enabled, paused, outbox, status, remote,
                   nextSalt, now, waived>>

(* Unless passes may overrun their lease, time does not reach the expiry   *)
(* of a claim whose pass is still running.                                 *)
Tick ==
    /\ now < MaxTime
    /\ \/ Overrun
       \/ \A w \in Worker : InFlight(w) => now + 1 < rec[w].expires
    /\ now' = now + 1
    /\ UNCHANGED <<sourceVars, assocVars, paused, outbox, status, remote,
                   nextSalt, proc, passVars, waived>>

Request ==
    \/ "write" \in UserOps /\ PathDataWrite
    \/ "data_delete" \in UserOps /\ PathDataDelete
    \/ "delete_version" \in UserOps /\ \E v \in Versions : PathVersionDelete(v)
    \/ "undelete" \in UserOps /\ \E v \in Versions : PathVersionUndelete(v)
    \/ "destroy" \in UserOps /\ \E v \in Versions : PathVersionDestroy(v)
    \/ "manual_sync" \in UserOps /\ \E a \in Assoc : PathAssociationSync(a)
    \/ "enable" \in UserOps /\ \E a \in Assoc : PathAssociationEnable(a)
    \/ "disable" \in UserOps /\ \E a \in Assoc : AssociationDisableCancel(a)
    \/ AssociationDisablePersist
    \/ "retry" \in UserOps /\ \E o \in Ops : PathQueueOperationRetry(o)
    \/ "cancel" \in UserOps /\ \E o \in Ops : PathQueueOperationCancel(o)
    \/ "config" \in UserOps /\ PathConfigWrite

Init ==
    /\ cur = 0
    /\ vstate = [v \in Versions |-> "none"]
    /\ enabled = [a \in Assoc |-> TRUE]
    /\ disabling = None
    /\ paused = FALSE
    /\ outbox = [o \in Ops |-> Absent]
    /\ status = [a \in Assoc |-> [ver |-> 0, state |-> "none"]]
    /\ remote = [a \in Assoc |-> 0]
    /\ nextSalt = 0
    /\ now = 0
    /\ proc = 1
    /\ pc = [w \in Worker |-> "idle"]
    /\ op = [w \in Worker |-> NoOp]
    /\ rec = [w \in Worker |-> Absent]
    /\ seen = [w \in Worker |-> 0]
    /\ res = [w \in Worker |-> None]
    /\ waived = {}

Next == Request \/ (\E w \in Worker : Pass(w)) \/ Restart \/ Tick

Spec == Init /\ [][Next]_vars

-----------------------------------------------------------------------------
(* Properties *)

States == {"none", "SYNCED", "REMOTE_MISSING", "FAILED", "DISABLED"}
Steps == {"idle", "stale", "cancel", "version", "target", "get", "put",
          "done", "failed"}

(* Every variable has its type, and a pass that is not idle has an         *)
(* operation and its claim.                                                *)
TypeOK ==
    /\ cur \in 0..MaxVersion
    /\ vstate \in [Versions -> {"none", "live", "deleted", "destroyed"}]
    /\ enabled \in [Assoc -> BOOLEAN]
    /\ disabling \in Assoc \cup {None}
    /\ paused \in BOOLEAN
    /\ outbox \in [Ops -> Record]
    /\ status \in [Assoc -> [ver : 0..MaxVersion, state : States]]
    /\ remote \in [Assoc -> 0..MaxVersion]
    /\ nextSalt \in 0..MaxSalt
    /\ now \in 0..MaxTime
    /\ proc \in 1..MaxProc
    /\ pc \in [Worker -> Steps]
    /\ op \in [Worker -> Ops \cup {NoOp}]
    /\ rec \in [Worker -> Record]
    /\ seen \in [Worker -> 0..MaxVersion]
    /\ res \in [Worker -> {None, "retryable", "terminal"}]
    /\ waived \subseteq Assoc
    /\ \A w \in Worker : InFlight(w) => op[w] \in Ops

(* A pass whose lease has not expired still finds its claim on the stored  *)
(* record (claimOutboxRecord, outboxClaimMatches): no request and no other *)
(* pass cancels, overwrites or takes over an operation that is being       *)
(* dispatched.                                                             *)
ClaimIntact ==
    \A w \in Worker :
        InFlight(w) /\ rec[w].expires > now => ClaimMatches(w)

(* Of the passes dispatching one operation, at most one can commit its     *)
(* outcome (commitIfOutboxClaimHeld): an earlier worker never completes a  *)
(* later claim, not even after leases expired and the record was deleted   *)
(* and created again under the same id.                                    *)
OneCommitter ==
    \A w1, w2 \in Worker :
        /\ w1 # w2
        /\ InFlight(w1) /\ InFlight(w2)
        /\ op[w1] = op[w2]
        => ~(ClaimMatches(w1) /\ ClaimMatches(w2))

(* The request handlers under which the two claim properties hold.  The    *)
(* others write an operation over a record that may be claimed: delete and *)
(* destroy of a version that is deleted already, and, once an operator may *)
(* requeue a delete of a live version or an upsert of a deleted one, the   *)
(* source delete and undelete as well.                                     *)
ClaimSafeOps ==
    /\ UserOps \cap {"delete_version", "destroy"} = {}
    /\ "retry" \in UserOps => UserOps \cap {"data_delete", "undelete"} = {}

(* The inductive strengthening of ClaimIntact and OneCommitter. *)
ClaimTimes ==
    \A w \in Worker : InFlight(w) =>
        /\ op[w] \in Ops
        /\ rec[w].owner # 0
        /\ rec[w].expires >= Lease
        /\ op[w].ver <= cur
        /\ op[w].salt <= nextSalt

ExpiriesDiffer ==
    \A w1, w2 \in Worker :
        w1 # w2 /\ InFlight(w1) /\ InFlight(w2) /\ op[w1] = op[w2]
            => rec[w1].expires # rec[w2].expires

StoredOps ==
    \A o \in Ops :
        /\ outbox[o].state # "absent" => o.ver <= cur /\ o.salt <= nextSalt
        /\ outbox[o].owner # 0 => IsQueued(outbox[o])

QueuedOpsWanted ==
    "retry" \notin UserOps =>
        \A o \in Ops : IsQueued(outbox[o]) =>
            /\ enabled[o.assoc] /\ o.assoc # disabling
            /\ o.ver = cur => ((vstate[cur] = "live") = (o.kind = "upsert"))

ClaimInv ==
    TypeOK /\ ClaimTimes /\ ExpiriesDiffer /\ ClaimIntact /\ StoredOps
        /\ QueuedOpsWanted

(* Work a request accepted is never lost: for every enabled association    *)
(* the wanted state of the current version is stored as an operation       *)
(* (queued, or failed for an operator to see), or its status reports the   *)
(* outcome, or an operator cancelled it.                                   *)
Settled(a, kind, states) ==
    \/ \E o \in Ops : /\ o.kind = kind /\ o.assoc = a /\ o.ver = cur
                      /\ outbox[o].state # "absent"
    \/ status[a].ver = cur /\ status[a].state \in states

NoLostWork ==
    \A a \in Assoc :
        cur > 0 /\ enabled[a] /\ a \notin waived /\ a # disabling =>
            /\ vstate[cur] = "live" => Settled(a, "upsert", {"SYNCED", "FAILED"})
            /\ vstate[cur] # "live" /\ a \in DeleteAssoc =>
                   Settled(a, "delete", {"REMOTE_MISSING", "FAILED"})

(* No operation of the association is queued or being dispatched. *)
Quiet(a) ==
    /\ \A o \in Queued : o.assoc # a
    /\ \A w \in Worker : InFlight(w) => op[w].assoc # a

(* Once the work of an association has drained, a SYNCED status of the     *)
(* current version tells the truth about the remote object.                *)
SyncedIsRemote ==
    \A a \in Assoc :
        Quiet(a) /\ status[a] = [ver |-> cur, state |-> "SYNCED"] =>
            remote[a] = cur

(* And so does a REMOTE_MISSING status. *)
MissingIsRemote ==
    \A a \in Assoc :
        Quiet(a) /\ status[a] = [ver |-> cur, state |-> "REMOTE_MISSING"] =>
            remote[a] = 0

(* A remote object is never overwritten with an older source version. *)
RemoteNeverOlder ==
    [][\A a \in Assoc : remote'[a] # 0 => remote'[a] >= remote[a]]_vars

(* The version a status reports never goes back. *)
StatusNeverOlder ==
    [][\A a \in Assoc : status'[a].ver >= status[a].ver]_vars

(* queue_capacity bounds the queued operations. *)
QueueWithinCapacity == Cardinality(Queued) <= QueueCapacity
=============================================================================
