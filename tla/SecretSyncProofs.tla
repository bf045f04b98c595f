-------------------------- MODULE SecretSyncProofs --------------------------
(***************************************************************************)
(* Proofs about SecretSync for every set of associations and passes, every *)
(* lease, capacity and bound.                                              *)
(***************************************************************************)
EXTENDS SecretSync, FiniteSetTheorems, TLAPS

-----------------------------------------------------------------------------
(* Records *)

LEMMA AbsentType == Absent \in Record
BY DEF Absent, Record

LEMMA NewRecordType == ASSUME now \in Nat PROVE NewRecord \in Record
BY DEF NewRecord, Absent, Record

LEMMA ClearClaimType ==
    ASSUME NEW r \in Record PROVE ClearClaim(r) \in Record
BY DEF ClearClaim, Record

LEMMA ClaimedRecordType ==
    ASSUME NEW r \in Record, now \in Nat, proc \in Nat
    PROVE  ClaimedRecord(r) \in Record
<1>1. now + Lease \in Nat /\ r.attempt + 1 \in Nat
    BY ConstantsAssumption DEF ConstantsAssumption, Record
<1> QED
    BY <1>1 DEF ClaimedRecord, Record

LEMMA FailedRecordType ==
    ASSUME NEW r \in Record, NEW class, r.expires >= Lease
    PROVE  FailedRecord(r, class) \in Record
<1>1. /\ r.attempts + 1 \in Nat
      /\ r.expires - Lease + RetryDelay \in Nat
    BY ConstantsAssumption DEF ConstantsAssumption, Record
<1>2. ClearClaim(r) \in Record /\ ClearClaim(r).attempts = r.attempts
    BY ClearClaimType DEF ClearClaim, Record
<1>3. \A s \in {"retry_wait", "failed_terminal"}, t \in Nat :
          [ClearClaim(r) EXCEPT !.attempts = @ + 1, !.state = s,
                                !.notBefore = t] \in Record
    <2> SUFFICES ASSUME NEW c \in Record, c.attempts + 1 \in Nat,
                        NEW s \in {"retry_wait", "failed_terminal"},
                        NEW t \in Nat
                 PROVE  [c EXCEPT !.attempts = @ + 1, !.state = s,
                                  !.notBefore = t] \in Record
        BY <1>1, <1>2
    <2> QED
        BY DEF Record
<1> QED
    BY <1>1, <1>3 DEF FailedRecord

LEMMA ReplacedType ==
    ASSUME now \in Nat, outbox \in [Ops -> Record], NEW put, NEW dropped
    PROVE  Replaced(put, dropped) \in [Ops -> Record]
BY NewRecordType, AbsentType DEF Replaced

LEMMA OpsTypes ==
    ASSUME NEW o \in Ops
    PROVE  /\ o.kind \in {"upsert", "delete"}
           /\ o.ver \in 1..MaxVersion
           /\ o.assoc \in Assoc
           /\ o.salt \in 0..MaxSalt
BY DEF Ops, Versions

LEMMA UpsertType ==
    ASSUME NEW a \in Assoc, NEW v \in 1..MaxVersion
    PROVE  Upsert(a, v) \in Ops /\ Delete(a, v) \in Ops
BY ConstantsAssumption DEF Upsert, Delete, Ops, Versions

LEMMA PutStatusType ==
    ASSUME TypeOK, NEW a \in Assoc, NEW v \in 0..MaxVersion, NEW s \in States
    PROVE  PutStatus(a, v, s) \in [Assoc -> [ver : 0..MaxVersion, state : States]]
BY DEF PutStatus, TypeOK

-----------------------------------------------------------------------------
(* Type correctness *)

(* What TypeOK needs of the claims: the retry time of a failed operation   *)
(* is computed from the expiry of the claim.                               *)
TypeInv ==
    /\ TypeOK
    /\ \A w \in Worker : InFlight(w) => rec[w].expires >= Lease

LEMMA TypeInit == Init => TypeInv
<1> SUFFICES ASSUME Init PROVE TypeInv
    OBVIOUS
<1>1. \A w \in Worker : ~InFlight(w)
    BY DEF Init, InFlight
<1>2. /\ 0 \in 0..MaxVersion /\ 0 \in 0..MaxSalt /\ 0 \in 0..MaxTime
      /\ 1 \in 1..MaxProc
    BY ConstantsAssumption DEF ConstantsAssumption
<1>3. outbox \in [Ops -> Record] /\ rec \in [Worker -> Record]
    BY AbsentType DEF Init
<1>4. status \in [Assoc -> [ver : 0..MaxVersion, state : States]]
    BY <1>2 DEF Init, States
<1>5. pc \in [Worker -> Steps] /\ op \in [Worker -> Ops \cup {NoOp}]
    BY DEF Init, Steps
<1>6. vstate \in [Versions -> {"none", "live", "deleted", "destroyed"}]
    BY DEF Init
<1> QED
    BY <1>1, <1>2, <1>3, <1>4, <1>5, <1>6 DEF Init, TypeOK, TypeInv

LEMMA TypeRequest == TypeInv /\ Request => TypeInv'
<1> SUFFICES ASSUME TypeInv, Request PROVE TypeInv'
    OBVIOUS
<1> USE DEF TypeInv, TypeOK, InFlight, sourceVars, assocVars, passVars
<1>0. /\ now \in Nat /\ MaxVersion \in Nat /\ MaxSalt \in Nat
      /\ \A put, dropped : Replaced(put, dropped) \in [Ops -> Record]
    BY ConstantsAssumption, ReplacedType DEF ConstantsAssumption
<1>1. CASE PathDataWrite
    <2>1. cur + 1 \in 0..MaxVersion
        BY <1>0, <1>1 DEF PathDataWrite
    <2>2. vstate' \in [Versions -> {"none", "live", "deleted", "destroyed"}]
        BY <1>1 DEF PathDataWrite
    <2>3. waived' \subseteq Assoc
        BY <1>1 DEF PathDataWrite
    <2>4. outbox' \in [Ops -> Record] /\ cur' = cur + 1
        BY <1>0, <1>1 DEF PathDataWrite
    <2> QED
        BY <1>0, <1>1, <2>1, <2>2, <2>3, <2>4 DEF PathDataWrite
<1>2. ASSUME NEW s \in {"none", "live", "deleted", "destroyed"}, DeleteCurrent(s)
      PROVE  TypeInv'
    BY <1>0, <1>2 DEF DeleteCurrent
<1>3. ASSUME NEW s \in {"none", "live", "deleted", "destroyed"},
             NEW v \in Versions, SetVersion(v, s)
      PROVE  TypeInv'
    BY <1>3 DEF SetVersion
<1>4. CASE PathDataDelete
    BY <1>2, <1>4 DEF PathDataDelete
<1>5. ASSUME NEW v \in Versions, PathVersionDelete(v) PROVE TypeInv'
    BY <1>2, <1>3, <1>5 DEF PathVersionDelete, SoftDeleted
<1>6. ASSUME NEW v \in Versions, PathVersionDestroy(v) PROVE TypeInv'
    BY <1>2, <1>3, <1>6 DEF PathVersionDestroy, Destroyed
<1>7. ASSUME NEW v \in Versions, PathVersionUndelete(v) PROVE TypeInv'
    <2>1. CASE UndeleteCurrent
        BY <1>0, <2>1 DEF UndeleteCurrent
    <2>2. CASE SetVersion(v, Undeleted(vstate[v]))
        BY <1>3, <2>2 DEF Undeleted
    <2> QED
        BY <1>7, <2>1, <2>2 DEF PathVersionUndelete
<1>8. ASSUME NEW a \in Assoc, PathAssociationSync(a) PROVE TypeInv'
    BY <1>0, <1>8 DEF PathAssociationSync
<1>9. ASSUME NEW a \in Assoc, PathAssociationEnable(a) PROVE TypeInv'
    <2>1. Upsert(a, cur) \in Ops
        BY <1>0, <1>9, UpsertType DEF PathAssociationEnable
    <2>2. ReEnqueued(Upsert(a, cur)) \in Record
        BY <1>0, <2>1, NewRecordType DEF ReEnqueued, Record
    <2> QED
        BY <1>9, <2>1, <2>2 DEF PathAssociationEnable
<1>10. ASSUME NEW a \in Assoc, AssociationDisableCancel(a) PROVE TypeInv'
    BY <1>0, <1>10 DEF AssociationDisableCancel
<1>11. CASE AssociationDisablePersist
    <2>1. PutStatus(disabling, cur, "DISABLED")
              \in [Assoc -> [ver : 0..MaxVersion, state : States]]
        BY <1>11, PutStatusType DEF AssociationDisablePersist, States
    <2> QED
        BY <1>11, <2>1 DEF AssociationDisablePersist
<1>12. ASSUME NEW o \in Ops, PathQueueOperationRetry(o) PROVE TypeInv'
    <2>1. [ClearClaim(outbox[o]) EXCEPT !.attempts = 0, !.state = "pending",
                                        !.notBefore = now] \in Record
        <3>1. ASSUME NEW c \in Record
              PROVE  [c EXCEPT !.attempts = 0, !.state = "pending",
                               !.notBefore = now] \in Record
            BY <1>0 DEF Record
        <3> QED
            BY <3>1, ClearClaimType
    <2> QED
        BY <1>12, <2>1 DEF PathQueueOperationRetry
<1>13. ASSUME NEW o \in Ops, PathQueueOperationCancel(o) PROVE TypeInv'
    BY <1>13, AbsentType, OpsTypes DEF PathQueueOperationCancel
<1>14. CASE PathConfigWrite
    BY <1>14 DEF PathConfigWrite
<1> QED
    BY <1>1, <1>4, <1>5, <1>6, <1>7, <1>8, <1>9, <1>10, <1>11, <1>12, <1>13,
       <1>14 DEF Request

LEMMA TypeCommit ==
    ASSUME TypeInv, NEW w \in Worker, NEW r \in Record,
           NEW st \in [Assoc -> [ver : 0..MaxVersion, state : States]],
           CommitIfClaimHeld(w, r, st)
    PROVE  TypeInv'
<1> USE DEF TypeInv, TypeOK, InFlight, sourceVars, assocVars
<1>1. outbox' \in [Ops -> Record]
      /\ status' \in [Assoc -> [ver : 0..MaxVersion, state : States]]
    BY DEF CommitIfClaimHeld
<1>2. /\ pc' \in [Worker -> Steps] /\ op' \in [Worker -> Ops \cup {NoOp}]
      /\ rec' \in [Worker -> Record] /\ seen' \in [Worker -> 0..MaxVersion]
      /\ res' \in [Worker -> {None, "retryable", "terminal"}]
    BY AbsentType, ConstantsAssumption
    DEF ConstantsAssumption, CommitIfClaimHeld, Idle, Steps
<1>3. \A x \in Worker : InFlight(x)' =>
          op'[x] \in Ops /\ rec'[x].expires >= Lease
    BY DEF CommitIfClaimHeld, Idle
<1> QED
    BY <1>1, <1>2, <1>3 DEF CommitIfClaimHeld

LEMMA TypePass ==
    ASSUME TypeInv, NEW w \in Worker, Pass(w)
    PROVE  TypeInv'
<1> USE DEF TypeInv, TypeOK, InFlight, sourceVars, assocVars
<1>0. now \in Nat /\ proc \in Nat /\ MaxVersion \in Nat /\ Lease \in Nat
    BY ConstantsAssumption DEF ConstantsAssumption
<1>1. ASSUME NEW o \in Ops, ClaimOutboxRecord(w, o) PROVE TypeInv'
    <2>1. ClaimedRecord(outbox[o]) \in Record
        BY <1>0, ClaimedRecordType
    <2>2. ClaimedRecord(outbox[o]).expires = now + Lease
        BY DEF ClaimedRecord, Record
    <2>3. pc' \in [Worker -> Steps]
        BY <1>1 DEF ClaimOutboxRecord, Steps
    <2>4. outbox' \in [Ops -> Record] /\ op' \in [Worker -> Ops \cup {NoOp}]
          /\ rec' \in [Worker -> Record]
        BY <1>1, <2>1 DEF ClaimOutboxRecord
    <2>5. \A x \in Worker : InFlight(x)' =>
              op'[x] \in Ops /\ rec'[x].expires >= Lease
        BY <1>0, <1>1, <2>2 DEF ClaimOutboxRecord
    <2> QED
        BY <1>1, <2>3, <2>4, <2>5 DEF ClaimOutboxRecord
<1>2. ASSUME NEW s \in Steps, InFlight(w), GoTo(w, s),
             remote' \in [Assoc -> 0..MaxVersion],
             seen' \in [Worker -> 0..MaxVersion],
             res' \in [Worker -> {None, "retryable", "terminal"}]
      PROVE  TypeInv'
    BY <1>2 DEF GoTo, Steps
<1>3. ASSUME NEW class \in {"retryable", "terminal"}, InFlight(w),
             Fail(w, class), remote' \in [Assoc -> 0..MaxVersion]
      PROVE  TypeInv'
    BY <1>2, <1>3 DEF Fail, Steps
<1>4. CASE CheckStale(w)
    BY <1>2, <1>4 DEF CheckStale, Steps
<1>5. CASE LoadVersion(w)
    BY <1>2, <1>3, <1>5 DEF LoadVersion, Steps
<1>6. CASE LoadTarget(w)
    BY <1>2, <1>3, <1>6 DEF LoadTarget, Steps
<1>7. CASE ProviderGet(w)
    <2>1. op[w].assoc \in Assoc
        BY <1>7, OpsTypes DEF ProviderGet
    <2>2. CASE Fail(w, "terminal")
        BY <1>3, <1>7, <2>2 DEF ProviderGet
    <2>3. CASE /\ seen' = [seen EXCEPT ![w] = remote[op[w].assoc]]
               /\ res' = res
               /\ \E s \in {"done", "put"} : GoTo(w, s)
        BY <1>2, <1>7, <2>1, <2>3 DEF ProviderGet, Steps
    <2> QED
        BY <1>7, <2>2, <2>3 DEF ProviderGet
<1>8. CASE ProviderPut(w)
    <2>1. op[w] \in Ops /\ InFlight(w)
        BY <1>8 DEF ProviderPut
    <2>2. op[w].ver \in 0..MaxVersion /\ 0 \in 0..MaxVersion
        BY <1>0, <2>1, OpsTypes
    <2>3. remote' \in [Assoc -> 0..MaxVersion]
        BY <1>8, <2>2 DEF ProviderPut
    <2> QED
        BY <1>2, <1>3, <1>8, <2>1, <2>3 DEF ProviderPut, Steps
<1>9. ASSUME NEW class \in {"retryable", "terminal"}, ProviderError(w, class)
      PROVE  TypeInv'
    BY <1>3, <1>9 DEF ProviderError
<1>10. CASE CommitCancel(w)
    BY <1>10, TypeCommit, AbsentType DEF CommitCancel
<1>11. CASE CommitSuccess(w)
    <2>1. op[w] \in Ops
        BY <1>11 DEF CommitSuccess
    <2>2. PutStatus(op[w].assoc, op[w].ver, SuccessState(op[w]))
              \in [Assoc -> [ver : 0..MaxVersion, state : States]]
        <3>1. /\ op[w].assoc \in Assoc /\ op[w].ver \in 0..MaxVersion
              /\ SuccessState(op[w]) \in States
            BY <1>0, <2>1, OpsTypes DEF SuccessState, States
        <3> QED
            BY <3>1, PutStatusType
    <2> QED
        BY <1>11, <2>2, TypeCommit, AbsentType DEF CommitSuccess
<1>12. CASE CommitFailure(w)
    <2>1. op[w] \in Ops /\ rec[w].expires >= Lease
        BY <1>12 DEF CommitFailure
    <2>2. PutStatus(op[w].assoc, op[w].ver, "FAILED")
              \in [Assoc -> [ver : 0..MaxVersion, state : States]]
        <3>1. /\ op[w].assoc \in Assoc /\ op[w].ver \in 0..MaxVersion
              /\ "FAILED" \in States
            BY <1>0, <2>1, OpsTypes DEF States
        <3> QED
            BY <3>1, PutStatusType
    <2>3. FailedRecord(rec[w], res[w]) \in Record
        BY <2>1, FailedRecordType
    <2> QED
        BY <1>12, <2>2, <2>3, TypeCommit DEF CommitFailure
<1>13. CASE Abandon(w)
    <2>1. /\ pc' \in [Worker -> Steps] /\ op' \in [Worker -> Ops \cup {NoOp}]
          /\ rec' \in [Worker -> Record] /\ seen' \in [Worker -> 0..MaxVersion]
          /\ res' \in [Worker -> {None, "retryable", "terminal"}]
        BY <1>0, <1>13, AbsentType DEF Abandon, Idle, Steps
    <2> QED
        BY <1>13, <2>1 DEF Abandon, Idle
<1> QED
    BY <1>1, <1>4, <1>5, <1>6, <1>7, <1>8, <1>9, <1>10, <1>11, <1>12, <1>13
    DEF Pass

LEMMA TypeStep == TypeInv /\ [Next]_vars => TypeInv'
<1> SUFFICES ASSUME TypeInv, [Next]_vars PROVE TypeInv'
    OBVIOUS
<1> USE DEF TypeInv, TypeOK, InFlight
<1>1. CASE Request
    BY <1>1, TypeRequest
<1>2. ASSUME NEW w \in Worker, Pass(w) PROVE TypeInv'
    BY <1>2, TypePass
<1>3. CASE Restart
    <2>1. proc' \in 1..MaxProc /\ 0 \in 0..MaxVersion
        BY <1>3, ConstantsAssumption DEF Restart, ConstantsAssumption
    <2> QED
        BY <1>3, <2>1, AbsentType
        DEF Restart, Steps, sourceVars
<1>4. CASE Tick
    <2>1. now' \in 0..MaxTime
        BY <1>4, ConstantsAssumption DEF Tick, ConstantsAssumption
    <2> QED
        BY <1>4, <2>1 DEF Tick, sourceVars, assocVars, passVars
<1>5. CASE UNCHANGED vars
    BY <1>5 DEF vars
<1> QED
    BY <1>1, <1>2, <1>3, <1>4, <1>5 DEF Next

(* Every reachable state is well typed, for every value of the constants:  *)
(* in particular the retry time markOperationFailed computes from the      *)
(* claim is never before the epoch, and a pass past the claim always has   *)
(* an operation.                                                           *)
THEOREM TypeCorrect == Spec => []TypeOK
<1>1. TypeInv => TypeOK
    BY DEF TypeInv
<1> QED
    BY <1>1, TypeInit, TypeStep, PTL DEF Spec

-----------------------------------------------------------------------------
(* Claims *)

LEMMA NewRecordFields ==
    /\ NewRecord.state = "pending" /\ NewRecord.owner = 0
    /\ Absent.state = "absent" /\ Absent.owner = 0
BY DEF NewRecord, Absent

(* An active claim is on a queued operation that exists. *)
LEMMA ActiveIsStored ==
    ASSUME TypeOK, StoredOps, NEW o \in Ops, IsClaimActive(outbox[o])
    PROVE  /\ IsQueued(outbox[o])
           /\ o.ver <= cur
           /\ o.salt <= nextSalt
BY DEF StoredOps, IsClaimActive, IsQueued

(* No request touches a record that carries an active claim. *)
LEMMA RequestKeepsClaims ==
    ASSUME ClaimInv, ClaimSafeOps, Request, NEW o \in Ops,
           IsClaimActive(outbox[o])
    PROVE  outbox'[o] = outbox[o]
<1>0. /\ IsQueued(outbox[o]) /\ o.ver <= cur /\ o.salt <= nextSalt
      /\ cur \in Nat /\ nextSalt \in Nat /\ o.ver \in Nat /\ o.salt \in Nat
    BY ActiveIsStored, OpsTypes, ConstantsAssumption
    DEF ConstantsAssumption, ClaimInv, TypeOK
<1>1. ASSUME "write" \in UserOps, PathDataWrite PROVE outbox'[o] = outbox[o]
    <2>1. \A a \in EnabledAssoc : o # Upsert(a, cur + 1)
        BY <1>0 DEF Upsert
    <2>2. o \notin StaleUpserts(cur + 1)
        BY DEF StaleUpserts
    <2> QED
        BY <1>1, <2>1, <2>2 DEF PathDataWrite, Replaced
<1>2. ASSUME "data_delete" \in UserOps, PathDataDelete
      PROVE  outbox'[o] = outbox[o]
    <2>1. o.ver = cur => o.kind = "upsert"
        BY <1>0, <1>2 DEF PathDataDelete, ClaimInv, QueuedOpsWanted, ClaimSafeOps
    <2>2. \A a \in EnabledAssoc : o # Delete(a, cur)
        BY <2>1 DEF Delete
    <2>3. o \notin UpsertsOfVersion(cur)
        BY <1>2 DEF PathDataDelete, DeleteCurrent
    <2> QED
        BY <1>2, <2>2, <2>3 DEF PathDataDelete, DeleteCurrent, Replaced
<1>3. ASSUME "undelete" \in UserOps, NEW v \in Versions, PathVersionUndelete(v)
      PROVE  outbox'[o] = outbox[o]
    <2>1. CASE v = cur /\ vstate[v] = "deleted"
        <3>1. o.ver = cur => o.kind = "delete"
            BY <1>0, <1>3, <2>1, OpsTypes
            DEF ClaimInv, QueuedOpsWanted, ClaimSafeOps
        <3>2. \A a \in EnabledAssoc : o # Upsert(a, cur)
            BY <3>1 DEF Upsert
        <3>3. o \notin DeletesOfVersion(cur)
            BY <1>3, <2>1 DEF PathVersionUndelete, UndeleteCurrent
        <3> QED
            BY <1>3, <2>1, <3>2, <3>3
            DEF PathVersionUndelete, UndeleteCurrent, Replaced
    <2> QED
        BY <1>3, <2>1 DEF PathVersionUndelete, SetVersion
<1>4. ASSUME NEW a \in Assoc, PathAssociationSync(a)
      PROVE  outbox'[o] = outbox[o]
    <2>1. o # ManualUpsert(a, cur, nextSalt + 1)
        BY <1>0 DEF ManualUpsert, Upsert
    <2> QED
        BY <1>4, <2>1 DEF PathAssociationSync, Replaced
<1>5. ASSUME NEW a \in Assoc, PathAssociationEnable(a)
      PROVE  outbox'[o] = outbox[o]
    BY <1>0, <1>5 DEF PathAssociationEnable, ReEnqueued, ClaimInv, TypeOK
<1>6. ASSUME NEW a \in Assoc, AssociationDisableCancel(a)
      PROVE  outbox'[o] = outbox[o]
    BY <1>6 DEF AssociationDisableCancel, Replaced
<1>7. ASSUME NEW p \in Ops, PathQueueOperationRetry(p)
      PROVE  outbox'[o] = outbox[o]
    BY <1>7 DEF PathQueueOperationRetry, ClaimInv, TypeOK
<1>8. ASSUME NEW p \in Ops, PathQueueOperationCancel(p)
      PROVE  outbox'[o] = outbox[o]
    BY <1>8 DEF PathQueueOperationCancel, ClaimInv, TypeOK
<1>9. CASE AssociationDisablePersist \/ PathConfigWrite
    BY <1>9 DEF AssociationDisablePersist, PathConfigWrite
<1> QED
    BY <1>1, <1>2, <1>3, <1>4, <1>5, <1>6, <1>7, <1>8, <1>9
    DEF Request, ClaimSafeOps

(* A request leaves the passes and the clock alone; versions and salts     *)
(* only grow.                                                              *)
LEMMA RequestFrame ==
    ASSUME TypeOK, Request
    PROVE  /\ UNCHANGED <<pc, op, rec, now>>
           /\ cur' >= cur
           /\ nextSalt' >= nextSalt
<1> USE DEF TypeOK, sourceVars, assocVars, passVars
<1>0. cur \in Nat /\ nextSalt \in Nat
    BY ConstantsAssumption DEF ConstantsAssumption
<1> DEFINE Frame == UNCHANGED <<pc, op, rec, now, cur, nextSalt>>
<1>1. ASSUME NEW s, DeleteCurrent(s) PROVE Frame
    BY <1>1 DEF DeleteCurrent
<1>2. ASSUME NEW v, NEW s, SetVersion(v, s) PROVE Frame
    BY <1>2 DEF SetVersion
<1>3. PathDataWrite => UNCHANGED <<pc, op, rec, now, nextSalt>> /\ cur' = cur + 1
    BY DEF PathDataWrite
<1>4. ASSUME NEW v PROVE PathVersionDelete(v) => Frame
    BY <1>1, <1>2 DEF PathVersionDelete
<1>5. ASSUME NEW v PROVE PathVersionDestroy(v) => Frame
    BY <1>1, <1>2 DEF PathVersionDestroy
<1>6. ASSUME NEW v PROVE PathVersionUndelete(v) => Frame
    BY <1>2 DEF PathVersionUndelete, UndeleteCurrent
<1>7. PathDataDelete => Frame
    BY <1>1 DEF PathDataDelete
<1>8. ASSUME NEW a PROVE
          PathAssociationSync(a) =>
              UNCHANGED <<pc, op, rec, now, cur>> /\ nextSalt' = nextSalt + 1
    BY DEF PathAssociationSync
<1>9. ASSUME NEW a PROVE PathAssociationEnable(a) => Frame
    BY DEF PathAssociationEnable
<1>10. ASSUME NEW a PROVE AssociationDisableCancel(a) => Frame
    BY DEF AssociationDisableCancel
<1>11. AssociationDisablePersist => Frame
    BY DEF AssociationDisablePersist
<1>12. ASSUME NEW o PROVE PathQueueOperationRetry(o) => Frame
    BY DEF PathQueueOperationRetry
<1>13. ASSUME NEW o PROVE PathQueueOperationCancel(o) => Frame
    BY DEF PathQueueOperationCancel
<1>14. PathConfigWrite => Frame
    BY DEF PathConfigWrite
<1>15. Frame \/ PathDataWrite \/ (\E a \in Assoc : PathAssociationSync(a))
    BY <1>4, <1>5, <1>6, <1>7, <1>9, <1>10, <1>11, <1>12, <1>13, <1>14
    DEF Request
<1>16. Frame => cur' >= cur /\ nextSalt' >= nextSalt
    BY <1>0
<1> QED
    BY <1>0, <1>3, <1>8, <1>15, <1>16

(* What Replaced stores is a new record, nothing, or what was stored. *)
LEMMA ReplacedStored ==
    ASSUME TypeOK, StoredOps, NEW put, NEW dropped,
           outbox' = Replaced(put, dropped),
           cur' \in Nat, nextSalt' \in Nat,
           cur' >= cur, nextSalt' >= nextSalt,
           \A o \in put : o \in Ops => o.ver <= cur' /\ o.salt <= nextSalt'
    PROVE  StoredOps'
<1>1. \A o \in Ops : o.ver \in Nat /\ o.salt \in Nat
    BY OpsTypes, ConstantsAssumption DEF ConstantsAssumption
<1>2. cur \in Nat /\ nextSalt \in Nat
    BY ConstantsAssumption DEF TypeOK, ConstantsAssumption
<1> SUFFICES ASSUME NEW o \in Ops
             PROVE  /\ outbox'[o].state # "absent" =>
                           o.ver <= cur' /\ o.salt <= nextSalt'
                    /\ outbox'[o].owner # 0 => IsQueued(outbox'[o])
    BY DEF StoredOps
<1>3. CASE o \in put
    BY <1>3, NewRecordFields DEF Replaced, IsQueued
<1>4. CASE o \notin put /\ o \in dropped
    BY <1>4, NewRecordFields DEF Replaced
<1>5. CASE o \notin put /\ o \notin dropped
    BY <1>1, <1>2, <1>5 DEF Replaced, StoredOps
<1> QED
    BY <1>3, <1>4, <1>5

(* What a claim, a commit and a request rely on of the stored records,     *)
(* whatever requests there are: passes hold claims that are later than a   *)
(* lease, claimed records are queued, and queued operations are what the   *)
(* current version wants.                                                  *)
QueueInv == TypeOK /\ ClaimTimes /\ StoredOps /\ QueuedOpsWanted

LEMMA RequestStored ==
    ASSUME QueueInv, Request
    PROVE  StoredOps'
<1> USE DEF sourceVars, assocVars, passVars
<1>0. /\ TypeOK /\ StoredOps
      /\ cur \in Nat /\ nextSalt \in Nat /\ MaxSalt \in Nat
    BY ConstantsAssumption DEF ConstantsAssumption, QueueInv, TypeOK
<1>1. CASE PathDataWrite
    <2> DEFINE put == {Upsert(a, cur + 1) : a \in EnabledAssoc}
    <2>1. /\ outbox' = Replaced(put, StaleUpserts(cur + 1))
          /\ cur' = cur + 1 /\ nextSalt' = nextSalt
        BY <1>1 DEF PathDataWrite
    <2>2. \A o \in put : o.ver = cur + 1 /\ o.salt = 0
        BY DEF Upsert
    <2> HIDE DEF put
    <2> QED
        BY <1>0, <2>1, <2>2, ReplacedStored
<1>2. ASSUME NEW s, DeleteCurrent(s) PROVE StoredOps'
    <2> DEFINE put == {Delete(a, cur) : a \in EnabledAssoc \cap DeleteAssoc}
    <2>1. /\ outbox' = Replaced(put, UpsertsOfVersion(cur))
          /\ cur' = cur /\ nextSalt' = nextSalt
        BY <1>2 DEF DeleteCurrent
    <2>2. \A o \in put : o.ver = cur /\ o.salt = 0
        BY DEF Delete
    <2> HIDE DEF put
    <2> QED
        BY <1>0, <2>1, <2>2, ReplacedStored
<1>3. ASSUME NEW v, NEW s, SetVersion(v, s) PROVE StoredOps'
    BY <1>0, <1>3 DEF SetVersion, StoredOps
<1>4. ASSUME NEW v \in Versions, PathVersionDelete(v) \/ PathVersionDestroy(v)
       PROVE  StoredOps'
    BY <1>2, <1>3, <1>4 DEF PathVersionDelete, PathVersionDestroy
<1>5. PathDataDelete => StoredOps'
    BY <1>2 DEF PathDataDelete
<1>6. ASSUME NEW v \in Versions, PathVersionUndelete(v) PROVE StoredOps'
    <2>1. CASE UndeleteCurrent
        <3> DEFINE put == {Upsert(a, cur) : a \in EnabledAssoc}
        <3>1. /\ outbox' = Replaced(put, DeletesOfVersion(cur))
              /\ cur' = cur /\ nextSalt' = nextSalt
            BY <2>1 DEF UndeleteCurrent
        <3>2. \A o \in put : o.ver = cur /\ o.salt = 0
            BY DEF Upsert
        <3> HIDE DEF put
        <3> QED
            BY <1>0, <3>1, <3>2, ReplacedStored
    <2> QED
        BY <1>3, <1>6, <2>1 DEF PathVersionUndelete
<1>7. ASSUME NEW a \in Assoc, PathAssociationSync(a) PROVE StoredOps'
    BY <1>0, <1>7, ReplacedStored DEF PathAssociationSync, ManualUpsert, Upsert
<1>8. ASSUME NEW a \in Assoc, PathAssociationEnable(a) PROVE StoredOps'
    <2>1. Upsert(a, cur).ver = cur /\ Upsert(a, cur).salt = 0
        BY DEF Upsert
    <2>2. outbox'[Upsert(a, cur)].owner # 0 => IsQueued(outbox'[Upsert(a, cur)])
        BY <1>0, <1>8, UpsertType, NewRecordFields
        DEF PathAssociationEnable, ReEnqueued, IsQueued, NewRecord, Absent,
            TypeOK
    <2>3. \A o \in Ops : o # Upsert(a, cur) => outbox'[o] = outbox[o]
        BY <1>0, <1>8 DEF PathAssociationEnable, TypeOK
    <2>4. cur' = cur /\ nextSalt' = nextSalt
        BY <1>8 DEF PathAssociationEnable
    <2> QED
        BY <1>0, <2>1, <2>2, <2>3, <2>4 DEF StoredOps, IsQueued
<1>9. ASSUME NEW a \in Assoc, AssociationDisableCancel(a) PROVE StoredOps'
    BY <1>0, <1>9, ReplacedStored DEF AssociationDisableCancel
<1>10. ASSUME NEW o \in Ops, PathQueueOperationRetry(o) PROVE StoredOps'
    BY <1>0, <1>10
    DEF PathQueueOperationRetry, StoredOps, IsQueued, ClearClaim, TypeOK, Record
<1>11. ASSUME NEW o \in Ops, PathQueueOperationCancel(o) PROVE StoredOps'
    BY <1>0, <1>11, NewRecordFields
    DEF PathQueueOperationCancel, StoredOps, IsQueued, TypeOK
<1>12. CASE AssociationDisablePersist \/ PathConfigWrite
    BY <1>0, <1>12
    DEF AssociationDisablePersist, PathConfigWrite, StoredOps, IsQueued
<1> QED
    BY <1>1, <1>4, <1>5, <1>6, <1>7, <1>8, <1>9, <1>10, <1>11, <1>12
    DEF Request

LEMMA ReplacedQueued ==
    ASSUME NEW put, NEW dropped, outbox' = Replaced(put, dropped),
           NEW o \in Ops, IsQueued(outbox'[o])
    PROVE  o \in put \/ (o \notin put /\ o \notin dropped /\ IsQueued(outbox[o]))
<1>1. o \notin put /\ o \in dropped => outbox'[o] = Absent
    BY DEF Replaced
<1>2. o \notin put /\ o \notin dropped => outbox'[o] = outbox[o]
    BY DEF Replaced
<1> QED
    BY <1>1, <1>2, NewRecordFields DEF IsQueued

(* A request queues only what the current version wants, and drops what it *)
(* no longer wants, as long as no operator requeues operations by hand.    *)
LEMMA RequestWanted ==
    ASSUME QueueInv, Request
    PROVE  QueuedOpsWanted'
<1> SUFFICES ASSUME "retry" \notin UserOps, NEW o \in Ops, IsQueued(outbox'[o])
             PROVE  /\ enabled'[o.assoc] /\ o.assoc # disabling'
                    /\ o.ver = cur' =>
                           ((vstate'[cur'] = "live") = (o.kind = "upsert"))
    BY DEF QueuedOpsWanted
<1> DEFINE Wanted == /\ enabled'[o.assoc] /\ o.assoc # disabling'
                     /\ o.ver = cur' =>
                            ((vstate'[cur'] = "live") = (o.kind = "upsert"))
<1> USE DEF sourceVars, assocVars, passVars
<1>0. /\ TypeOK /\ StoredOps /\ QueuedOpsWanted
      /\ cur \in Nat /\ nextSalt \in Nat /\ MaxVersion \in Nat
      /\ o.ver \in Versions /\ o.ver \in Nat /\ o.assoc \in Assoc
      /\ o.assoc # None /\ o.kind \in {"upsert", "delete"}
    BY OpsTypes, ConstantsAssumption, NoneAssumption
    DEF ConstantsAssumption, NoneAssumption, QueueInv, TypeOK, Versions
<1>q. ASSUME IsQueued(outbox[o])
      PROVE  /\ enabled[o.assoc] /\ o.assoc # disabling /\ o.ver <= cur
             /\ o.ver = cur => ((vstate[cur] = "live") = (o.kind = "upsert"))
    BY <1>0, <1>q DEF QueuedOpsWanted, StoredOps, IsQueued
<1>1. CASE PathDataWrite
    <2>1. /\ outbox' = Replaced({Upsert(a, cur + 1) : a \in EnabledAssoc},
                                StaleUpserts(cur + 1))
          /\ cur' = cur + 1 /\ enabled' = enabled /\ disabling' = disabling
          /\ disabling = None
        BY <1>1 DEF PathDataWrite, SourceUnlocked
    <2>2. cur + 1 \in Versions /\ vstate'[cur + 1] = "live"
        BY <1>0, <1>1 DEF PathDataWrite, Versions, TypeOK
    <2>3. CASE o \in {Upsert(a, cur + 1) : a \in EnabledAssoc}
        <3>1. o.kind = "upsert" /\ o.assoc \in EnabledAssoc
            BY <2>3 DEF Upsert
        <3> QED
            BY <1>0, <2>1, <2>2, <3>1 DEF EnabledAssoc
    <2>4. CASE IsQueued(outbox[o])
        BY <1>0, <1>q, <2>1, <2>4
    <2> QED
        BY <2>1, <2>3, <2>4, ReplacedQueued
<1>2. ASSUME NEW v \in Versions, NEW s, s # "live", v = cur,
             SourceUnlocked, DeleteCurrent(s)
      PROVE  Wanted
    <2>1. /\ outbox' = Replaced({Delete(a, cur) : a \in EnabledAssoc \cap DeleteAssoc},
                                UpsertsOfVersion(cur))
          /\ cur' = cur /\ enabled' = enabled /\ disabling' = disabling
          /\ disabling = None /\ vstate'[cur] # "live"
        BY <1>0, <1>2 DEF DeleteCurrent, SourceUnlocked, TypeOK
    <2>2. CASE o \in {Delete(a, cur) : a \in EnabledAssoc \cap DeleteAssoc}
        <3>1. o.kind = "delete" /\ o.assoc \in EnabledAssoc
            BY <2>2 DEF Delete
        <3> QED
            BY <1>0, <2>1, <3>1 DEF EnabledAssoc
    <2>3. CASE o \notin UpsertsOfVersion(cur) /\ IsQueued(outbox[o])
        <3>1. o.ver = cur => o.kind # "upsert"
            BY <2>3 DEF UpsertsOfVersion, Queued
        <3> QED
            BY <1>0, <1>q, <2>1, <2>3, <3>1
    <2> QED
        BY <2>1, <2>2, <2>3, ReplacedQueued
<1>3. ASSUME NEW v \in Versions, NEW s, v # cur, SetVersion(v, s) PROVE Wanted
    <2>1. /\ UNCHANGED <<outbox, cur, enabled, disabling>>
          /\ cur \in Versions => vstate'[cur] = vstate[cur]
        BY <1>0, <1>3 DEF SetVersion, TypeOK
    <2> QED
        BY <1>0, <1>q, <2>1
<1>4. ASSUME NEW v \in Versions, PathVersionDelete(v) PROVE Wanted
    <2>1. SoftDeleted(vstate[v]) # "live"
        BY DEF SoftDeleted
    <2> QED
        BY <1>2, <1>3, <1>4, <2>1 DEF PathVersionDelete
<1>5. ASSUME NEW v \in Versions, PathVersionDestroy(v) PROVE Wanted
    <2>1. Destroyed(vstate[v]) # "live"
        BY DEF Destroyed
    <2> QED
        BY <1>2, <1>3, <1>5, <2>1 DEF PathVersionDestroy
<1>6. CASE PathDataDelete
    <2>1. cur \in Versions
        BY <1>0, <1>6 DEF PathDataDelete, Versions, TypeOK
    <2> QED
        BY <1>2, <1>6, <2>1 DEF PathDataDelete
<1>7. ASSUME NEW v \in Versions, PathVersionUndelete(v) PROVE Wanted
    <2>1. CASE v = cur /\ vstate[v] = "deleted"
        <3>1. /\ outbox' = Replaced({Upsert(a, cur) : a \in EnabledAssoc},
                                    DeletesOfVersion(cur))
              /\ cur' = cur /\ enabled' = enabled /\ disabling' = disabling
              /\ disabling = None /\ vstate'[cur] = "live"
            BY <1>0, <1>7, <2>1
            DEF PathVersionUndelete, UndeleteCurrent, SourceUnlocked, TypeOK
        <3>2. CASE o \in {Upsert(a, cur) : a \in EnabledAssoc}
            <4>1. o.kind = "upsert" /\ o.assoc \in EnabledAssoc
                BY <3>2 DEF Upsert
            <4> QED
                BY <1>0, <3>1, <4>1 DEF EnabledAssoc
        <3>3. CASE o \notin DeletesOfVersion(cur) /\ IsQueued(outbox[o])
            <4>1. o.ver # cur
                BY <1>0, <1>q, <2>1, <3>3 DEF DeletesOfVersion, Queued
            <4> QED
                BY <1>q, <3>1, <3>3, <4>1
        <3> QED
            BY <3>1, <3>2, <3>3, ReplacedQueued
    <2>2. CASE ~(v = cur /\ vstate[v] = "deleted")
        <3>1. /\ UNCHANGED <<outbox, cur, enabled, disabling>>
              /\ vstate' = [vstate EXCEPT ![v] = Undeleted(vstate[v])]
            BY <1>7, <2>2 DEF PathVersionUndelete, SetVersion
        <3>2. cur \in Versions => vstate'[cur] = vstate[cur]
            BY <1>0, <2>2, <3>1 DEF Undeleted, TypeOK
        <3> QED
            BY <1>0, <1>q, <3>1, <3>2
    <2> QED
        BY <2>1, <2>2
<1>8. ASSUME NEW a \in Assoc, PathAssociationSync(a) PROVE Wanted
    <2>1. /\ outbox' = Replaced({ManualUpsert(a, cur, nextSalt + 1)}, {})
          /\ UNCHANGED <<cur, vstate, enabled, disabling>>
          /\ disabling = None /\ vstate[cur] = "live" /\ enabled[a]
        BY <1>8 DEF PathAssociationSync, SourceUnlocked
    <2>2. CASE o = ManualUpsert(a, cur, nextSalt + 1)
        <3>1. o.kind = "upsert" /\ o.assoc = a
            BY <2>2 DEF ManualUpsert, Upsert
        <3> QED
            BY <1>0, <2>1, <3>1
    <2>3. CASE IsQueued(outbox[o])
        BY <1>q, <2>1, <2>3
    <2> QED
        BY <2>1, <2>2, <2>3, ReplacedQueued
<1>9. ASSUME NEW a \in Assoc, PathAssociationEnable(a) PROVE Wanted
    <2>1. /\ outbox' = [outbox EXCEPT ![Upsert(a, cur)] = ReEnqueued(Upsert(a, cur))]
          /\ UNCHANGED <<cur, vstate, disabling>>
          /\ enabled' = [enabled EXCEPT ![a] = TRUE]
          /\ disabling = None /\ vstate[cur] = "live"
        BY <1>9 DEF PathAssociationEnable, SourceUnlocked
    <2>2. CASE o = Upsert(a, cur)
        <3>1. o.kind = "upsert" /\ o.assoc = a
            BY <2>2 DEF Upsert
        <3> QED
            BY <1>0, <2>1, <3>1 DEF TypeOK
    <2>3. CASE o # Upsert(a, cur)
        <3>1. IsQueued(outbox[o])
            BY <1>0, <2>1, <2>3 DEF TypeOK
        <3> QED
            BY <1>0, <1>q, <2>1, <3>1 DEF TypeOK
    <2> QED
        BY <2>2, <2>3
<1>10. ASSUME NEW a \in Assoc, AssociationDisableCancel(a) PROVE Wanted
    <2> DEFINE mine == {p \in Queued : p.assoc = a}
    <2>1. UNCHANGED <<cur, vstate, enabled>>
        BY <1>10 DEF AssociationDisableCancel
    <2>2. CASE outbox' = Replaced({}, mine) /\ disabling' = a
        <3>1. o \notin mine /\ IsQueued(outbox[o])
            BY <2>2, ReplacedQueued
        <3>2. o.assoc # a
            BY <3>1 DEF Queued
        <3> QED
            BY <1>q, <2>1, <2>2, <3>1, <3>2
    <2>3. ASSUME NEW dropped, outbox' = Replaced({}, dropped),
                 disabling' = disabling
          PROVE  Wanted
        <3>1. IsQueued(outbox[o])
            BY <2>3, ReplacedQueued
        <3> QED
            BY <1>q, <2>1, <2>3, <3>1
    <2> QED
        BY <1>10, <2>2, <2>3 DEF AssociationDisableCancel
<1>11. CASE AssociationDisablePersist
    <2>1. /\ UNCHANGED <<outbox, cur, vstate>> /\ disabling' = None
          /\ enabled' = [enabled EXCEPT ![disabling] = FALSE]
        BY <1>11 DEF AssociationDisablePersist
    <2>2. enabled[o.assoc] /\ o.assoc # disabling
        BY <1>q, <2>1
    <2>3. enabled'[o.assoc]
        BY <1>0, <2>1, <2>2 DEF TypeOK
    <2> QED
        BY <1>0, <1>q, <2>1, <2>3
<1>12. ASSUME NEW p \in Ops, PathQueueOperationCancel(p) PROVE Wanted
    <2>1. /\ outbox' = [outbox EXCEPT ![p] = Absent]
          /\ UNCHANGED <<cur, vstate, enabled, disabling>>
        BY <1>12 DEF PathQueueOperationCancel
    <2>2. IsQueued(outbox[o])
        BY <1>0, <2>1, NewRecordFields DEF TypeOK, IsQueued
    <2> QED
        BY <1>q, <2>1, <2>2
<1>13. CASE PathConfigWrite
    BY <1>13, <1>q DEF PathConfigWrite
<1> QED
    BY <1>1, <1>4, <1>5, <1>6, <1>7, <1>8, <1>9, <1>10, <1>11, <1>12, <1>13
    DEF Request

LEMMA QueueInvTypes == QueueInv => TypeInv
BY DEF QueueInv, TypeInv, ClaimTimes

LEMMA RequestQueueInv ==
    ASSUME QueueInv, Request
    PROVE  QueueInv'
<1>1. TypeOK'
    BY QueueInvTypes, TypeRequest DEF TypeInv
<1>2. UNCHANGED <<pc, op, rec>> /\ cur' >= cur /\ nextSalt' >= nextSalt
    BY RequestFrame DEF QueueInv
<1>3. ClaimTimes'
    <2>1. /\ cur \in Nat /\ cur' \in Nat /\ nextSalt \in Nat /\ nextSalt' \in Nat
          /\ \A o \in Ops : o.ver \in Nat /\ o.salt \in Nat
        BY <1>1, OpsTypes, ConstantsAssumption
        DEF ConstantsAssumption, QueueInv, TypeOK
    <2> QED
        BY <1>2, <2>1 DEF QueueInv, ClaimTimes, InFlight
<1> QED
    BY <1>1, <1>3, RequestStored, RequestWanted DEF QueueInv

(* Steps that leave the stored records alone and start no dispatch. *)
LEMMA QuietStepQueueInv ==
    ASSUME QueueInv, TypeOK',
           UNCHANGED <<cur, vstate, enabled, nextSalt, outbox>>,
           disabling' \in {disabling, None},
           \A x \in Worker : InFlight(x)' =>
               InFlight(x) /\ op'[x] = op[x] /\ rec'[x] = rec[x]
    PROVE  QueueInv'
<1>1. ClaimTimes'
    BY DEF QueueInv, ClaimTimes
<1>2. StoredOps'
    BY DEF QueueInv, StoredOps, IsQueued
<1>3. \A o \in Ops : o.assoc # None
    BY OpsTypes, NoneAssumption DEF NoneAssumption
<1>4. QueuedOpsWanted'
    BY <1>3 DEF QueueInv, QueuedOpsWanted, IsQueued
<1> QED
    BY <1>1, <1>2, <1>4 DEF QueueInv

LEMMA ClaimQueueInv ==
    ASSUME QueueInv, TypeOK', NEW w \in Worker, NEW o \in Ops,
           ClaimOutboxRecord(w, o)
    PROVE  QueueInv'
<1> USE DEF sourceVars, assocVars
<1> DEFINE c == ClaimedRecord(outbox[o])
<1>0. /\ now \in Nat /\ proc \in Nat /\ proc # 0 /\ Lease \in Nat /\ Lease # 0
      /\ outbox[o] \in Record
    BY ConstantsAssumption DEF ConstantsAssumption, QueueInv, TypeOK, Record
<1>1. c.state = outbox[o].state /\ c.owner = proc /\ c.expires = now + Lease
    BY <1>0 DEF ClaimedRecord, Record
<1>2. /\ outbox' = [outbox EXCEPT ![o] = c]
      /\ op' = [op EXCEPT ![w] = o] /\ rec' = [rec EXCEPT ![w] = c]
      /\ UNCHANGED <<cur, vstate, enabled, disabling, nextSalt>>
      /\ \A x \in Worker \ {w} : pc'[x] = pc[x]
    BY DEF ClaimOutboxRecord, QueueInv, TypeOK
<1> HIDE DEF c
<1>3. /\ outbox'[o] = c /\ op'[w] = o /\ rec'[w] = c
      /\ \A p \in Ops \ {o} : outbox'[p] = outbox[p]
      /\ \A x \in Worker \ {w} :
             op'[x] = op[x] /\ rec'[x] = rec[x] /\ (InFlight(x)' = InFlight(x))
    BY <1>2 DEF QueueInv, TypeOK, InFlight
<1>4. IsQueued(outbox[o])
    BY DEF ClaimOutboxRecord, Claimable
<1>5. o.ver <= cur /\ o.salt <= nextSalt
    BY <1>4 DEF QueueInv, StoredOps, IsQueued
<1>6. ClaimTimes'
    BY <1>0, <1>1, <1>2, <1>3, <1>5 DEF QueueInv, ClaimTimes
<1>7. StoredOps'
    BY <1>1, <1>2, <1>3, <1>4, <1>5 DEF QueueInv, StoredOps, IsQueued
<1>8. QueuedOpsWanted'
    BY <1>1, <1>2, <1>3, <1>4 DEF QueueInv, QueuedOpsWanted, IsQueued
<1> QED
    BY <1>6, <1>7, <1>8 DEF QueueInv

(* A commit writes over a record that is queued. *)
LEMMA CommitQueueInv ==
    ASSUME QueueInv, TypeOK', NEW w \in Worker, InFlight(w), NEW r, NEW st,
           r.owner = 0, CommitIfClaimHeld(w, r, st)
    PROVE  QueueInv'
<1> USE DEF sourceVars, assocVars
<1>1. /\ UNCHANGED <<cur, vstate, enabled, disabling, nextSalt>>
      /\ \A x \in Worker : InFlight(x)' =>
             x # w /\ InFlight(x) /\ op'[x] = op[x] /\ rec'[x] = rec[x]
    BY DEF CommitIfClaimHeld, Idle, InFlight, QueueInv, TypeOK
<1>2. op[w] \in Ops
    BY DEF QueueInv, TypeOK
<1>3. CASE ~ClaimMatches(w)
    BY <1>1, <1>3, QuietStepQueueInv DEF CommitIfClaimHeld
<1>4. CASE ClaimMatches(w)
    <2>1. /\ outbox'[op[w]] = r
          /\ \A p \in Ops \ {op[w]} : outbox'[p] = outbox[p]
        BY <1>2, <1>4 DEF CommitIfClaimHeld, QueueInv, TypeOK
    <2>2. IsQueued(outbox[op[w]])
        BY <1>2, <1>4 DEF ClaimMatches, QueueInv, ClaimTimes, StoredOps
    <2>3. ClaimTimes'
        BY <1>1 DEF QueueInv, ClaimTimes
    <2>4. StoredOps'
        BY <1>1, <2>1, <2>2 DEF QueueInv, StoredOps, IsQueued
    <2>5. QueuedOpsWanted'
        BY <1>1, <2>1, <2>2 DEF QueueInv, QueuedOpsWanted, IsQueued
    <2> QED
        BY <2>3, <2>4, <2>5 DEF QueueInv
<1> QED
    BY <1>3, <1>4

LEMMA PassQueueInv ==
    ASSUME QueueInv, NEW w \in Worker, Pass(w)
    PROVE  QueueInv'
<1> USE DEF sourceVars, assocVars
<1>0. TypeOK'
    BY QueueInvTypes, TypePass DEF TypeInv
<1>1. ASSUME NEW s, InFlight(w), GoTo(w, s) PROVE QueueInv'
    <2>1. \A x \in Worker : InFlight(x)' =>
              InFlight(x) /\ op'[x] = op[x] /\ rec'[x] = rec[x]
        BY <1>1 DEF GoTo, InFlight, QueueInv, TypeOK
    <2> QED
        BY <1>0, <1>1, <2>1, QuietStepQueueInv DEF GoTo
<1>2. ASSUME NEW class, InFlight(w), Fail(w, class) PROVE QueueInv'
    BY <1>1, <1>2 DEF Fail
<1>3. CASE CheckStale(w)
    BY <1>1, <1>3 DEF CheckStale, InFlight
<1>4. CASE LoadVersion(w)
    BY <1>1, <1>2, <1>4 DEF LoadVersion, InFlight
<1>5. CASE LoadTarget(w)
    BY <1>1, <1>2, <1>5 DEF LoadTarget, InFlight
<1>6. CASE ProviderGet(w)
    BY <1>1, <1>2, <1>6 DEF ProviderGet, InFlight
<1>7. CASE ProviderPut(w)
    BY <1>1, <1>2, <1>7 DEF ProviderPut, InFlight
<1>8. ASSUME NEW class, ProviderError(w, class) PROVE QueueInv'
    BY <1>2, <1>8 DEF ProviderError, InFlight
<1>9. CASE CommitCancel(w) \/ CommitSuccess(w)
    BY <1>0, <1>9, CommitQueueInv, NewRecordFields
    DEF CommitCancel, CommitSuccess, InFlight
<1>10. CASE CommitFailure(w)
    <2>1. rec[w] \in Record
        BY DEF QueueInv, TypeOK
    <2>2. ClearClaim(rec[w]) \in Record /\ ClearClaim(rec[w]).owner = 0
        BY <2>1, ClearClaimType DEF ClearClaim, Record
    <2>3. FailedRecord(rec[w], res[w]).owner = 0
        BY <2>2 DEF FailedRecord, Record
    <2> QED
        BY <1>0, <1>10, <2>3, CommitQueueInv DEF CommitFailure, InFlight
<1>11. CASE Abandon(w)
    <2>1. \A x \in Worker : InFlight(x)' =>
              InFlight(x) /\ op'[x] = op[x] /\ rec'[x] = rec[x]
        BY <1>11 DEF Abandon, Idle, InFlight, QueueInv, TypeOK
    <2> QED
        BY <1>0, <1>11, <2>1, QuietStepQueueInv DEF Abandon
<1> QED
    BY <1>0, <1>3, <1>4, <1>5, <1>6, <1>7, <1>8, <1>9, <1>10, <1>11,
       ClaimQueueInv
    DEF Pass

LEMMA QueueInit == Init => QueueInv
<1> SUFFICES ASSUME Init PROVE QueueInv
    OBVIOUS
<1>1. \A w \in Worker : ~InFlight(w)
    BY DEF Init, InFlight
<1>2. \A o \in Ops : outbox[o].state = "absent" /\ outbox[o].owner = 0
    BY NewRecordFields DEF Init
<1> QED
    BY <1>1, <1>2, TypeInit
    DEF TypeInv, QueueInv, ClaimTimes, StoredOps, QueuedOpsWanted, IsQueued

LEMMA QueueStep ==
    ASSUME QueueInv, [Next]_vars
    PROVE  QueueInv'
<1>0. TypeOK'
    BY QueueInvTypes, TypeStep DEF TypeInv
<1>1. CASE Request
    BY <1>1, RequestQueueInv
<1>2. ASSUME NEW w \in Worker, Pass(w) PROVE QueueInv'
    BY <1>2, PassQueueInv
<1>3. CASE Restart
    <2>1. \A x \in Worker : ~InFlight(x)'
        BY <1>3 DEF Restart, InFlight
    <2> QED
        BY <1>0, <1>3, <2>1, QuietStepQueueInv DEF Restart, sourceVars
<1>4. CASE Tick \/ UNCHANGED vars
    <2>1. UNCHANGED <<cur, vstate, enabled, disabling, nextSalt, outbox, pc, op, rec>>
        BY <1>4 DEF Tick, vars, sourceVars, assocVars, passVars
    <2> QED
        BY <1>0, <2>1, QuietStepQueueInv DEF InFlight
<1> QED
    BY <1>1, <1>2, <1>3, <1>4 DEF Next

(* ClaimInv is QueueInv and the two claim properties. *)
LEMMA ClaimInvParts == ClaimInv <=> QueueInv /\ ExpiriesDiffer /\ ClaimIntact
BY DEF ClaimInv, QueueInv

LEMMA ClaimInvTypes == ClaimInv => TypeInv
BY DEF ClaimInv, TypeInv, ClaimTimes

(* A pass within its lease has an active claim on the stored record. *)
LEMMA IntactIsActive ==
    ASSUME ClaimInv, NEW w \in Worker, InFlight(w), rec[w].expires > now
    PROVE  IsClaimActive(outbox[op[w]]) /\ op[w] \in Ops
BY DEF ClaimInv, ClaimTimes, ClaimIntact, ClaimMatches, IsClaimActive

LEMMA RequestClaimInv ==
    ASSUME ClaimInv, ClaimSafeOps, Request
    PROVE  ClaimInv'
<1>1. QueueInv'
    BY ClaimInvParts, RequestQueueInv
<1>2. UNCHANGED <<pc, op, rec, now>>
    BY RequestFrame DEF ClaimInv
<1>3. ExpiriesDiffer'
    BY <1>2 DEF ClaimInv, ExpiriesDiffer, InFlight
<1>4. ClaimIntact'
    <2> SUFFICES ASSUME NEW w \in Worker, InFlight(w), rec[w].expires > now
                 PROVE  ClaimMatches(w)'
        BY <1>2 DEF ClaimIntact, InFlight
    <2>1. outbox'[op[w]] = outbox[op[w]]
        BY IntactIsActive, RequestKeepsClaims
    <2>2. ClaimMatches(w)
        BY DEF ClaimInv, ClaimIntact
    <2> QED
        BY <1>2, <2>1, <2>2 DEF ClaimMatches
<1> QED
    BY <1>1, <1>3, <1>4 DEF ClaimInv, QueueInv

(* Steps that leave the stored records alone and start no dispatch. *)
LEMMA QuietStepClaimInv ==
    ASSUME ClaimInv, QueueInv',
           UNCHANGED outbox, now' >= now,
           \A x \in Worker : InFlight(x)' =>
               InFlight(x) /\ op'[x] = op[x] /\ rec'[x] = rec[x]
    PROVE  ClaimInv'
<1>1. ExpiriesDiffer'
    BY DEF ClaimInv, ExpiriesDiffer
<1>2. ClaimIntact'
    <2> SUFFICES ASSUME NEW w \in Worker, InFlight(w)', rec'[w].expires > now'
                 PROVE  ClaimMatches(w)'
        BY DEF ClaimIntact
    <2>1. now \in Nat /\ now' \in Nat /\ rec[w].expires \in Nat
        BY ConstantsAssumption
        DEF ConstantsAssumption, ClaimInv, QueueInv, TypeOK, Record
    <2>2. InFlight(w) /\ rec[w].expires > now
        BY <2>1
    <2> QED
        BY <2>2 DEF ClaimInv, ClaimIntact, ClaimMatches
<1> QED
    BY <1>1, <1>2 DEF ClaimInv, QueueInv

(* A claim takes a record no other pass within its lease is dispatching.   *)
LEMMA ClaimClaimInv ==
    ASSUME ClaimInv, QueueInv', NEW w \in Worker, NEW o \in Ops,
           ClaimOutboxRecord(w, o)
    PROVE  ClaimInv'
<1> USE DEF sourceVars, assocVars
<1> DEFINE c == ClaimedRecord(outbox[o])
<1>0. /\ now \in Nat /\ Lease \in Nat /\ Lease # 0
      /\ outbox[o] \in Record
      /\ \A x \in Worker : rec[x].expires \in Nat
    BY ConstantsAssumption DEF ConstantsAssumption, ClaimInv, TypeOK, Record
<1>1. c.state = outbox[o].state /\ c.expires = now + Lease
    BY <1>0 DEF ClaimedRecord, Record
<1>2. /\ outbox' = [outbox EXCEPT ![o] = c]
      /\ op' = [op EXCEPT ![w] = o] /\ rec' = [rec EXCEPT ![w] = c]
      /\ UNCHANGED now
      /\ \A x \in Worker \ {w} : pc'[x] = pc[x]
    BY DEF ClaimOutboxRecord, ClaimInv, TypeOK
<1> HIDE DEF c
<1>3. /\ outbox'[o] = c /\ op'[w] = o /\ rec'[w] = c
      /\ \A p \in Ops \ {o} : outbox'[p] = outbox[p]
      /\ \A x \in Worker \ {w} :
             op'[x] = op[x] /\ rec'[x] = rec[x] /\ (InFlight(x)' = InFlight(x))
    BY <1>2 DEF ClaimInv, TypeOK, InFlight
<1>4. IsQueued(outbox[o]) /\ ~IsClaimActive(outbox[o])
    BY DEF ClaimOutboxRecord, Claimable
<1>5. \A x \in Worker : InFlight(x) /\ op[x] = o => rec[x].expires <= now
    BY <1>0, <1>4, IntactIsActive
<1>6. ExpiriesDiffer'
    <2> SUFFICES ASSUME NEW x \in Worker, NEW y \in Worker, x # y,
                        InFlight(x)', InFlight(y)', op'[x] = op'[y]
                 PROVE  rec'[x].expires # rec'[y].expires
        BY DEF ExpiriesDiffer
    <2>1. CASE x = w
        BY <1>0, <1>1, <1>3, <1>5, <2>1
    <2>2. CASE y = w
        BY <1>0, <1>1, <1>3, <1>5, <2>2
    <2>3. CASE x # w /\ y # w
        BY <1>3, <2>3 DEF ClaimInv, ExpiriesDiffer
    <2> QED
        BY <2>1, <2>2, <2>3
<1>7. ClaimIntact'
    <2> SUFFICES ASSUME NEW x \in Worker, InFlight(x)', rec'[x].expires > now'
                 PROVE  ClaimMatches(x)'
        BY DEF ClaimIntact
    <2>1. CASE x = w
        BY <1>1, <1>3, <1>4, <2>1 DEF ClaimMatches, IsQueued
    <2>2. CASE x # w
        <3>1. InFlight(x) /\ rec[x].expires > now /\ op[x] \in Ops
            BY <1>2, <1>3, <2>2 DEF ClaimInv, ClaimTimes
        <3>2. op[x] # o /\ ClaimMatches(x)
            BY <1>0, <1>5, <3>1 DEF ClaimInv, ClaimIntact
        <3>3. outbox'[op[x]] = outbox[op[x]] /\ op'[x] = op[x] /\ rec'[x] = rec[x]
            BY <1>3, <2>2, <3>1, <3>2
        <3> QED
            BY <3>2, <3>3 DEF ClaimMatches
    <2> QED
        BY <2>1, <2>2
<1> QED
    BY <1>6, <1>7 DEF ClaimInv, QueueInv

(* A commit changes the record only under the pass's own claim, and no     *)
(* other pass can have the same one.                                       *)
LEMMA CommitClaimInv ==
    ASSUME ClaimInv, QueueInv', NEW w \in Worker, InFlight(w), NEW r, NEW st,
           CommitIfClaimHeld(w, r, st)
    PROVE  ClaimInv'
<1>1. /\ UNCHANGED now
      /\ \A x \in Worker : InFlight(x)' =>
             x # w /\ InFlight(x) /\ op'[x] = op[x] /\ rec'[x] = rec[x]
    BY DEF CommitIfClaimHeld, Idle, InFlight, ClaimInv, TypeOK
<1>2. now \in Nat /\ op[w] \in Ops
    BY ConstantsAssumption DEF ConstantsAssumption, ClaimInv, TypeOK
<1>3. CASE ~ClaimMatches(w)
    BY <1>1, <1>2, <1>3, QuietStepClaimInv DEF CommitIfClaimHeld
<1>4. CASE ClaimMatches(w)
    <2>1. \A p \in Ops \ {op[w]} : outbox'[p] = outbox[p]
        BY <1>2, <1>4 DEF CommitIfClaimHeld, ClaimInv, TypeOK
    <2>2. ExpiriesDiffer'
        BY <1>1 DEF ClaimInv, ExpiriesDiffer
    <2>3. ClaimIntact'
        <3> SUFFICES ASSUME NEW x \in Worker, InFlight(x)', rec'[x].expires > now'
                     PROVE  ClaimMatches(x)'
            BY DEF ClaimIntact
        <3>1. /\ x # w /\ InFlight(x) /\ op'[x] = op[x] /\ rec'[x] = rec[x]
              /\ ClaimMatches(x) /\ op[x] \in Ops
            BY <1>1 DEF ClaimInv, ClaimIntact, ClaimTimes
        <3>2. op[x] # op[w]
            BY <1>4, <3>1 DEF ClaimInv, ExpiriesDiffer, ClaimMatches
        <3> QED
            BY <2>1, <3>1, <3>2 DEF ClaimMatches
    <2> QED
        BY <2>2, <2>3 DEF ClaimInv, QueueInv
<1> QED
    BY <1>3, <1>4

LEMMA PassClaimInv ==
    ASSUME ClaimInv, NEW w \in Worker, Pass(w)
    PROVE  ClaimInv'
<1>0. QueueInv' /\ now \in Nat
    BY ClaimInvParts, PassQueueInv, ConstantsAssumption
    DEF ConstantsAssumption, ClaimInv, TypeOK
<1>1. ASSUME NEW s, InFlight(w), GoTo(w, s) PROVE ClaimInv'
    <2>1. \A x \in Worker : InFlight(x)' =>
              InFlight(x) /\ op'[x] = op[x] /\ rec'[x] = rec[x]
        BY <1>1 DEF GoTo, InFlight, ClaimInv, TypeOK
    <2> QED
        BY <1>0, <1>1, <2>1, QuietStepClaimInv DEF GoTo
<1>2. ASSUME NEW class, InFlight(w), Fail(w, class) PROVE ClaimInv'
    BY <1>1, <1>2 DEF Fail
<1>3. CASE CheckStale(w)
    BY <1>1, <1>3 DEF CheckStale, InFlight
<1>4. CASE LoadVersion(w)
    BY <1>1, <1>2, <1>4 DEF LoadVersion, InFlight
<1>5. CASE LoadTarget(w)
    BY <1>1, <1>2, <1>5 DEF LoadTarget, InFlight
<1>6. CASE ProviderGet(w)
    BY <1>1, <1>2, <1>6 DEF ProviderGet, InFlight
<1>7. CASE ProviderPut(w)
    BY <1>1, <1>2, <1>7 DEF ProviderPut, InFlight
<1>8. ASSUME NEW class, ProviderError(w, class) PROVE ClaimInv'
    BY <1>2, <1>8 DEF ProviderError, InFlight
<1>9. CASE CommitCancel(w) \/ CommitSuccess(w) \/ CommitFailure(w)
    BY <1>0, <1>9, CommitClaimInv
    DEF CommitCancel, CommitSuccess, CommitFailure, InFlight
<1>10. CASE Abandon(w)
    <2>1. \A x \in Worker : InFlight(x)' =>
              InFlight(x) /\ op'[x] = op[x] /\ rec'[x] = rec[x]
        BY <1>10 DEF Abandon, Idle, InFlight, ClaimInv, TypeOK
    <2> QED
        BY <1>0, <1>10, <2>1, QuietStepClaimInv DEF Abandon
<1> QED
    BY <1>0, <1>3, <1>4, <1>5, <1>6, <1>7, <1>8, <1>9, <1>10, ClaimClaimInv
    DEF Pass

LEMMA ClaimInit == Init => ClaimInv
<1> SUFFICES ASSUME Init PROVE ClaimInv
    OBVIOUS
<1>1. \A w \in Worker : ~InFlight(w)
    BY DEF Init, InFlight
<1> QED
    BY <1>1, QueueInit, ClaimInvParts DEF ExpiriesDiffer, ClaimIntact

LEMMA ClaimStep ==
    ASSUME ClaimInv, ClaimSafeOps, [Next]_vars
    PROVE  ClaimInv'
<1>0. QueueInv' /\ now \in Nat /\ now' \in Nat
    BY ClaimInvParts, QueueStep, ConstantsAssumption
    DEF ConstantsAssumption, QueueInv, TypeOK
<1>1. CASE Request
    BY <1>1, RequestClaimInv
<1>2. ASSUME NEW w \in Worker, Pass(w) PROVE ClaimInv'
    BY <1>2, PassClaimInv
<1>3. CASE Restart
    <2>1. \A x \in Worker : ~InFlight(x)'
        BY <1>3 DEF Restart, InFlight
    <2> QED
        BY <1>0, <1>3, <2>1, QuietStepClaimInv DEF Restart, sourceVars
<1>4. CASE Tick \/ UNCHANGED vars
    <2>1. UNCHANGED <<outbox, pc, op, rec>> /\ now' >= now
        BY <1>0, <1>4 DEF Tick, vars, sourceVars, assocVars, passVars
    <2> QED
        BY <1>0, <2>1, QuietStepClaimInv DEF InFlight
<1> QED
    BY <1>1, <1>2, <1>3, <1>4 DEF Next

(* The claim of a pass within its lease stays on the stored record         *)
(* (claimOutboxRecord, commitIfOutboxClaimHeld) whatever requests, other   *)
(* passes, crashes and clock ticks come between, for the request handlers  *)
(* of ClaimSafeOps.                                                        *)
THEOREM ClaimsStayIntact == ClaimSafeOps /\ Spec => []ClaimIntact
<1>1. ClaimSafeOps /\ ClaimInv /\ [Next]_vars => ClaimInv'
    BY ClaimStep
<1>2. ClaimInv => ClaimIntact
    BY DEF ClaimInv
<1>3. CASE ClaimSafeOps
    <2>1. ClaimInv /\ [Next]_vars => ClaimInv'
        BY <1>1, <1>3
    <2> QED
        BY <1>2, <2>1, ClaimInit, PTL DEF Spec
<1> QED
    BY <1>3

(* Of two passes dispatching one operation at most one can commit          *)
(* (outboxClaimMatches): expired claims and records created again under    *)
(* the same id included.                                                   *)
THEOREM AtMostOneCommits == ClaimSafeOps /\ Spec => []OneCommitter
<1>1. ClaimSafeOps /\ ClaimInv /\ [Next]_vars => ClaimInv'
    BY ClaimStep
<1>2. ClaimInv => OneCommitter
    BY DEF ClaimInv, ExpiriesDiffer, OneCommitter, ClaimMatches
<1>3. CASE ClaimSafeOps
    <2>1. ClaimInv /\ [Next]_vars => ClaimInv'
        BY <1>1, <1>3
    <2> QED
        BY <1>2, <2>1, ClaimInit, PTL DEF Spec
<1> QED
    BY <1>3

-----------------------------------------------------------------------------
(* Status records and remote objects never go back *)

StatusForward == \A a \in Assoc : status'[a].ver >= status[a].ver

LEMMA PutStatusForward ==
    ASSUME TypeOK, NEW b \in Assoc, NEW v \in 0..MaxVersion, NEW s,
           status' = PutStatus(b, v, s)
    PROVE  StatusForward
<1>1. \A a \in Assoc : status[a].ver \in Nat
    BY ConstantsAssumption DEF ConstantsAssumption, TypeOK
<1>2. CASE v < status[b].ver
    BY <1>1, <1>2 DEF PutStatus, StatusForward
<1>3. CASE ~(v < status[b].ver)
    <2>1. status' = [status EXCEPT ![b] = [ver |-> v, state |-> s]]
        BY <1>3 DEF PutStatus
    <2>2. v \in Nat /\ v >= status[b].ver
        BY <1>1, <1>3, ConstantsAssumption DEF ConstantsAssumption
    <2> QED
        BY <1>1, <2>1, <2>2 DEF StatusForward, TypeOK
<1> QED
    BY <1>2, <1>3

LEMMA StatusStep ==
    ASSUME TypeOK, Next
    PROVE  StatusForward
<1> USE DEF sourceVars, assocVars, passVars
<1>0. ASSUME UNCHANGED status PROVE StatusForward
    <2>1. \A a \in Assoc : status[a].ver \in Nat
        BY ConstantsAssumption DEF ConstantsAssumption, TypeOK
    <2> QED
        BY <1>0, <2>1 DEF StatusForward
<1>1. CASE Request
    <2>1. CASE AssociationDisablePersist
        BY <2>1, PutStatusForward DEF AssociationDisablePersist, TypeOK
    <2>2. ASSUME NEW s, DeleteCurrent(s) PROVE UNCHANGED status
        BY <2>2 DEF DeleteCurrent
    <2>3. ASSUME NEW v, NEW s, SetVersion(v, s) PROVE UNCHANGED status
        BY <2>3 DEF SetVersion
    <2>4. PathDataWrite \/ PathDataDelete => UNCHANGED status
        BY <2>2 DEF PathDataWrite, PathDataDelete
    <2>5. ASSUME NEW v, PathVersionDelete(v) \/ PathVersionDestroy(v)
          PROVE  UNCHANGED status
        BY <2>2, <2>3, <2>5 DEF PathVersionDelete, PathVersionDestroy
    <2>6. ASSUME NEW v, PathVersionUndelete(v) PROVE UNCHANGED status
        BY <2>3, <2>6 DEF PathVersionUndelete, UndeleteCurrent
    <2>7. ASSUME NEW a, \/ PathAssociationSync(a) \/ PathAssociationEnable(a)
                        \/ AssociationDisableCancel(a)
          PROVE  UNCHANGED status
        BY <2>7 DEF PathAssociationSync, PathAssociationEnable,
                    AssociationDisableCancel
    <2>8. ASSUME NEW o, PathQueueOperationRetry(o) \/ PathQueueOperationCancel(o)
          PROVE  UNCHANGED status
        BY <2>8 DEF PathQueueOperationRetry, PathQueueOperationCancel
    <2>9. PathConfigWrite => UNCHANGED status
        BY DEF PathConfigWrite
    <2> QED
        BY <1>0, <1>1, <2>1, <2>4, <2>5, <2>6, <2>7, <2>8, <2>9 DEF Request
<1>2. ASSUME NEW w \in Worker, Pass(w) PROVE StatusForward
    <2>1. ASSUME InFlight(w), NEW s, NEW r,
                 CommitIfClaimHeld(w, r, PutStatus(op[w].assoc, op[w].ver, s))
          PROVE  StatusForward
        <3>1. op[w].assoc \in Assoc /\ op[w].ver \in 0..MaxVersion
            BY <2>1, OpsTypes, ConstantsAssumption DEF ConstantsAssumption, TypeOK
        <3> QED
            BY <1>0, <2>1, <3>1, PutStatusForward DEF CommitIfClaimHeld
    <2>2. CommitSuccess(w) => StatusForward
        BY <2>1 DEF CommitSuccess, InFlight
    <2>3. CommitFailure(w) => StatusForward
        BY <2>1 DEF CommitFailure, InFlight
    <2>4. CommitCancel(w) => UNCHANGED status
        BY DEF CommitCancel, CommitIfClaimHeld
    <2>5. ASSUME NEW s, GoTo(w, s) PROVE UNCHANGED status
        BY <2>5 DEF GoTo
    <2>6. ASSUME NEW class, Fail(w, class) PROVE UNCHANGED status
        BY <2>5, <2>6 DEF Fail
    <2>7. \/ CheckStale(w) \/ LoadVersion(w) \/ LoadTarget(w)
          => UNCHANGED status
        BY <2>5, <2>6 DEF CheckStale, LoadVersion, LoadTarget
    <2>8. ProviderGet(w) => UNCHANGED status
        BY <2>5, <2>6 DEF ProviderGet
    <2>9. ProviderPut(w) => UNCHANGED status
        BY <2>5, <2>6 DEF ProviderPut
    <2>10. ASSUME NEW class, ProviderError(w, class) PROVE UNCHANGED status
        BY <2>6, <2>10 DEF ProviderError
    <2>11. ASSUME NEW o, ClaimOutboxRecord(w, o) PROVE UNCHANGED status
        BY <2>11 DEF ClaimOutboxRecord
    <2>12. Abandon(w) => UNCHANGED status
        BY DEF Abandon
    <2> QED
        BY <1>0, <1>2, <2>2, <2>3, <2>4, <2>7, <2>8, <2>9, <2>10, <2>11, <2>12
        DEF Pass
<1>3. CASE Restart \/ Tick
    BY <1>0, <1>3 DEF Restart, Tick
<1> QED
    BY <1>1, <1>2, <1>3 DEF Next

(* The version a status record reports never goes back (putStatus), for    *)
(* every interleaving of requests, passes and restarts: the late failure   *)
(* of an old version does not hide the outcome of a newer one.             *)
THEOREM StatusNeverGoesBack == Spec => StatusNeverOlder
<1>1. TypeInv /\ [Next]_vars => [StatusForward]_vars
    BY StatusStep DEF TypeInv
<1>2. StatusForward => \A a \in Assoc : status'[a].ver >= status[a].ver
    BY DEF StatusForward
<1> QED
    BY <1>1, <1>2, TypeInit, TypeStep, PTL DEF Spec, StatusNeverOlder

(* What RemoteNeverOlder needs: a pass about to write has not read a newer *)
(* version than its own.                                                   *)
ReadInv ==
    /\ TypeInv
    /\ \A w \in Worker : pc[w] = "put" => seen[w] <= op[w].ver

RemoteForward == \A a \in Assoc : remote'[a] # 0 => remote'[a] >= remote[a]

(* A request leaves the providers' reads and the remote objects alone. *)
LEMMA RequestSeen ==
    ASSUME Request
    PROVE  UNCHANGED <<pc, op, seen, remote>>
<1> USE DEF sourceVars, assocVars, passVars
<1> DEFINE Frame == UNCHANGED <<pc, op, seen, remote>>
<1>1. ASSUME NEW s, DeleteCurrent(s) PROVE Frame
    BY <1>1 DEF DeleteCurrent
<1>2. ASSUME NEW v, NEW s, SetVersion(v, s) PROVE Frame
    BY <1>2 DEF SetVersion
<1>3. PathDataWrite \/ PathDataDelete => Frame
    BY <1>1 DEF PathDataWrite, PathDataDelete
<1>4. ASSUME NEW v PROVE PathVersionDelete(v) \/ PathVersionDestroy(v) => Frame
    BY <1>1, <1>2 DEF PathVersionDelete, PathVersionDestroy
<1>5. ASSUME NEW v PROVE PathVersionUndelete(v) => Frame
    BY <1>2 DEF PathVersionUndelete, UndeleteCurrent
<1>6. ASSUME NEW a PROVE PathAssociationSync(a) \/ PathAssociationEnable(a) => Frame
    BY DEF PathAssociationSync, PathAssociationEnable
<1>7. ASSUME NEW a PROVE AssociationDisableCancel(a) => Frame
    BY DEF AssociationDisableCancel
<1>8. ASSUME NEW o
      PROVE  PathQueueOperationRetry(o) \/ PathQueueOperationCancel(o) => Frame
    BY DEF PathQueueOperationRetry, PathQueueOperationCancel
<1>9. AssociationDisablePersist \/ PathConfigWrite => Frame
    BY DEF AssociationDisablePersist, PathConfigWrite
<1> QED
    BY <1>3, <1>4, <1>5, <1>6, <1>7, <1>8, <1>9 DEF Request

LEMMA ReadStep == ReadInv /\ [Next]_vars => ReadInv'
<1> SUFFICES ASSUME ReadInv, [Next]_vars PROVE ReadInv'
    OBVIOUS
<1>1. TypeInv'
    BY TypeStep DEF ReadInv
<1>2. ASSUME \A x \in Worker : pc'[x] = "put" =>
                  pc[x] = "put" /\ op'[x] = op[x] /\ seen'[x] = seen[x]
      PROVE  ReadInv'
    BY <1>1, <1>2 DEF ReadInv
<1>3. CASE Request
    BY <1>2, <1>3, RequestSeen DEF ReadInv, TypeInv
<1>4. ASSUME NEW w \in Worker, Pass(w) PROVE ReadInv'
    <2> USE DEF ReadInv, TypeInv, TypeOK, sourceVars, assocVars
    <2>1. ASSUME NEW s, s # "put", GoTo(w, s),
                 \A x \in Worker \ {w} : seen'[x] = seen[x]
          PROVE  ReadInv'
        BY <1>2, <2>1 DEF GoTo
    <2>2. ASSUME NEW class, Fail(w, class) PROVE ReadInv'
        BY <2>1, <2>2 DEF Fail
    <2>3. CASE CheckStale(w)
        BY <2>1, <2>3 DEF CheckStale
    <2>4. CASE LoadVersion(w)
        BY <2>1, <2>2, <2>4 DEF LoadVersion
    <2>5. CASE LoadTarget(w)
        BY <2>1, <2>2, <2>5 DEF LoadTarget
    <2>6. CASE ProviderGet(w)
        <3>1. CASE Fail(w, "terminal")
            BY <2>2, <3>1
        <3>2. CASE /\ ~(remote[op[w].assoc] > op[w].ver)
                   /\ seen' = [seen EXCEPT ![w] = remote[op[w].assoc]]
                   /\ \E s \in {"done", "put"} : GoTo(w, s)
            <4>1. op[w] \in Ops
                BY <2>6 DEF ProviderGet, InFlight
            <4>2. remote[op[w].assoc] \in Nat /\ op[w].ver \in Nat
                BY <4>1, OpsTypes, ConstantsAssumption DEF ConstantsAssumption
            <4>3. remote[op[w].assoc] <= op[w].ver
                BY <3>2, <4>2
            <4>4. \A x \in Worker : pc'[x] = "put" => seen'[x] <= op'[x].ver
                BY <3>2, <4>3 DEF GoTo
            <4> QED
                BY <1>1, <4>4
        <3> QED
            BY <2>6, <3>1, <3>2 DEF ProviderGet
    <2>7. CASE ProviderPut(w)
        BY <2>1, <2>2, <2>7 DEF ProviderPut
    <2>8. ASSUME NEW class, ProviderError(w, class) PROVE ReadInv'
        BY <2>2, <2>8 DEF ProviderError
    <2>9. CASE Idle(w)
        BY <1>2, <2>9 DEF Idle
    <2>10. CASE CommitCancel(w) \/ CommitSuccess(w) \/ CommitFailure(w) \/ Abandon(w)
        BY <2>9, <2>10
        DEF CommitCancel, CommitSuccess, CommitFailure, Abandon, CommitIfClaimHeld
    <2>11. ASSUME NEW o \in Ops, ClaimOutboxRecord(w, o) PROVE ReadInv'
        BY <1>2, <2>11 DEF ClaimOutboxRecord
    <2> QED
        BY <1>4, <2>3, <2>4, <2>5, <2>6, <2>7, <2>8, <2>10, <2>11 DEF Pass
<1>5. CASE Restart
    BY <1>2, <1>5 DEF Restart
<1>6. CASE Tick \/ UNCHANGED vars
    BY <1>2, <1>6 DEF Tick, vars, passVars
<1> QED
    BY <1>3, <1>4, <1>5, <1>6 DEF Next

LEMMA RemoteStep ==
    ASSUME ReadInv, RemoteCAS, Next
    PROVE  RemoteForward
<1> USE DEF sourceVars, assocVars, passVars
<1>0. ASSUME UNCHANGED remote PROVE RemoteForward
    <2>1. \A a \in Assoc : remote[a] \in Nat
        BY ConstantsAssumption DEF ConstantsAssumption, ReadInv, TypeInv, TypeOK
    <2> QED
        BY <1>0, <2>1 DEF RemoteForward
<1>1. CASE Request
    BY <1>0, <1>1, RequestSeen DEF ReadInv, TypeInv
<1>2. ASSUME NEW w \in Worker, Pass(w) PROVE RemoteForward
    <2>1. CASE ProviderPut(w)
        <3>1. CASE UNCHANGED remote
            BY <1>0, <3>1
        <3>2. CASE PutAccepted(w) /\ ~UNCHANGED remote
            <4>1. op[w] \in Ops
                BY <2>1 DEF ProviderPut, InFlight, ReadInv, TypeInv, TypeOK
            <4>2. /\ seen[w] \in Nat /\ op[w].ver \in Nat /\ op[w].assoc \in Assoc
                  /\ \A a \in Assoc : remote[a] \in Nat
                BY <4>1, OpsTypes, ConstantsAssumption
                DEF ConstantsAssumption, ReadInv, TypeInv, TypeOK
            <4>3. seen[w] <= op[w].ver
                BY <2>1 DEF ProviderPut, ReadInv
            <4>4. remote[op[w].assoc] = seen[w]
                BY <3>2 DEF PutAccepted
            <4>5. /\ remote'[op[w].assoc] \in {0, op[w].ver}
                  /\ \A a \in Assoc \ {op[w].assoc} : remote'[a] = remote[a]
                BY <2>1, <3>2, <4>2
                DEF ProviderPut, ReadInv, TypeInv, TypeOK
            <4> QED
                BY <4>2, <4>3, <4>4, <4>5 DEF RemoteForward
        <3> QED
            BY <2>1, <3>1, <3>2 DEF ProviderPut
    <2>2. CheckStale(w) \/ LoadVersion(w) \/ LoadTarget(w) => UNCHANGED remote
        BY DEF CheckStale, LoadVersion, LoadTarget
    <2>3. ProviderGet(w) => UNCHANGED remote
        BY DEF ProviderGet
    <2>4. ASSUME NEW class PROVE ProviderError(w, class) => UNCHANGED remote
        BY DEF ProviderError
    <2>5. CommitCancel(w) \/ CommitSuccess(w) \/ CommitFailure(w) \/ Abandon(w)
          => UNCHANGED remote
        BY DEF CommitCancel, CommitSuccess, CommitFailure, Abandon,
               CommitIfClaimHeld
    <2>6. ASSUME NEW o PROVE ClaimOutboxRecord(w, o) => UNCHANGED remote
        BY DEF ClaimOutboxRecord
    <2> QED
        BY <1>0, <1>2, <2>1, <2>2, <2>3, <2>4, <2>5, <2>6 DEF Pass
<1>3. CASE Restart \/ Tick
    BY <1>0, <1>3 DEF Restart, Tick
<1> QED
    BY <1>1, <1>2, <1>3 DEF Next

(* With a provider that conditions its write on what it read, no pass ever *)
(* overwrites a remote object with an older source version: whatever the   *)
(* requests, however late the pass and whatever its lease.                 *)
THEOREM RemoteNeverGoesBack == RemoteCAS /\ Spec => RemoteNeverOlder
<1>1. Init => ReadInv
    <2>1. Init => \A w \in Worker : pc[w] # "put"
        BY DEF Init
    <2> QED
        BY <2>1, TypeInit DEF ReadInv
<1>2. RemoteForward => \A a \in Assoc : remote'[a] # 0 => remote'[a] >= remote[a]
    BY DEF RemoteForward
<1>3. CASE RemoteCAS
    <2>1. ReadInv /\ [Next]_vars => [RemoteForward]_vars
        BY <1>3, RemoteStep
    <2> QED
        BY <1>1, <1>2, <2>1, ReadStep, PTL DEF Spec, RemoteNeverOlder
<1> QED
    BY <1>3

-----------------------------------------------------------------------------
(* The queue stays within its capacity *)

(* Every request that adds operations to the queue asks                    *)
(* ensureQueueCapacityAfterReplacement first, except the retry of an       *)
(* operation that has failed: pathQueueOperationRetry makes it pending     *)
(* again without counting the queue.                                       *)
FailedNotRetried ==
    \A o \in Ops : PathQueueOperationRetry(o) => IsQueued(outbox[o])

(* What the bound rests on besides the checks of the requests: the queue   *)
(* is finite, a claimed record is queued and a pass holds a claim, so that *)
(* the outcome a pass commits is written over a queued record.             *)
CapacityInv ==
    /\ TypeInv
    /\ IsFiniteSet(Queued)
    /\ \A o \in Ops : outbox[o].owner # 0 => IsQueued(outbox[o])
    /\ \A w \in Worker : InFlight(w) => rec[w].owner # 0
    /\ QueueWithinCapacity

(* What the requests and passes leave of the claims. *)
ClaimsKept ==
    /\ \A o \in Ops : outbox'[o].owner # 0 => IsQueued(outbox'[o])
    /\ \A w \in Worker : InFlight(w)' => rec'[w].owner # 0

LEMMA QueueShrinks ==
    ASSUME CapacityInv, Queued' \subseteq Queued
    PROVE  IsFiniteSet(Queued') /\ QueueWithinCapacity'
<1>1. /\ IsFiniteSet(Queued') /\ Cardinality(Queued') <= Cardinality(Queued)
      /\ Cardinality(Queued) \in Nat /\ Cardinality(Queued') \in Nat
    BY FS_Subset, FS_CardinalityType DEF CapacityInv
<1> QED
    BY <1>1, ConstantsAssumption
    DEF ConstantsAssumption, CapacityInv, QueueWithinCapacity

(* The arithmetic of ensureQueueCapacityAfterReplacement. *)
LEMMA CapacityCounted ==
    ASSUME CapacityInv, NEW put \in SUBSET Ops, IsFiniteSet(put),
           NEW dropped \in SUBSET Queued, CapacityFor(put, dropped),
           Queued' \subseteq
               (Queued \ dropped) \cup {o \in put : ~IsQueued(outbox[o])}
    PROVE  IsFiniteSet(Queued') /\ QueueWithinCapacity'
<1> DEFINE added == {o \in put : ~IsQueued(outbox[o])}
           kept == Queued \ dropped
<1>1. /\ IsFiniteSet(Queued) /\ Cardinality(Queued) <= QueueCapacity
      /\ QueueCapacity \in Nat
    BY ConstantsAssumption
    DEF ConstantsAssumption, CapacityInv, QueueWithinCapacity
<1>2. /\ IsFiniteSet(added) /\ Cardinality(added) \in Nat
      /\ IsFiniteSet(dropped) /\ Cardinality(dropped) \in Nat
      /\ Cardinality(Queued) \in Nat
    BY <1>1, FS_Subset, FS_CardinalityType
<1>3. Queued \cap dropped = dropped /\ kept \cap added = {}
    BY DEF Queued
<1>4. /\ IsFiniteSet(kept)
      /\ Cardinality(kept) = Cardinality(Queued) - Cardinality(dropped)
    BY <1>1, <1>3, FS_Difference
<1>5. /\ IsFiniteSet(kept \cup added)
      /\ Cardinality(kept \cup added) = Cardinality(kept) + Cardinality(added)
    <2>0. IsFiniteSet(kept) /\ IsFiniteSet(added) /\ kept \cap added = {}
        BY <1>2, <1>3, <1>4
    <2> HIDE DEF kept, added
    <2>1. /\ IsFiniteSet(kept \cup added)
          /\ Cardinality(kept \cup added) =
                 Cardinality(kept) + Cardinality(added)
                     - Cardinality(kept \cap added)
        BY <2>0, FS_Union
    <2>2. Cardinality(kept) \in Nat
        BY <1>4, FS_CardinalityType
    <2>3. Cardinality(kept \cap added) = 0
        BY <2>0, FS_EmptySet
    <2>4. Cardinality(added) \in Nat
        BY <2>0, FS_CardinalityType
    <2> QED
        BY <2>1, <2>2, <2>3, <2>4
<1>6. /\ IsFiniteSet(Queued') /\ Cardinality(Queued') \in Nat
      /\ Cardinality(Queued') <= Cardinality(kept \cup added)
    BY <1>5, FS_Subset, FS_CardinalityType
<1>7. \/ Cardinality(added) <= Cardinality(dropped)
      \/ Cardinality(Queued) - Cardinality(dropped) + Cardinality(added)
             <= QueueCapacity
    BY DEF CapacityFor
<1> HIDE DEF added, kept
<1> QED
    BY <1>1, <1>2, <1>4, <1>5, <1>6, <1>7 DEF QueueWithinCapacity

LEMMA ReplacedCounted ==
    ASSUME CapacityInv, NEW put \in SUBSET Ops, IsFiniteSet(put),
           NEW dropped \in SUBSET Queued, put \cap dropped = {},
           CapacityFor(put, dropped), outbox' = Replaced(put, dropped)
    PROVE  IsFiniteSet(Queued') /\ QueueWithinCapacity'
<1>1. ASSUME NEW o \in Ops, IsQueued(outbox'[o])
      PROVE  o \in (Queued \ dropped) \cup {p \in put : ~IsQueued(outbox[p])}
    <2>1. o \in put \/ (o \notin put /\ o \notin dropped /\ IsQueued(outbox[o]))
        BY <1>1, ReplacedQueued
    <2> QED
        BY <1>1, <2>1 DEF Queued
<1>2. Queued' \subseteq
          (Queued \ dropped) \cup {o \in put : ~IsQueued(outbox[o])}
    BY <1>1 DEF Queued
<1> QED
    BY <1>2, CapacityCounted

LEMMA ReplacedClaims ==
    ASSUME CapacityInv, NEW put, NEW dropped,
           outbox' = Replaced(put, dropped), UNCHANGED <<pc, rec>>
    PROVE  ClaimsKept
<1>1. ASSUME NEW o \in Ops, outbox'[o].owner # 0 PROVE IsQueued(outbox'[o])
    <2>1. outbox'[o] \in {NewRecord, Absent, outbox[o]}
        BY DEF Replaced
    <2> QED
        BY <1>1, <2>1, NewRecordFields DEF CapacityInv, IsQueued
<1> QED
    BY <1>1 DEF CapacityInv, ClaimsKept, InFlight

(* One operation per association of a set. *)
LEMMA OnePerAssociation ==
    ASSUME NEW S \in SUBSET Assoc, NEW v \in 1..MaxVersion
    PROVE  /\ {Upsert(a, v) : a \in S} \subseteq Ops
           /\ IsFiniteSet({Upsert(a, v) : a \in S})
           /\ {Delete(a, v) : a \in S} \subseteq Ops
           /\ IsFiniteSet({Delete(a, v) : a \in S})
<1>1. IsFiniteSet(S)
    BY FS_Subset, ConstantsAssumption DEF ConstantsAssumption
<1>2. IsFiniteSet({Upsert(a, v) : a \in S})
    <2> DEFINE f == [a \in S |-> Upsert(a, v)]
    <2>1. f \in Surjection(S, {Upsert(a, v) : a \in S})
        BY DEF Surjection
    <2> QED
        BY <1>1, <2>1, FS_Surjection
<1>3. IsFiniteSet({Delete(a, v) : a \in S})
    <2> DEFINE f == [a \in S |-> Delete(a, v)]
    <2>1. f \in Surjection(S, {Delete(a, v) : a \in S})
        BY DEF Surjection
    <2> QED
        BY <1>1, <2>1, FS_Surjection
<1> QED
    BY <1>2, <1>3, UpsertType

LEMMA RequestCapacity ==
    ASSUME CapacityInv, FailedNotRetried, Request
    PROVE  CapacityInv'
<1> USE DEF sourceVars, assocVars, passVars
<1> DEFINE Kept == ClaimsKept /\ IsFiniteSet(Queued') /\ QueueWithinCapacity'
<1>0. /\ TypeOK /\ TypeInv' /\ cur \in Nat /\ MaxVersion \in Nat
      /\ nextSalt \in Nat /\ MaxSalt \in Nat
      /\ EnabledAssoc \subseteq Assoc
      /\ \A o \in Ops : o.ver \in Nat
    BY TypeRequest, OpsTypes, ConstantsAssumption
    DEF ConstantsAssumption, CapacityInv, TypeInv, TypeOK, EnabledAssoc
<1> SUFFICES Kept
    BY <1>0 DEF CapacityInv, ClaimsKept
<1>1. CASE PathDataWrite
    <2>1. cur + 1 \in 1..MaxVersion
        BY <1>0, <1>1 DEF PathDataWrite
    <2>2. /\ {Upsert(a, cur + 1) : a \in EnabledAssoc} \in SUBSET Ops
          /\ IsFiniteSet({Upsert(a, cur + 1) : a \in EnabledAssoc})
        BY <1>0, <2>1, OnePerAssociation
    <2>3. /\ StaleUpserts(cur + 1) \in SUBSET Queued
          /\ \A o \in StaleUpserts(cur + 1) : o.ver < cur + 1
        BY DEF StaleUpserts
    <2>4. \A o \in {Upsert(a, cur + 1) : a \in EnabledAssoc} : o.ver = cur + 1
        BY DEF Upsert
    <2>5. {Upsert(a, cur + 1) : a \in EnabledAssoc} \cap StaleUpserts(cur + 1) = {}
        BY <1>0, <2>3, <2>4
    <2> QED
        BY <1>1, <2>2, <2>3, <2>5, ReplacedCounted, ReplacedClaims
        DEF PathDataWrite
<1>2. ASSUME NEW s, DeleteCurrent(s), cur > 0 PROVE Kept
    <2>1. cur \in 1..MaxVersion
        BY <1>0, <1>2 DEF TypeOK
    <2>2. /\ {Delete(a, cur) : a \in EnabledAssoc \cap DeleteAssoc} \in SUBSET Ops
          /\ IsFiniteSet({Delete(a, cur) : a \in EnabledAssoc \cap DeleteAssoc})
        BY <1>0, <2>1, OnePerAssociation
    <2>3. /\ UpsertsOfVersion(cur) \in SUBSET Queued
          /\ \A o \in UpsertsOfVersion(cur) : o.kind = "upsert"
        BY DEF UpsertsOfVersion
    <2>4. \A o \in {Delete(a, cur) : a \in EnabledAssoc \cap DeleteAssoc} :
              o.kind = "delete"
        BY DEF Delete
    <2>5. {Delete(a, cur) : a \in EnabledAssoc \cap DeleteAssoc}
              \cap UpsertsOfVersion(cur) = {}
        BY <2>3, <2>4
    <2> QED
        BY <1>2, <2>2, <2>3, <2>5, ReplacedCounted, ReplacedClaims
        DEF DeleteCurrent
<1>3. CASE UndeleteCurrent /\ cur > 0
    <2>1. cur \in 1..MaxVersion
        BY <1>0, <1>3 DEF TypeOK
    <2>2. /\ {Upsert(a, cur) : a \in EnabledAssoc} \in SUBSET Ops
          /\ IsFiniteSet({Upsert(a, cur) : a \in EnabledAssoc})
        BY <1>0, <2>1, OnePerAssociation
    <2>3. /\ DeletesOfVersion(cur) \in SUBSET Queued
          /\ \A o \in DeletesOfVersion(cur) : o.kind = "delete"
        BY DEF DeletesOfVersion
    <2>4. \A o \in {Upsert(a, cur) : a \in EnabledAssoc} : o.kind = "upsert"
        BY DEF Upsert
    <2>5. {Upsert(a, cur) : a \in EnabledAssoc} \cap DeletesOfVersion(cur) = {}
        BY <2>3, <2>4
    <2> QED
        BY <1>3, <2>2, <2>3, <2>5, ReplacedCounted, ReplacedClaims
        DEF UndeleteCurrent
<1>4. ASSUME UNCHANGED <<outbox, pc, rec>> PROVE Kept
    <2>1. Queued' \subseteq Queued
        BY <1>4 DEF Queued
    <2> QED
        BY <1>4, <2>1, QueueShrinks
        DEF CapacityInv, ClaimsKept, InFlight, IsQueued
<1>5. ASSUME NEW v, NEW s, SetVersion(v, s) PROVE Kept
    BY <1>4, <1>5 DEF SetVersion
<1>6. CASE PathDataDelete
    BY <1>2, <1>6 DEF PathDataDelete
<1>7. ASSUME NEW v \in Versions, PathVersionDelete(v) \/ PathVersionDestroy(v)
      PROVE  Kept
    <2>1. v > 0
        BY <1>0 DEF Versions
    <2> QED
        BY <1>2, <1>5, <1>7, <2>1 DEF PathVersionDelete, PathVersionDestroy
<1>8. ASSUME NEW v \in Versions, PathVersionUndelete(v) PROVE Kept
    <2>1. v > 0
        BY <1>0 DEF Versions
    <2> QED
        BY <1>3, <1>5, <1>8, <2>1 DEF PathVersionUndelete
<1>9. ASSUME NEW a \in Assoc, PathAssociationSync(a) PROVE Kept
    <2> DEFINE o == ManualUpsert(a, cur, nextSalt + 1)
    <2>1. o \in Ops
        <3>1. cur \in Versions /\ nextSalt + 1 \in 0..MaxSalt
            BY <1>0, <1>9 DEF PathAssociationSync, Versions, TypeOK
        <3>2. o = [kind |-> "upsert", ver |-> cur, assoc |-> a,
                   salt |-> nextSalt + 1]
            BY DEF ManualUpsert, Upsert
        <3> QED
            BY <3>1, <3>2 DEF Ops
    <2>2. /\ {o} \in SUBSET Ops /\ IsFiniteSet({o})
          /\ {} \in SUBSET Queued /\ {o} \cap {} = {}
        BY <2>1, FS_Singleton
    <2> HIDE DEF o
    <2>3. /\ outbox' = Replaced({o}, {}) /\ CapacityFor({o}, {})
          /\ UNCHANGED <<pc, rec>>
        BY <1>9 DEF PathAssociationSync, o
    <2> QED
        BY <2>2, <2>3, ReplacedCounted, ReplacedClaims
<1>10. ASSUME NEW a \in Assoc, PathAssociationEnable(a) PROVE Kept
    <2> DEFINE o == Upsert(a, cur)
    <2>1. o \in Ops
        BY <1>0, <1>10, UpsertType DEF PathAssociationEnable, TypeOK
    <2>2. /\ outbox' = [outbox EXCEPT ![o] = ReEnqueued(o)]
          /\ CapacityFor({o}, {}) /\ UNCHANGED <<pc, rec>>
        BY <1>10 DEF PathAssociationEnable
    <2>3. ~IsQueued(outbox[o]) => ReEnqueued(o).owner = 0
        BY NewRecordFields, NewRecordType DEF ReEnqueued, NewRecord, Absent
    <2> HIDE DEF o
    <2>4. \A p \in Ops : outbox'[p] = IF p = o THEN ReEnqueued(o) ELSE outbox[p]
        BY <1>0, <2>2 DEF TypeOK
    <2>5. Queued' \subseteq
              (Queued \ {}) \cup {p \in {o} : ~IsQueued(outbox[p])}
        BY <2>1, <2>4 DEF Queued
    <2>6. {o} \in SUBSET Ops /\ IsFiniteSet({o}) /\ {} \in SUBSET Queued
        BY <2>1, FS_Singleton
    <2>7. IsFiniteSet(Queued') /\ QueueWithinCapacity'
        BY <2>2, <2>5, <2>6, CapacityCounted
    <2>8. \A p \in Ops : outbox'[p].owner # 0 => IsQueued(outbox'[p])
        <3>1. IsQueued(outbox[o]) => outbox'[o] = outbox[o]
            BY <2>1, <2>4 DEF ReEnqueued
        <3> QED
            BY <2>1, <2>3, <2>4, <3>1 DEF CapacityInv
    <2> QED
        BY <2>2, <2>7, <2>8 DEF ClaimsKept, CapacityInv, InFlight
<1>11. ASSUME NEW a \in Assoc, AssociationDisableCancel(a) PROVE Kept
    <2>1. PICK dropped : outbox' = Replaced({}, dropped)
        BY <1>11 DEF AssociationDisableCancel
    <2>2. Queued' \subseteq Queued
        <3>1. \A o \in Ops : IsQueued(outbox'[o]) => IsQueued(outbox[o])
            BY <2>1, ReplacedQueued
        <3> QED
            BY <3>1 DEF Queued
    <2>3. ClaimsKept
        BY <1>11, <2>1, ReplacedClaims DEF AssociationDisableCancel
    <2> QED
        BY <2>2, <2>3, QueueShrinks
<1>12. ASSUME NEW o \in Ops, PathQueueOperationRetry(o) PROVE Kept
    <2>1. IsQueued(outbox[o]) /\ outbox[o] \in Record
        BY <1>0, <1>12 DEF FailedNotRetried, TypeOK
    <2>2. /\ \A p \in Ops \ {o} : outbox'[p] = outbox[p]
          /\ outbox'[o].owner = 0
        BY <1>0, <1>12, <2>1
        DEF PathQueueOperationRetry, ClearClaim, TypeOK, Record
    <2>3. Queued' \subseteq Queued
        BY <2>1, <2>2 DEF Queued
    <2> QED
        BY <1>12, <2>2, <2>3, QueueShrinks
        DEF PathQueueOperationRetry, ClaimsKept, CapacityInv, InFlight
<1>13. ASSUME NEW o \in Ops, PathQueueOperationCancel(o) PROVE Kept
    <2>1. /\ \A p \in Ops \ {o} : outbox'[p] = outbox[p]
          /\ outbox'[o] = Absent
        BY <1>0, <1>13 DEF PathQueueOperationCancel, TypeOK
    <2>2. Queued' \subseteq Queued
        BY <2>1, NewRecordFields DEF Queued, IsQueued
    <2> QED
        BY <1>13, <2>1, <2>2, QueueShrinks, NewRecordFields
        DEF PathQueueOperationCancel, ClaimsKept, CapacityInv, InFlight
<1>14. CASE AssociationDisablePersist \/ PathConfigWrite
    BY <1>4, <1>14 DEF AssociationDisablePersist, PathConfigWrite
<1> QED
    BY <1>1, <1>6, <1>7, <1>8, <1>9, <1>10, <1>11, <1>12, <1>13, <1>14
    DEF Request

LEMMA PassCapacity ==
    ASSUME CapacityInv, NEW w \in Worker, Pass(w)
    PROVE  CapacityInv'
<1> USE DEF sourceVars, assocVars
<1> DEFINE Kept == ClaimsKept /\ IsFiniteSet(Queued') /\ QueueWithinCapacity'
<1>0. /\ TypeInv' /\ TypeOK /\ proc \in Nat /\ proc # 0
    BY TypePass, ConstantsAssumption
    DEF ConstantsAssumption, CapacityInv, TypeInv, TypeOK
<1> SUFFICES Kept
    BY <1>0 DEF CapacityInv, ClaimsKept
<1>1. ASSUME UNCHANGED outbox,
             \A x \in Worker : InFlight(x)' => InFlight(x) /\ rec'[x] = rec[x]
      PROVE  Kept
    <2>1. Queued' \subseteq Queued
        BY <1>1 DEF Queued
    <2> QED
        BY <1>1, <2>1, QueueShrinks DEF CapacityInv, ClaimsKept, IsQueued
<1>2. ASSUME NEW s, InFlight(w), GoTo(w, s) PROVE Kept
    BY <1>0, <1>1, <1>2 DEF GoTo, InFlight, TypeOK
<1>3. ASSUME NEW class, InFlight(w), Fail(w, class) PROVE Kept
    BY <1>2, <1>3 DEF Fail
<1>4. CASE CheckStale(w)
    BY <1>2, <1>4 DEF CheckStale, InFlight
<1>5. CASE LoadVersion(w)
    BY <1>2, <1>3, <1>5 DEF LoadVersion, InFlight
<1>6. CASE LoadTarget(w)
    BY <1>2, <1>3, <1>6 DEF LoadTarget, InFlight
<1>7. CASE ProviderGet(w)
    BY <1>2, <1>3, <1>7 DEF ProviderGet, InFlight
<1>8. CASE ProviderPut(w)
    BY <1>2, <1>3, <1>8 DEF ProviderPut, InFlight
<1>9. ASSUME NEW class, ProviderError(w, class) PROVE Kept
    BY <1>3, <1>9 DEF ProviderError, InFlight
<1>10. CASE Abandon(w)
    BY <1>0, <1>1, <1>10 DEF Abandon, Idle, InFlight, TypeOK
<1>11. ASSUME NEW r, NEW st, r.owner = 0, InFlight(w),
              CommitIfClaimHeld(w, r, st)
       PROVE  Kept
    <2>1. \A x \in Worker : InFlight(x)' => InFlight(x) /\ rec'[x] = rec[x]
        BY <1>0, <1>11 DEF CommitIfClaimHeld, Idle, InFlight, TypeOK
    <2>2. CASE ~ClaimMatches(w)
        BY <1>1, <1>11, <2>1, <2>2 DEF CommitIfClaimHeld
    <2>3. CASE ClaimMatches(w)
        <3>1. op[w] \in Ops /\ IsQueued(outbox[op[w]])
            BY <1>11, <2>3 DEF CapacityInv, TypeInv, TypeOK, ClaimMatches
        <3>2. /\ outbox'[op[w]] = r
              /\ \A p \in Ops \ {op[w]} : outbox'[p] = outbox[p]
            BY <1>0, <1>11, <2>3, <3>1 DEF CommitIfClaimHeld, TypeOK
        <3>3. Queued' \subseteq Queued
            BY <3>1, <3>2 DEF Queued
        <3>4. \A o \in Ops : outbox'[o].owner # 0 => IsQueued(outbox'[o])
            BY <1>11, <3>2 DEF CapacityInv
        <3> QED
            BY <2>1, <3>3, <3>4, QueueShrinks DEF CapacityInv, ClaimsKept
    <2> QED
        BY <2>2, <2>3
<1>12. CASE CommitCancel(w) \/ CommitSuccess(w)
    BY <1>11, <1>12, NewRecordFields DEF CommitCancel, CommitSuccess, InFlight
<1>13. CASE CommitFailure(w)
    <2>1. rec[w] \in Record
        BY <1>0 DEF TypeOK
    <2>2. ClearClaim(rec[w]) \in Record /\ ClearClaim(rec[w]).owner = 0
        BY <2>1, ClearClaimType DEF ClearClaim, Record
    <2>3. FailedRecord(rec[w], res[w]).owner = 0
        BY <2>2 DEF FailedRecord, Record
    <2> QED
        BY <1>11, <1>13, <2>3 DEF CommitFailure, InFlight
<1>14. ASSUME NEW o \in Ops, ClaimOutboxRecord(w, o) PROVE Kept
    <2> DEFINE c == ClaimedRecord(outbox[o])
    <2>1. c.state = outbox[o].state /\ c.owner = proc
        BY <1>0 DEF ClaimedRecord, Record, TypeOK
    <2>2. /\ outbox' = [outbox EXCEPT ![o] = c]
          /\ rec' = [rec EXCEPT ![w] = c]
          /\ \A x \in Worker \ {w} : pc'[x] = pc[x]
          /\ IsQueued(outbox[o])
        BY <1>0, <1>14 DEF ClaimOutboxRecord, Claimable, TypeOK
    <2> HIDE DEF c
    <2>3. /\ outbox'[o] = c /\ rec'[w] = c
          /\ \A p \in Ops \ {o} : outbox'[p] = outbox[p]
          /\ \A x \in Worker \ {w} : rec'[x] = rec[x]
        BY <1>0, <2>2 DEF TypeOK
    <2>4. Queued' \subseteq Queued
        BY <2>2, <2>3 DEF Queued
    <2>5. \A p \in Ops : outbox'[p].owner # 0 => IsQueued(outbox'[p])
        BY <2>1, <2>2, <2>3 DEF CapacityInv, IsQueued
    <2>6. \A x \in Worker : InFlight(x)' => rec'[x].owner # 0
        BY <1>0, <2>1, <2>2, <2>3 DEF CapacityInv, InFlight
    <2> QED
        BY <2>4, <2>5, <2>6, QueueShrinks DEF ClaimsKept
<1> QED
    BY <1>4, <1>5, <1>6, <1>7, <1>8, <1>9, <1>10, <1>12, <1>13, <1>14 DEF Pass

LEMMA CapacityStep ==
    ASSUME CapacityInv, [Next]_vars, [FailedNotRetried]_vars
    PROVE  CapacityInv'
<1>1. CASE Request /\ FailedNotRetried
    BY <1>1, RequestCapacity
<1>2. ASSUME NEW w \in Worker, Pass(w) PROVE CapacityInv'
    BY <1>2, PassCapacity
<1>3. CASE Restart \/ Tick \/ UNCHANGED vars
    <2>0. TypeInv'
        BY TypeStep DEF CapacityInv
    <2>1. UNCHANGED outbox
        BY <1>3 DEF Restart, Tick, vars
    <2>2. \A x \in Worker : InFlight(x)' => InFlight(x) /\ rec'[x] = rec[x]
        BY <1>3 DEF Restart, Tick, vars, passVars, InFlight
    <2>3. Queued' \subseteq Queued
        BY <2>1 DEF Queued
    <2> QED
        BY <2>0, <2>1, <2>2, <2>3, QueueShrinks DEF CapacityInv, IsQueued
<1> QED
    BY <1>1, <1>2, <1>3 DEF Next

(* queue_capacity bounds the queued operations at all times, whatever the  *)
(* requests, passes, crashes and clock do (every enqueue asks              *)
(* ensureQueueCapacityAfterReplacement, and no pass adds to the queue), as *)
(* long as operators do not retry operations that have failed.             *)
THEOREM CapacityRespected ==
    Spec /\ [][FailedNotRetried]_vars => []QueueWithinCapacity
<1>1. Init => CapacityInv
    <2> SUFFICES ASSUME Init PROVE CapacityInv
        OBVIOUS
    <2>1. \A o \in Ops : outbox[o].state = "absent" /\ outbox[o].owner = 0
        BY NewRecordFields DEF Init
    <2>2. Queued = {}
        BY <2>1 DEF Queued, IsQueued
    <2>3. \A w \in Worker : ~InFlight(w)
        BY DEF Init, InFlight
    <2>4. IsFiniteSet(Queued) /\ Cardinality(Queued) = 0
        BY <2>2, FS_EmptySet
    <2> QED
        BY <2>1, <2>3, <2>4, TypeInit, ConstantsAssumption
        DEF ConstantsAssumption, CapacityInv, QueueWithinCapacity
<1>2. CapacityInv => QueueWithinCapacity
    BY DEF CapacityInv
<1> QED
    BY <1>1, <1>2, CapacityStep, PTL DEF Spec

-----------------------------------------------------------------------------
(* Accepted work is not lost *)

(* The requests that can lose work are left out: a disable drops queued    *)
(* operations before it is certain to succeed, and a retry together with   *)
(* deletes queues operations that the current version does not want.       *)
WorkKeepingOps ==
    /\ "disable" \notin UserOps
    /\ "retry" \in UserOps =>
           UserOps \cap {"data_delete", "delete_version", "undelete", "destroy"}
               = {}

(* What NoLostWork needs besides QueueInv: associations stay enabled, no   *)
(* status is ahead of the source (so that putStatus never drops the        *)
(* outcome of the current version), a pass cancels only operations of      *)
(* versions that are no longer current, and what can be retried is an      *)
(* upsert of a live version.                                               *)
AllEnabled == disabling = None /\ \A a \in Assoc : enabled[a]

StatusBehind == \A a \in Assoc : status[a].ver <= cur

CancelsStale == \A w \in Worker : pc[w] = "cancel" => op[w].ver < cur

RetriesWanted ==
    "retry" \in UserOps =>
        /\ cur > 0 => vstate[cur] = "live"
        /\ \A o \in Ops : outbox[o].state # "absent" => o.kind = "upsert"

WorkInv ==
    /\ QueueInv /\ AllEnabled /\ StatusBehind /\ CancelsStale
    /\ RetriesWanted /\ NoLostWork

(* Work stays settled while its record is stored and its status kept. *)
LEMMA SettledKept ==
    ASSUME NEW a, NEW kind, NEW states, Settled(a, kind, states),
           cur' = cur, status'[a] = status[a],
           \A o \in Ops : /\ o.kind = kind /\ o.assoc = a /\ o.ver = cur
                          /\ outbox[o].state # "absent"
                          => outbox'[o].state # "absent"
    PROVE  Settled(a, kind, states)'
BY DEF Settled

LEMMA WorkUnchanged ==
    ASSUME NoLostWork, UNCHANGED <<cur, vstate, enabled, waived>>,
           disabling' = disabling,
           \A a \in Assoc : status'[a] = status[a],
           \A o \in Ops : outbox[o].state # "absent" /\ o.ver = cur =>
               outbox'[o].state # "absent"
    PROVE  NoLostWork'
<1> SUFFICES ASSUME NEW a \in Assoc,
                    cur > 0, enabled[a], a \notin waived, a # disabling
             PROVE  /\ vstate[cur] = "live" =>
                           Settled(a, "upsert", {"SYNCED", "FAILED"})'
                    /\ vstate[cur] # "live" /\ a \in DeleteAssoc =>
                           Settled(a, "delete", {"REMOTE_MISSING", "FAILED"})'
    BY DEF NoLostWork
<1> QED
    BY SettledKept DEF NoLostWork

(* A stored record stays what it is or goes. *)
LEMMA RetriesKept ==
    ASSUME RetriesWanted, UNCHANGED cur,
           cur > 0 => vstate'[cur] = vstate[cur],
           \A o \in Ops : outbox'[o].state # "absent" =>
               outbox[o].state # "absent" \/ o.kind = "upsert"
    PROVE  RetriesWanted'
BY DEF RetriesWanted

LEMMA RequestKeepsWork ==
    ASSUME WorkInv, WorkKeepingOps, Request
    PROVE  WorkInv'
<1> USE DEF sourceVars, assocVars, passVars
<1>0. /\ QueueInv /\ AllEnabled /\ TypeOK /\ NoLostWork /\ RetriesWanted
      /\ cur \in Nat /\ MaxVersion \in Nat /\ nextSalt \in Nat /\ MaxSalt \in Nat
      /\ EnabledAssoc = Assoc /\ disabling = None /\ None \notin Assoc
    BY ConstantsAssumption, NoneAssumption
    DEF ConstantsAssumption, NoneAssumption, WorkInv, QueueInv, TypeOK,
        AllEnabled, EnabledAssoc
<1>1. QueueInv'
    BY <1>0, RequestQueueInv
<1>2. UNCHANGED <<pc, op>> /\ cur' >= cur /\ cur' \in Nat
    BY <1>0, <1>1, RequestFrame, ConstantsAssumption
    DEF ConstantsAssumption, QueueInv, TypeOK
<1>3. CancelsStale'
    <2>1. \A w \in Worker : InFlight(w) => op[w].ver \in Nat
        BY <1>0, OpsTypes, ConstantsAssumption DEF ConstantsAssumption, TypeOK
    <2> QED
        BY <1>0, <1>2, <2>1 DEF WorkInv, CancelsStale, InFlight
<1>4. ASSUME NEW a \in Assoc PROVE ~PathAssociationEnable(a)
    BY <1>0 DEF AllEnabled, PathAssociationEnable
<1>5. ~AssociationDisablePersist
    BY <1>0 DEF AssociationDisablePersist
<1>6. ASSUME UNCHANGED <<enabled, disabling, status>>, NoLostWork',
             RetriesWanted'
      PROVE  WorkInv'
    <2>1. AllEnabled'
        BY <1>0, <1>6 DEF AllEnabled
    <2>2. StatusBehind'
        <3>1. \A a \in Assoc : status[a].ver \in Nat
            BY <1>0, ConstantsAssumption DEF ConstantsAssumption, TypeOK
        <3> QED
            BY <1>0, <1>2, <1>6, <3>1 DEF WorkInv, StatusBehind
    <2> QED
        BY <1>1, <1>3, <1>6, <2>1, <2>2 DEF WorkInv
<1>7. CASE PathDataWrite
    <2>1. /\ outbox' = Replaced({Upsert(a, cur + 1) : a \in Assoc},
                                StaleUpserts(cur + 1))
          /\ cur' = cur + 1 /\ UNCHANGED <<enabled, disabling, status>>
        BY <1>0, <1>7 DEF PathDataWrite
    <2>2. cur + 1 \in 1..MaxVersion /\ vstate'[cur + 1] = "live"
        BY <1>0, <1>7 DEF PathDataWrite, Versions, TypeOK
    <2>3. ASSUME NEW a \in Assoc
          PROVE  Settled(a, "upsert", {"SYNCED", "FAILED"})'
        <3>1. /\ Upsert(a, cur + 1) \in Ops
              /\ Upsert(a, cur + 1).kind = "upsert"
              /\ Upsert(a, cur + 1).assoc = a
              /\ Upsert(a, cur + 1).ver = cur'
            BY <2>1, <2>2, UpsertType DEF Upsert
        <3>2. outbox'[Upsert(a, cur + 1)] = NewRecord
            BY <2>1, <3>1 DEF Replaced
        <3> QED
            BY <3>1, <3>2, NewRecordFields DEF Settled
    <2>4. NoLostWork'
        BY <2>1, <2>2, <2>3 DEF NoLostWork
    <2>5. RetriesWanted'
        <3>1. \A o \in {Upsert(a, cur + 1) : a \in Assoc} : o.kind = "upsert"
            BY DEF Upsert
        <3>2. \A o \in Ops : outbox'[o].state # "absent" =>
                  outbox[o].state # "absent" \/ o.kind = "upsert"
            BY <2>1, <3>1, NewRecordFields DEF Replaced
        <3> QED
            BY <1>0, <2>1, <2>2, <3>2 DEF RetriesWanted
    <2> QED
        BY <1>6, <2>1, <2>4, <2>5
<1>8. ASSUME "retry" \notin UserOps, NEW v \in Versions, NEW s,
             s # "live", v = cur, DeleteCurrent(s)
      PROVE  WorkInv'
    <2>1. /\ outbox' = Replaced({Delete(a, cur) : a \in Assoc \cap DeleteAssoc},
                                UpsertsOfVersion(cur))
          /\ UNCHANGED <<cur, enabled, disabling, status>>
          /\ cur \in 1..MaxVersion /\ vstate'[cur] # "live"
        BY <1>0, <1>8 DEF DeleteCurrent, TypeOK, Versions
    <2>2. ASSUME NEW a \in Assoc, a \in DeleteAssoc
          PROVE  Settled(a, "delete", {"REMOTE_MISSING", "FAILED"})'
        <3>1. /\ Delete(a, cur) \in Ops /\ Delete(a, cur).kind = "delete"
              /\ Delete(a, cur).assoc = a /\ Delete(a, cur).ver = cur'
            BY <2>1, UpsertType DEF Delete
        <3>2. outbox'[Delete(a, cur)] = NewRecord
            BY <2>1, <2>2, <3>1 DEF Replaced
        <3> QED
            BY <3>1, <3>2, NewRecordFields DEF Settled
    <2>3. NoLostWork'
        BY <2>1, <2>2 DEF NoLostWork
    <2> QED
        BY <1>6, <1>8, <2>1, <2>3 DEF RetriesWanted
<1>9. ASSUME "retry" \notin UserOps, NEW v \in Versions, NEW s,
              v = cur => s = vstate[v], SetVersion(v, s)
       PROVE  WorkInv'
    <2>1. /\ UNCHANGED <<outbox, cur, enabled, disabling, status, waived>>
          /\ vstate' = [vstate EXCEPT ![v] = s]
        BY <1>9 DEF SetVersion
    <2>2. cur > 0 => vstate'[cur] = vstate[cur]
        BY <1>0, <1>9, <2>1 DEF TypeOK, Versions
    <2>3. \A a, kind, states :
              Settled(a, kind, states) => Settled(a, kind, states)'
        BY <2>1, SettledKept
    <2>4. NoLostWork'
        BY <1>0, <2>1, <2>2, <2>3 DEF NoLostWork
    <2> QED
        BY <1>6, <1>9, <2>1, <2>4 DEF RetriesWanted
<1>10. ASSUME "retry" \notin UserOps, NEW v \in Versions,
              PathVersionDelete(v) \/ PathVersionDestroy(v)
       PROVE  WorkInv'
    <2>1. SoftDeleted(vstate[v]) # "live" /\ Destroyed(vstate[v]) # "live"
        BY DEF SoftDeleted, Destroyed
    <2> QED
        BY <1>8, <1>9, <1>10, <2>1 DEF PathVersionDelete, PathVersionDestroy
<1>11. ASSUME "retry" \notin UserOps, PathDataDelete PROVE WorkInv'
    <2>1. cur \in Versions
        BY <1>0, <1>11 DEF PathDataDelete, Versions, TypeOK
    <2> QED
        BY <1>8, <1>11, <2>1 DEF PathDataDelete
<1>12. ASSUME "retry" \notin UserOps, NEW v \in Versions,
             PathVersionUndelete(v)
      PROVE  WorkInv'
    <2>1. CASE v = cur /\ vstate[v] = "deleted"
        <3>1. /\ outbox' = Replaced({Upsert(a, cur) : a \in Assoc},
                                    DeletesOfVersion(cur))
              /\ UNCHANGED <<cur, enabled, disabling, status>>
              /\ vstate'[cur] = "live" /\ cur \in 1..MaxVersion
            BY <1>0, <1>12, <2>1
            DEF PathVersionUndelete, UndeleteCurrent, TypeOK, Versions
        <3>2. ASSUME NEW a \in Assoc
              PROVE  Settled(a, "upsert", {"SYNCED", "FAILED"})'
            <4>1. /\ Upsert(a, cur) \in Ops /\ Upsert(a, cur).kind = "upsert"
                  /\ Upsert(a, cur).assoc = a /\ Upsert(a, cur).ver = cur'
                BY <3>1, UpsertType DEF Upsert
            <4>2. outbox'[Upsert(a, cur)] = NewRecord
                BY <3>1, <4>1 DEF Replaced
            <4> QED
                BY <4>1, <4>2, NewRecordFields DEF Settled
        <3>3. NoLostWork'
            BY <3>1, <3>2 DEF NoLostWork
        <3> QED
            BY <1>6, <1>12, <3>1, <3>3 DEF RetriesWanted
    <2>2. CASE ~(v = cur /\ vstate[v] = "deleted")
        <3>1. v = cur => Undeleted(vstate[v]) = vstate[v]
            BY <2>2 DEF Undeleted
        <3> QED
            BY <1>9, <1>12, <2>2, <3>1 DEF PathVersionUndelete
    <2> QED
        BY <2>1, <2>2
<1>13. ASSUME NEW a \in Assoc, PathAssociationSync(a) PROVE WorkInv'
    <2> DEFINE o == ManualUpsert(a, cur, nextSalt + 1)
    <2>1. o \in Ops /\ o.kind = "upsert" /\ o.assoc = a /\ o.ver = cur
        <3>1. cur \in Versions /\ nextSalt + 1 \in 0..MaxSalt
            BY <1>0, <1>13 DEF PathAssociationSync, Versions, TypeOK
        <3>2. o = [kind |-> "upsert", ver |-> cur, assoc |-> a,
                   salt |-> nextSalt + 1]
            BY DEF ManualUpsert, Upsert
        <3> QED
            BY <3>1, <3>2 DEF Ops
    <2>2. /\ outbox' = Replaced({o}, {}) /\ vstate[cur] = "live"
          /\ UNCHANGED <<cur, vstate, enabled, disabling, status>>
          /\ waived' = waived \ {a}
        BY <1>13 DEF PathAssociationSync
    <2> HIDE DEF o
    <2>3. /\ outbox'[o] = NewRecord
          /\ \A p \in Ops : outbox[p].state # "absent" =>
                 outbox'[p].state # "absent"
        BY <2>1, <2>2, NewRecordFields DEF Replaced
    <2>4. Settled(a, "upsert", {"SYNCED", "FAILED"})'
        BY <2>1, <2>2, <2>3, NewRecordFields DEF Settled
    <2>5. \A b, kind, states :
              Settled(b, kind, states) => Settled(b, kind, states)'
        BY <2>2, <2>3, SettledKept
    <2>6. NoLostWork'
        BY <1>0, <2>2, <2>4, <2>5 DEF NoLostWork
    <2>7. RetriesWanted'
        <3>1. \A p \in Ops : outbox'[p].state # "absent" =>
                  outbox[p].state # "absent" \/ p.kind = "upsert"
            BY <2>1, <2>2 DEF Replaced
        <3> QED
            BY <1>0, <2>2, <3>1, RetriesKept
    <2> QED
        BY <1>6, <2>2, <2>6, <2>7
<1>14. ASSUME NEW o \in Ops, PathQueueOperationCancel(o) PROVE WorkInv'
    <2>1. /\ \A p \in Ops \ {o} : outbox'[p] = outbox[p]
          /\ UNCHANGED <<cur, vstate, enabled, disabling, status>>
          /\ waived' = IF o.ver = cur THEN waived \cup {o.assoc} ELSE waived
        BY <1>0, <1>14 DEF PathQueueOperationCancel, TypeOK
    <2>2. ASSUME NEW a \in Assoc, a \notin waived', NEW kind, NEW states,
                 Settled(a, kind, states)
          PROVE  Settled(a, kind, states)'
        <3>1. ~(o.assoc = a /\ o.ver = cur)
            BY <2>1, <2>2
        <3> QED
            BY <2>1, <2>2, <3>1, SettledKept
    <2>3. NoLostWork'
        BY <1>0, <2>1, <2>2 DEF NoLostWork
    <2>4. outbox'[o].state = "absent"
        BY <1>0, <1>14, NewRecordFields DEF PathQueueOperationCancel, TypeOK
    <2>5. RetriesWanted'
        BY <1>0, <2>1, <2>4, RetriesKept
    <2> QED
        BY <1>6, <2>1, <2>3, <2>5
<1>15. ASSUME NEW o \in Ops, PathQueueOperationRetry(o) PROVE WorkInv'
    <2>1. /\ \A p \in Ops \ {o} : outbox'[p] = outbox[p]
          /\ outbox[o].state # "absent" /\ outbox'[o].state = "pending"
          /\ UNCHANGED <<cur, vstate, enabled, disabling, status, waived>>
        BY <1>0, <1>15, ClearClaimType
        DEF PathQueueOperationRetry, TypeOK, Record
    <2>2. NoLostWork'
        BY <1>0, <2>1, WorkUnchanged
    <2>3. RetriesWanted'
        BY <1>0, <2>1, RetriesKept
    <2> QED
        BY <1>6, <2>1, <2>2, <2>3
<1>16. CASE PathConfigWrite
    <2>1. UNCHANGED <<cur, vstate, enabled, disabling, status, waived, outbox>>
        BY <1>16 DEF PathConfigWrite
    <2>2. NoLostWork' /\ RetriesWanted'
        BY <1>0, <2>1, WorkUnchanged DEF RetriesWanted
    <2> QED
        BY <1>6, <2>1, <2>2
<1> QED
    BY <1>4, <1>5, <1>7, <1>10, <1>11, <1>12, <1>13, <1>14, <1>15, <1>16
    DEF Request, WorkKeepingOps

(* What putStatus stores. *)
LEMMA PutStatusStored ==
    ASSUME TypeOK, NEW b \in Assoc, NEW v \in Nat, NEW s,
           status' = PutStatus(b, v, s)
    PROVE  /\ \A a \in Assoc \ {b} : status'[a] = status[a]
           /\ v >= status[b].ver => status'[b] = [ver |-> v, state |-> s]
           /\ ~(v >= status[b].ver) => status'[b] = status[b]
<1>1. status[b].ver \in Nat
    BY ConstantsAssumption DEF ConstantsAssumption, TypeOK
<1> QED
    BY <1>1 DEF PutStatus, TypeOK

(* A pass that still holds its claim dispatches a queued operation; one of *)
(* the current version is of the kind that version wants.                  *)
LEMMA HeldIsWanted ==
    ASSUME QueueInv, RetriesWanted, NEW w \in Worker, InFlight(w),
           ClaimMatches(w)
    PROVE  /\ op[w] \in Ops /\ IsQueued(outbox[op[w]]) /\ op[w].ver <= cur
           /\ op[w].assoc \in Assoc /\ op[w].ver \in Nat
           /\ op[w].ver = cur =>
                  (vstate[cur] = "live" <=> op[w].kind = "upsert")
<1>1. op[w] \in Ops /\ IsQueued(outbox[op[w]]) /\ op[w].ver <= cur
    BY DEF QueueInv, ClaimTimes, StoredOps, ClaimMatches
<1>2. op[w].assoc \in Assoc /\ op[w].ver \in Nat /\ op[w].ver # 0
    BY <1>1, OpsTypes, ConstantsAssumption DEF ConstantsAssumption
<1>3. ASSUME op[w].ver = cur
      PROVE  (vstate[cur] = "live") = (op[w].kind = "upsert")
    <2>1. CASE "retry" \notin UserOps
        BY <1>1, <1>3, <2>1 DEF QueueInv, QueuedOpsWanted
    <2>2. CASE "retry" \in UserOps
        <3>1. cur > 0
            BY <1>2, <1>3
        <3> QED
            BY <1>1, <2>2, <3>1 DEF RetriesWanted, IsQueued
    <2> QED
        BY <2>1, <2>2
<1> QED
    BY <1>1, <1>2, <1>3

(* The outcome a pass commits settles the work whose record it removes, or *)
(* leaves the record for a retry or an operator.                           *)
LEMMA CommitKeepsWork ==
    ASSUME WorkInv, NEW w \in Worker, InFlight(w),
           NEW r, NEW s,
           CommitIfClaimHeld(w, r, PutStatus(op[w].assoc, op[w].ver, s)),
           \/ s = SuccessState(op[w])
           \/ s = "FAILED" /\ r.state # "absent"
    PROVE  NoLostWork' /\ StatusBehind'
<1> USE DEF sourceVars, assocVars
<1>0. /\ QueueInv /\ RetriesWanted /\ TypeOK /\ NoLostWork /\ StatusBehind
      /\ cur \in Nat
      /\ \A a \in Assoc : status[a].ver \in Nat
      /\ UNCHANGED <<cur, vstate, enabled, disabling, waived>>
    BY ConstantsAssumption
    DEF ConstantsAssumption, WorkInv, QueueInv, TypeOK, CommitIfClaimHeld
<1>1. CASE ~ClaimMatches(w)
    <2>1. UNCHANGED <<outbox, status>>
        BY <1>1 DEF CommitIfClaimHeld
    <2> QED
        BY <1>0, <2>1, WorkUnchanged DEF StatusBehind
<1>2. CASE ClaimMatches(w)
    <2> DEFINE b == op[w].assoc
               v == op[w].ver
    <2>1. /\ op[w] \in Ops /\ v <= cur /\ b \in Assoc /\ v \in Nat
          /\ v = cur => (vstate[cur] = "live" <=> op[w].kind = "upsert")
        BY <1>0, <1>2, HeldIsWanted
    <2>2. /\ outbox'[op[w]] = r
          /\ \A p \in Ops \ {op[w]} : outbox'[p] = outbox[p]
          /\ status' = PutStatus(b, v, s)
        BY <1>0, <1>2, <2>1 DEF CommitIfClaimHeld, TypeOK
    <2>3. /\ \A a \in Assoc \ {b} : status'[a] = status[a]
          /\ v >= status[b].ver => status'[b] = [ver |-> v, state |-> s]
          /\ ~(v >= status[b].ver) => status'[b] = status[b]
        BY <1>0, <2>1, <2>2, PutStatusStored
    <2>4. StatusBehind'
        BY <1>0, <2>1, <2>3 DEF StatusBehind
    <2>5. ASSUME NEW a \in Assoc, NEW kind \in {"upsert", "delete"}, NEW states,
                 vstate[cur] = "live" <=> kind = "upsert",
                 "FAILED" \in states,
                 op[w].kind = kind => SuccessState(op[w]) \in states,
                 Settled(a, kind, states)
          PROVE  Settled(a, kind, states)'
        <3>1. s = SuccessState(op[w]) \/ s = "FAILED"
            OBVIOUS
        <3>2. v = cur => op[w].kind = kind /\ s \in states
            <4>1. op[w].kind \in {"upsert", "delete"}
                BY <2>1, OpsTypes
            <4>2. v = cur => op[w].kind = kind
                BY <2>1, <2>5, <4>1
            <4> QED
                BY <2>5, <3>1, <4>2
        <3>3. CASE status[a].ver = cur /\ status[a].state \in states
            <4>1. CASE status'[a] = status[a]
                BY <1>0, <3>3, <4>1 DEF Settled
            <4>2. CASE a = b /\ v >= status[b].ver /\ status'[b] = [ver |-> v, state |-> s]
                <5>1. v = cur
                    BY <1>0, <2>1, <3>3, <4>2
                <5> QED
                    BY <1>0, <3>2, <4>2, <5>1 DEF Settled
            <4> QED
                BY <2>3, <4>1, <4>2
        <3>4. ASSUME NEW o \in Ops, o.kind = kind, o.assoc = a, o.ver = cur,
                     outbox[o].state # "absent"
              PROVE  Settled(a, kind, states)'
            <4>1. CASE o # op[w]
                BY <1>0, <2>2, <3>4, <4>1 DEF Settled
            <4>2. CASE o = op[w] /\ r.state # "absent"
                BY <1>0, <2>2, <3>4, <4>2 DEF Settled
            <4>3. CASE o = op[w] /\ s = SuccessState(op[w])
                <5>1. v = cur /\ a = b
                    BY <3>4, <4>3
                <5>2. status'[b] = [ver |-> v, state |-> s]
                    BY <1>0, <2>1, <2>3, <5>1 DEF StatusBehind
                <5> QED
                    BY <1>0, <3>2, <5>1, <5>2 DEF Settled
            <4> QED
                BY <4>1, <4>2, <4>3
        <3> QED
            BY <2>5, <3>3, <3>4 DEF Settled
    <2>6. ASSUME NEW a \in Assoc, vstate[cur] = "live",
                 Settled(a, "upsert", {"SYNCED", "FAILED"})
          PROVE  Settled(a, "upsert", {"SYNCED", "FAILED"})'
        BY <2>5, <2>6 DEF SuccessState
    <2>7. ASSUME NEW a \in Assoc, vstate[cur] # "live",
                 Settled(a, "delete", {"REMOTE_MISSING", "FAILED"})
          PROVE  Settled(a, "delete", {"REMOTE_MISSING", "FAILED"})'
        BY <2>5, <2>7 DEF SuccessState
    <2>8. NoLostWork'
        BY <1>0, <2>6, <2>7 DEF NoLostWork
    <2> QED
        BY <2>4, <2>8
<1> QED
    BY <1>1, <1>2

LEMMA PassKeepsWork ==
    ASSUME WorkInv, NEW w \in Worker, Pass(w)
    PROVE  WorkInv'
<1> USE DEF sourceVars, assocVars
<1>0. /\ QueueInv /\ QueueInv' /\ RetriesWanted /\ TypeOK /\ NoLostWork
      /\ cur \in Nat
    BY PassQueueInv, ConstantsAssumption
    DEF ConstantsAssumption, WorkInv, QueueInv, TypeOK
<1>1. UNCHANGED <<cur, vstate, enabled, disabling, waived>>
    <2>1. ASSUME NEW s, GoTo(w, s)
          PROVE  UNCHANGED <<cur, vstate, enabled, disabling, waived>>
        BY <2>1 DEF GoTo
    <2>2. ASSUME NEW class, Fail(w, class)
          PROVE  UNCHANGED <<cur, vstate, enabled, disabling, waived>>
        BY <2>1, <2>2 DEF Fail
    <2>3. CASE CheckStale(w) \/ LoadVersion(w) \/ LoadTarget(w)
        BY <2>1, <2>2, <2>3 DEF CheckStale, LoadVersion, LoadTarget
    <2>4. CASE ProviderGet(w)
        BY <2>1, <2>2, <2>4 DEF ProviderGet
    <2>5. CASE ProviderPut(w)
        BY <2>1, <2>2, <2>5 DEF ProviderPut
    <2>6. ASSUME NEW class, ProviderError(w, class)
          PROVE  UNCHANGED <<cur, vstate, enabled, disabling, waived>>
        BY <2>2, <2>6 DEF ProviderError
    <2>7. CASE CommitCancel(w) \/ CommitSuccess(w) \/ CommitFailure(w) \/ Abandon(w)
        BY <2>7
        DEF CommitCancel, CommitSuccess, CommitFailure, CommitIfClaimHeld, Abandon
    <2>8. ASSUME NEW o, ClaimOutboxRecord(w, o)
          PROVE  UNCHANGED <<cur, vstate, enabled, disabling, waived>>
        BY <2>8 DEF ClaimOutboxRecord
    <2> QED
        BY <2>3, <2>4, <2>5, <2>6, <2>7, <2>8 DEF Pass
<1>2. AllEnabled'
    BY <1>1 DEF WorkInv, AllEnabled
<1>3. ASSUME \A o \in Ops : outbox'[o].state # "absent" =>
                  outbox[o].state # "absent"
       PROVE  RetriesWanted'
    BY <1>0, <1>1, <1>3, RetriesKept
<1>4. ASSUME \A x \in Worker : pc'[x] = "cancel" =>
                  op'[x] = op[x] /\ (pc[x] = "cancel" \/ op[x].ver < cur)
      PROVE  CancelsStale'
    BY <1>1, <1>4 DEF WorkInv, CancelsStale
<1>5. ASSUME UNCHANGED <<outbox, status>>
      PROVE  NoLostWork' /\ StatusBehind' /\ RetriesWanted'
    BY <1>0, <1>1, <1>3, <1>5, WorkUnchanged DEF WorkInv, StatusBehind
<1>6. ASSUME NEW s, s # "cancel", GoTo(w, s) PROVE WorkInv'
    <2>1. CancelsStale'
        BY <1>0, <1>4, <1>6 DEF GoTo, TypeOK
    <2> QED
        BY <1>0, <1>2, <1>5, <1>6, <2>1 DEF WorkInv, GoTo
<1>7. ASSUME NEW class, Fail(w, class) PROVE WorkInv'
    BY <1>6, <1>7 DEF Fail
<1>8. CASE CheckStale(w)
    <2>1. op[w].ver \in Nat
        BY <1>0, <1>8, OpsTypes, ConstantsAssumption
        DEF ConstantsAssumption, CheckStale, TypeOK, InFlight
    <2>2. CancelsStale'
        BY <1>0, <1>4, <1>8, <2>1 DEF CheckStale, GoTo, TypeOK
    <2> QED
        BY <1>0, <1>2, <1>5, <1>8, <2>2 DEF WorkInv, CheckStale, GoTo
<1>9. CASE LoadVersion(w)
    BY <1>6, <1>7, <1>9 DEF LoadVersion
<1>10. CASE LoadTarget(w)
    BY <1>6, <1>7, <1>10 DEF LoadTarget
<1>11. CASE ProviderGet(w)
    BY <1>6, <1>7, <1>11 DEF ProviderGet
<1>12. CASE ProviderPut(w)
    BY <1>6, <1>7, <1>12 DEF ProviderPut
<1>13. ASSUME NEW class, ProviderError(w, class) PROVE WorkInv'
    BY <1>7, <1>13 DEF ProviderError
<1>14. ASSUME Idle(w), NoLostWork', StatusBehind', RetriesWanted' PROVE WorkInv'
    <2>1. CancelsStale'
        BY <1>0, <1>4, <1>14 DEF Idle, TypeOK
    <2> QED
        BY <1>0, <1>2, <1>14, <2>1 DEF WorkInv
<1>15. ASSUME NEW r, NEW st, InFlight(w), CommitIfClaimHeld(w, r, st)
       PROVE  RetriesWanted'
    <2>1. op[w] \in Ops
        BY <1>0, <1>15 DEF TypeOK
    <2>2. \A o \in Ops : outbox'[o] # outbox[o] => outbox[o].state # "absent"
        BY <1>0, <1>15, <2>1 DEF CommitIfClaimHeld, ClaimMatches, TypeOK
    <2> QED
        BY <1>3, <2>2
<1>16. CASE Abandon(w)
    BY <1>5, <1>14, <1>16 DEF Abandon
<1>17. CASE CommitCancel(w)
    <2>1. op[w] \in Ops /\ op[w].ver < cur /\ UNCHANGED status
        BY <1>0, <1>17
        DEF CommitCancel, CommitIfClaimHeld, WorkInv, CancelsStale, TypeOK, InFlight
    <2>2. \A o \in Ops \ {op[w]} : outbox'[o] = outbox[o]
        BY <1>0, <1>17 DEF CommitCancel, CommitIfClaimHeld, TypeOK
    <2>3. op[w].ver # cur
        BY <1>0, <2>1, OpsTypes
    <2>4. NoLostWork'
        BY <1>0, <1>1, <2>1, <2>2, <2>3, WorkUnchanged
    <2>5. StatusBehind'
        BY <1>1, <2>1 DEF WorkInv, StatusBehind
    <2> QED
        BY <1>14, <1>15, <1>17, <2>4, <2>5
        DEF CommitCancel, CommitIfClaimHeld, InFlight
<1>18. CASE CommitSuccess(w)
    <2>1. NoLostWork' /\ StatusBehind'
        BY <1>18, CommitKeepsWork DEF CommitSuccess, InFlight
    <2> QED
        BY <1>14, <1>15, <1>18, <2>1 DEF CommitSuccess, CommitIfClaimHeld, InFlight
<1>19. CASE CommitFailure(w)
    <2>1. FailedRecord(rec[w], res[w]).state # "absent"
        <3>1. ClearClaim(rec[w]) \in Record
            BY <1>0, ClearClaimType DEF TypeOK
        <3> QED
            BY <3>1 DEF FailedRecord, Record
    <2>2. NoLostWork' /\ StatusBehind'
        BY <1>19, <2>1, CommitKeepsWork DEF CommitFailure, InFlight
    <2> QED
        BY <1>14, <1>15, <1>19, <2>2 DEF CommitFailure, CommitIfClaimHeld, InFlight
<1>20. ASSUME NEW o \in Ops, ClaimOutboxRecord(w, o) PROVE WorkInv'
    <2>1. \A p \in Ops : outbox'[p].state = outbox[p].state
        BY <1>0, <1>20 DEF ClaimOutboxRecord, ClaimedRecord, Record, TypeOK
    <2>2. UNCHANGED status
        BY <1>20 DEF ClaimOutboxRecord
    <2>3. NoLostWork'
        BY <1>0, <1>1, <2>1, <2>2, WorkUnchanged
    <2>4. StatusBehind'
        BY <1>1, <2>2 DEF WorkInv, StatusBehind
    <2>5. CancelsStale'
        BY <1>0, <1>4, <1>20 DEF ClaimOutboxRecord, TypeOK
    <2> QED
        BY <1>0, <1>2, <1>3, <2>1, <2>3, <2>4, <2>5 DEF WorkInv
<1> QED
    BY <1>8, <1>9, <1>10, <1>11, <1>12, <1>13, <1>16, <1>17, <1>18, <1>19, <1>20
    DEF Pass

LEMMA WorkStep ==
    ASSUME WorkInv, WorkKeepingOps, [Next]_vars
    PROVE  WorkInv'
<1>0. QueueInv'
    BY QueueStep DEF WorkInv
<1>1. CASE Request
    BY <1>1, RequestKeepsWork
<1>2. ASSUME NEW w \in Worker, Pass(w) PROVE WorkInv'
    BY <1>2, PassKeepsWork
<1>3. CASE Restart \/ Tick \/ UNCHANGED vars
    <2>1. UNCHANGED <<cur, vstate, enabled, outbox, status, waived>>
        BY <1>3 DEF Restart, Tick, vars, sourceVars, assocVars
    <2>2. disabling' = disabling /\ disabling = None
        BY <1>3 DEF Restart, Tick, vars, assocVars, WorkInv, AllEnabled
    <2>3. NoLostWork'
        BY <2>1, <2>2, WorkUnchanged DEF WorkInv
    <2>4. CancelsStale'
        BY <1>3, <2>1 DEF Restart, Tick, vars, passVars, WorkInv, CancelsStale
    <2>5. RetriesWanted'
        BY <2>1 DEF WorkInv, RetriesWanted
    <2> QED
        BY <1>0, <2>1, <2>2, <2>3, <2>4, <2>5
        DEF WorkInv, AllEnabled, StatusBehind
<1> QED
    BY <1>1, <1>2, <1>3 DEF Next

LEMMA WorkInit == Init => WorkInv
<1> SUFFICES ASSUME Init PROVE WorkInv
    OBVIOUS
<1> QED
    BY QueueInit, NewRecordFields
    DEF Init, WorkInv, AllEnabled, StatusBehind, CancelsStale, RetriesWanted,
        NoLostWork

(* Work a request accepted is never lost (the commits of a pass remove a   *)
(* record only together with the status that reports its outcome, and      *)
(* requests only what they replace): for every number of associations and  *)
(* passes, with leases that expire, crashes, lost answers and operators    *)
(* cancelling operations, for the request handlers of WorkKeepingOps.      *)
THEOREM WorkNeverLost == WorkKeepingOps /\ Spec => []NoLostWork
<1>1. WorkInv => NoLostWork
    BY DEF WorkInv
<1>2. CASE WorkKeepingOps
    <2>1. WorkInv /\ [Next]_vars => WorkInv'
        BY <1>2, WorkStep
    <2> QED
        BY <1>1, <2>1, WorkInit, PTL DEF Spec
<1> QED
    BY <1>2

-----------------------------------------------------------------------------
(* A SYNCED status tells the truth *)

(* The conditions under which it does: the provider conditions its write   *)
(* on what it read, passes end within their lease, and operators do not    *)
(* cancel the operation that would bring the remote object back in line.   *)
TruthfulSetting ==
    /\ UserOps \cap {"disable", "retry", "cancel", "delete_version", "destroy"}
           = {}
    /\ RemoteCAS /\ ~Overrun

LEMMA TruthfulOps == TruthfulSetting => WorkKeepingOps /\ ClaimSafeOps
BY DEF TruthfulSetting, WorkKeepingOps, ClaimSafeOps

WithinLease == \A w \in Worker : InFlight(w) => rec[w].expires > now

(* Deletes reach the provider for delete_mode "delete" only, and are sent  *)
(* only for an object that was there.                                      *)
DeletesWanted ==
    \A w \in Worker : op[w].kind = "delete" =>
        /\ pc[w] \in {"get", "put", "done"} => op[w].assoc \in DeleteAssoc
        /\ pc[w] = "put" => seen[w] # 0

(* An upsert of the current version about to be reported as done has       *)
(* reached the remote object.                                              *)
DoneIsRemote ==
    \A w \in Worker :
        pc[w] = "done" /\ op[w].kind = "upsert" /\ op[w].ver = cur =>
            remote[op[w].assoc] = cur

(* While a SYNCED status of the current version is not true of the remote  *)
(* object, an operation that corrects one of the two is queued.            *)
SyncedOrQueued ==
    \A a \in Assoc : status[a] = [ver |-> cur, state |-> "SYNCED"] =>
        \/ remote[a] = cur
        \/ a \in DeleteAssoc /\ \E o \in Ops :
               o.assoc = a /\ o.ver = cur /\ IsQueued(outbox[o])

TruthInv ==
    /\ ClaimInv /\ WorkInv /\ ReadInv /\ WithinLease /\ DeletesWanted
    /\ DoneIsRemote /\ SyncedOrQueued

(* Every pass within its lease dispatches a queued, wanted operation.      *)
LEMMA RunningIsWanted ==
    ASSUME TruthInv, TruthfulSetting, NEW w \in Worker, InFlight(w)
    PROVE  /\ ClaimMatches(w) /\ IsClaimActive(outbox[op[w]])
           /\ op[w] \in Ops /\ IsQueued(outbox[op[w]]) /\ op[w].ver <= cur
           /\ op[w].assoc \in Assoc /\ op[w].ver \in Nat
           /\ op[w].ver = cur =>
                  (vstate[cur] = "live" <=> op[w].kind = "upsert")
<1>1. ClaimInv /\ rec[w].expires > now
    BY DEF TruthInv, WithinLease
<1>2. ClaimMatches(w)
    BY <1>1 DEF ClaimInv, ClaimIntact
<1>3. IsClaimActive(outbox[op[w]])
    BY <1>1, IntactIsActive
<1> QED
    BY <1>1, <1>2, <1>3, HeldIsWanted DEF TruthInv, WorkInv

(* The claim of a pass keeps the current version from being deleted or     *)
(* undeleted under it, and a new version finds no status of its own.       *)
LEMMA RequestTruth ==
    ASSUME TruthInv, TruthfulSetting, Request
    PROVE  TruthInv'
<1> USE DEF sourceVars, assocVars, passVars
<1>0. /\ WorkInv /\ WorkInv' /\ ReadInv' /\ ClaimInv /\ ClaimInv' /\ TypeOK
      /\ cur \in Nat /\ MaxVersion \in Nat /\ EnabledAssoc = Assoc
      /\ \A a \in Assoc : status[a].ver \in Nat
    BY RequestKeepsWork, RequestClaimInv, ReadStep, TruthfulOps,
       ConstantsAssumption
    DEF ConstantsAssumption, TruthInv, WorkInv, ClaimInv, TypeOK, AllEnabled,
        EnabledAssoc, TruthfulSetting, Next
<1>1. UNCHANGED <<pc, op, seen, remote, rec, now>> /\ cur' >= cur
    BY <1>0, RequestSeen, RequestFrame
<1>2. WithinLease' /\ DeletesWanted'
    BY <1>1 DEF TruthInv, WithinLease, DeletesWanted, InFlight
<1>3. DoneIsRemote'
    <2> SUFFICES ASSUME NEW w \in Worker, pc[w] = "done",
                        op[w].kind = "upsert", op[w].ver = cur'
                 PROVE  remote[op[w].assoc] = cur'
        BY <1>1 DEF DoneIsRemote
    <2>1. op[w].ver <= cur /\ op[w].ver \in Nat
        BY RunningIsWanted DEF InFlight
    <2>2. cur' = cur
        BY <1>0, <1>1, <2>1
    <2> QED
        BY <2>2 DEF TruthInv, DoneIsRemote
<1> SUFFICES SyncedOrQueued'
    BY <1>0, <1>2, <1>3 DEF TruthInv
<1>4. ASSUME UNCHANGED <<cur, status>>,
             \A a \in DeleteAssoc :
                 (\E o \in Ops : /\ o.assoc = a /\ o.ver = cur
                                 /\ IsQueued(outbox[o]))
                 => \E o \in Ops : /\ o.assoc = a /\ o.ver = cur
                                   /\ IsQueued(outbox'[o])
      PROVE  SyncedOrQueued'
    BY <1>1, <1>4 DEF TruthInv, SyncedOrQueued
<1>5. CASE PathDataWrite
    <2>1. cur' = cur + 1 /\ UNCHANGED status
        BY <1>5 DEF PathDataWrite
    <2>2. \A a \in Assoc : status'[a].ver # cur'
        BY <1>0, <2>1 DEF WorkInv, StatusBehind
    <2> QED
        BY <2>2 DEF SyncedOrQueued
<1>6. CASE PathDataDelete
    <2>1. /\ outbox' = Replaced({Delete(a, cur) : a \in Assoc \cap DeleteAssoc},
                                UpsertsOfVersion(cur))
          /\ UNCHANGED <<cur, status>> /\ cur \in 1..MaxVersion
        BY <1>0, <1>6 DEF PathDataDelete, DeleteCurrent, TypeOK
    <2>2. ASSUME NEW a \in DeleteAssoc
          PROVE  \E o \in Ops : o.assoc = a /\ o.ver = cur /\ IsQueued(outbox'[o])
        <3>1. a \in Assoc
            BY ConstantsAssumption DEF ConstantsAssumption
        <3>2. /\ Delete(a, cur) \in Ops
              /\ Delete(a, cur).assoc = a /\ Delete(a, cur).ver = cur
            BY <2>1, <3>1, UpsertType DEF Delete
        <3>3. outbox'[Delete(a, cur)] = NewRecord
            BY <2>1, <3>1, <3>2 DEF Replaced
        <3> QED
            BY <3>2, <3>3, NewRecordFields DEF IsQueued
    <2> QED
        BY <1>4, <2>1, <2>2
<1>7. ASSUME NEW v \in Versions, PathVersionUndelete(v) PROVE SyncedOrQueued'
    <2>1. CASE v = cur /\ vstate[v] = "deleted"
        <3>1. /\ outbox' = Replaced({Upsert(a, cur) : a \in Assoc},
                                    DeletesOfVersion(cur))
              /\ UNCHANGED <<cur, status>> /\ cur \in 1..MaxVersion
            BY <1>0, <1>7, <2>1
            DEF PathVersionUndelete, UndeleteCurrent, TypeOK, Versions
        <3>2. ASSUME NEW a \in DeleteAssoc
              PROVE  \E o \in Ops : /\ o.assoc = a /\ o.ver = cur
                                    /\ IsQueued(outbox'[o])
            <4>1. a \in Assoc
                BY ConstantsAssumption DEF ConstantsAssumption
            <4>2. /\ Upsert(a, cur) \in Ops
                  /\ Upsert(a, cur).assoc = a /\ Upsert(a, cur).ver = cur
                BY <3>1, <4>1, UpsertType DEF Upsert
            <4>3. outbox'[Upsert(a, cur)] = NewRecord
                BY <3>1, <4>1, <4>2 DEF Replaced
            <4> QED
                BY <4>2, <4>3, NewRecordFields DEF IsQueued
        <3> QED
            BY <1>4, <3>1, <3>2
    <2>2. CASE ~(v = cur /\ vstate[v] = "deleted")
        BY <1>4, <1>7, <2>2 DEF PathVersionUndelete, SetVersion
    <2> QED
        BY <2>1, <2>2
<1>8. ASSUME NEW a \in Assoc, PathAssociationSync(a) PROVE SyncedOrQueued'
    <2>1. PICK put : outbox' = Replaced(put, {})
        BY <1>8 DEF PathAssociationSync
    <2>2. \A o \in Ops : IsQueued(outbox[o]) => IsQueued(outbox'[o])
        BY <2>1, NewRecordFields DEF Replaced, IsQueued
    <2> QED
        BY <1>4, <1>8, <2>2 DEF PathAssociationSync
<1>9. ASSUME NEW a \in Assoc PROVE ~PathAssociationEnable(a)
    BY <1>0 DEF WorkInv, AllEnabled, PathAssociationEnable
<1>10. ~AssociationDisablePersist
    BY <1>0 DEF WorkInv, AllEnabled, AssociationDisablePersist
<1>11. CASE PathConfigWrite
    BY <1>4, <1>11 DEF PathConfigWrite
<1> QED
    BY <1>0, <1>5, <1>6, <1>7, <1>8, <1>9, <1>10, <1>11
    DEF Request, TruthfulSetting

(* The remote write of a pass: an older version never replaces the current *)
(* one, and a delete of the current version has its record queued.         *)
LEMMA PutTruth ==
    ASSUME TruthInv, TruthfulSetting, NEW w \in Worker, pc[w] = "put",
           PutAccepted(w),
           remote' = [remote EXCEPT ![op[w].assoc] =
                          IF op[w].kind = "upsert" THEN op[w].ver ELSE 0],
           UNCHANGED <<cur, vstate, outbox, status, op>>,
           \A x \in Worker : pc'[x] = "done" =>
               pc[x] = "done" \/ (x = w)
    PROVE  DoneIsRemote' /\ SyncedOrQueued'
<1> DEFINE b == op[w].assoc
           v == op[w].ver
<1>0. /\ op[w] \in Ops /\ IsQueued(outbox[op[w]]) /\ v <= cur
      /\ b \in Assoc /\ v \in Nat /\ v # 0
      /\ op[w].kind \in {"upsert", "delete"}
      /\ v = cur => (vstate[cur] = "live" <=> op[w].kind = "upsert")
    BY RunningIsWanted, OpsTypes DEF InFlight
<1>1. /\ cur \in Nat /\ seen[w] \in Nat /\ \A a \in Assoc : remote[a] \in Nat
    BY ConstantsAssumption
    DEF ConstantsAssumption, TruthInv, ClaimInv, TypeOK
<1>2. seen[w] <= v /\ remote[b] = seen[w]
    BY DEF TruthInv, ReadInv, PutAccepted, TruthfulSetting
<1>3. /\ \A a \in Assoc \ {b} : remote'[a] = remote[a]
      /\ remote'[b] = IF op[w].kind = "upsert" THEN v ELSE 0
    BY <1>0 DEF TruthInv, ClaimInv, TypeOK
<1>4. remote[b] = cur => v = cur
    BY <1>0, <1>1, <1>2
<1>5. DoneIsRemote'
    <2> SUFFICES ASSUME NEW x \in Worker, pc'[x] = "done",
                        op[x].kind = "upsert", op[x].ver = cur
                 PROVE  remote'[op[x].assoc] = cur
        BY DEF DoneIsRemote
    <2>1. CASE x = w
        BY <1>3, <2>1
    <2>2. CASE x # w
        <3>1. /\ remote[op[x].assoc] = cur /\ op[x].assoc \in Assoc
              /\ vstate[cur] = "live"
            BY <2>2, RunningIsWanted DEF TruthInv, DoneIsRemote, InFlight
        <3>2. CASE op[x].assoc # b
            BY <1>3, <3>1, <3>2
        <3>3. CASE op[x].assoc = b
            <4>1. v = cur /\ op[w].kind = "upsert"
                BY <1>0, <1>4, <3>1, <3>3
            <4> QED
                BY <1>3, <3>3, <4>1
        <3> QED
            BY <3>2, <3>3
    <2> QED
        BY <2>1, <2>2
<1>6. SyncedOrQueued'
    <2> SUFFICES ASSUME NEW a \in Assoc,
                        status[a] = [ver |-> cur, state |-> "SYNCED"],
                        remote'[a] # cur
                 PROVE  a \in DeleteAssoc /\ \E o \in Ops :
                            o.assoc = a /\ o.ver = cur /\ IsQueued(outbox[o])
        BY DEF SyncedOrQueued
    <2>1. CASE remote[a] # cur
        BY <2>1 DEF TruthInv, SyncedOrQueued
    <2>2. CASE remote[a] = cur
        <3>1. a = b /\ v = cur /\ op[w].kind = "delete"
            BY <1>0, <1>3, <1>4, <2>2
        <3>2. a \in DeleteAssoc
            BY <3>1 DEF TruthInv, DeletesWanted
        <3> QED
            BY <1>0, <3>1, <3>2
    <2> QED
        BY <2>1, <2>2
<1> QED
    BY <1>5, <1>6

(* The outcome a pass commits: SYNCED only with the remote object in line, *)
(* and a record removed or failed only with a status of its own.           *)
LEMMA CommitTruth ==
    ASSUME TruthInv, TruthfulSetting, NEW w \in Worker,
           NEW r, NEW s, NEW st, CommitIfClaimHeld(w, r, st),
           UNCHANGED remote,
           \/ pc[w] = "cancel" /\ st = status
           \/ /\ pc[w] \in {"done", "failed"}
              /\ st = PutStatus(op[w].assoc, op[w].ver, s)
              /\ s = "SYNCED" => pc[w] = "done" /\ op[w].kind = "upsert"
    PROVE  SyncedOrQueued'
<1> USE DEF sourceVars, assocVars
<1> DEFINE b == op[w].assoc
           v == op[w].ver
<1>0. /\ ClaimMatches(w) /\ op[w] \in Ops /\ v <= cur /\ b \in Assoc /\ v \in Nat
    BY RunningIsWanted DEF InFlight
<1>1. /\ TypeOK /\ cur' = cur /\ cur \in Nat
      /\ \A a \in Assoc : status[a].ver \in Nat
    BY ConstantsAssumption
    DEF ConstantsAssumption, TruthInv, ClaimInv, TypeOK, CommitIfClaimHeld
<1>2. /\ \A p \in Ops \ {op[w]} : outbox'[p] = outbox[p]
      /\ status' = st
    BY <1>0, <1>1 DEF CommitIfClaimHeld, TypeOK
<1> SUFFICES ASSUME NEW a \in Assoc,
                    status'[a] = [ver |-> cur, state |-> "SYNCED"],
                    remote[a] # cur
             PROVE  a \in DeleteAssoc /\ \E o \in Ops :
                        o.assoc = a /\ o.ver = cur /\ IsQueued(outbox'[o])
    BY <1>1 DEF SyncedOrQueued
<1>3. ASSUME status[a] = status'[a], ~(a = b /\ v = cur)
      PROVE  a \in DeleteAssoc /\ \E o \in Ops :
                 o.assoc = a /\ o.ver = cur /\ IsQueued(outbox'[o])
    <2>1. a \in DeleteAssoc
        BY <1>3 DEF TruthInv, SyncedOrQueued
    <2>2. PICK o \in Ops : o.assoc = a /\ o.ver = cur /\ IsQueued(outbox[o])
        BY <1>3 DEF TruthInv, SyncedOrQueued
    <2>3. o # op[w]
        BY <1>3, <2>2
    <2> QED
        BY <1>2, <2>1, <2>2, <2>3
<1>4. CASE pc[w] = "cancel" /\ st = status
    <2>1. v < cur
        BY <1>4 DEF TruthInv, WorkInv, CancelsStale
    <2> QED
        BY <1>0, <1>1, <1>2, <1>3, <1>4, <2>1
<1>5. CASE /\ pc[w] \in {"done", "failed"}
           /\ st = PutStatus(op[w].assoc, op[w].ver, s)
           /\ s = "SYNCED" => pc[w] = "done" /\ op[w].kind = "upsert"
    <2>1. /\ \A c \in Assoc \ {b} : status'[c] = status[c]
          /\ v >= status[b].ver => status'[b] = [ver |-> v, state |-> s]
          /\ ~(v >= status[b].ver) => status'[b] = status[b]
        BY <1>0, <1>1, <1>2, <1>5, PutStatusStored
    <2>2. CASE a # b
        BY <1>3, <2>1, <2>2
    <2>3. CASE a = b /\ ~(v >= status[b].ver)
        <3>1. v # cur
            BY <1>0, <1>1, <2>3 DEF TruthInv, WorkInv, StatusBehind
        <3> QED
            BY <1>3, <2>1, <2>3, <3>1
    <2>4. CASE a = b /\ v >= status[b].ver
        <3>1. v = cur /\ s = "SYNCED"
            <4>1. [ver |-> v, state |-> s] = [ver |-> cur, state |-> "SYNCED"]
                BY <2>1, <2>4
            <4> QED
                BY <4>1
        <3>2. remote[b] = cur
            BY <1>5, <3>1 DEF TruthInv, DoneIsRemote
        <3> QED
            BY <2>4, <3>2
    <2> QED
        BY <2>2, <2>3, <2>4
<1> QED
    BY <1>4, <1>5

LEMMA PassTruth ==
    ASSUME TruthInv, TruthfulSetting, NEW w \in Worker, Pass(w)
    PROVE  TruthInv'
<1> USE DEF sourceVars, assocVars
<1>0. /\ ClaimInv' /\ WorkInv' /\ ReadInv'
      /\ TypeOK /\ now \in Nat /\ Lease \in Nat \ {0}
    BY PassClaimInv, PassKeepsWork, ReadStep, ConstantsAssumption
    DEF ConstantsAssumption, TruthInv, ClaimInv, TypeOK, TruthfulSetting, Next
<1>1. ASSUME UNCHANGED <<remote, cur>>,
             \A x \in Worker : pc'[x] = "done" => pc[x] = "done" /\ op'[x] = op[x]
      PROVE  DoneIsRemote'
    BY <1>1 DEF TruthInv, DoneIsRemote
<1>2. ASSUME UNCHANGED <<remote, cur, status, outbox>> PROVE SyncedOrQueued'
    BY <1>2 DEF TruthInv, SyncedOrQueued
<1>3. ASSUME UNCHANGED now,
             \A x \in Worker : InFlight(x)' => InFlight(x) /\ rec'[x] = rec[x]
      PROVE  WithinLease'
    BY <1>3 DEF TruthInv, WithinLease
<1>4. ASSUME \A x \in Worker :
                 pc'[x] \in {"get", "put", "done"} =>
                     pc'[x] = pc[x] /\ op'[x] = op[x] /\ seen'[x] = seen[x]
      PROVE  DeletesWanted'
    BY <1>4 DEF TruthInv, DeletesWanted
<1>5. ASSUME NEW s, InFlight(w), GoTo(w, s), s \notin {"get", "put", "done"},
             UNCHANGED <<remote, seen>>
      PROVE  TruthInv'
    <2>1. /\ \A x \in Worker \ {w} : pc'[x] = pc[x]
          /\ pc'[w] = s /\ UNCHANGED <<op, rec, now, cur, status, outbox>>
        BY <1>0, <1>5 DEF GoTo, TypeOK
    <2>2. WithinLease'
        BY <1>3, <1>5, <2>1 DEF InFlight
    <2>3. DeletesWanted' /\ DoneIsRemote' /\ SyncedOrQueued'
        BY <1>1, <1>2, <1>4, <1>5, <2>1
    <2> QED
        BY <1>0, <2>2, <2>3 DEF TruthInv
<1>6. ASSUME NEW class, InFlight(w), Fail(w, class), UNCHANGED remote
      PROVE  TruthInv'
    BY <1>5, <1>6 DEF Fail
<1>7. CASE CheckStale(w)
    BY <1>5, <1>7 DEF CheckStale, InFlight
<1>8. CASE LoadVersion(w)
    BY <1>5, <1>6, <1>8 DEF LoadVersion, InFlight
<1>9. CASE LoadTarget(w)
    <2>1. CASE Fail(w, "terminal")
        BY <1>6, <1>9, <2>1 DEF LoadTarget, InFlight
    <2>2. CASE /\ op[w].kind = "delete" => op[w].assoc \in DeleteAssoc
               /\ GoTo(w, "get") /\ UNCHANGED <<seen, res>>
        <3>1. /\ \A x \in Worker \ {w} : pc'[x] = pc[x]
              /\ pc'[w] = "get" /\ pc[w] = "target"
              /\ UNCHANGED <<op, rec, now, cur, status, outbox, seen, remote>>
            BY <1>0, <1>9, <2>2 DEF LoadTarget, GoTo, TypeOK
        <3>2. WithinLease'
            BY <1>3, <3>1 DEF InFlight
        <3>3. DoneIsRemote' /\ SyncedOrQueued'
            BY <1>1, <1>2, <3>1
        <3>4. DeletesWanted'
            BY <2>2, <3>1 DEF TruthInv, DeletesWanted
        <3> QED
            BY <1>0, <3>2, <3>3, <3>4 DEF TruthInv
    <2> QED
        BY <1>9, <2>1, <2>2 DEF LoadTarget
<1>10. CASE ProviderGet(w)
    <2>1. CASE Fail(w, "terminal")
        BY <1>6, <1>10, <2>1 DEF ProviderGet, InFlight
    <2>2. ASSUME seen' = [seen EXCEPT ![w] = remote[op[w].assoc]],
                 GoTo(w, IF remote[op[w].assoc]
                                = IF op[w].kind = "upsert" THEN op[w].ver ELSE 0
                         THEN "done" ELSE "put")
          PROVE  TruthInv'
        <3>1. /\ \A x \in Worker \ {w} : pc'[x] = pc[x] /\ seen'[x] = seen[x]
              /\ pc[w] = "get" /\ seen'[w] = remote[op[w].assoc]
              /\ pc'[w] = IF remote[op[w].assoc]
                                = IF op[w].kind = "upsert" THEN op[w].ver ELSE 0
                          THEN "done" ELSE "put"
              /\ UNCHANGED <<op, rec, now, cur, status, outbox, remote>>
            BY <1>0, <1>10, <2>2 DEF ProviderGet, GoTo, TypeOK
        <3>2. WithinLease'
            BY <1>3, <3>1 DEF InFlight
        <3>3. SyncedOrQueued'
            BY <1>2, <3>1
        <3>4. DoneIsRemote'
            BY <3>1 DEF TruthInv, DoneIsRemote
        <3>5. DeletesWanted'
            BY <3>1 DEF TruthInv, DeletesWanted
        <3> QED
            BY <1>0, <3>2, <3>3, <3>4, <3>5 DEF TruthInv
    <2> QED
        BY <1>10, <2>1, <2>2 DEF ProviderGet
<1>11. CASE ProviderPut(w)
    <2>1. CASE UNCHANGED remote /\ Fail(w, "terminal")
        BY <1>6, <1>11, <2>1 DEF ProviderPut, InFlight
    <2>2. CASE /\ PutAccepted(w)
               /\ remote' = [remote EXCEPT ![op[w].assoc] =
                                 IF op[w].kind = "upsert" THEN op[w].ver ELSE 0]
               /\ \E s \in {"done", "failed"} : GoTo(w, s)
               /\ UNCHANGED seen
        <3>1. /\ \A x \in Worker \ {w} : pc'[x] = pc[x]
              /\ pc[w] = "put" /\ pc'[w] \in {"done", "failed"}
              /\ UNCHANGED <<op, rec, now, cur, vstate, status, outbox, seen>>
            BY <1>0, <1>11, <2>2 DEF ProviderPut, GoTo, TypeOK
        <3>2. WithinLease'
            BY <1>3, <3>1 DEF InFlight
        <3>3. DoneIsRemote' /\ SyncedOrQueued'
            BY <2>2, <3>1, PutTruth
        <3>4. DeletesWanted'
            BY <3>1 DEF TruthInv, DeletesWanted
        <3> QED
            BY <1>0, <3>2, <3>3, <3>4 DEF TruthInv
    <2>3. Fail(w, "retryable") => GoTo(w, "failed") /\ UNCHANGED seen
        BY DEF Fail
    <2> QED
        BY <1>11, <2>1, <2>2, <2>3 DEF ProviderPut
<1>12. ASSUME NEW class, ProviderError(w, class) PROVE TruthInv'
    BY <1>6, <1>12 DEF ProviderError, InFlight
<1>13. ASSUME Idle(w), UNCHANGED <<remote, cur, now>>, SyncedOrQueued'
       PROVE  TruthInv'
    <2>1. \A x \in Worker \ {w} :
              /\ pc'[x] = pc[x] /\ op'[x] = op[x]
              /\ rec'[x] = rec[x] /\ seen'[x] = seen[x]
        BY <1>0, <1>13 DEF Idle, TypeOK
    <2>2. pc'[w] = "idle"
        BY <1>0, <1>13 DEF Idle, TypeOK
    <2>3. WithinLease'
        BY <1>3, <1>13, <2>1, <2>2 DEF InFlight
    <2>4. DeletesWanted'
        BY <1>4, <2>1, <2>2
    <2>5. DoneIsRemote'
        BY <1>1, <1>13, <2>1, <2>2
    <2> QED
        BY <1>0, <1>13, <2>3, <2>4, <2>5 DEF TruthInv
<1>14. CASE Abandon(w)
    BY <1>2, <1>13, <1>14 DEF Abandon
<1>15. CASE CommitCancel(w)
    <2>1. CommitIfClaimHeld(w, Absent, status) /\ pc[w] = "cancel"
        BY <1>15 DEF CommitCancel
    <2>2. UNCHANGED <<remote, cur, now>> /\ Idle(w)
        BY <2>1 DEF CommitIfClaimHeld
    <2> QED
        BY <1>13, <2>1, <2>2, CommitTruth
<1>16. CASE CommitSuccess(w)
    <2> DEFINE s == SuccessState(op[w])
    <2>1. /\ CommitIfClaimHeld(w, Absent, PutStatus(op[w].assoc, op[w].ver, s))
          /\ pc[w] = "done"
        BY <1>16 DEF CommitSuccess
    <2>2. s = "SYNCED" => op[w].kind = "upsert"
        BY DEF SuccessState
    <2>3. UNCHANGED <<remote, cur, now>> /\ Idle(w)
        BY <2>1 DEF CommitIfClaimHeld
    <2> HIDE DEF s
    <2> QED
        BY <1>13, <2>1, <2>2, <2>3, CommitTruth
<1>17. CASE CommitFailure(w)
    <2>1. /\ CommitIfClaimHeld(w, FailedRecord(rec[w], res[w]),
                               PutStatus(op[w].assoc, op[w].ver, "FAILED"))
          /\ pc[w] = "failed"
        BY <1>17 DEF CommitFailure
    <2>2. UNCHANGED <<remote, cur, now>> /\ Idle(w)
        BY <2>1 DEF CommitIfClaimHeld
    <2> QED
        BY <1>13, <2>1, <2>2, CommitTruth
<1>18. ASSUME NEW o \in Ops, ClaimOutboxRecord(w, o) PROVE TruthInv'
    <2>1. /\ \A x \in Worker \ {w} :
                 pc'[x] = pc[x] /\ op'[x] = op[x] /\ rec'[x] = rec[x]
          /\ pc'[w] \in {"stale", "version"}
          /\ rec'[w] = ClaimedRecord(outbox[o])
          /\ UNCHANGED <<remote, cur, now, status, seen>>
        BY <1>0, <1>18 DEF ClaimOutboxRecord, TypeOK
    <2>2. rec'[w].expires = now + Lease
        BY <1>0, <2>1 DEF ClaimedRecord, Record, TypeOK
    <2>3. WithinLease'
        BY <1>0, <2>1, <2>2 DEF TruthInv, WithinLease, InFlight
    <2>4. DeletesWanted' /\ DoneIsRemote'
        BY <1>1, <1>4, <2>1
    <2>5. \A p \in Ops : outbox'[p].state = outbox[p].state
        BY <1>0, <1>18 DEF ClaimOutboxRecord, ClaimedRecord, Record, TypeOK
    <2>6. SyncedOrQueued'
        BY <2>1, <2>5 DEF TruthInv, SyncedOrQueued, IsQueued
    <2> QED
        BY <1>0, <2>3, <2>4, <2>6 DEF TruthInv
<1> QED
    BY <1>7, <1>8, <1>9, <1>10, <1>11, <1>12, <1>14, <1>15, <1>16, <1>17, <1>18
    DEF Pass

LEMMA TruthStep ==
    ASSUME TruthInv, TruthfulSetting, [Next]_vars
    PROVE  TruthInv'
<1>0. ClaimInv' /\ WorkInv' /\ ReadInv'
    BY ClaimStep, WorkStep, ReadStep, TruthfulOps DEF TruthInv, TruthfulSetting
<1>1. CASE Request
    BY <1>1, RequestTruth
<1>2. ASSUME NEW w \in Worker, Pass(w) PROVE TruthInv'
    BY <1>2, PassTruth
<1>3. CASE Restart
    BY <1>0, <1>3
    DEF Restart, sourceVars, TruthInv, WithinLease, DeletesWanted,
        DoneIsRemote, SyncedOrQueued, InFlight
<1>4. CASE Tick \/ UNCHANGED vars
    <2>1. UNCHANGED <<cur, vstate, outbox, status, remote, pc, op, rec, seen>>
        BY <1>4 DEF Tick, vars, sourceVars, passVars
    <2>2. WithinLease'
        BY <1>4, <2>1
        DEF Tick, vars, TruthInv, WithinLease, InFlight, TruthfulSetting
    <2> QED
        BY <1>0, <2>1, <2>2
        DEF TruthInv, DeletesWanted, DoneIsRemote, SyncedOrQueued, IsQueued
<1> QED
    BY <1>1, <1>2, <1>3, <1>4 DEF Next

(* Once the work of an association has drained, a SYNCED status of the     *)
(* current version is true of the remote object: whatever the interleaving *)
(* of writes, deletes, undeletes, manual syncs, passes, crashes and lost   *)
(* answers, in the setting above.                                          *)
THEOREM SyncedTellsTheTruth == TruthfulSetting /\ Spec => []SyncedIsRemote
<1>1. Init => TruthInv
    <2> SUFFICES ASSUME Init PROVE TruthInv
        OBVIOUS
    <2>1. ReadInv
        BY TypeInit DEF Init, ReadInv
    <2>2. \A w \in Worker : pc[w] = "idle"
        BY DEF Init
    <2>3. \A a \in Assoc : status[a].state # "SYNCED"
        BY DEF Init
    <2> QED
        BY <2>1, <2>2, <2>3, ClaimInit, WorkInit
        DEF TruthInv, WithinLease, DeletesWanted, DoneIsRemote, SyncedOrQueued,
            InFlight
<1>2. TruthInv => SyncedIsRemote
    BY DEF TruthInv, SyncedOrQueued, SyncedIsRemote, Quiet, Queued
<1>3. CASE TruthfulSetting
    <2>1. TruthInv /\ [Next]_vars => TruthInv'
        BY <1>3, TruthStep
    <2> QED
        BY <1>1, <1>2, <2>1, PTL DEF Spec
<1> QED
    BY <1>3
=============================================================================
