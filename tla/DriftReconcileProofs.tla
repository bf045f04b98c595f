------------------------ MODULE DriftReconcileProofs ------------------------
(***************************************************************************)
(* Proof, for any number of objects, versions, changes and any capacity,   *)
(* that the sweeps never queue a repair twice (OneRepair of                *)
(* DriftReconcile).                                                        *)
(*                                                                         *)
(* The queue check of enqueuePeriodicDriftRepair compares versions, so the *)
(* argument needs that what is queued is an upsert of an object of the     *)
(* association with a version that is a number, and that the version a     *)
(* sweep works for is one as well, whatever happened to the source since.  *)
(***************************************************************************)
EXTENDS DriftReconcile, TLAPS

-----------------------------------------------------------------------------
(* The inductive invariant *)

Operation == [object : Object, ver : Nat, trigger : {"user", "drift-repair"}]

(* What is queued: copies of upserts of the association's objects. *)
QueueOK == /\ queue \in [DOMAIN queue -> Nat \ {0}]
           /\ DOMAIN queue \subseteq Operation

SourceOK == /\ source = [ver |-> source.ver, deleted |-> source.deleted]
            /\ source.ver \in Nat

(* The fields of a read, whatever its results. *)
SweepOK ==
    /\ sweep = [step |-> sweep.step, todo |-> sweep.todo, ver |-> sweep.ver,
                assoc |-> sweep.assoc, mode |-> sweep.mode,
                guard |-> sweep.guard, rank |-> sweep.rank,
                result |-> sweep.result]
    /\ sweep.ver \in Nat

RepairInv == QueueOK /\ SourceOK /\ SweepOK /\ OneRepair

-----------------------------------------------------------------------------
(* Queues *)

(* A queue that has lost operations, or copies of them, is as good as the  *)
(* one it was (Finish, Drop, the cancelled queue of a disable).            *)
LEMMA QueueShrinks ==
    ASSUME QueueOK, OneRepair, NEW S \in SUBSET DOMAIN queue,
           NEW f \in [S -> Nat \ {0}],
           \A o \in S : f[o] <= queue[o],
           queue' = f
    PROVE  QueueOK' /\ OneRepair'
<1>1. DOMAIN queue' = S
  OBVIOUS
<1>2. QueueOK'
  BY <1>1 DEF QueueOK
<1>3. ASSUME NEW o \in S, o.trigger = "drift-repair" PROVE f[o] = 1
  <2>1. queue[o] = 1
    BY <1>3 DEF OneRepair, Queued, Copies, BagToSet
  <2> QED
    BY <2>1
<1> QED
  BY <1>1, <1>2, <1>3 DEF OneRepair, Queued, Copies, BagToSet

(* One copy of an operation leaves the queue (Finish). *)
LEMMA RemovedShrinks ==
    ASSUME QueueOK, OneRepair, NEW o, queue' = queue (-) SetToBag({o})
    PROVE  QueueOK' /\ OneRepair'
<1> DEFINE B == [e \in DOMAIN queue |->
                    IF e \in DOMAIN SetToBag({o})
                    THEN queue[e] - SetToBag({o})[e] ELSE queue[e]]
           S == {d \in DOMAIN B : B[d] > 0}
           f == [e \in S |-> B[e]]
<1>1. queue' = f
  BY DEF (-)
<1>2. \A e \in DOMAIN queue : B[e] \in Int /\ B[e] <= queue[e]
  BY DEF QueueOK, SetToBag
<1>3. S \subseteq DOMAIN queue /\ f \in [S -> Nat \ {0}]
  BY <1>2
<1>4. \A e \in S : f[e] <= queue[e]
  BY <1>2
<1> HIDE DEF f, S
<1> QED
  BY <1>1, <1>3, <1>4, QueueShrinks

(* Some operations are dropped altogether (Drop). *)
LEMMA DropFacts ==
    ASSUME QueueOK, OneRepair, NEW ops
    PROVE  /\ Drop(ops) \in [DOMAIN queue \ ops -> Nat \ {0}]
           /\ \A e \in DOMAIN queue \ ops : Drop(ops)[e] <= queue[e]
  BY DEF Drop, Queued, BagToSet, QueueOK

(* Upserts are added to a queue that has none of them, or whose copies     *)
(* nobody counts: those of requests (RepairWanted, pathDataWrite).         *)
LEMMA QueueGrows ==
    ASSUME QueueOK, OneRepair, NEW S \in SUBSET DOMAIN queue,
           NEW f \in [S -> Nat \ {0}],
           \A o \in S : f[o] <= queue[o],
           NEW v \in Nat, NEW t \in {"user", "drift-repair"},
           \/ t = "user"
           \/ \A o \in S : o.ver # v,
           queue' = f (+) Upserts(v, t)
    PROVE  QueueOK' /\ OneRepair'
<1> DEFINE U == {Upsert(o, v, t) : o \in Object}
<1>1. U \subseteq Operation /\ \A o \in U : o.ver = v /\ o.trigger = t
  BY DEF Upsert, Operation
<1>2. Upserts(v, t) = [e \in U |-> 1]
  BY DEF Upserts, SetToBag
<1> HIDE DEF U
<1>3. queue' = [e \in S \cup U |-> (IF e \in S THEN f[e] ELSE 0)
                                       + (IF e \in U THEN 1 ELSE 0)]
  BY <1>2 DEF (+)
<1>4. DOMAIN queue' = S \cup U
  BY <1>3
<1>5. \A e \in S \cup U : queue'[e] \in Nat \ {0}
  BY <1>3
<1>6. QueueOK'
  BY <1>1, <1>3, <1>4, <1>5 DEF QueueOK
<1>7. ASSUME NEW e \in S \cup U, e.trigger = "drift-repair"
      PROVE  queue'[e] = 1
  <2>1. CASE e \in S
    <3>1. e \notin U
      BY <1>1, <1>7, <2>1
    <3>2. queue[e] = 1
      BY <1>7, <2>1 DEF OneRepair, Queued, Copies, BagToSet
    <3>3. f[e] = 1
      BY <2>1, <3>2
    <3> QED
      BY <1>3, <2>1, <3>1, <3>3
  <2>2. CASE e \notin S
    BY <1>3, <1>7, <2>2
  <2> QED
    BY <2>1, <2>2
<1> QED
  BY <1>4, <1>6, <1>7 DEF OneRepair, Queued, Copies, BagToSet

-----------------------------------------------------------------------------
(* Reads *)

(* A read that goes on to its next object keeps its version (Advance). *)
LEMMA AdvanceOK ==
    ASSUME SweepOK, sweep' = Advance(sweep)
    PROVE  SweepOK'
<1>1. CASE Len(sweep.todo) = 1
  BY <1>1 DEF SweepOK, Advance, NoRead
<1>2. CASE Len(sweep.todo) # 1
  <2>1. sweep' = [sweep EXCEPT !.step = "read", !.todo = Tail(@),
                               !.result = NoRead.result]
    BY <1>2 DEF Advance
  <2> HIDE DEF NoRead
  <2> QED
    BY <2>1 DEF SweepOK
<1> QED
  BY <1>1, <1>2

LEMMA NoReadOK == ASSUME sweep' = NoRead PROVE SweepOK'
  BY DEF SweepOK, NoRead

(* The steps of the sweep. *)
LEMMA SweepStartKeeps ==
    ASSUME RepairInv, SweepStart PROVE RepairInv'
<1>1. SourceOK' /\ QueueOK' /\ OneRepair'
  BY DEF RepairInv, SweepStart, stored, SourceOK, QueueOK, OneRepair, Queued,
         Copies
<1>2. SweepOK'
  <2> DEFINE todo == SubSeq(SetToSortSeq(Candidates, SweepBefore), 1,
                            Min({Len(SetToSortSeq(Candidates, SweepBefore)),
                                 cfg.batch}))
  <2>1. sweep' = [NoRead EXCEPT
                      !.step = "read", !.ver = source.ver, !.assoc = TRUE,
                      !.mode = cfg.mode, !.guard = cfg.guard,
                      !.todo = todo, !.rank = NewestRank]
    BY DEF SweepStart
  <2> HIDE DEF todo
  <2>2. source.ver \in Nat
    BY DEF RepairInv, SourceOK
  <2> QED
    BY <2>1, <2>2 DEF SweepOK, NoRead
<1> QED
  BY <1>1, <1>2 DEF RepairInv

LEMMA SweepReadKeeps ==
    ASSUME RepairInv, SweepRead PROVE RepairInv'
<1>1. SourceOK' /\ QueueOK' /\ OneRepair'
  BY DEF RepairInv, SweepRead, stored, SourceOK, QueueOK, OneRepair, Queued,
         Copies
<1>2. PICK result : sweep' = [sweep EXCEPT !.step = "put", !.result = result]
  BY DEF SweepRead
<1>3. SweepOK'
  BY <1>2 DEF RepairInv, SweepOK
<1> QED
  BY <1>1, <1>3 DEF RepairInv

LEMMA SweepPutKeeps ==
    ASSUME RepairInv, SweepPut PROVE RepairInv'
<1>1. SourceOK' /\ QueueOK' /\ OneRepair'
  BY DEF RepairInv, SweepPut, stored, SourceOK, QueueOK, OneRepair, Queued,
         Copies
<1>2. \/ sweep' = [sweep EXCEPT !.step = "repair"]
      \/ sweep' = Advance(sweep)
  BY DEF SweepPut
<1>3. SweepOK'
  BY <1>2, AdvanceOK DEF RepairInv, SweepOK
<1> QED
  BY <1>1, <1>3 DEF RepairInv

(* enqueuePeriodicDriftRepair: nothing queued is for the version. *)
LEMMA SweepRepairKeeps ==
    ASSUME RepairInv, SweepRepair PROVE RepairInv'
<1>1. SourceOK'
  BY DEF RepairInv, SweepRepair, stored, SourceOK
<1>2. SweepOK'
  <2>1. sweep' = Advance(sweep) \/ sweep' = NoRead
    BY DEF SweepRepair
  <2> QED
    BY <2>1, AdvanceOK, NoReadOK DEF RepairInv
<1>3. QueueOK' /\ OneRepair'
  <2>1. CASE queue' = queue
    BY <2>1 DEF RepairInv, QueueOK, OneRepair, Queued, Copies
  <2>2. CASE queue' # queue
    <3>1. RepairWanted(sweep.ver)
          /\ queue' = queue (+) Upserts(sweep.ver, "drift-repair")
      BY <2>2 DEF SweepRepair
    <3>2. \A o \in DOMAIN queue : o.ver \in Nat /\ o.object \in Object
      BY DEF RepairInv, QueueOK, Operation
    <3>3. sweep.ver \in Nat
      BY DEF RepairInv, SweepOK
    <3>4. \A o \in DOMAIN queue : o.ver # sweep.ver
      BY <3>1, <3>2, <3>3 DEF RepairWanted, HasQueuedUpsert, Queued, BagToSet
    <3>5. queue \in [DOMAIN queue -> Nat \ {0}]
          /\ \A o \in DOMAIN queue : queue[o] <= queue[o]
      BY DEF RepairInv, QueueOK
    <3> QED
      BY <3>1, <3>3, <3>4, <3>5, QueueGrows DEF RepairInv
  <2> QED
    BY <2>1, <2>2
<1> QED
  BY <1>1, <1>2, <1>3 DEF RepairInv

-----------------------------------------------------------------------------
(* Dispatch *)

LEMMA DispatchKeeps ==
    ASSUME RepairInv, Dispatch PROVE RepairInv'
<1>1. /\ source' = source /\ sweep' = sweep
      /\ \/ queue' = queue
         \/ \E o : queue' = queue (-) SetToBag({o})
  BY DEF Dispatch, DispatchLoad, DispatchUpsert, DispatchError, DispatchCommit,
         Finish, stored
<1>2. SourceOK' /\ SweepOK'
  BY <1>1 DEF RepairInv, SourceOK, SweepOK
<1>3. QueueOK' /\ OneRepair'
  <2>1. CASE queue' = queue
    BY <2>1 DEF RepairInv, QueueOK, OneRepair, Queued, Copies
  <2>2. CASE \E o : queue' = queue (-) SetToBag({o})
    BY <2>2, RemovedShrinks DEF RepairInv
  <2> QED
    BY <1>1, <2>1, <2>2
<1> QED
  BY <1>2, <1>3 DEF RepairInv

-----------------------------------------------------------------------------
(* What others do *)

LEMMA WriteKeeps ==
    ASSUME RepairInv, Write PROVE RepairInv'
<1> DEFINE v == source.ver + 1
           dropped == {op \in Queued \ Claimed : target.assoc}
<1>1. /\ source' = [source EXCEPT !.ver = v]
      /\ sweep' = sweep
      /\ \/ queue' = Drop(dropped) (+) Upserts(v, "user")
         \/ queue' = Drop(dropped)
  BY DEF Write
<1>2. v \in Nat
  BY DEF RepairInv, SourceOK
<1> HIDE DEF v, dropped
<1>3. SourceOK' /\ SweepOK'
  BY <1>1, <1>2 DEF RepairInv, SourceOK, SweepOK
<1>4. /\ Drop(dropped) \in [DOMAIN queue \ dropped -> Nat \ {0}]
      /\ \A e \in DOMAIN queue \ dropped : Drop(dropped)[e] <= queue[e]
  BY DropFacts DEF RepairInv
<1>5. QueueOK' /\ OneRepair'
  BY <1>1, <1>2, <1>4, QueueGrows, QueueShrinks DEF RepairInv
<1> QED
  BY <1>3, <1>5 DEF RepairInv

LEMMA DeleteSourceKeeps ==
    ASSUME RepairInv, DeleteSource PROVE RepairInv'
<1> DEFINE dropped == {op \in Queued : op.ver = source.ver}
<1>1. /\ source' = [source EXCEPT !.deleted = @ \cup {source.ver}]
      /\ sweep' = sweep
      /\ queue' = Drop(dropped)
  BY DEF DeleteSource
<1> HIDE DEF dropped
<1>2. SourceOK' /\ SweepOK'
  BY <1>1 DEF RepairInv, SourceOK, SweepOK
<1>3. /\ Drop(dropped) \in [DOMAIN queue \ dropped -> Nat \ {0}]
      /\ \A e \in DOMAIN queue \ dropped : Drop(dropped)[e] <= queue[e]
  BY DropFacts DEF RepairInv
<1>4. QueueOK' /\ OneRepair'
  BY <1>1, <1>3, QueueShrinks DEF RepairInv
<1> QED
  BY <1>2, <1>4 DEF RepairInv

LEMMA DisableAssociationKeeps ==
    ASSUME RepairInv, DisableAssociation PROVE RepairInv'
<1>1. source' = source /\ sweep' = sweep /\ queue' = EmptyBag
  BY DEF DisableAssociation
<1>2. SourceOK' /\ SweepOK'
  BY <1>1 DEF RepairInv, SourceOK, SweepOK
<1>3. QueueOK' /\ OneRepair'
  BY <1>1 DEF EmptyBag, SetToBag, QueueOK, OneRepair, Queued, BagToSet
<1> QED
  BY <1>2, <1>3 DEF RepairInv

LEMMA EnableAssociationKeeps ==
    ASSUME RepairInv, EnableAssociation PROVE RepairInv'
<1> DEFINE dropped == {op \in Queued : op.trigger = "user"
                                           /\ op.ver = source.ver}
<1>1. /\ source' = source /\ sweep' = sweep
      /\ \/ queue' = Drop(dropped) (+) Upserts(source.ver, "user")
         \/ queue' = queue
  BY DEF EnableAssociation
<1>2. source.ver \in Nat
  BY DEF RepairInv, SourceOK
<1> HIDE DEF dropped
<1>3. SourceOK' /\ SweepOK'
  BY <1>1 DEF RepairInv, SourceOK, SweepOK
<1>4. /\ Drop(dropped) \in [DOMAIN queue \ dropped -> Nat \ {0}]
      /\ \A e \in DOMAIN queue \ dropped : Drop(dropped)[e] <= queue[e]
  BY DropFacts DEF RepairInv
<1>5. QueueOK' /\ OneRepair'
  <2>1. CASE queue' = queue
    BY <2>1 DEF RepairInv, QueueOK, OneRepair, Queued, Copies
  <2>2. CASE queue' = Drop(dropped) (+) Upserts(source.ver, "user")
    BY <1>2, <1>4, <2>2, QueueGrows DEF RepairInv
  <2> QED
    BY <1>1, <2>1, <2>2
<1> QED
  BY <1>3, <1>5 DEF RepairInv

LEMMA ReconcileStartKeeps ==
    ASSUME RepairInv, ReconcileStart PROVE RepairInv'
<1>1. SourceOK' /\ QueueOK' /\ OneRepair'
  BY DEF RepairInv, ReconcileStart, stored, SourceOK, QueueOK, OneRepair,
         Queued, Copies
<1>2. PICK r : sweep' = [sweep EXCEPT !.rank = r]
  BY DEF ReconcileStart
<1>3. SweepOK'
  BY <1>2 DEF RepairInv, SweepOK
<1> QED
  BY <1>1, <1>3 DEF RepairInv

-----------------------------------------------------------------------------
LEMMA RepairInit == Init => RepairInv
  BY DEF Init, RepairInv, QueueOK, SourceOK, SweepOK, OneRepair, NoRead,
         EmptyBag, SetToBag, Queued, BagToSet

LEMMA RepairStep == RepairInv /\ [Next]_vars => RepairInv'
<1> SUFFICES ASSUME RepairInv, [Next]_vars PROVE RepairInv'
  OBVIOUS
<1>1. ASSUME source' = source, queue' = queue, sweep' = sweep
      PROVE  RepairInv'
  BY <1>1 DEF RepairInv, SourceOK, SweepOK, QueueOK, OneRepair, Queued, Copies
<1>2. CASE Sweep
  BY <1>2, SweepStartKeeps, SweepReadKeeps, SweepPutKeeps, SweepRepairKeeps
     DEF Sweep
<1>3. CASE Reconcile
  BY <1>1, <1>3 DEF Reconcile, ReconcileRead, ReconcilePut, stored
<1>4. CASE Dispatch
  BY <1>4, DispatchKeeps
<1>5. CASE Elapse
  BY <1>1, <1>5 DEF Elapse, stored
<1>6. CASE Others
  <2>1. CASE Restart
    <3>1. source' = source /\ queue' = queue /\ sweep' = NoRead
      BY <2>1 DEF Restart, stored
    <3>2. SourceOK' /\ QueueOK' /\ OneRepair'
      BY <3>1 DEF RepairInv, SourceOK, QueueOK, OneRepair, Queued, Copies
    <3> QED
      BY <3>1, <3>2, NoReadOK DEF RepairInv
  <2>2. CASE SwitchDestination \/ ConfigWrite
    BY <1>1, <2>2 DEF SwitchDestination, ConfigWrite
  <2>3. CASE \E o \in Object : Tamper(o)
    BY <1>1, <2>3 DEF Tamper, stored
  <2> QED
    BY <1>6, <2>1, <2>2, <2>3, WriteKeeps, DeleteSourceKeeps,
       DisableAssociationKeeps, EnableAssociationKeeps, ReconcileStartKeeps
       DEF Others
<1>7. CASE UNCHANGED vars
  BY <1>1, <1>7 DEF vars, stored
<1> QED
  BY <1>2, <1>3, <1>4, <1>5, <1>6, <1>7 DEF Next

(* A sweep never queues a second repair of an object for a version whose   *)
(* first repair is still queued or being dispatched, whatever requests,    *)
(* dispatch and restarts do between its read and its enqueue               *)
(* (enqueuePeriodicDriftRepair).                                           *)
THEOREM RepairQueuedOnce == Spec => []OneRepair
<1>1. RepairInv => OneRepair
  BY DEF RepairInv
<1> QED
  BY <1>1, RepairInit, RepairStep, PTL DEF Spec
=============================================================================
