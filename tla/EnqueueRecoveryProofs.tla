----------------------- MODULE EnqueueRecoveryProofs -----------------------
(***************************************************************************)
(* Proofs about interrupted source mutations and their recovery: the       *)
(* current version exists, and the work its state calls for stays recorded *)
(* as long as no request replaces an intent that is still to be recovered. *)
(***************************************************************************)
EXTENDS EnqueueRecovery, TLAPS

-----------------------------------------------------------------------------
(* The inductive invariant *)

Early == {"intent", "version", "meta"}
Late  == {"cancel", "put", "prune"}

KindFor(state)    == IF state = "live" THEN "upsert" ELSE "delete"
AssocsFor(state)  == IF state = "live" THEN Assoc ELSE DeleteAssoc
OpsForState(s, v) == OpsFor(KindFor(s), v, AssocsFor(s))

(* Whether operation o is for the state its version has. *)
Agrees(o) == (o.kind = "upsert") = (vstate[o.ver] = "live")

(* An intent is about its own version and of one kind, and cancels only    *)
(* what its operations supersede.  A version that is not yet current was   *)
(* written and nothing else.                                               *)
IntentsOK ==
    \A v \in Versions :
        /\ \A o, p \in intent[v].ops : o.ver = v /\ o.kind = p.kind
        /\ \A o \in intent[v].cancels :
               /\ o.ver <= v
               /\ o.ver = v => \A p \in intent[v].ops : p.kind # o.kind
        /\ v > mcur => /\ vstate[v] \in {"none", "live"}
                       /\ intent[v].ops \in {{}, OpsFor("upsert", v, Assoc)}

(* Nothing is queued or reported for a version that is not yet current. *)
NothingAhead ==
    /\ \A o \in Ops : outbox[o] # "absent" => o.ver <= mcur
    /\ \A a \in Assoc : outcome[a].ver <= mcur

(* A request's job. *)
RequestJob ==
    job # NoJob /\ ~job.recovery =>
        /\ job.ver \in {mcur, mcur + 1}
        /\ job.phase \in Early \/ job.ver = mcur
        /\ job.ver # mcur => job.state = "live"
        /\ job.phase \in {"version", "meta"} => job.state # "none"
        /\ job.phase = "meta" \/ (job.phase \in Late /\ job.state # "none")
               => vstate[job.ver] = job.state
        /\ job.phase \in Early /\ job.state # "none" =>
               /\ job.ops = OpsForState(job.state, job.ver)
               /\ job.hasIntent = (job.ops # {})
        /\ job.phase = "intent" => job.hasIntent
        /\ \A o, p \in job.ops : o.ver = job.ver /\ o.kind = p.kind
        /\ job.state = "none" => job.cancels = {}
        /\ \A o \in job.cancels :
               /\ o.ver <= job.ver
               /\ o.ver = job.ver => o.kind # KindFor(job.state)
               /\ outbox[o] # "claimed"
        /\ \A o \in job.cancels, p \in job.ops :
               o.ver = job.ver => p.kind # o.kind

RecoveryJob ==
    job.recovery =>
        /\ job.hasIntent
        /\ job.phase \in {"meta", "cancel", "put", "prune"}
        /\ job.phase # "prune" => Recoverable(job.ver) # {}
        /\ job.phase \in {"cancel", "put"} => job.ver <= mcur

(* What a job has done and has still to do agrees with its intent. *)
IntentCovered ==
    job # NoJob /\ job.hasIntent /\ job.phase # "intent" =>
        /\ job.cancels \subseteq intent[job.ver].cancels
        /\ job.ops \subseteq intent[job.ver].ops
        /\ job.phase \in Early /\ ~job.recovery => job.ops = intent[job.ver].ops
        /\ \A o \in Recoverable(job.ver) : o \in job.ops \/ outbox[o] # "absent"

PruneIsLast == job.phase = "prune" => job.ops = {}

(* A request that replaced an intent of the current version has still to   *)
(* write the version record, and can no longer be cut short.               *)
Replacing ==
    /\ job.phase = "version" /\ ~job.recovery /\ job.ver = mcur
    /\ interrupts.request >= MaxInterrupts

CurrentWork ==
    /\ vstate[mcur] = "live" => \A a \in Assoc : Recorded("upsert", a)
    /\ vstate[mcur] = "deleted" => \A a \in DeleteAssoc : Recorded("delete", a)

WorkKept == mcur > 0 => Replacing \/ CurrentWork

RecoveryInv ==
    /\ TypeOK /\ CurrentVersionExists /\ IntentsOK /\ NothingAhead
    /\ RequestJob /\ RecoveryJob /\ IntentCovered /\ PruneIsLast

(* PutEnqueueIntent finds no intent of the version, or its request is      *)
(* about the version's state and cannot be cut short any more.             *)
SafeReplacement ==
    PutEnqueueIntent =>
        \/ intent[job.ver] = NoIntent
        \/ job.state # "none" /\ interrupts.request >= MaxInterrupts

(* No request stores an intent over one that is still to be recovered. *)
IntentNotReplaced == PutEnqueueIntent => intent[job.ver] = NoIntent

(* Up to the first interruption there is no intent but the running job's. *)
FirstInterruption ==
    interrupts.request = 0 =>
        /\ ~job.recovery
        /\ \A v \in Versions :
               intent[v] # NoIntent =>
                   job # NoJob /\ job.ver = v /\ job.hasIntent
                       /\ job.phase # "intent"

NoManualSync == job # NoJob /\ ~job.recovery => job.state # "none"

(* What is shown of every step. *)
Preserved == RecoveryInv' /\ (WorkKept /\ SafeReplacement => WorkKept')

-----------------------------------------------------------------------------
(* Operations and jobs *)

(* OpsFor lists operations of the given kind and version, one for every    *)
(* association.                                                            *)
LEMMA OpsForFacts ==
    ASSUME NEW kind \in {"upsert", "delete"}, NEW v \in Versions,
           NEW S \in SUBSET Assoc
    PROVE  /\ OpsFor(kind, v, S) \subseteq Ops
           /\ \A o \in OpsFor(kind, v, S) : o.kind = kind /\ o.ver = v
           /\ \A a \in S : \E o \in OpsFor(kind, v, S) :
                  o.kind = kind /\ o.ver = v /\ o.assoc = a
<1>1. 0 \in 0..MaxSalt
  BY RecoveryConstants
<1>2. OpsFor(kind, v, S) \subseteq Ops
  BY <1>1 DEF OpsFor, Ops
<1>3. ASSUME NEW a \in S
      PROVE  \E o \in OpsFor(kind, v, S) :
                 o.kind = kind /\ o.ver = v /\ o.assoc = a
  <2>1. [kind |-> kind, ver |-> v, assoc |-> a, salt |-> 0] \in OpsFor(kind, v, S)
    BY DEF OpsFor
  <2> QED
    BY <2>1
<1> QED
  BY <1>2, <1>3 DEF OpsFor

LEMMA OpsForStateFacts ==
    ASSUME NEW s \in {"live", "deleted"}, NEW v \in Versions
    PROVE  /\ OpsForState(s, v) \subseteq Ops
           /\ \A o \in OpsForState(s, v) : o.kind = KindFor(s) /\ o.ver = v
           /\ \A a \in AssocsFor(s) : \E o \in OpsForState(s, v) :
                  o.kind = KindFor(s) /\ o.ver = v /\ o.assoc = a
<1> AssocsFor(s) \in SUBSET Assoc /\ KindFor(s) \in {"upsert", "delete"}
  BY RecoveryConstants DEF AssocsFor, KindFor
<1> QED
  BY OpsForFacts DEF OpsForState

(* A request that starts a job leaves what is stored alone. *)
LEMMA StartKeeps ==
    ASSUME RecoveryInv, job = NoJob,
           UNCHANGED <<mcur, mstate, vstate, outbox, outcome, intent, interrupts>>
    PROVE  /\ CurrentVersionExists' /\ IntentsOK' /\ NothingAhead'
           /\ WorkKept => WorkKept'
<1>1. CurrentVersionExists' /\ IntentsOK' /\ NothingAhead'
  BY DEF RecoveryInv, CurrentVersionExists, IntentsOK, NothingAhead
<1>2. ~Replacing
  BY DEF Replacing, NoJob
<1>3. CurrentWork => CurrentWork'
  BY DEF CurrentWork, Recorded
<1> QED
  BY <1>1, <1>2, <1>3 DEF RecoveryInv, WorkKept

(* The job of a request that changes the state of version v. *)
LEMMA SourceJobStart ==
    ASSUME RecoveryInv, job = NoJob, NEW v \in Versions,
           NEW s \in {"live", "deleted"}, NEW cancels \in SUBSET Ops,
           v \in {mcur, mcur + 1}, v # mcur => s = "live",
           \A o \in cancels : /\ o.ver <= v
                              /\ o.ver = v => o.kind # KindFor(s)
                              /\ outbox[o] # "claimed",
           job' = SourceJob(v, s, OpsForState(s, v), cancels),
           UNCHANGED <<mcur, mstate, vstate, outbox, outcome, intent, nextSalt,
                       interrupts>>
    PROVE  Preserved
<1> DEFINE ops == OpsForState(s, v)
<1>1. ops \subseteq Ops /\ \A o \in ops : o.kind = KindFor(s) /\ o.ver = v
  BY OpsForStateFacts
<1> HIDE DEF ops
<1>2. /\ job'.phase = (IF ops # {} THEN "intent" ELSE "version")
      /\ job'.ver = v /\ job'.state = s /\ job'.recovery = FALSE
      /\ job'.ops = ops /\ job'.cancels = cancels
      /\ job'.hasIntent = (ops # {})
      /\ job'.phase \in {"intent", "version"}
  BY DEF SourceJob, ops
<1>3. TypeOK'
  <2>1. job' \in [phase : Phases, ver : 0..MaxVersion, state : VersionStates,
                  recovery : BOOLEAN, ops : SUBSET Ops, cancels : SUBSET Ops,
                  hasIntent : BOOLEAN]
    BY <1>1, RecoveryConstants DEF SourceJob, ops, Phases, VersionStates, Versions
  <2> QED
    BY <1>2, <2>1 DEF RecoveryInv, TypeOK
<1>4. RequestJob'
  <2>1. /\ job'.ops = OpsForState(job'.state, job'.ver)
        /\ job'.hasIntent = (job'.ops # {})
        /\ job'.phase = "intent" => job'.hasIntent
    BY <1>2 DEF ops
  <2>2. /\ job'.ver \in {mcur', mcur' + 1}
        /\ job'.phase \in Early /\ job'.phase \notin Late
        /\ job'.ver # mcur' => job'.state = "live"
        /\ job'.state # "none" /\ job'.phase # "meta"
    BY <1>2 DEF Early, Late
  <2>3. \A o, p \in job'.ops : o.ver = job'.ver /\ o.kind = p.kind
    BY <1>1, <1>2
  <2>4. \A o \in job'.cancels :
               /\ o.ver <= job'.ver
               /\ o.ver = job'.ver => o.kind # KindFor(job'.state)
               /\ outbox'[o] # "claimed"
    BY <1>2
  <2>5. \A o \in job'.cancels, p \in job'.ops :
               o.ver = job'.ver => p.kind # o.kind
    BY <1>1, <1>2
  <2> QED
    BY <2>1, <2>2, <2>3, <2>4, <2>5 DEF RequestJob
<1>5. RecoveryJob' /\ PruneIsLast'
  BY <1>2 DEF RecoveryJob, PruneIsLast
<1>6. IntentCovered'
  BY <1>2 DEF IntentCovered
<1> QED
  BY <1>3, <1>4, <1>5, <1>6, StartKeeps DEF RecoveryInv, Preserved

LEMMA RequestStep ==
    ASSUME RecoveryInv, Request
    PROVE  Preserved
<1> USE RecoveryConstants
<1> mcur \in 0..MaxVersion /\ outbox \in [Ops -> {"absent", "queued", "claimed", "failed"}]
  BY DEF RecoveryInv, TypeOK
<1>0. \A o \in Ops : o.ver \in Versions /\ o.kind \in {"upsert", "delete"}
  BY DEF Ops
<1>1. CASE PathDataWrite
  <2> DEFINE cancels == {o \in Ops : outbox[o] = "queued" /\ o.kind = "upsert"
                                        /\ o.ver < mcur + 1}
  <2>1. mcur + 1 \in Versions /\ mcur + 1 # mcur
    BY <1>1 DEF PathDataWrite, Versions
  <2>2. OpsForState("live", mcur + 1) = OpsFor("upsert", mcur + 1, Assoc)
    BY DEF OpsForState, KindFor, AssocsFor
  <2>3. \A o \in cancels : o.ver <= mcur + 1 /\ o.ver # mcur + 1
                               /\ outbox[o] # "claimed"
    BY <1>0 DEF Versions
  <2> QED
    BY <1>1, <2>1, <2>2, <2>3, SourceJobStart DEF PathDataWrite
<1>2. CASE PathDataDelete
  <2> DEFINE stale == {o \in Ops : IsQueued(o) /\ o.kind = "upsert"
                                      /\ o.ver = mcur}
  <2>1. mcur \in Versions
    BY <1>2 DEF PathDataDelete, Versions
  <2>2. OpsForState("deleted", mcur) = OpsFor("delete", mcur, DeleteAssoc)
    BY DEF OpsForState, KindFor, AssocsFor
  <2>3. \A o \in stale : o.ver <= mcur /\ o.kind # KindFor("deleted")
                             /\ outbox[o] # "claimed"
    BY <1>2 DEF PathDataDelete, KindFor
  <2> QED
    BY <1>2, <2>1, <2>2, <2>3, SourceJobStart DEF PathDataDelete
<1>3. CASE PathVersionUndelete
  <2> DEFINE stale == {o \in Ops : IsQueued(o) /\ o.kind = "delete"
                                      /\ o.ver = mcur}
  <2>1. mcur \in Versions
    BY <1>3 DEF PathVersionUndelete, Versions
  <2>2. OpsForState("live", mcur) = OpsFor("upsert", mcur, Assoc)
    BY DEF OpsForState, KindFor, AssocsFor
  <2>3. \A o \in stale : o.ver <= mcur /\ o.kind # KindFor("live")
                             /\ outbox[o] # "claimed"
    BY <1>3 DEF PathVersionUndelete, KindFor
  <2> QED
    BY <1>3, <2>1, <2>2, <2>3, SourceJobStart DEF PathVersionUndelete
<1>4. ASSUME NEW a \in Assoc, PathAssociationSync(a)
      PROVE  Preserved
  <2> DEFINE o == [kind |-> "upsert", ver |-> mcur, assoc |-> a,
                   salt |-> nextSalt + 1]
  <2>1. o \in Ops /\ mcur \in Versions /\ nextSalt' \in 0..MaxSalt
    BY <1>4 DEF PathAssociationSync, RecoveryInv, TypeOK, Ops, Versions
  <2>2. /\ job' = [phase |-> "intent", ver |-> mcur, state |-> "none",
                   recovery |-> FALSE, ops |-> {o}, cancels |-> {},
                   hasIntent |-> TRUE]
        /\ job = NoJob
        /\ UNCHANGED <<mcur, mstate, vstate, outbox, outcome, intent, interrupts>>
    BY <1>4 DEF PathAssociationSync, SourceJob
  <2>3. TypeOK'
    <3>1. job' \in [phase : Phases, ver : 0..MaxVersion, state : VersionStates,
                    recovery : BOOLEAN, ops : SUBSET Ops, cancels : SUBSET Ops,
                    hasIntent : BOOLEAN]
      BY <2>1, <2>2 DEF Phases, VersionStates
    <3> QED
      BY <2>1, <2>2, <3>1 DEF RecoveryInv, TypeOK
  <2>4. RequestJob' /\ RecoveryJob' /\ IntentCovered' /\ PruneIsLast'
    BY <2>2 DEF RequestJob, RecoveryJob, IntentCovered, PruneIsLast, Early, Late
  <2> QED
    BY <2>2, <2>3, <2>4, StartKeeps DEF RecoveryInv, Preserved
<1> QED
  BY <1>1, <1>2, <1>3, <1>4 DEF Request

-----------------------------------------------------------------------------
(* Storage writes *)

Jobs == [phase : Phases, ver : 0..MaxVersion, state : VersionStates,
         recovery : BOOLEAN, ops : SUBSET Ops, cancels : SUBSET Ops,
         hasIntent : BOOLEAN]

(* A job that goes on with its queue writes changes its phase only. *)
LEMMA ContinuedFacts ==
    ASSUME NEW j \in Jobs
    PROVE  /\ Continued(j) \in Jobs
           /\ Continued(j).ver = j.ver /\ Continued(j).state = j.state
           /\ Continued(j).recovery = j.recovery
           /\ Continued(j).ops = j.ops /\ Continued(j).cancels = j.cancels
           /\ Continued(j).hasIntent = j.hasIntent
           /\ Continued(j).phase \in Late
           /\ Continued(j).phase = "prune" => j.ops = {}
  BY DEF Continued, Jobs, Late, Phases

LEMMA LateJob ==
    ASSUME NEW j \in Jobs, j.ver \in Versions, j.phase \in Late
    PROVE  j # NoJob /\ j.phase \notin Early /\ j.phase # "none"
  BY DEF Late, Early, NoJob

(* Work of the current version stays recorded when every operation that    *)
(* its state calls for does.                                               *)
LEMMA WorkStays ==
    ASSUME CurrentWork, mcur \in Versions,
           UNCHANGED <<mcur, vstate, outcome>>,
           \A o \in Ops :
               /\ o.ver = mcur /\ Agrees(o)
               /\ outbox[o] # "absent" \/ o \in intent[mcur].ops
               => outbox'[o] # "absent" \/ o \in intent'[mcur].ops
    PROVE  CurrentWork'
<1>1. ASSUME vstate[mcur] = "live", NEW a \in Assoc
      PROVE  Recorded("upsert", a)'
  BY <1>1 DEF CurrentWork, Recorded, Agrees
<1>2. ASSUME vstate[mcur] = "deleted", NEW a \in DeleteAssoc
      PROVE  Recorded("delete", a)'
  BY <1>2 DEF CurrentWork, Recorded, Agrees
<1> QED
  BY <1>1, <1>2 DEF CurrentWork

(* The state a request gives the current version has its work in the       *)
(* intent.                                                                 *)
LEMMA IntentRecords ==
    ASSUME NEW s \in {"live", "deleted"}, mcur' \in Versions,
           vstate'[mcur'] = s,
           OpsForState(s, mcur') = {} \/ OpsForState(s, mcur') \subseteq intent'[mcur'].ops
    PROVE  CurrentWork'
<1>1. ASSUME NEW a \in AssocsFor(s)
      PROVE  Recorded(KindFor(s), a)'
  <2>1. PICK o \in OpsForState(s, mcur') :
            o.kind = KindFor(s) /\ o.ver = mcur' /\ o.assoc = a
    BY <1>1, OpsForStateFacts
  <2> QED
    BY <2>1, OpsForStateFacts DEF Recorded
<1> QED
  BY <1>1 DEF CurrentWork, KindFor, AssocsFor

(* putPendingEnqueueIntent *)
LEMMA IntentStep ==
    ASSUME RecoveryInv, PutEnqueueIntent
    PROVE  Preserved
<1> DEFINE v == job.ver
           r == [ops |-> job.ops, cancels |-> job.cancels]
<1>1. /\ job \in Jobs /\ job # NoJob /\ v \in Versions
      /\ ~job.recovery /\ job.hasIntent /\ job.phase = "intent"
      /\ intent \in [Versions -> [ops : SUBSET Ops, cancels : SUBSET Ops]]
      /\ mcur \in 0..MaxVersion /\ vstate \in [Versions -> VersionStates]
  BY DEF PutEnqueueIntent, RecoveryInv, TypeOK, RequestJob, RecoveryJob, NoJob, Jobs
<1>2. /\ intent' \in [Versions -> [ops : SUBSET Ops, cancels : SUBSET Ops]]
      /\ intent'[v] = r
      /\ \A u \in Versions : u # v => intent'[u] = intent[u]
  BY <1>1 DEF PutEnqueueIntent, Jobs
<1>3. UNCHANGED <<mcur, mstate, vstate, outbox, outcome, nextSalt, interrupts>>
  BY DEF PutEnqueueIntent
<1>4. /\ job' \in Jobs /\ job'.ver = v /\ job'.state = job.state
      /\ ~job'.recovery /\ job'.ops = job.ops /\ job'.cancels = job.cancels
      /\ job'.hasIntent
      /\ job.state = "none" => job'.phase \in Late
      /\ job.state # "none" => job'.phase = "version"
      /\ job'.phase = "prune" => job.ops = {}
  <2>1. CASE job.state = "none"
    BY <1>1, <2>1, ContinuedFacts DEF PutEnqueueIntent
  <2>2. CASE job.state # "none"
    BY <1>1, <2>2 DEF PutEnqueueIntent, Jobs, Phases
  <2> QED
    BY <2>1, <2>2
<1>5. job' # NoJob /\ job'.phase # "none"
  BY <1>1, <1>4 DEF Late, NoJob, Versions
<1>6. TypeOK'
  BY <1>1, <1>2, <1>3, <1>4, <1>5 DEF RecoveryInv, TypeOK, Jobs
<1>7. CurrentVersionExists' /\ NothingAhead'
  BY <1>3 DEF RecoveryInv, CurrentVersionExists, NothingAhead
<1>8. IntentsOK'
  <2>1. \A o, p \in r.ops : o.ver = v /\ o.kind = p.kind
    BY <1>1 DEF RecoveryInv, RequestJob
  <2>2. \A o \in r.cancels : /\ o.ver <= v
                             /\ o.ver = v => \A p \in r.ops : p.kind # o.kind
    BY <1>1 DEF RecoveryInv, RequestJob
  <2>3. ASSUME v > mcur PROVE r.ops = OpsFor("upsert", v, Assoc)
    <3>0. job.ver # mcur
      BY <1>1, <2>3 DEF Versions
    <3>1. job.state = "live"
      BY <1>1, <3>0 DEF RecoveryInv, RequestJob
    <3>2. job.ops = OpsForState(job.state, v)
      BY <1>1, <3>1 DEF RecoveryInv, RequestJob, Early
    <3> QED
      BY <3>1, <3>2 DEF OpsForState, KindFor, AssocsFor
  <2> QED
    BY <1>2, <1>3, <2>1, <2>2, <2>3 DEF RecoveryInv, IntentsOK
<1>9. RequestJob'
  <2>1. RequestJob
    BY DEF RecoveryInv
  <2>2. CASE job.state = "none"
    BY <1>1, <1>3, <1>4, <2>1, <2>2 DEF RequestJob, Early, Late
  <2>3. CASE job.state # "none"
    <3>1. /\ job.ops = OpsForState(job.state, v)
          /\ job.hasIntent = (job.ops # {})
      BY <1>1, <2>1, <2>3 DEF RequestJob, Early
    <3>2. /\ job'.ops = OpsForState(job'.state, job'.ver)
          /\ job'.hasIntent = (job'.ops # {})
      BY <1>1, <1>4, <3>1
    <3>3. /\ v \in {mcur, mcur + 1} /\ (v # mcur => job.state = "live")
          /\ \A o, p \in job.ops : o.ver = v /\ o.kind = p.kind
          /\ \A o \in job.cancels :
                 /\ o.ver <= v
                 /\ o.ver = v => o.kind # KindFor(job.state)
                 /\ outbox[o] # "claimed"
          /\ \A o \in job.cancels, p \in job.ops :
                 o.ver = v => p.kind # o.kind
      BY <1>1, <2>1 DEF RequestJob
    <3>4. job'.phase = "version" /\ job'.phase \in Early /\ job'.phase \notin Late
      BY <1>4, <2>3 DEF Early, Late
    <3> QED
      BY <1>3, <1>4, <2>3, <3>2, <3>3, <3>4 DEF RequestJob
  <2> QED
    BY <2>2, <2>3
<1>10. RecoveryJob' /\ PruneIsLast'
  BY <1>4 DEF RecoveryJob, PruneIsLast
<1>11. IntentCovered'
  BY <1>2, <1>3, <1>4 DEF IntentCovered, Recoverable
<1>12. WorkKept /\ SafeReplacement => WorkKept'
  <2> SUFFICES ASSUME WorkKept, SafeReplacement, mcur > 0
               PROVE  Replacing' \/ CurrentWork'
    BY <1>3 DEF WorkKept
  <2>1. CurrentWork /\ mcur \in Versions
    BY <1>1 DEF RecoveryInv, WorkKept, Replacing, Versions
  <2>2. CASE v # mcur \/ intent[v] = NoIntent
    <3>1. \A o \in Ops : o \in intent[mcur].ops => o \in intent'[mcur].ops
      BY <1>2, <2>1, <2>2 DEF NoIntent
    <3> QED
      BY <1>3, <2>1, <3>1, WorkStays
  <2>3. CASE v = mcur /\ intent[v] # NoIntent
    BY <1>3, <1>4, <2>3 DEF SafeReplacement, Replacing
  <2> QED
    BY <2>2, <2>3
<1> QED
  BY <1>6, <1>7, <1>8, <1>9, <1>10, <1>11, <1>12 DEF RecoveryInv, Preserved

(* putSourceVersionRecord *)
LEMMA VersionStep ==
    ASSUME RecoveryInv, PutVersion
    PROVE  Preserved
<1> DEFINE v == job.ver
<1>1. /\ job \in Jobs /\ job # NoJob /\ v \in Versions
      /\ ~job.recovery /\ job.phase = "version"
      /\ job.state \in {"live", "deleted"}
      /\ job.ops = OpsForState(job.state, v) /\ job.hasIntent = (job.ops # {})
      /\ v \in {mcur, mcur + 1} /\ (v # mcur => job.state = "live")
      /\ mcur \in 0..MaxVersion /\ vstate \in [Versions -> VersionStates]
  BY DEF PutVersion, RecoveryInv, TypeOK, RequestJob, RecoveryJob, NoJob, Jobs,
         VersionStates, Early
<1>2. /\ vstate' \in [Versions -> VersionStates]
      /\ vstate'[v] = job.state
      /\ \A u \in Versions : u # v => vstate'[u] = vstate[u]
  BY <1>1 DEF PutVersion, Jobs
<1>3. UNCHANGED <<mcur, mstate, outbox, outcome, intent, nextSalt, interrupts>>
  BY DEF PutVersion
<1>4. /\ job' \in Jobs /\ job'.ver = v /\ job'.state = job.state
      /\ job'.recovery = job.recovery /\ job'.ops = job.ops
      /\ job'.cancels = job.cancels /\ job'.hasIntent = job.hasIntent
      /\ job'.phase = "meta" /\ job' # NoJob
  BY <1>1 DEF PutVersion, Jobs, Phases, NoJob
<1>5. TypeOK'
  BY <1>1, <1>2, <1>3, <1>4 DEF RecoveryInv, TypeOK, Jobs
<1>6. CurrentVersionExists' /\ NothingAhead'
  BY <1>1, <1>2, <1>3 DEF RecoveryInv, CurrentVersionExists, NothingAhead, Versions
<1>7. IntentsOK'
  BY <1>1, <1>2, <1>3 DEF RecoveryInv, IntentsOK
<1>8. RequestJob'
  BY <1>1, <1>2, <1>3, <1>4 DEF RecoveryInv, RequestJob, Early, Late
<1>9. RecoveryJob' /\ PruneIsLast'
  BY <1>1, <1>4 DEF RecoveryJob, PruneIsLast
<1>10. IntentCovered'
  BY <1>1, <1>3, <1>4 DEF RecoveryInv, IntentCovered, Recoverable, Early
<1>11. WorkKept /\ SafeReplacement => WorkKept'
  <2> SUFFICES ASSUME WorkKept, SafeReplacement, mcur > 0
               PROVE  CurrentWork'
    BY <1>3 DEF WorkKept
  <2>1. mcur \in Versions
    BY <1>1 DEF Versions
  <2>2. CASE v = mcur
    <3>1. OpsForState(job.state, v) = {} \/ job.ops = intent[v].ops
      BY <1>1 DEF RecoveryInv, IntentCovered, Early
    <3> QED
      BY <1>1, <1>2, <1>3, <2>1, <2>2, <3>1, IntentRecords
  <2>3. CASE v # mcur
    <3>1. CurrentWork
      BY <2>3 DEF RecoveryInv, WorkKept, Replacing
    <3> QED
      BY <1>1, <1>2, <1>3, <2>1, <2>3, <3>1 DEF CurrentWork, Recorded
  <2> QED
    BY <2>2, <2>3
<1> QED
  BY <1>5, <1>6, <1>7, <1>8, <1>9, <1>10, <1>11 DEF RecoveryInv, Preserved

(* commitSourceMetadata *)
LEMMA MetadataStep ==
    ASSUME RecoveryInv, PutMetadata
    PROVE  Preserved
<1> DEFINE v == job.ver
<1>1. /\ job \in Jobs /\ job # NoJob /\ v \in Versions
      /\ ~job.recovery /\ job.phase = "meta"
      /\ job.state \in {"live", "deleted"} /\ vstate[v] = job.state
      /\ job.ops = OpsForState(job.state, v) /\ job.hasIntent = (job.ops # {})
      /\ v \in {mcur, mcur + 1}
      /\ mcur \in 0..MaxVersion /\ mstate \in [Versions -> VersionStates]
  BY DEF PutMetadata, RecoveryInv, TypeOK, RequestJob, NoJob, Jobs,
         VersionStates, Early
<1>2. /\ mcur' = v /\ mcur <= mcur' /\ mcur' \in Versions
      /\ mstate' \in [Versions -> VersionStates]
      /\ UNCHANGED <<vstate, outbox, outcome, intent, nextSalt, interrupts>>
  BY <1>1 DEF PutMetadata, Jobs, Versions
<1>3. /\ job' \in Jobs /\ job'.ver = v /\ job'.state = job.state
      /\ job'.recovery = job.recovery /\ job'.ops = job.ops
      /\ job'.cancels = job.cancels /\ job'.hasIntent = job.hasIntent
      /\ job'.phase \in Late /\ job' # NoJob
      /\ job'.phase \notin Early /\ job'.phase # "none"
      /\ job'.phase = "prune" => job'.ops = {}
  BY <1>1, ContinuedFacts, LateJob DEF PutMetadata
<1>4. TypeOK'
  BY <1>1, <1>2, <1>3 DEF RecoveryInv, TypeOK, Jobs, Versions
<1>5. CurrentVersionExists' /\ NothingAhead'
  <2>1. CurrentVersionExists'
    BY <1>1, <1>2 DEF CurrentVersionExists
  <2>2. NothingAhead'
    BY <1>1, <1>2 DEF RecoveryInv, TypeOK, NothingAhead, Ops, Versions
  <2> QED
    BY <2>1, <2>2
<1>6. IntentsOK'
  BY <1>1, <1>2 DEF RecoveryInv, IntentsOK, Versions
<1>7. RequestJob'
  <2>1. /\ \A o, p \in job'.ops : o.ver = job'.ver /\ o.kind = p.kind
        /\ \A o \in job'.cancels :
               /\ o.ver <= job'.ver
               /\ o.ver = job'.ver => o.kind # KindFor(job'.state)
               /\ outbox'[o] # "claimed"
        /\ \A o \in job'.cancels, p \in job'.ops :
               o.ver = job'.ver => p.kind # o.kind
    BY <1>1, <1>2, <1>3 DEF RecoveryInv, RequestJob
  <2> QED
    BY <1>1, <1>2, <1>3, <2>1 DEF RequestJob, Early, Late
<1>8. RecoveryJob' /\ PruneIsLast'
  BY <1>1, <1>3 DEF RecoveryJob, PruneIsLast
<1>9. IntentCovered'
  BY <1>1, <1>2, <1>3 DEF RecoveryInv, IntentCovered, Recoverable, Early
<1>10. WorkKept /\ SafeReplacement => WorkKept'
  <2>1. OpsForState(job.state, v) = {} \/ job.ops = intent[v].ops
    BY <1>1 DEF RecoveryInv, IntentCovered, Early
  <2> QED
    BY <1>1, <1>2, <2>1, IntentRecords DEF WorkKept
<1> QED
  BY <1>4, <1>5, <1>6, <1>7, <1>8, <1>9, <1>10 DEF RecoveryInv, Preserved

(* recoverIntentSourceMetadata *)
LEMMA RecoverMetadataStep ==
    ASSUME RecoveryInv, RecoverMetadata
    PROVE  Preserved
<1> DEFINE v == job.ver
<1>1. /\ job \in Jobs /\ job # NoJob /\ v \in Versions
      /\ job.recovery /\ job.phase = "meta" /\ job.hasIntent
      /\ Recoverable(v) # {}
      /\ mcur \in 0..MaxVersion /\ mstate \in [Versions -> VersionStates]
      /\ vstate \in [Versions -> VersionStates]
  BY DEF RecoverMetadata, RecoveryInv, TypeOK, RecoveryJob, NoJob, Jobs
<1>2. /\ mcur' \in 0..MaxVersion /\ mcur <= mcur' /\ v <= mcur'
      /\ mcur < v => mcur' = v
      /\ ~(mcur < v) => mcur' = mcur
      /\ UNCHANGED <<vstate, outbox, outcome, intent, nextSalt, interrupts>>
  BY <1>1 DEF RecoverMetadata, Versions
<1>3. mstate' \in [Versions -> VersionStates]
  <2>1. vstate[v] \in VersionStates /\ "live" \in VersionStates
    BY <1>1 DEF VersionStates
  <2> QED
    BY <1>1, <2>1 DEF RecoverMetadata
<1>4. /\ job' \in Jobs /\ job'.ver = v /\ job'.recovery = job.recovery
      /\ job'.ops = job.ops /\ job'.cancels = job.cancels
      /\ job'.hasIntent = job.hasIntent
      /\ job'.phase \in Late /\ job' # NoJob
      /\ job'.phase \notin Early /\ job'.phase # "none"
      /\ job'.phase = "prune" => job'.ops = {}
  BY <1>1, ContinuedFacts, LateJob DEF RecoverMetadata
<1>5. TypeOK'
  BY <1>1, <1>2, <1>3, <1>4 DEF RecoveryInv, TypeOK, Jobs
<1>6. mcur < v => vstate[v] = "live" /\ intent[v].ops = OpsForState("live", v)
  <2> SUFFICES ASSUME mcur < v
               PROVE  vstate[v] = "live" /\ intent[v].ops = OpsForState("live", v)
    OBVIOUS
  <2>1. PICK o \in Recoverable(v) : TRUE
    BY <1>1
  <2>2. intent[v].ops = OpsFor("upsert", v, Assoc)
    BY <1>1, <2>1 DEF RecoveryInv, IntentsOK, Recoverable, Versions
  <2>3. o.kind = "upsert"
    BY <2>1, <2>2 DEF Recoverable, OpsFor
  <2> QED
    BY <2>1, <2>2, <2>3 DEF Recoverable, OpsForState, KindFor, AssocsFor
<1>7. CurrentVersionExists' /\ NothingAhead'
  <2>1. CurrentVersionExists'
    BY <1>1, <1>2, <1>6 DEF RecoveryInv, CurrentVersionExists
  <2>2. NothingAhead'
    BY <1>1, <1>2 DEF RecoveryInv, TypeOK, NothingAhead, Ops, Versions
  <2> QED
    BY <2>1, <2>2
<1>8. IntentsOK'
  BY <1>1, <1>2 DEF RecoveryInv, IntentsOK, Versions
<1>9. RequestJob' /\ PruneIsLast'
  BY <1>1, <1>4 DEF RequestJob, PruneIsLast
<1>10. RecoveryJob'
  BY <1>1, <1>2, <1>4 DEF RecoveryJob, Recoverable, Late
<1>11. IntentCovered'
  BY <1>1, <1>2, <1>4 DEF RecoveryInv, IntentCovered, Recoverable, Early
<1>12. WorkKept /\ SafeReplacement => WorkKept'
  <2>1. CASE mcur < v
    BY <1>1, <1>2, <1>6, <2>1, IntentRecords DEF WorkKept
  <2>2. CASE ~(mcur < v)
    <3>1. WorkKept /\ mcur > 0 => CurrentWork
      BY <1>1 DEF WorkKept, Replacing
    <3>2. CurrentWork => CurrentWork'
      BY <1>2, <2>2 DEF CurrentWork, Recorded
    <3> QED
      BY <1>2, <2>2, <3>1, <3>2 DEF WorkKept
  <2> QED
    BY <2>1, <2>2
<1> QED
  BY <1>5, <1>7, <1>8, <1>9, <1>10, <1>11, <1>12 DEF RecoveryInv, Preserved

(* What a job cancels is never what the current version calls for. *)
LEMMA CancelsSuperseded ==
    ASSUME RecoveryInv, job.phase = "cancel", NEW o \in job.cancels
    PROVE  /\ ~(o.ver = mcur /\ Agrees(o))
           /\ job.hasIntent => o \notin Recoverable(job.ver)
           /\ o \in Ops
<1>1. /\ job \in Jobs /\ job # NoJob /\ job.ver \in Versions /\ o \in Ops
      /\ o.ver \in Versions /\ o.kind \in {"upsert", "delete"}
      /\ mcur \in 0..MaxVersion /\ job.state \in {"none", "live", "deleted"}
  BY DEF RecoveryInv, TypeOK, NoJob, Jobs, Ops, VersionStates
<1>2. CASE job.recovery
  <2>1. PICK p \in Recoverable(job.ver) : TRUE
    BY <1>2 DEF RecoveryInv, RecoveryJob
  <2>2. /\ p \in intent[job.ver].ops /\ Agrees(p) /\ p.ver = job.ver
        /\ o \in intent[job.ver].cancels /\ job.ver <= mcur
    BY <1>1, <1>2, <2>1 DEF RecoveryInv, RecoveryJob, IntentCovered, Recoverable,
         IntentsOK, Agrees
  <2>3. /\ o.ver <= job.ver
        /\ o.ver = job.ver => \A q \in intent[job.ver].ops : q.kind # o.kind
    BY <1>1, <2>2 DEF RecoveryInv, IntentsOK
  <2>4. p.kind \in {"upsert", "delete"}
    BY <1>1, <2>2 DEF RecoveryInv, TypeOK, Ops
  <2>5. o.ver = job.ver => ~Agrees(o)
    BY <1>1, <2>2, <2>3, <2>4 DEF Agrees
  <2>6. o \notin Recoverable(job.ver)
    BY <1>1, <2>3 DEF RecoveryInv, IntentsOK, Recoverable
  <2> QED
    BY <1>1, <2>2, <2>3, <2>5, <2>6 DEF Versions
<1>3. CASE ~job.recovery
  <2>1. /\ job.ver = mcur /\ job.state # "none" /\ vstate[job.ver] = job.state
        /\ o.ver <= job.ver
        /\ o.ver = job.ver => o.kind # KindFor(job.state)
    BY <1>1, <1>3 DEF RecoveryInv, RequestJob, Early, Late
  <2>2. ~(o.ver = mcur /\ Agrees(o))
    BY <1>1, <2>1 DEF Agrees, KindFor
  <2>3. job.hasIntent => o \in intent[job.ver].cancels
    BY <1>1 DEF RecoveryInv, IntentCovered
  <2>4. job.hasIntent => o \notin Recoverable(job.ver)
    BY <1>1, <2>3 DEF RecoveryInv, IntentsOK, Recoverable
  <2> QED
    BY <1>1, <2>2, <2>4
<1> QED
  BY <1>1, <1>2, <1>3 DEF Jobs

(* Ending a job that is not replacing an intent leaves the rest alone. *)
LEMMA JobEnds ==
    ASSUME RecoveryInv, job' = NoJob, ~Replacing,
           UNCHANGED <<mcur, mstate, vstate, outbox, outcome, intent, nextSalt>>,
           interrupts' \in [request : 0..MaxInterrupts,
                            recovery : 0..MaxRecoveryInterrupts]
    PROVE  Preserved
<1>1. TypeOK'
  <2>1. NoJob \in Jobs
    BY RecoveryConstants DEF NoJob, Jobs, Phases, VersionStates
  <2> QED
    BY <2>1 DEF RecoveryInv, TypeOK, Jobs
<1>2. CurrentVersionExists' /\ IntentsOK' /\ NothingAhead'
  BY DEF RecoveryInv, CurrentVersionExists, IntentsOK, NothingAhead
<1>3. RequestJob' /\ RecoveryJob' /\ IntentCovered' /\ PruneIsLast'
  BY DEF RequestJob, RecoveryJob, IntentCovered, PruneIsLast, NoJob
<1>4. WorkKept /\ SafeReplacement => WorkKept'
  <2>1. CurrentWork => CurrentWork'
    BY DEF CurrentWork, Recorded
  <2> QED
    BY <2>1 DEF RecoveryInv, WorkKept
<1> QED
  BY <1>1, <1>2, <1>3, <1>4 DEF RecoveryInv, Preserved

(* A queue write of a job: it takes operations off what is left to do, and *)
(* changes no record that the current version or the intent calls for into *)
(* nothing.                                                                *)
LEMMA QueueWrite ==
    ASSUME RecoveryInv, job.phase \in {"cancel", "put"},
           NEW j \in Jobs, job' = Continued(j),
           j.ver = job.ver, j.state = job.state, j.recovery = job.recovery,
           j.hasIntent = job.hasIntent, j.ops \subseteq job.ops,
           j.cancels \subseteq job.cancels,
           UNCHANGED <<mcur, mstate, vstate, outcome, intent, nextSalt, interrupts>>,
           outbox' \in [Ops -> {"absent", "queued", "claimed", "failed"}],
           \A o \in Ops : outbox'[o] # "absent" => o.ver <= mcur,
           \A o \in Ops : outbox'[o] = "claimed" => outbox[o] = "claimed",
           \A o \in Ops : o.ver = mcur /\ Agrees(o) /\ outbox[o] # "absent"
                               => outbox'[o] # "absent",
           job.hasIntent =>
               \A o \in Recoverable(job.ver) : o \in j.ops \/ outbox'[o] # "absent"
    PROVE  Preserved
<1>1. /\ job \in Jobs /\ job # NoJob /\ job.ver \in Versions
      /\ mcur \in 0..MaxVersion /\ job.phase \in Late /\ job.phase \notin Early
      /\ job.phase # "intent" /\ job.phase # "version" /\ job.phase # "meta"
  BY DEF RecoveryInv, TypeOK, NoJob, Jobs, Late, Early
<1>2. /\ job' \in Jobs /\ job'.ver = job.ver /\ job'.state = job.state
      /\ job'.recovery = job.recovery /\ job'.hasIntent = job.hasIntent
      /\ job'.ops \subseteq job.ops /\ job'.cancels \subseteq job.cancels
      /\ job'.ops = j.ops
      /\ job'.phase \in Late /\ job' # NoJob
      /\ job'.phase \notin Early /\ job'.phase # "none"
      /\ job'.phase # "meta" /\ job'.phase # "version" /\ job'.phase # "intent"
      /\ job'.phase = "prune" => job'.ops = {}
  <2>1. job'.phase \in Late => job'.phase # "meta" /\ job'.phase # "version"
                                  /\ job'.phase # "intent"
    BY DEF Late
  <2> QED
    BY <1>1, <2>1, ContinuedFacts, LateJob
<1>3. TypeOK'
  BY <1>1, <1>2 DEF RecoveryInv, TypeOK, Jobs
<1>4. CurrentVersionExists' /\ IntentsOK' /\ NothingAhead'
  BY DEF RecoveryInv, CurrentVersionExists, IntentsOK, NothingAhead
<1>5. RequestJob'
  <2>1. ASSUME ~job.recovery
        PROVE  /\ job'.ver = mcur
               /\ job.state # "none" => vstate[job.ver] = job.state
               /\ \A o, p \in job'.ops : o.ver = job'.ver /\ o.kind = p.kind
               /\ job.state = "none" => job'.cancels = {}
               /\ \A o \in job'.cancels :
                      /\ o.ver <= job.ver
                      /\ o.ver = job.ver => o.kind # KindFor(job.state)
                      /\ outbox'[o] # "claimed"
               /\ \A o \in job'.cancels, p \in job'.ops :
                      o.ver = job.ver => p.kind # o.kind
    <3>1. \A o \in job.cancels : o \in Ops
      BY <1>1 DEF Jobs
    <3> QED
      BY <1>1, <1>2, <2>1, <3>1 DEF RecoveryInv, RequestJob
  <2> QED
    BY <1>2, <2>1 DEF RequestJob
<1>6. RecoveryJob'
  BY <1>1, <1>2 DEF RecoveryInv, RecoveryJob, Recoverable, Late
<1>7. IntentCovered' /\ PruneIsLast'
  BY <1>1, <1>2 DEF RecoveryInv, IntentCovered, PruneIsLast, Recoverable
<1>8. WorkKept /\ SafeReplacement => WorkKept'
  <2> SUFFICES ASSUME WorkKept, SafeReplacement, mcur > 0
               PROVE  CurrentWork'
    BY DEF WorkKept
  <2>1. CurrentWork /\ mcur \in Versions
    BY <1>1 DEF RecoveryInv, WorkKept, Replacing, Versions
  <2> QED
    BY <2>1, WorkStays
<1> QED
  BY <1>3, <1>4, <1>5, <1>6, <1>7, <1>8 DEF RecoveryInv, Preserved

(* cancelQueuedOutboxIDs *)
LEMMA CancelStep ==
    ASSUME RecoveryInv, NEW o \in Ops, CancelQueued(o)
    PROVE  Preserved
<1>1. /\ job \in Jobs /\ job.phase = "cancel" /\ o \in job.cancels
      /\ outbox \in [Ops -> {"absent", "queued", "claimed", "failed"}]
      /\ UNCHANGED <<mcur, mstate, vstate, outcome, intent, nextSalt, interrupts>>
  BY DEF CancelQueued, RecoveryInv, TypeOK, Jobs
<1>2. CASE outbox[o] = "claimed"
  BY <1>1, <1>2, JobEnds DEF CancelQueued, RecoveryInv, TypeOK, Replacing
<1>3. CASE outbox[o] # "claimed"
  <2> DEFINE j == [job EXCEPT !.cancels = @ \ {o}]
  <2>1. /\ j \in Jobs /\ j.ver = job.ver /\ j.state = job.state
        /\ j.recovery = job.recovery /\ j.hasIntent = job.hasIntent
        /\ j.ops = job.ops /\ j.cancels \subseteq job.cancels
        /\ job' = Continued(j)
    BY <1>1, <1>3 DEF CancelQueued, Jobs
  <2>2. /\ outbox' \in [Ops -> {"absent", "queued", "claimed", "failed"}]
        /\ \A p \in Ops : p # o => outbox'[p] = outbox[p]
        /\ outbox'[o] # "claimed"
        /\ outbox'[o] # "absent" => outbox[o] # "absent"
    BY <1>1, <1>3 DEF CancelQueued
  <2>3. job.hasIntent =>
            \A p \in Recoverable(job.ver) : p \in j.ops \/ outbox'[p] # "absent"
    <3> SUFFICES ASSUME job.hasIntent, NEW p \in Recoverable(job.ver)
                 PROVE  p \in j.ops \/ outbox'[p] # "absent"
      OBVIOUS
    <3>1. p \in job.ops \/ outbox[p] # "absent"
      BY <1>1 DEF RecoveryInv, IntentCovered, NoJob
    <3>2. p \in Ops /\ p # o
      BY <1>1, CancelsSuperseded DEF RecoveryInv, TypeOK, Recoverable, NoJob
    <3> QED
      BY <2>1, <2>2, <3>1, <3>2
  <2>4. \A p \in Ops : p.ver = mcur /\ Agrees(p) => p # o
    BY <1>1, CancelsSuperseded
  <2>5. \A p \in Ops : outbox[p] # "absent" => p.ver <= mcur
    BY DEF RecoveryInv, NothingAhead
  <2> HIDE DEF j
  <2> QED
    BY <1>1, <2>1, <2>2, <2>3, <2>4, <2>5, QueueWrite
<1> QED
  BY <1>2, <1>3

(* putOutboxRecords *)
LEMMA PutStep ==
    ASSUME RecoveryInv, NEW o \in Ops, PutOutbox(o)
    PROVE  Preserved
<1>1. /\ job \in Jobs /\ job # NoJob /\ job.phase = "put" /\ o \in job.ops
      /\ outbox \in [Ops -> {"absent", "queued", "claimed", "failed"}]
      /\ job.ver \in Versions
      /\ UNCHANGED <<mcur, mstate, vstate, outcome, intent, nextSalt, interrupts>>
  BY DEF PutOutbox, RecoveryInv, TypeOK, Jobs, NoJob
<1> DEFINE j == [job EXCEPT !.ops = @ \ {o}]
<1>2. /\ j \in Jobs /\ j.ver = job.ver /\ j.state = job.state
      /\ j.recovery = job.recovery /\ j.hasIntent = job.hasIntent
      /\ j.ops = job.ops \ {o} /\ j.cancels = job.cancels
      /\ job' = Continued(j)
  BY <1>1 DEF PutOutbox, Jobs
<1>3. /\ outbox' \in [Ops -> {"absent", "queued", "claimed", "failed"}]
      /\ \A p \in Ops : p # o => outbox'[p] = outbox[p]
      /\ outbox'[o] # "absent"
      /\ outbox'[o] = "claimed" => outbox[o] = "claimed"
  BY <1>1 DEF PutOutbox
<1>4. o.ver <= mcur
  <2>1. CASE job.recovery
    <3>1. o \in intent[job.ver].ops /\ job.ver <= mcur
      BY <1>1, <2>1 DEF RecoveryInv, RecoveryJob, IntentCovered
    <3> QED
      BY <1>1, <3>1 DEF RecoveryInv, IntentsOK
  <2>2. CASE ~job.recovery
    <3>1. o.ver = job.ver /\ job.ver = mcur /\ mcur \in 0..MaxVersion
      BY <1>1, <2>2 DEF RecoveryInv, RequestJob, Early, TypeOK
    <3> QED
      BY <3>1
  <2> QED
    BY <1>1, <2>1, <2>2 DEF Jobs
<1>5. job.hasIntent =>
          \A p \in Recoverable(job.ver) : p \in j.ops \/ outbox'[p] # "absent"
  BY <1>1, <1>2, <1>3 DEF RecoveryInv, IntentCovered, TypeOK, Recoverable
<1>6. \A p \in Ops : outbox'[p] # "absent" => p.ver <= mcur
  BY <1>3, <1>4 DEF RecoveryInv, NothingAhead
<1> HIDE DEF j
<1> QED
  BY <1>1, <1>2, <1>3, <1>5, <1>6, QueueWrite

(* completeEnqueueIntent and pruneRecoveredIntent: what the intent of the  *)
(* current version calls for is in the queue by then.                      *)
LEMMA CompleteStep ==
    ASSUME RecoveryInv, CompleteEnqueueIntent
    PROVE  Preserved
<1>1. /\ job \in Jobs /\ job # NoJob /\ job.phase = "prune" /\ job.ops = {}
      /\ job.ver \in Versions /\ mcur \in 0..MaxVersion
      /\ intent \in [Versions -> [ops : SUBSET Ops, cancels : SUBSET Ops]]
  BY DEF CompleteEnqueueIntent, RecoveryInv, TypeOK, Jobs, NoJob, PruneIsLast
<1>2. /\ UNCHANGED <<mcur, mstate, vstate, outbox, outcome, nextSalt, interrupts>>
      /\ job' = NoJob
      /\ \A u \in Versions : intent'[u] \in {intent[u], NoIntent}
      /\ \A u \in Versions : u # job.ver \/ ~job.hasIntent => intent'[u] = intent[u]
      /\ intent' \in [Versions -> [ops : SUBSET Ops, cancels : SUBSET Ops]]
  <2>1. NoIntent \in [ops : SUBSET Ops, cancels : SUBSET Ops]
    BY DEF NoIntent
  <2> QED
    BY <1>1, <2>1 DEF CompleteEnqueueIntent
<1>3. TypeOK'
  <2>1. NoJob \in Jobs
    BY RecoveryConstants DEF NoJob, Jobs, Phases, VersionStates
  <2> QED
    BY <1>2, <2>1 DEF RecoveryInv, TypeOK, Jobs
<1>4. CurrentVersionExists' /\ NothingAhead'
  BY <1>2 DEF RecoveryInv, CurrentVersionExists, NothingAhead
<1>5. IntentsOK'
  <2> SUFFICES ASSUME NEW u \in Versions
               PROVE  /\ \A o, p \in intent'[u].ops : o.ver = u /\ o.kind = p.kind
                      /\ \A o \in intent'[u].cancels :
                             /\ o.ver <= u
                             /\ o.ver = u => \A p \in intent'[u].ops : p.kind # o.kind
                      /\ u > mcur => /\ vstate[u] \in {"none", "live"}
                                     /\ intent'[u].ops \in {{}, OpsFor("upsert", u, Assoc)}
    BY <1>2 DEF IntentsOK
  <2>1. CASE intent'[u] = intent[u]
    BY <2>1 DEF RecoveryInv, IntentsOK
  <2>2. CASE intent'[u] = NoIntent
    <3>1. intent'[u].ops = {} /\ intent'[u].cancels = {}
      BY <2>2 DEF NoIntent
    <3> QED
      BY <3>1 DEF RecoveryInv, IntentsOK
  <2> QED
    BY <1>2, <2>1, <2>2
<1>6. RequestJob' /\ RecoveryJob' /\ IntentCovered' /\ PruneIsLast'
  BY <1>2 DEF RequestJob, RecoveryJob, IntentCovered, PruneIsLast, NoJob
<1>7. WorkKept /\ SafeReplacement => WorkKept'
  <2> SUFFICES ASSUME WorkKept, SafeReplacement, mcur > 0
               PROVE  CurrentWork'
    BY <1>2 DEF WorkKept
  <2>1. CurrentWork /\ mcur \in Versions
    BY <1>1 DEF RecoveryInv, WorkKept, Replacing, Versions
  <2>2. ASSUME NEW o \in Ops, o.ver = mcur, Agrees(o),
               outbox[o] # "absent" \/ o \in intent[mcur].ops
        PROVE  outbox'[o] # "absent" \/ o \in intent'[mcur].ops
    <3>1. CASE job.ver # mcur \/ ~job.hasIntent
      BY <1>2, <2>1, <2>2, <3>1
    <3>2. CASE job.ver = mcur /\ job.hasIntent /\ o \in intent[mcur].ops
      <4>1. o \in Recoverable(job.ver)
        BY <2>2, <3>2 DEF Recoverable, Agrees
      <4> QED
        BY <1>1, <1>2, <3>2, <4>1 DEF RecoveryInv, IntentCovered
    <3> QED
      BY <1>1, <1>2, <2>2, <3>1, <3>2 DEF Jobs
  <2> QED
    BY <1>2, <2>1, <2>2, WorkStays
<1> QED
  BY <1>3, <1>4, <1>5, <1>6, <1>7 DEF RecoveryInv, Preserved

LEMMA StorageWriteStep ==
    ASSUME RecoveryInv, StorageWrite
    PROVE  Preserved
  BY IntentStep, VersionStep, MetadataStep, RecoverMetadataStep, CancelStep,
     PutStep, CompleteStep DEF StorageWrite

-----------------------------------------------------------------------------
(* Interruption, recovery and dispatch *)

LEMMA InterruptStep ==
    ASSUME RecoveryInv, Interrupt
    PROVE  Preserved
<1>1. /\ interrupts \in [request : 0..MaxInterrupts,
                         recovery : 0..MaxRecoveryInterrupts]
      /\ MaxInterrupts \in Nat /\ MaxRecoveryInterrupts \in Nat
  BY RecoveryConstants DEF RecoveryInv, TypeOK
<1>2. interrupts' \in [request : 0..MaxInterrupts,
                       recovery : 0..MaxRecoveryInterrupts]
  BY <1>1 DEF Interrupt
<1>3. ~Replacing
  BY <1>1 DEF Interrupt, Replacing
<1> QED
  BY <1>2, <1>3, JobEnds DEF Interrupt

LEMMA RecoverStep ==
    ASSUME RecoveryInv, NEW v \in Versions, RecoverEnqueueIntent(v)
    PROVE  Preserved
<1>1. /\ job = NoJob
      /\ UNCHANGED <<mcur, mstate, vstate, outbox, outcome, intent, nextSalt,
                     interrupts>>
      /\ v \in 0..MaxVersion
      /\ intent[v].ops \subseteq Ops /\ intent[v].cancels \subseteq Ops
      /\ Recoverable(v) \subseteq intent[v].ops
  BY DEF RecoverEnqueueIntent, RecoveryInv, TypeOK, Versions, Recoverable
<1>2. /\ job' \in Jobs /\ job'.ver = v /\ job'.recovery /\ job'.hasIntent
      /\ job'.ops = Recoverable(v) /\ job'.cancels \subseteq intent[v].cancels
      /\ job'.phase \in {"meta", "prune"}
      /\ job'.phase = "meta" <=> Recoverable(v) # {}
      /\ job' # NoJob
  <2>1. CASE Recoverable(v) # {}
    BY <1>1, <2>1 DEF RecoverEnqueueIntent, Jobs, Phases, VersionStates, NoJob
  <2>2. CASE Recoverable(v) = {}
    <3>1. job' = [phase |-> "prune", ver |-> v, state |-> "none",
                  recovery |-> TRUE, ops |-> {}, cancels |-> {},
                  hasIntent |-> TRUE]
      BY <2>2 DEF RecoverEnqueueIntent, NoJob
    <3> QED
      BY <1>1, <2>2, <3>1 DEF Jobs, Phases, VersionStates, NoJob
  <2> QED
    BY <2>1, <2>2
<1>3. TypeOK'
  BY <1>1, <1>2 DEF RecoveryInv, TypeOK, Jobs
<1>4. Recoverable(v)' = Recoverable(v)
  BY <1>1 DEF Recoverable
<1>5. RequestJob' /\ RecoveryJob' /\ PruneIsLast'
  BY <1>2, <1>4 DEF RequestJob, RecoveryJob, PruneIsLast
<1>6. IntentCovered'
  BY <1>1, <1>2, <1>4 DEF IntentCovered
<1> QED
  BY <1>1, <1>3, <1>5, <1>6, StartKeeps DEF RecoveryInv, Preserved

LEMMA ClaimStep ==
    ASSUME RecoveryInv, NEW o \in Ops, Claim(o)
    PROVE  Preserved
<1>1. /\ job = NoJob
      /\ UNCHANGED <<mcur, mstate, vstate, outcome, intent, job, nextSalt,
                     interrupts>>
      /\ outbox' \in [Ops -> {"absent", "queued", "claimed", "failed"}]
      /\ \A p \in Ops : outbox'[p] # "absent" <=> outbox[p] # "absent"
  BY DEF Claim, RecoveryInv, TypeOK
<1>2. TypeOK' /\ CurrentVersionExists' /\ IntentsOK' /\ NothingAhead'
  BY <1>1 DEF RecoveryInv, TypeOK, CurrentVersionExists, IntentsOK, NothingAhead
<1>3. RequestJob' /\ RecoveryJob' /\ IntentCovered' /\ PruneIsLast'
  BY <1>1 DEF RequestJob, RecoveryJob, IntentCovered, PruneIsLast, NoJob
<1>4. WorkKept /\ SafeReplacement => WorkKept'
  <2> SUFFICES ASSUME WorkKept, SafeReplacement, mcur > 0
               PROVE  CurrentWork'
    BY <1>1 DEF WorkKept
  <2>1. CurrentWork /\ mcur \in Versions
    BY <1>1 DEF RecoveryInv, WorkKept, Replacing, NoJob, TypeOK, Versions
  <2> QED
    BY <1>1, <2>1, WorkStays
<1> QED
  BY <1>2, <1>3, <1>4 DEF RecoveryInv, Preserved

(* An operation that leaves the queue was out of date, or is reported by   *)
(* the status record.                                                      *)
LEMMA CommitStep ==
    ASSUME RecoveryInv, NEW o \in Ops, CommitClaimed(o)
    PROVE  Preserved
<1> DEFINE eligible == (o.kind = "upsert") = (vstate[o.ver] = "live")
           stale == o.kind = "upsert" /\ mcur > o.ver
           done == [outcome EXCEPT ![o.assoc] = [kind |-> o.kind, ver |-> o.ver]]
<1>1. /\ job = NoJob /\ outbox[o] = "claimed"
      /\ UNCHANGED <<mcur, mstate, vstate, intent, job, nextSalt, interrupts>>
      /\ o.ver \in Versions /\ o.kind \in {"upsert", "delete"}
      /\ o.assoc \in Assoc /\ mcur \in 0..MaxVersion /\ o.ver <= mcur
      /\ outbox \in [Ops -> {"absent", "queued", "claimed", "failed"}]
      /\ outcome \in [Assoc -> [kind : {"none", "upsert", "delete"},
                                ver : 0..MaxVersion]]
  BY DEF CommitClaimed, RecoveryInv, TypeOK, Ops, NothingAhead
<1>2. \/ stale /\ outbox' = [outbox EXCEPT ![o] = "absent"] /\ outcome' = outcome
      \/ /\ ~stale /\ eligible /\ outbox' = [outbox EXCEPT ![o] = "absent"]
         /\ outcome' = IF o.ver < outcome[o.assoc].ver THEN outcome ELSE done
      \/ outbox' = [outbox EXCEPT ![o] = "failed"] /\ outcome' = outcome
  BY DEF CommitClaimed
<1>3. [kind |-> o.kind, ver |-> o.ver] \in [kind : {"none", "upsert", "delete"},
                                           ver : 0..MaxVersion]
  BY <1>1 DEF Versions
<1>4. /\ outbox' \in [Ops -> {"absent", "queued", "claimed", "failed"}]
      /\ \A p \in Ops : p # o => outbox'[p] = outbox[p]
      /\ outcome' \in [Assoc -> [kind : {"none", "upsert", "delete"},
                                 ver : 0..MaxVersion]]
      /\ \A a \in Assoc : outcome'[a] # outcome[a] =>
             a = o.assoc /\ outcome'[a] = [kind |-> o.kind, ver |-> o.ver]
                 /\ eligible /\ outcome[a].ver <= o.ver
  <2>1. CASE outcome' = outcome
    BY <1>1, <1>2, <2>1
  <2>2. CASE /\ outcome' = done /\ ~(o.ver < outcome[o.assoc].ver) /\ eligible
             /\ outbox' = [outbox EXCEPT ![o] = "absent"]
    <3>1. outcome[o.assoc].ver \in 0..MaxVersion
      BY <1>1
    <3>2. outcome[o.assoc].ver <= o.ver
      BY <1>1, <2>2, <3>1 DEF Versions
    <3> QED
      BY <1>1, <1>3, <2>2, <3>2
  <2> QED
    BY <1>2, <2>1, <2>2
<1>5. TypeOK'
  BY <1>1, <1>4 DEF RecoveryInv, TypeOK
<1>6. CurrentVersionExists' /\ IntentsOK'
  BY <1>1 DEF RecoveryInv, CurrentVersionExists, IntentsOK
<1>7. NothingAhead'
  <2>1. \A a \in Assoc : outcome'[a].ver <= mcur
    BY <1>1, <1>4 DEF RecoveryInv, NothingAhead
  <2> QED
    BY <1>1, <1>4, <2>1 DEF RecoveryInv, NothingAhead
<1>8. RequestJob' /\ RecoveryJob' /\ IntentCovered' /\ PruneIsLast'
  BY <1>1 DEF RequestJob, RecoveryJob, IntentCovered, PruneIsLast, NoJob
<1>9. WorkKept /\ SafeReplacement => WorkKept'
  <2> SUFFICES ASSUME WorkKept, SafeReplacement, mcur > 0
               PROVE  CurrentWork'
    BY <1>1 DEF WorkKept
  <2>1. CurrentWork /\ mcur \in Versions
    BY <1>1 DEF RecoveryInv, WorkKept, Replacing, NoJob, Versions
  <2>2. ASSUME NEW kind \in {"upsert", "delete"}, NEW a \in Assoc,
               (kind = "upsert") = (vstate[mcur] = "live"),
               Recorded(kind, a)
        PROVE  Recorded(kind, a)'
    <3>1. CASE outcome[a] = [kind |-> kind, ver |-> mcur]
      <4>1. outcome'[a] = [kind |-> kind, ver |-> mcur]
        <5>1. CASE outcome'[a] = outcome[a]
          BY <3>1, <5>1
        <5>2. CASE outcome'[a] # outcome[a]
          <6>1. mcur <= o.ver /\ eligible
            BY <1>4, <3>1, <5>2
          <6>2. o.ver = mcur
            BY <1>1, <6>1 DEF Versions
          <6>3. o.kind = kind
            BY <1>1, <2>2, <6>1, <6>2
          <6> QED
            BY <1>4, <5>2, <6>2, <6>3
        <5> QED
          BY <5>1, <5>2
      <4> QED
        BY <1>1, <4>1 DEF Recorded
    <3>2. ASSUME NEW p \in Ops, p.kind = kind, p.ver = mcur, p.assoc = a,
                 outbox[p] # "absent" \/ p \in intent[mcur].ops
          PROVE  Recorded(kind, a)'
      <4>1. CASE p # o \/ p \in intent[mcur].ops \/ outbox'[o] # "absent"
        BY <1>1, <1>4, <3>2, <4>1 DEF Recorded
      <4>2. CASE p = o /\ outbox'[o] = "absent"
        <5>1. ~stale
          BY <1>1, <3>2, <4>2
        <5>2. outcome' = IF o.ver < outcome[o.assoc].ver THEN outcome ELSE done
          BY <1>1, <1>2, <4>2, <5>1
        <5>3. outcome[a].ver <= mcur /\ outcome[a].ver \in 0..MaxVersion
          BY <1>1 DEF RecoveryInv, NothingAhead
        <5>4. outcome'[a] = [kind |-> kind, ver |-> mcur]
          BY <1>1, <3>2, <4>2, <5>2, <5>3
        <5> QED
          BY <1>1, <5>4 DEF Recorded
      <4> QED
        BY <4>1, <4>2
    <3> QED
      BY <2>2, <3>1, <3>2 DEF Recorded
  <2> QED
    BY <1>1, <2>1, <2>2, RecoveryConstants DEF CurrentWork
<1> QED
  BY <1>5, <1>6, <1>7, <1>8, <1>9 DEF RecoveryInv, Preserved

-----------------------------------------------------------------------------
(* Theorems *)

LEMMA InitInv == Init => RecoveryInv /\ WorkKept
<1> SUFFICES ASSUME Init PROVE RecoveryInv /\ WorkKept
  OBVIOUS
<1> USE RecoveryConstants
<1>1. TypeOK
  <2>1. NoJob \in Jobs
    BY DEF NoJob, Jobs, Phases, VersionStates
  <2>2. NoIntent \in [ops : SUBSET Ops, cancels : SUBSET Ops]
    BY DEF NoIntent
  <2> QED
    BY <2>1, <2>2 DEF Init, TypeOK, VersionStates, Jobs
<1>2. CurrentVersionExists /\ NothingAhead /\ WorkKept
  BY DEF Init, CurrentVersionExists, NothingAhead, WorkKept
<1>3. IntentsOK
  BY DEF Init, IntentsOK, NoIntent
<1>4. RequestJob /\ RecoveryJob /\ IntentCovered /\ PruneIsLast
  BY DEF Init, RequestJob, RecoveryJob, IntentCovered, PruneIsLast, NoJob
<1> QED
  BY <1>1, <1>2, <1>3, <1>4 DEF RecoveryInv

LEMMA NextStep ==
    ASSUME RecoveryInv, [Next]_vars
    PROVE  Preserved
<1>1. CASE Next
  BY <1>1, RequestStep, StorageWriteStep, InterruptStep, RecoverStep, ClaimStep,
     CommitStep DEF Next
<1>2. CASE UNCHANGED vars
  <2>1. RecoveryInv'
    BY <1>2 DEF vars, RecoveryInv, TypeOK, CurrentVersionExists, IntentsOK,
       NothingAhead, RequestJob, RecoveryJob, IntentCovered, PruneIsLast,
       Recoverable
  <2>2. WorkKept => WorkKept'
    BY <1>2 DEF vars, WorkKept, Replacing, CurrentWork, Recorded
  <2> QED
    BY <2>1, <2>2 DEF Preserved
<1> QED
  BY <1>1, <1>2

LEMMA RecoveryInvHolds == Spec => []RecoveryInv
<1>1. RecoveryInv /\ [Next]_vars => RecoveryInv'
  BY NextStep DEF Preserved
<1> QED
  BY <1>1, InitInv, PTL DEF Spec

(* Types are kept by every request, storage write, interruption, recovery  *)
(* and dispatch.                                                           *)
THEOREM TypeCorrect == Spec => []TypeOK
<1>1. RecoveryInv => TypeOK
  BY DEF RecoveryInv
<1> QED
  BY <1>1, RecoveryInvHolds, PTL

(* Metadata never names a version whose record is missing, wherever a      *)
(* mutation or a recovery stops and whatever requests come in between      *)
(* (putSourceVersionRecord, commitSourceMetadata,                          *)
(* recoverIntentSourceMetadata).                                           *)
THEOREM CurrentVersionAlwaysExists == Spec => []CurrentVersionExists
<1>1. RecoveryInv => CurrentVersionExists
  BY DEF RecoveryInv
<1> QED
  BY <1>1, RecoveryInvHolds, PTL

LEMMA WorkKeptRecords == WorkKept => WorkRecorded
  BY DEF WorkKept, WorkRecorded, Replacing, CurrentWork, NoJob

(* The work of the current version is recorded wherever requests and       *)
(* recoveries are cut short, however often, if no request stores its       *)
(* intent over one that is still to be recovered: putPendingEnqueueIntent  *)
(* does not look, and this is the one thing recovery relies on.            *)
THEOREM WorkRecordedWithoutReplacement ==
    Spec /\ [][IntentNotReplaced]_vars => []WorkRecorded
<1>1. RecoveryInv /\ [Next]_vars /\ [IntentNotReplaced]_vars
          => (WorkKept => WorkKept')
  <2> SUFFICES ASSUME RecoveryInv, [Next]_vars, [IntentNotReplaced]_vars
               PROVE  WorkKept => WorkKept'
    OBVIOUS
  <2>1. CASE UNCHANGED vars
    BY <2>1 DEF vars, WorkKept, Replacing, CurrentWork, Recorded
  <2>2. CASE IntentNotReplaced
    BY <2>2, NextStep DEF Preserved, SafeReplacement, IntentNotReplaced
  <2> QED
    BY <2>1, <2>2
<1> QED
  BY <1>1, InitInv, RecoveryInvHolds, WorkKeptRecords, PTL DEF Spec

-----------------------------------------------------------------------------
(* One interruption *)

OneInterruptInv == RecoveryInv /\ WorkKept /\ FirstInterruption /\ NoManualSync

LEMMA FirstInterruptionStep ==
    ASSUME RecoveryInv, FirstInterruption, [Next]_vars
    PROVE  FirstInterruption'
<1> USE RecoveryConstants
<1> SUFFICES ASSUME interrupts'.request = 0
             PROVE  /\ ~job'.recovery
                    /\ \A v \in Versions :
                           intent'[v] # NoIntent =>
                               job' # NoJob /\ job'.ver = v /\ job'.hasIntent
                                   /\ job'.phase # "intent"
  BY DEF FirstInterruption
<1>0. /\ job \in Jobs
      /\ job # NoJob => job.phase # "none" /\ job.ver \in Versions
      /\ intent \in [Versions -> [ops : SUBSET Ops, cancels : SUBSET Ops]]
      /\ interrupts \in [request : 0..MaxInterrupts,
                         recovery : 0..MaxRecoveryInterrupts]
  BY DEF RecoveryInv, TypeOK, Jobs
<1>1. interrupts' # interrupts => Interrupt
  BY DEF Next, vars, Request, StorageWrite, PathDataWrite, PathDataDelete,
     PathVersionUndelete, PathAssociationSync, PutEnqueueIntent, PutVersion,
     PutMetadata, RecoverMetadata, CancelQueued, PutOutbox,
     CompleteEnqueueIntent, RecoverEnqueueIntent, Claim, CommitClaimed
<1>2. /\ interrupts.request = 0
      /\ Interrupt => job.recovery
  BY <1>0, <1>1 DEF Interrupt
<1>3. /\ ~job.recovery /\ ~Interrupt
      /\ \A v \in Versions :
             intent[v] # NoIntent =>
                 job # NoJob /\ job.ver = v /\ job.hasIntent
                     /\ job.phase # "intent"
  BY <1>2 DEF FirstInterruption
<1>4. CASE Request
  <2>1. job = NoJob /\ intent' = intent
    BY <1>4 DEF Request, PathDataWrite, PathDataDelete, PathVersionUndelete,
       PathAssociationSync
  <2>2. ~job'.recovery
    <3>1. CASE \E v, s, ops, cancels : job' = SourceJob(v, s, ops, cancels)
      BY <3>1 DEF SourceJob
    <3>2. ASSUME NEW a \in Assoc, PathAssociationSync(a)
          PROVE  ~job'.recovery
      BY <3>2 DEF PathAssociationSync, SourceJob
    <3> QED
      BY <1>4, <3>1, <3>2 DEF Request, PathDataWrite, PathDataDelete,
         PathVersionUndelete
  <2> QED
    BY <1>3, <2>1, <2>2
<1>5. CASE PutEnqueueIntent
  <2>1. job # NoJob /\ job.ver \in Versions /\ job.hasIntent
    BY <1>0, <1>3, <1>5 DEF PutEnqueueIntent, NoJob, RecoveryInv, RequestJob
  <2>2. /\ job'.ver = job.ver /\ ~job'.recovery /\ job'.hasIntent
        /\ job'.phase # "intent" /\ job' # NoJob
    <3>1. CASE job.state = "none"
      <4>1. /\ job' = Continued(job)
            /\ Continued(job).phase \in Late
        BY <1>0, <1>5, <3>1, ContinuedFacts DEF PutEnqueueIntent
      <4> QED
        BY <1>0, <1>3, <2>1, <4>1, ContinuedFacts, LateJob DEF Late
    <3>2. CASE job.state # "none"
      BY <1>0, <1>3, <1>5, <2>1, <3>2 DEF PutEnqueueIntent, Jobs, NoJob
    <3> QED
      BY <3>1, <3>2
  <2>3. \A v \in Versions : v # job.ver => intent'[v] = NoIntent
    BY <1>0, <1>3, <1>5 DEF PutEnqueueIntent
  <2> QED
    BY <2>1, <2>2, <2>3
<1>6. CASE PutVersion
  <2>1. /\ job'.ver = job.ver /\ ~job'.recovery /\ job'.hasIntent = job.hasIntent
        /\ job'.phase = "meta" /\ job' # NoJob /\ intent' = intent
    BY <1>0, <1>3, <1>6 DEF PutVersion, Jobs, NoJob
  <2> QED
    BY <1>3, <2>1
<1>7. CASE PutMetadata
  <2>1. job # NoJob /\ intent' = intent /\ job' = Continued(job)
    BY <1>7 DEF PutMetadata, NoJob
  <2>2. /\ job'.ver = job.ver /\ ~job'.recovery /\ job'.hasIntent = job.hasIntent
        /\ job'.phase # "intent" /\ job' # NoJob
    BY <1>0, <1>3, <2>1, ContinuedFacts, LateJob DEF Late
  <2> QED
    BY <1>3, <2>1, <2>2
<1>8. ASSUME NEW o \in Ops, CancelQueued(o) \/ PutOutbox(o)
      PROVE  FirstInterruption'
  <2>1. job # NoJob /\ intent' = intent
    BY <1>8 DEF CancelQueued, PutOutbox, NoJob
  <2>2. \E j \in Jobs : /\ job' = Continued(j) /\ j.ver = job.ver
                        /\ j.recovery = job.recovery
                        /\ j.hasIntent = job.hasIntent
    <3>1. CASE CancelQueued(o)
      <4>1. outbox[o] # "claimed"
        BY <1>3, <2>1, <3>1 DEF CancelQueued, RecoveryInv, RequestJob
      <4>2. /\ job' = Continued([job EXCEPT !.cancels = @ \ {o}])
            /\ [job EXCEPT !.cancels = @ \ {o}] \in Jobs
        BY <1>0, <3>1, <4>1 DEF CancelQueued, Jobs
      <4> QED
        BY <1>0, <4>2 DEF Jobs
    <3>2. CASE PutOutbox(o)
      <4>1. /\ job' = Continued([job EXCEPT !.ops = @ \ {o}])
            /\ [job EXCEPT !.ops = @ \ {o}] \in Jobs
        BY <1>0, <3>2 DEF PutOutbox, Jobs
      <4> QED
        BY <1>0, <4>1 DEF Jobs
    <3> QED
      BY <1>8, <3>1, <3>2
  <2>3. /\ job'.ver = job.ver /\ ~job'.recovery /\ job'.hasIntent = job.hasIntent
        /\ job'.phase # "intent" /\ job' # NoJob
    BY <1>0, <1>3, <2>1, <2>2, ContinuedFacts, LateJob DEF Late
  <2> QED
    BY <1>3, <2>1, <2>3 DEF FirstInterruption
<1>9. CASE CompleteEnqueueIntent
  <2>1. \A v \in Versions : intent'[v] = NoIntent
    BY <1>0, <1>3, <1>9 DEF CompleteEnqueueIntent
  <2> QED
    BY <1>9, <2>1 DEF CompleteEnqueueIntent, NoJob
<1>10. CASE UNCHANGED <<job, intent>>
  BY <1>3, <1>10
<1>11. ~RecoverMetadata /\ \A v \in Versions : ~RecoverEnqueueIntent(v)
  BY <1>3 DEF RecoverMetadata, RecoverEnqueueIntent
<1> QED
  BY <1>3, <1>4, <1>5, <1>6, <1>7, <1>8, <1>9, <1>10, <1>11
     DEF Next, StorageWrite, Claim, CommitClaimed, vars, FirstInterruption

LEMMA NoManualSyncStep ==
    ASSUME "manual_sync" \notin UserOps, RecoveryInv, NoManualSync, [Next]_vars
    PROVE  NoManualSync'
<1>0. job \in Jobs /\ (job # NoJob => job.ver \in Versions)
  BY DEF RecoveryInv, TypeOK, Jobs
<1>1. CASE Request
  BY <1>1 DEF Request, PathDataWrite, PathDataDelete, PathVersionUndelete,
     SourceJob, NoManualSync
<1>2. CASE PutEnqueueIntent \/ PutVersion \/ PutMetadata \/ RecoverMetadata
  <2>1. job # NoJob
    BY <1>2 DEF PutEnqueueIntent, PutVersion, PutMetadata, RecoverMetadata, NoJob
  <2>2. job'.state = job.state /\ job'.recovery = job.recovery
    BY <1>0, <1>2, ContinuedFacts DEF PutEnqueueIntent, PutVersion, PutMetadata,
       RecoverMetadata, Jobs
  <2> QED
    BY <2>1, <2>2 DEF NoManualSync
<1>3. ASSUME NEW o \in Ops, CancelQueued(o) \/ PutOutbox(o)
      PROVE  NoManualSync'
  <2>1. CASE job' = NoJob
    BY <2>1 DEF NoManualSync
  <2>2. CASE job' # NoJob
    <3>1. job # NoJob
      BY <1>3 DEF CancelQueued, PutOutbox, NoJob
    <3>2. PICK j \in {[job EXCEPT !.cancels = @ \ {o}], [job EXCEPT !.ops = @ \ {o}]} :
              job' = Continued(j)
      BY <1>3, <2>2 DEF CancelQueued, PutOutbox
    <3>3. j \in Jobs /\ j.state = job.state /\ j.recovery = job.recovery
      BY <1>0, <3>2 DEF Jobs
    <3> QED
      BY <3>1, <3>2, <3>3, ContinuedFacts DEF NoManualSync
  <2> QED
    BY <2>1, <2>2
<1>4. ASSUME NEW v \in Versions, RecoverEnqueueIntent(v)
      PROVE  NoManualSync'
  BY <1>4 DEF RecoverEnqueueIntent, NoManualSync, NoJob
<1>5. CASE job' = NoJob \/ job' = job
  BY <1>5 DEF NoManualSync
<1> QED
  BY <1>1, <1>2, <1>3, <1>4, <1>5 DEF Next, StorageWrite, CompleteEnqueueIntent,
     Interrupt, Claim, CommitClaimed, vars

(* One request that is cut short anywhere, and any number of recoveries,   *)
(* lose no work, although later requests do replace its intent: a request  *)
(* that runs to its end needs no intent.  Manual syncs are left out; they  *)
(* replace the intent of a mutation by one for a single association.       *)
THEOREM WorkRecordedAfterOneInterruption ==
    ASSUME MaxInterrupts <= 1, "manual_sync" \notin UserOps
    PROVE  Spec => []WorkRecorded
<1>1. Init => OneInterruptInv
  BY InitInv DEF OneInterruptInv, Init, FirstInterruption, NoManualSync, NoJob
<1>2. OneInterruptInv /\ [Next]_vars => OneInterruptInv'
  <2> SUFFICES ASSUME OneInterruptInv, [Next]_vars
               PROVE  OneInterruptInv'
    OBVIOUS
  <2>1. FirstInterruption' /\ NoManualSync'
    BY FirstInterruptionStep, NoManualSyncStep DEF OneInterruptInv
  <2>2. SafeReplacement
    <3> SUFFICES ASSUME PutEnqueueIntent
                 PROVE  \/ intent[job.ver] = NoIntent
                        \/ /\ job.state # "none"
                           /\ interrupts.request >= MaxInterrupts
      BY DEF SafeReplacement
    <3>1. /\ job.phase = "intent" /\ job # NoJob /\ ~job.recovery
          /\ job.ver \in Versions /\ interrupts.request \in 0..MaxInterrupts
      BY DEF PutEnqueueIntent, OneInterruptInv, RecoveryInv, TypeOK, RecoveryJob,
         NoJob
    <3>2. CASE interrupts.request = 0
      BY <3>1, <3>2 DEF OneInterruptInv, FirstInterruption
    <3>3. CASE interrupts.request # 0
      <4>1. job.state # "none"
        BY <3>1 DEF OneInterruptInv, NoManualSync
      <4>2. interrupts.request >= MaxInterrupts
        BY <3>1, <3>3, RecoveryConstants
      <4> QED
        BY <4>1, <4>2
    <3> QED
      BY <3>2, <3>3
  <2> QED
    BY <2>1, <2>2, NextStep DEF OneInterruptInv, Preserved
<1>3. OneInterruptInv => WorkRecorded
  BY WorkKeptRecords DEF OneInterruptInv
<1> QED
  BY <1>1, <1>2, <1>3, PTL DEF Spec
=============================================================================
