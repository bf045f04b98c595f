--------------------------- MODULE EnqueueRecovery ---------------------------
(***************************************************************************)
(* Source mutations on storage without transactions, one storage write at  *)
(* a time, with the process dying or a write failing between any two of    *)
(* them, and the recovery of the enqueue intents they leave behind.        *)
(*                                                                         *)
(* SecretSync takes a mutation as one step; this module opens it up.  A    *)
(* mutation and a recovery both run under enqueueMu, so there is one job   *)
(* at a time; claims and commits of the dispatcher need the mutex too.     *)
(***************************************************************************)
EXTENDS Integers, FiniteSets

CONSTANTS
    Assoc,          \* enabled associations of the path
    DeleteAssoc,    \* those whose delete_mode is "delete"
    UserOps,        \* request handlers that may be called
    MaxVersion,     \* bound: source versions written
    MaxSalt,        \* bound: salted (manual sync) operations
    MaxInterrupts,  \* bound: requests cut short by a crash or a failed write
    MaxRecoveryInterrupts   \* bound: recoveries cut short

ASSUME RecoveryConstants ==
    /\ DeleteAssoc \subseteq Assoc
    /\ UserOps \subseteq {"write", "data_delete", "undelete", "manual_sync"}
    /\ MaxVersion \in Nat \ {0}
    /\ MaxSalt \in Nat
    /\ MaxInterrupts \in Nat
    /\ MaxRecoveryInterrupts \in Nat

VARIABLES
    mcur,       \* metadata.CurrentVersion, 0 before the first write
    mstate,     \* metadata.Versions
    vstate,     \* the version records
    outbox,     \* the outbox records
    outcome,    \* the operation the status record of an association reports
    intent,     \* enqueue_intent/<path>/<version>
    job,        \* the mutation or recovery that holds enqueueMu
    nextSalt,   \* salted operation ids handed out
    interrupts  \* how often a request and a recovery were cut short

vars == <<mcur, mstate, vstate, outbox, outcome, intent, job, nextSalt,
          interrupts>>

-----------------------------------------------------------------------------
Versions == 1..MaxVersion

Ops == [kind : {"upsert", "delete"}, ver : Versions, assoc : Assoc,
        salt : 0..MaxSalt]

OpsFor(kind, v, assocs) ==
    {[kind |-> kind, ver |-> v, assoc |-> a, salt |-> 0] : a \in assocs}

NoIntent == [ops |-> {}, cancels |-> {}]

(* A job: what it does next, the version it is about, the state it gives   *)
(* the version record, the operations still to store and to cancel, and    *)
(* whether it has an intent to delete at the end.                          *)
NoJob == [phase |-> "none", ver |-> 0, state |-> "none", recovery |-> FALSE,
          ops |-> {}, cancels |-> {}, hasIntent |-> FALSE]

IsQueued(o) == outbox[o] \in {"queued", "claimed"}

(* Mutant of Continued: the intent of a finished job is forgotten. *)
ContinuedNoPrune(j) ==
    [j EXCEPT !.phase = IF j.cancels # {} THEN "cancel"
                        ELSE IF j.ops # {} THEN "put"
                        ELSE "none"]

(* putOutboxRecords follows cancelQueuedOutboxIDs, completeEnqueueIntent   *)
(* follows both.                                                           *)
Continued(j) ==
    [j EXCEPT !.phase = IF j.cancels # {} THEN "cancel"
                        ELSE IF j.ops # {} THEN "put"
                        ELSE "prune"]

(* putPendingEnqueueIntent and completeEnqueueIntent do nothing for a      *)
(* mutation without operations.                                            *)
SourceJob(v, state, ops, cancels) ==
    [phase |-> IF ops # {} THEN "intent" ELSE "version", ver |-> v,
     state |-> state, recovery |-> FALSE, ops |-> ops, cancels |-> cancels,
     hasIntent |-> ops # {}]

-----------------------------------------------------------------------------
(* Requests *)

PathDataWrite ==
    LET v == mcur + 1
    IN  /\ job = NoJob
        /\ mcur < MaxVersion
        /\ job' = SourceJob(v, "live", OpsFor("upsert", v, Assoc),
               {o \in Ops : outbox[o] = "queued" /\ o.kind = "upsert" /\ o.ver < v})
        /\ UNCHANGED <<mcur, mstate, vstate, outbox, outcome, intent, nextSalt,
                       interrupts>>

PathDataDelete ==
    LET stale == {o \in Ops : IsQueued(o) /\ o.kind = "upsert" /\ o.ver = mcur}
    IN  /\ job = NoJob
        /\ mcur > 0
        /\ vstate[mcur] = "live"
        /\ \A o \in stale : outbox[o] # "claimed"
        /\ job' = SourceJob(mcur, "deleted", OpsFor("delete", mcur, DeleteAssoc),
                            stale)
        /\ UNCHANGED <<mcur, mstate, vstate, outbox, outcome, intent, nextSalt,
                       interrupts>>

(* Undelete of the current version. *)
PathVersionUndelete ==
    LET stale == {o \in Ops : IsQueued(o) /\ o.kind = "delete" /\ o.ver = mcur}
    IN  /\ job = NoJob
        /\ mcur > 0
        /\ vstate[mcur] = "deleted"
        /\ \A o \in stale : outbox[o] # "claimed"
        /\ job' = SourceJob(mcur, "live", OpsFor("upsert", mcur, Assoc), stale)
        /\ UNCHANGED <<mcur, mstate, vstate, outbox, outcome, intent, nextSalt,
                       interrupts>>

(* enqueueAssociationCurrentVersionWithSalt: no version or metadata write. *)
PathAssociationSync(a) ==
    LET o == [kind |-> "upsert", ver |-> mcur, assoc |-> a, salt |-> nextSalt + 1]
    IN  /\ job = NoJob
        /\ mcur > 0
        /\ vstate[mcur] = "live"
        /\ nextSalt < MaxSalt
        /\ nextSalt' = nextSalt + 1
        /\ job' = [SourceJob(mcur, "none", {o}, {}) EXCEPT !.phase = "intent"]
        /\ UNCHANGED <<mcur, mstate, vstate, outbox, outcome, intent, interrupts>>

-----------------------------------------------------------------------------
(* Storage writes of the running job *)

(* Mutant of PutEnqueueIntent: the metadata is written before the version. *)
PutEnqueueIntentThenMetadata ==
    /\ job.phase = "intent"
    /\ intent' = [intent EXCEPT ![job.ver] =
                      [ops |-> job.ops, cancels |-> job.cancels]]
    /\ job' = IF job.state = "none" THEN Continued(job)
              ELSE [job EXCEPT !.phase = "meta"]
    /\ UNCHANGED <<mcur, mstate, vstate, outbox, outcome, nextSalt, interrupts>>

PutEnqueueIntent ==
    /\ job.phase = "intent"
    /\ intent' = [intent EXCEPT ![job.ver] =
                      [ops |-> job.ops, cancels |-> job.cancels]]
    /\ job' = IF job.state = "none" THEN Continued(job)
              ELSE [job EXCEPT !.phase = "version"]
    /\ UNCHANGED <<mcur, mstate, vstate, outbox, outcome, nextSalt, interrupts>>

PutVersion ==
    /\ job.phase = "version"
    /\ vstate' = [vstate EXCEPT ![job.ver] = job.state]
    /\ job' = [job EXCEPT !.phase = "meta"]
    /\ UNCHANGED <<mcur, mstate, outbox, outcome, intent, nextSalt, interrupts>>

PutMetadata ==
    /\ job.phase = "meta" /\ ~job.recovery
    /\ mcur' = job.ver
    /\ mstate' = [mstate EXCEPT ![job.ver] = job.state]
    /\ job' = Continued(job)
    /\ UNCHANGED <<vstate, outbox, outcome, intent, nextSalt, interrupts>>

(* recoverIntentSourceMetadata: a metadata record behind the intent is     *)
(* advanced, one at the intent's version copies the version's state, one   *)
(* ahead of it is left alone.                                              *)
RecoverMetadata ==
    /\ job.phase = "meta" /\ job.recovery
    /\ mcur' = IF mcur < job.ver THEN job.ver ELSE mcur
    /\ mstate' = IF mcur < job.ver THEN [mstate EXCEPT ![job.ver] = "live"]
                 ELSE IF mcur = job.ver
                 THEN [mstate EXCEPT ![job.ver] = vstate[job.ver]]
                 ELSE mstate
    /\ job' = Continued(job)
    /\ UNCHANGED <<vstate, outbox, outcome, intent, nextSalt, interrupts>>

(* cancelQueuedOutboxIDs: a claimed operation ends the job with an error. *)
CancelQueued(o) ==
    /\ job.phase = "cancel"
    /\ o \in job.cancels
    /\ IF outbox[o] = "claimed"
       THEN job' = NoJob /\ UNCHANGED outbox
       ELSE /\ outbox' = [outbox EXCEPT ![o] = IF @ = "queued" THEN "absent" ELSE @]
            /\ job' = Continued([job EXCEPT !.cancels = @ \ {o}])
    /\ UNCHANGED <<mcur, mstate, vstate, outcome, intent, nextSalt, interrupts>>

(* putOutbox; recovery leaves a record that exists as it is. *)
PutOutbox(o) ==
    /\ job.phase = "put"
    /\ o \in job.ops
    /\ outbox' = [outbox EXCEPT ![o] = IF job.recovery /\ @ # "absent" THEN @
                                       ELSE "queued"]
    /\ job' = Continued([job EXCEPT !.ops = @ \ {o}])
    /\ UNCHANGED <<mcur, mstate, vstate, outcome, intent, nextSalt, interrupts>>

(* Mutant of CompleteEnqueueIntent: a recovered intent is not deleted. *)
CompleteEnqueueIntentOnly ==
    /\ job.phase = "prune"
    /\ intent' = IF job.hasIntent /\ ~job.recovery
                 THEN [intent EXCEPT ![job.ver] = NoIntent]
                 ELSE intent
    /\ job' = NoJob
    /\ UNCHANGED <<mcur, mstate, vstate, outbox, outcome, nextSalt, interrupts>>

(* completeEnqueueIntent and pruneRecoveredIntent *)
CompleteEnqueueIntent ==
    /\ job.phase = "prune"
    /\ intent' = IF job.hasIntent THEN [intent EXCEPT ![job.ver] = NoIntent]
                 ELSE intent
    /\ job' = NoJob
    /\ UNCHANGED <<mcur, mstate, vstate, outbox, outcome, nextSalt, interrupts>>

(* The process dies, or the next storage write fails and the handler       *)
(* returns the error: what is stored stays.                                *)
Interrupt ==
    /\ job # NoJob
    /\ IF job.recovery
       THEN /\ interrupts.recovery < MaxRecoveryInterrupts
            /\ interrupts' = [interrupts EXCEPT !.recovery = @ + 1]
       ELSE /\ interrupts.request < MaxInterrupts
            /\ interrupts' = [interrupts EXCEPT !.request = @ + 1]
    /\ job' = NoJob
    /\ UNCHANGED <<mcur, mstate, vstate, outbox, outcome, intent, nextSalt>>

-----------------------------------------------------------------------------
(* Recovery and dispatch *)

(* Mutant of Recoverable: deletes are never recovered. *)
RecoverableUpserts(v) ==
    {o \in intent[v].ops : o.kind = "upsert" /\ vstate[v] = "live"}

(* shouldRecoverIntentOperation *)
Recoverable(v) ==
    {o \in intent[v].ops : (o.kind = "upsert") = (vstate[v] = "live")}

(* recoverEnqueueIntent: without a recoverable operation the mutation did  *)
(* not commit and only the intent is deleted.  Intents are taken in the    *)
(* order of their keys and the first that fails ends the pass.             *)
RecoverEnqueueIntent(v) ==
    /\ job = NoJob
    /\ intent[v] # NoIntent
    /\ \A u \in 1..(v - 1) : intent[u] = NoIntent
    /\ job' = IF Recoverable(v) # {}
              THEN [phase |-> "meta", ver |-> v, state |-> "none",
                    recovery |-> TRUE, ops |-> Recoverable(v),
                    cancels |-> intent[v].cancels, hasIntent |-> TRUE]
              ELSE [NoJob EXCEPT !.phase = "prune", !.ver = v,
                                 !.recovery = TRUE, !.hasIntent = TRUE]
    /\ UNCHANGED <<mcur, mstate, vstate, outbox, outcome, intent, nextSalt,
                   interrupts>>

(* claimOutboxRecord *)
Claim(o) ==
    /\ job = NoJob
    /\ outbox[o] = "queued"
    /\ outbox' = [outbox EXCEPT ![o] = "claimed"]
    /\ UNCHANGED <<mcur, mstate, vstate, outcome, intent, job, nextSalt,
                   interrupts>>

(* The end of a dispatch: a stale upsert is dropped, an operation the      *)
(* version is not eligible for fails, any other succeeds or fails.         *)
CommitClaimed(o) ==
    LET eligible == (o.kind = "upsert") = (vstate[o.ver] = "live")
        stale == o.kind = "upsert" /\ mcur > o.ver
    IN  /\ job = NoJob
        /\ outbox[o] = "claimed"
        /\ \/ /\ stale
              /\ outbox' = [outbox EXCEPT ![o] = "absent"]
              /\ UNCHANGED outcome
           \/ /\ ~stale /\ eligible
              /\ outbox' = [outbox EXCEPT ![o] = "absent"]
              /\ outcome' = IF o.ver < outcome[o.assoc].ver THEN outcome
                            ELSE [outcome EXCEPT ![o.assoc] =
                                      [kind |-> o.kind, ver |-> o.ver]]
           \/ /\ ~stale
              /\ outbox' = [outbox EXCEPT ![o] = "failed"]
              /\ UNCHANGED outcome
        /\ UNCHANGED <<mcur, mstate, vstate, intent, job, nextSalt, interrupts>>

-----------------------------------------------------------------------------
Request ==
    \/ "write" \in UserOps /\ PathDataWrite
    \/ "data_delete" \in UserOps /\ PathDataDelete
    \/ "undelete" \in UserOps /\ PathVersionUndelete
    \/ "manual_sync" \in UserOps /\ \E a \in Assoc : PathAssociationSync(a)

StorageWrite ==
    \/ PutEnqueueIntent
    \/ PutVersion
    \/ PutMetadata
    \/ RecoverMetadata
    \/ \E o \in Ops : CancelQueued(o)
    \/ \E o \in Ops : PutOutbox(o)
    \/ CompleteEnqueueIntent

Init ==
    /\ mcur = 0
    /\ mstate = [v \in Versions |-> "none"]
    /\ vstate = [v \in Versions |-> "none"]
    /\ outbox = [o \in Ops |-> "absent"]
    /\ outcome = [a \in Assoc |-> [kind |-> "none", ver |-> 0]]
    /\ intent = [v \in Versions |-> NoIntent]
    /\ job = NoJob
    /\ nextSalt = 0
    /\ interrupts = [request |-> 0, recovery |-> 0]

Next ==
    \/ Request
    \/ StorageWrite
    \/ Interrupt
    \/ \E v \in Versions : RecoverEnqueueIntent(v)
    \/ \E o \in Ops : Claim(o) \/ CommitClaimed(o)

Spec == Init /\ [][Next]_vars

(* A handler that holds enqueueMu finishes; the periodic callback comes    *)
(* round again and gets the mutex (sync.Mutex hands it to a waiter that    *)
(* starves), and so does a dispatch pass that has an outcome to commit.    *)
FairSpec ==
    /\ Spec
    /\ WF_vars(StorageWrite)
    /\ SF_vars(\E v \in Versions : RecoverEnqueueIntent(v))
    /\ \A o \in Ops : SF_vars(CommitClaimed(o))

-----------------------------------------------------------------------------
(* Properties *)

VersionStates == {"none", "live", "deleted"}
Phases == {"none", "intent", "version", "meta", "cancel", "put", "prune"}

(* Every variable has its type; a job past its start is about a version. *)
TypeOK ==
    /\ mcur \in 0..MaxVersion
    /\ mstate \in [Versions -> VersionStates]
    /\ vstate \in [Versions -> VersionStates]
    /\ outbox \in [Ops -> {"absent", "queued", "claimed", "failed"}]
    /\ outcome \in [Assoc -> [kind : {"none", "upsert", "delete"},
                              ver : 0..MaxVersion]]
    /\ intent \in [Versions -> [ops : SUBSET Ops, cancels : SUBSET Ops]]
    /\ job \in [phase : Phases, ver : 0..MaxVersion, state : VersionStates,
                recovery : BOOLEAN, ops : SUBSET Ops, cancels : SUBSET Ops,
                hasIntent : BOOLEAN]
    /\ job # NoJob => job.phase # "none" /\ job.ver \in Versions
    /\ nextSalt \in 0..MaxSalt
    /\ interrupts \in [request : 0..MaxInterrupts,
                       recovery : 0..MaxRecoveryInterrupts]

(* Wherever a mutation or a recovery is interrupted, the operation that    *)
(* the state of the current version calls for is stored, or listed in the  *)
(* version's intent for recovery to store, or dispatched                   *)
(* (commitDataWritePlan, recoverEnqueueIntent).                            *)
Recorded(kind, a) ==
    \/ \E o \in Ops : /\ o.kind = kind /\ o.ver = mcur /\ o.assoc = a
                      /\ outbox[o] # "absent" \/ o \in intent[mcur].ops
    \/ outcome[a] = [kind |-> kind, ver |-> mcur]

WorkRecorded ==
    job = NoJob /\ mcur > 0 =>
        /\ vstate[mcur] = "live" => \A a \in Assoc : Recorded("upsert", a)
        /\ vstate[mcur] = "deleted" => \A a \in DeleteAssoc : Recorded("delete", a)

(* Metadata never names a current version whose record is missing          *)
(* (putSourceVersionRecord before commitSourceMetadata).                   *)
CurrentVersionExists == mcur > 0 => vstate[mcur] # "none"

(* Once every intent is recovered, the version states of the metadata      *)
(* record agree with the version records.                                  *)
MetadataAgrees ==
    job = NoJob /\ (\A v \in Versions : intent[v] = NoIntent) =>
        \A v \in 1..mcur : mstate[v] = vstate[v]

(* Recovery always gets to the end of the intents. *)
IntentsDrain == []<>(\A v \in Versions : intent[v] = NoIntent)
=============================================================================
