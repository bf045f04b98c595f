---------------------------- MODULE RemoteObject ----------------------------
(***************************************************************************)
(* One remote object under the three providers: an AWS Secrets Manager     *)
(* secret, a GitLab project variable, a Kubernetes Secret that holds one   *)
(* payload, and a Kubernetes Secret whose data keys are shared with others *)
(* ("k8s_map").  Every call of the remote service is one step; calls of    *)
(* other dispatch passes and edits by other clients of the service come in *)
(* between, calls fail, and answers of calls that took effect get lost.    *)
(*                                                                         *)
(* A payload and its SHA-256 are the same thing here.                      *)
(***************************************************************************)
EXTENDS Integers, FiniteSets

CONSTANTS
    Worker,       \* provider calls that may be under way
    Kinds,        \* provider kinds to explore
    Readable,     \* whether the provider sees the remote value
    Payload,      \* what each source version holds
    MapKeys,      \* the data keys of each source version (k8s_map)
    MaxEdits      \* bound: edits by other clients

AllKinds == {"aws", "gitlab", "k8s", "k8s_map"}
Versions == DOMAIN Payload

ASSUME RemoteObjectAssumption ==
    /\ Kinds \subseteq AllKinds
    /\ Readable \subseteq BOOLEAN
    /\ Versions \subseteq Nat \ {0}
    /\ DOMAIN MapKeys = Versions
    /\ MaxEdits \in Nat
    /\ "other" \notin Worker

VARIABLES
    kind,      \* the provider
    readable,  \* value_drift_detection (aws), a variable that is not hidden
    overlap,   \* passes may overlap: one has outrun its claim's lease
    remote,    \* the object as the service holds it
    call,      \* what each provider call is doing
    edits      \* edits by other clients so far

vars == <<kind, readable, overlap, remote, call, edits>>

-----------------------------------------------------------------------------
(* Objects *)

NoData == [k \in {} |-> ""]

(* Metadata is owner, ver, sha and managed (tags, the description or       *)
(* annotations).  arn tells one incarnation of a secret from another.      *)
Missing == [there |-> FALSE, scheduled |-> FALSE, frozen |-> FALSE, arn |-> 0,
            owner |-> "none", ver |-> 0, sha |-> NoData, managed |-> {},
            data |-> NoData]

Contents(v) ==
    [k \in IF kind = "k8s_map" THEN MapKeys[v] ELSE {"payload"} |-> Payload[v]]

(* The service conditions writes on the revision that was read. *)
Conditional == kind \in {"k8s", "k8s_map"}

Restricted(f, keys) == [k \in DOMAIN f \cap keys |-> f[k]]

(* Mutant of OwnedByRequest: any managed object counts as owned. *)
OwnedByAnyone(obj) == obj.there

(* ownedByRequest: the association, path, object, mount and restore epoch  *)
(* of the metadata are those of the request.                               *)
OwnedByRequest(obj) == obj.owner = "me"

(* Mutant of RemoteSourceVersionNewer: the comparison is missing. *)
RemoteSourceVersionIgnored(obj, v) == FALSE

RemoteSourceVersionNewer(obj, v) == obj.ver > v

(* managedDataKeysForMutation: an object written before the association    *)
(* mapped its keys manages the payload key.                                *)
ManagedKeys(obj) ==
    IF obj.managed # {} THEN obj.managed ELSE DOMAIN obj.data \cap {"payload"}

(* unmanagedDataKeyConflicts *)
Conflicts(obj, v) ==
    kind = "k8s_map"
        /\ MapKeys[v] \cap (DOMAIN obj.data \ ManagedKeys(obj)) # {}

(* Mutant of MergedData: the whole data map is replaced. *)
MergedDataReplaced(obj, new) == new

(* mergedDataMap *)
MergedData(obj, new) ==
    LET kept == DOMAIN obj.data \ ManagedKeys(obj)
    IN  [k \in kept \cup DOMAIN new |->
             IF k \in DOMAIN new THEN new[k] ELSE obj.data[k]]

(* Mutant of PayloadMatches: the metadata is taken for the value. *)
PayloadMatchesMetadata(obj, value, v) == obj.sha = Contents(v)

(* payloadMatchesRequest; value is what the provider read of the object's  *)
(* data.  Without it the hash in the metadata has to do.                   *)
PayloadMatches(obj, value, v) ==
    LET hash == IF kind = "k8s_map" THEN Restricted(value, obj.managed)
                ELSE IF kind = "k8s" \/ readable THEN value
                ELSE obj.sha
    IN  hash = Contents(v)

(* managedMetadataMatches, remoteSourceVersionMatches, variableMatchesInput *)
MetadataMatches(obj, v) ==
    /\ obj.ver = v
    /\ obj.sha = Contents(v)
    /\ kind \in {"k8s", "k8s_map"} =>
           obj.managed = IF kind = "k8s_map" THEN MapKeys[v] ELSE {}

-----------------------------------------------------------------------------
(* Deciding the next call.  "ok" and "failed" end the provider call. *)

(* AWS: the value and the tags are written by separate calls. *)
UpsertAWS(obj, value, v) ==
    IF ~PayloadMatches(obj, value, v) THEN "put"
    ELSE IF ~MetadataMatches(obj, v) THEN "tag"
    ELSE "ok"

(* describedSecretID, and payloadMatchesRequest if it has to read the value *)
CompareAWS(obj, v) ==
    IF readable THEN "value" ELSE UpsertAWS(obj, obj.data, v)

UpsertGitLab(obj, v) ==
    IF PayloadMatches(obj, obj.data, v) /\ MetadataMatches(obj, v) THEN "ok"
    ELSE "put"

UpsertKubernetes(obj, v) ==
    IF PayloadMatches(obj, obj.data, v) /\ MetadataMatches(obj, v) THEN "ok"
    ELSE IF ~PayloadMatches(obj, obj.data, v) /\ obj.frozen THEN "failed"
    ELSE "put"

UpsertDataMap(obj, v) ==
    IF PayloadMatches(obj, obj.data, v) /\ MetadataMatches(obj, v) THEN "ok"
    ELSE IF ~PayloadMatches(obj, obj.data, v) /\ obj.frozen THEN "failed"
    ELSE IF Conflicts(obj, v) THEN "failed"
    ELSE "put"

(* What follows the first read of an upsert ... *)
AfterUpsertRead(obj, v) ==
    IF ~obj.there THEN "create"
    ELSE IF ~OwnedByRequest(obj) \/ RemoteSourceVersionNewer(obj, v)
         THEN "failed"
    ELSE IF kind = "aws"
         THEN IF obj.scheduled THEN "restore" ELSE CompareAWS(obj, v)
    ELSE IF kind = "gitlab" THEN UpsertGitLab(obj, v)
    ELSE IF kind = "k8s" THEN UpsertKubernetes(obj, v)
    ELSE UpsertDataMap(obj, v)

(* ... and of a delete; only AWS schedules one. *)
AfterDeleteRead(obj, v) ==
    IF ~obj.there THEN "ok"
    ELSE IF ~OwnedByRequest(obj) THEN "failed"
    ELSE IF obj.scheduled THEN "ok"
    ELSE IF RemoteSourceVersionNewer(obj, v) THEN "failed"
    ELSE "delete"

-----------------------------------------------------------------------------
(* Readers.  Plan names the action an upsert would take; ReadState reports *)
(* the object to a reconcile.  Neither writes.                             *)

PlanAWS(obj, v) ==
    IF obj.scheduled THEN "update"
    ELSE IF PayloadMatches(obj, obj.data, v) /\ MetadataMatches(obj, v)
         THEN "noop"
    ELSE "update"

PlanGitLab(obj, v) ==
    IF PayloadMatches(obj, obj.data, v) /\ MetadataMatches(obj, v) THEN "noop"
    ELSE "update"

PlanKubernetes(obj, v) ==
    IF Conflicts(obj, v) THEN "conflict"
    ELSE IF PayloadMatches(obj, obj.data, v) /\ MetadataMatches(obj, v)
         THEN "noop"
    ELSE IF ~PayloadMatches(obj, obj.data, v) /\ obj.frozen THEN "blocked"
    ELSE "update"

Plan(obj, v) ==
    IF ~obj.there THEN "create"
    ELSE IF ~OwnedByRequest(obj) THEN "conflict"
    ELSE IF RemoteSourceVersionNewer(obj, v) THEN "blocked"
    ELSE IF kind = "aws" THEN PlanAWS(obj, v)
    ELSE IF kind = "gitlab" THEN PlanGitLab(obj, v)
    ELSE PlanKubernetes(obj, v)

(* Mutant of ReadStateAWS: the hash in the tags is reported. *)
ReadStateAWSTags(obj) ==
    [exists |-> obj.there /\ ~obj.scheduled,
     owned  |-> OwnedByRequest(obj),
     sha    |-> obj.sha,
     ver    |-> obj.ver]

(* ReadState: the hash of the value where it can be read (AWS reads it of  *)
(* owned secrets only), else the one in the metadata.                      *)
ReadStateAWS(obj) ==
    [exists |-> obj.there /\ ~obj.scheduled,
     owned  |-> OwnedByRequest(obj),
     sha    |-> IF readable /\ OwnedByRequest(obj) THEN obj.data ELSE obj.sha,
     ver    |-> obj.ver]

ReadStateGitLab(obj) ==
    [exists |-> obj.there,
     owned  |-> OwnedByRequest(obj),
     sha    |-> IF readable THEN obj.data ELSE obj.sha,
     ver    |-> obj.ver]

ReadStateKubernetes(obj) ==
    [exists |-> obj.there,
     owned  |-> OwnedByRequest(obj),
     sha    |-> IF kind = "k8s_map" THEN Restricted(obj.data, obj.managed)
                ELSE obj.data,
     ver    |-> obj.ver]

ReadState(obj) ==
    IF kind = "aws" THEN ReadStateAWS(obj)
    ELSE IF kind = "gitlab" THEN ReadStateGitLab(obj)
    ELSE ReadStateKubernetes(obj)

(* reconcileStateForRemoteState *)
ReconcileState(state, v) ==
    IF ~state.exists THEN "REMOTE_MISSING"
    ELSE IF ~state.owned THEN "REMOTE_OWNERSHIP_LOST"
    ELSE IF state.ver > 0 /\ state.ver # v THEN "DRIFTED"
    ELSE IF state.sha = Contents(v) THEN "SYNCED"
    ELSE IF state.sha # NoData THEN "DRIFTED"
    ELSE "UNKNOWN"

-----------------------------------------------------------------------------
(* Provider calls in progress *)

Idle == [op |-> "none", ver |-> 0, step |-> "idle", seen |-> Missing,
         clean |-> TRUE]

(* Nobody else changed the object since the call began: an edit or another *)
(* pass's write marks the calls it may disturb.                            *)
Disturbed(w) ==
    [c \in Worker |-> IF c = w \/ call[c].step \in {"idle", "read"} THEN call[c]
                      ELSE [call[c] EXCEPT !.clean = FALSE]]

Stays == UNCHANGED <<kind, readable, overlap, edits>>

(* A call ends, or goes on with step s. *)
GoTo(w, calls, s) == call' = [calls EXCEPT ![w].step = s]

-----------------------------------------------------------------------------
(* Provider calls *)

Begin(w, op, v) ==
    /\ call[w].step = "idle"
    /\ overlap \/ \A c \in Worker : call[c].step = "idle"
    /\ call' = [call EXCEPT ![w] = [Idle EXCEPT !.op = op, !.ver = v,
                                                !.step = "read"]]
    /\ Stays
    /\ UNCHANGED remote

(* DescribeSecret, GetVariable, Get *)
Read(w) ==
    /\ call[w].step = "read"
    /\ call' = [call EXCEPT ![w].seen = remote,
                            ![w].step =
                IF call[w].op = "upsert" THEN AfterUpsertRead(remote, call[w].ver)
                ELSE AfterDeleteRead(remote, call[w].ver)]
    /\ Stays
    /\ UNCHANGED remote

(* remotePayloadSHA256: GetSecretValue *)
ReadValue(w) ==
    /\ call[w].step = "value"
    /\ GoTo(w, call,
            IF remote.there /\ ~remote.scheduled /\ remote.arn = call[w].seen.arn
            THEN UpsertAWS(call[w].seen, remote.data, call[w].ver)
            ELSE "failed")
    /\ Stays
    /\ UNCHANGED remote

(* The object a full write leaves: payload and metadata in one call. *)
Written(w, obj) ==
    LET new == Contents(call[w].ver)
    IN  [obj EXCEPT
            !.there = TRUE, !.owner = "me", !.ver = call[w].ver, !.sha = new,
            !.managed = IF kind = "k8s_map" THEN DOMAIN new ELSE {},
            !.data = IF kind = "k8s_map" THEN MergedData(obj, new) ELSE new]

(* Mutant of PutAccepted: no write is conditional. *)
PutAcceptedBlind(w) == remote.there /\ ~remote.scheduled

(* Whether the service carries out a write to the object that was read. *)
PutAccepted(w) ==
    /\ remote.there
    /\ Conditional => remote = call[w].seen
    /\ kind = "aws" => remote.arn = call[w].seen.arn /\ ~remote.scheduled

(* removeOwnershipMetadata, removeDataMapMetadata *)
RemoveOwnership(obj) ==
    [obj EXCEPT !.owner = "none", !.ver = 0, !.sha = NoData, !.managed = {}]

(* deleteDataMap keeps what the association does not manage. *)
Deleted(obj) ==
    LET rest == MergedData(obj, NoData)
    IN  IF kind = "aws" THEN [obj EXCEPT !.scheduled = TRUE]
        ELSE IF kind = "k8s_map" /\ DOMAIN rest # {}
        THEN [RemoveOwnership(obj) EXCEPT !.data = rest]
        ELSE Missing

(* A write takes effect on the object; the answer arrives or is lost.  A   *)
(* refused write, or one that fails on the way, changes nothing.           *)
Apply(w, accepted, object, next) ==
    /\ Stays
    /\ \/ /\ accepted
          /\ remote' = object
          /\ \E s \in {next, "failed"} : GoTo(w, Disturbed(w), s)
       \/ /\ UNCHANGED remote
          /\ GoTo(w, call, "failed")

Create(w) ==
    /\ call[w].step = "create"
    /\ Apply(w, ~remote.there, Written(w, Missing), "ok")

Put(w) ==
    /\ call[w].step = "put"
    /\ IF kind = "aws"
       THEN Apply(w, PutAccepted(w),
                  [remote EXCEPT !.data = Contents(call[w].ver)], "tag")
       ELSE Apply(w, PutAccepted(w), Written(w, remote), "ok")

(* TagResource *)
Tag(w) ==
    /\ call[w].step = "tag"
    /\ Apply(w, remote.there /\ remote.arn = call[w].seen.arn,
             [remote EXCEPT !.owner = "me", !.ver = call[w].ver,
                            !.sha = Contents(call[w].ver)], "ok")

(* restoreSecretIfScheduled *)
Restore(w) ==
    /\ call[w].step = "restore"
    /\ Apply(w, remote.there /\ remote.arn = call[w].seen.arn,
             [remote EXCEPT !.scheduled = FALSE],
             CompareAWS(call[w].seen, call[w].ver))

Delete(w) ==
    /\ call[w].step = "delete"
    /\ Apply(w, PutAccepted(w), Deleted(remote), "ok")

(* The dispatcher takes the answer. *)
End(w) ==
    /\ call[w].step \in {"ok", "failed"}
    /\ call' = [call EXCEPT ![w] = Idle]
    /\ Stays
    /\ UNCHANGED remote

-----------------------------------------------------------------------------
(* Other clients of the service *)

Edited(obj) ==
    /\ edits < MaxEdits
    /\ edits' = edits + 1
    /\ remote' = obj
    /\ call' = Disturbed("other")
    /\ UNCHANGED <<kind, readable, overlap>>

(* The value changes and the metadata stays. *)
EditValue ==
    /\ remote.there /\ ~remote.scheduled
    /\ \E k \in DOMAIN remote.data :
           Edited([remote EXCEPT !.data[k] = "edited"])

(* A data key is added that nobody here manages. *)
EditAddKey ==
    /\ kind = "k8s_map" /\ remote.there
    /\ \E v \in Versions : \E k \in MapKeys[v] \ DOMAIN remote.data :
           Edited([remote EXCEPT !.data =
               [j \in DOMAIN remote.data \cup {k} |->
                    IF j = k THEN "edited" ELSE remote.data[j]]])

EditFreeze ==
    /\ Conditional /\ remote.there
    /\ Edited([remote EXCEPT !.frozen = TRUE])

(* The object is taken over, or removed and created by somebody else. *)
EditTakeOver ==
    /\ remote.there
    /\ Edited([remote EXCEPT !.owner = "other"])

EditReplace ==
    Edited([Missing EXCEPT !.there = TRUE, !.arn = edits + 1,
                           !.owner = "other",
                           !.data = [k \in {"payload"} |-> "edited"]])

EditRemove ==
    /\ remote.there
    /\ Edited(Missing)

Edit == \/ EditValue \/ EditAddKey \/ EditFreeze
        \/ EditTakeOver \/ EditReplace \/ EditRemove

Init ==
    /\ kind \in Kinds
    /\ readable \in IF kind \in {"k8s", "k8s_map"} THEN {TRUE} ELSE Readable
    /\ overlap \in BOOLEAN
    /\ remote = Missing
    /\ call = [w \in Worker |-> Idle]
    /\ edits = 0

Step(w) ==
    \/ \E op \in {"upsert", "delete"}, v \in Versions : Begin(w, op, v)
    \/ Read(w)
    \/ ReadValue(w)
    \/ Create(w)
    \/ Put(w)
    \/ Tag(w)
    \/ Restore(w)
    \/ Delete(w)
    \/ End(w)

Next == (\E w \in Worker : Step(w)) \/ Edit

Spec == Init /\ [][Next]_vars

-----------------------------------------------------------------------------
(* Properties *)

(* The provider's comparison cannot be misled: it sees the value, or       *)
(* payload and metadata are written in one call and nobody edited them.    *)
Trustworthy == readable \/ (kind = "gitlab" /\ edits = 0)

Holds(v) ==
    /\ remote.there /\ ~remote.scheduled
    /\ remote.ver = v
    /\ Restricted(remote.data, DOMAIN Contents(v)) = Contents(v)

UpsertDone(w) == call[w].op = "upsert" /\ call[w].step = "ok" /\ call[w].clean

(* An upsert that reports success leaves the payload and the version of    *)
(* its request at the destination, whatever failed attempts, lost answers, *)
(* deletions and edits came before, unless somebody changed the object     *)
(* while it ran.                                                           *)
SuccessIsValue ==
    \A w \in Worker : Trustworthy /\ UpsertDone(w) => Holds(call[w].ver)

(* The same of AWS with value_drift_detection off, for an upsert of the    *)
(* newest version and with nobody else editing: "Repeating the same        *)
(* request for the same owned object leaves it unchanged or converges it   *)
(* to the same payload and metadata" (provider-contract.md:209).           *)
SuccessIsValueByTags ==
    \A w \in Worker :
        kind = "aws" /\ ~overlap /\ edits = 0 /\ UpsertDone(w)
            /\ (\A v \in Versions : v <= call[w].ver) => Holds(call[w].ver)

(* The step is a call of a provider and not an edit. *)
Ours == edits' = edits /\ remote' # remote

(* An object that belongs to somebody else is never written or deleted;    *)
(* where the service takes no precondition, except by a pass that read it  *)
(* while it was still owned.                                               *)
ForeignUntouched ==
    [][Ours /\ remote.there /\ ~(remote.owner = "me") =>
           /\ ~Conditional
           /\ \E w \in Worker : call[w].step # call'[w].step /\ ~call[w].clean
      ]_vars

(* Data keys of a shared Secret that the association does not manage keep  *)
(* their values through every upsert and delete.                           *)
UnmanagedKept ==
    [][Ours /\ kind = "k8s_map" =>
           \A k \in DOMAIN remote.data \ ManagedKeys(remote) :
               k \in DOMAIN remote'.data /\ remote'.data[k] = remote.data[k]
      ]_vars

(* The source version in the metadata never goes back, with conditional    *)
(* writes even when passes overlap.                                        *)
VersionForward ==
    [][Ours /\ (Conditional \/ ~overlap) /\ remote'.there
            /\ remote.owner = "me" /\ remote'.owner = "me" =>
           remote'.ver >= remote.ver]_vars

(* What the readers say of an object is what an upsert then does to it.    *)
(* Plan says noop exactly when nothing would be written, create when the   *)
(* object would be created, and conflict or blocked when the upsert would  *)
(* be refused.  A reconcile that reports DRIFTED names an object that an   *)
(* upsert would not leave as it is (a repair would never end), one that an *)
(* upsert would leave is reported SYNCED, and SYNCED is true of the value. *)
ReadersAgree ==
    \A v \in Versions :
        LET plan == Plan(remote, v)
            state == ReconcileState(ReadState(remote), v)
            step == AfterUpsertRead(remote, v)
            last == IF step = "value" THEN UpsertAWS(remote, remote.data, v)
                    ELSE step
        IN  /\ (plan = "noop") = (last = "ok")
            /\ (plan = "create") = (last = "create")
            /\ (plan \in {"conflict", "blocked"}) = (last = "failed")
            /\ last = "ok" => state = "SYNCED"
            /\ state = "DRIFTED" => last # "ok"
            /\ state = "SYNCED" => last # "failed"
            /\ state = "SYNCED" /\ Trustworthy => Holds(v)
=============================================================================
