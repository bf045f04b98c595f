---------------------------- MODULE Associations ----------------------------
(***************************************************************************)
(* Associations and destinations: the requests that create, change,        *)
(* enable, disable, sync and delete them, and the source writes that       *)
(* refresh the remote names an association reserves.                       *)
(*                                                                         *)
(* A request takes its write locks, reads and decides, and then changes    *)
(* storage one key at a time.  `todo` holds the changes it has still to    *)
(* make; requests on other locks interleave between any two of them, and   *)
(* the process can die or a storage call can fail at any of them.  The     *)
(* reads of one decision are taken together.  Locks are per key: the code  *)
(* stripes them, which only makes it interleave less.                      *)
(***************************************************************************)
EXTENDS Naturals, FiniteSets, Sequences

CONSTANTS
    Client,       \* requests in progress at the same time
    Assoc,        \* association identities
    Path,         \* source paths
    Dest,         \* destinations
    Name,         \* remote names
    Key,          \* source keys
    Config,       \* desired states: format, mapping and provider attributes
    PathOf,       \* an association's source path ...
    DestOf,       \* ... its destination ...
    OwnName,      \* ... and its reservationName: a name, or a name pattern
    PerKey,       \* the associations of secret-key granularity
    KeyName,      \* the name such an association renders for a key
    InitialKeys,  \* what source paths hold before the first request
    InitialAssocs, \* the associations enabled before, one set per initial state
    Postures,     \* security postures: TRUE is hardened
    MaxSecrets,   \* bound: sensitive configurations ever written
    MaxRequests,  \* bound: requests
    MaxFaults     \* bound: crashes and failed storage calls

ASSUME AssociationsAssumption ==
    /\ PathOf \in [Assoc -> Path]
    /\ DestOf \in [Assoc -> Dest]
    /\ OwnName \in [Assoc -> Name]
    /\ PerKey \subseteq Assoc
    /\ KeyName \in [PerKey -> [Key -> Name]]
    /\ InitialKeys \subseteq SUBSET Key
    /\ InitialAssocs \subseteq SUBSET Assoc
    /\ \A bs \in InitialAssocs : \A a, b \in bs :
           a # b /\ DestOf[a] = DestOf[b] => OwnName[a] # OwnName[b]
    /\ Postures \subseteq BOOLEAN
    /\ Config \subseteq Nat \ {0}

VARIABLES
    rec,       \* association records
    index,     \* entries of association_by_destination and association_names
    dest,      \* destination records
    secrets,   \* entries of destinations_secrets
    data,      \* keys of each path's current version, {} if it has none
    eligible,  \* source_sync_enabled of each path
    hardened,  \* security_posture
    work,      \* what was enqueued for each association since its last change
    excused,   \* associations whose work was cut short, or was not asked for
    client,    \* requests in progress
    fresh,     \* sensitive configurations written so far
    requests,  \* requests so far
    faults     \* crashes and failed storage calls so far

stored == <<rec, index, dest, secrets, data, eligible, work, excused>>
vars == <<rec, index, dest, secrets, data, eligible, hardened, work, excused,
          client, fresh, requests, faults>>

-----------------------------------------------------------------------------
(* Records and the index entries beside them *)

Gone == [live |-> FALSE, enabled |-> FALSE, config |-> 0, names |-> {}]

DefaultConfig == CHOOSE x \in Config : \A y \in Config : x <= y

NoWork == [names |-> {}, config |-> 0]

NoDest == [live |-> FALSE, disabled |-> FALSE, secret |-> 0]

Secret(d, v) == [of |-> d, version |-> v]

(* associationWithConcreteReservationNames, and the names of the objects   *)
(* an association writes for a payload with these keys.                    *)
ConcreteNames(a, keys) ==
    IF a \in PerKey THEN {KeyName[a][k] : k \in keys} ELSE {}

Objects(a, keys) ==
    IF a \in PerKey THEN ConcreteNames(a, keys) ELSE {OwnName[a]}

(* reservationNames *)
Reserves(a, r) == IF r.live THEN {OwnName[a]} \cup r.names ELSE {}

DestKey(a)    == [by |-> "destination", of |-> a, name |-> OwnName[a]]
NameKey(a, n) == [by |-> "name", of |-> a, name |-> n]
NameKeys(a, r) == {NameKey(a, n) : n \in Reserves(a, r)}
IndexKeys(a, r) ==
    IF r.live THEN {DestKey(a)} \cup NameKeys(a, r) ELSE {}

(* listAssociationIDsForDestination and listAssociationNameReservationIDs: *)
(* an index entry counts only with a record that matches it.               *)
AssociationsAt(d) ==
    {a \in Assoc : DestOf[a] = d /\ DestKey(a) \in index /\ rec[a].live}

ReservedBy(d, n) ==
    {a \in Assoc : /\ DestOf[a] = d
                   /\ NameKey(a, n) \in index
                   /\ n \in Reserves(a, rec[a])}

(* Mutant of NamesFree: one holder is allowed, whoever it is. *)
NamesFreeForOne(a, names) ==
    \A n \in names : Cardinality(ReservedBy(DestOf[a], n)) <= 1

(* validateAssociationNameReservations *)
NamesFree(a, names) ==
    \A n \in names : ReservedBy(DestOf[a], n) \subseteq {a}

(* validateAssociationDestination, short of the allowed prefixes *)
DestActive(d) == dest[d].live /\ ~dest[d].disabled

(* validateSourceEligibility *)
SourceEligible(p) == hardened => eligible[p]

(* enabledAssociationsForPath *)
EnabledAt(p) ==
    {a \in Assoc : PathOf[a] = p /\ rec[a].live /\ rec[a].enabled
                      /\ DestActive(DestOf[a])}

-----------------------------------------------------------------------------
(* What a request has still to do to storage *)

(* A loop over index entries; the model takes them in any order. *)
PutKeys(keys) == [do |-> "put", keys |-> keys]
DelKeys(keys) == [do |-> "del", keys |-> keys]

Store(a, r) == [do |-> "store", id |-> a, to |-> r]

(* Mutant of PutAssociation: the record before its index entries. *)
PutAssociationEarly(a, old, new) ==
    << Store(a, new),
       PutKeys(IndexKeys(a, new) \ IndexKeys(a, old)),
       DelKeys(NameKeys(a, old) \ NameKeys(a, new)) >>

(* putAssociation: the index entries of the new record, the record, and    *)
(* then the deletion of the index entries that only the old one had        *)
(* (deleteStaleAssociationIndexes).  Writing an entry of the old record    *)
(* again changes nothing and is no step of its own.                        *)
PutAssociation(a, old, new) ==
    << PutKeys(IndexKeys(a, new) \ IndexKeys(a, old)),
       Store(a, new),
       DelKeys(NameKeys(a, old) \ NameKeys(a, new)) >>

DeleteAssociation(a, old) ==
    << Store(a, Gone), DelKeys({DestKey(a)}), DelKeys(NameKeys(a, old)) >>

(* Mutant of Rollback: a failed enqueue leaves the new record. *)
RollbackNothing(a, previous, new) == << >>

(* rollbackAssociationPersistence *)
Rollback(a, previous, new) ==
    IF previous.live THEN PutAssociation(a, new, previous)
    ELSE DeleteAssociation(a, new)

Enqueue(as) == [do |-> "enqueue", for |-> as]
CancelQueued(a) == [do |-> "cancel", id |-> a]
SetEligible(p, on) == [do |-> "eligible", path |-> p, on |-> on]

(* The steps of a data write: the loop over the associations whose names   *)
(* change, and the commit of the version with its operations.              *)
Refresh(as, keys) == [do |-> "refresh", ids |-> as, keys |-> keys]
Commit(p, keys, as) == [do |-> "commit", path |-> p, keys |-> keys, for |-> as]

PutSecret(x) == [do |-> "putSecret", secret |-> x]
DelSecret(x) == [do |-> "delSecret", secret |-> x]
DelSecrets(d) == [do |-> "delSecrets", of |-> d]
StoreDest(d, r) == [do |-> "destination", name |-> d, to |-> r]

-----------------------------------------------------------------------------
(* Requests and their locks *)

SourceLock(p)  == [lock |-> "source", at |-> p, name |-> p]
NameLock(a)    == [lock |-> "name", at |-> DestOf[a], name |-> OwnName[a]]
DestLock(d)    == [lock |-> "destination", at |-> d, name |-> d]

Idle == [phase |-> "idle"]

Running(c) == client[c].phase = "run"

Held == UNION {client[c].held : c \in {x \in Client : Running(x)}}

Locked(p) == SourceLock(p) \in Held

(* A request that took the locks and decided: `touched` are the            *)
(* associations it is about, `undo` what it does if the enqueue fails.     *)
Begin(c, locks, touched, todo, undo) ==
    /\ Held \cap locks = {}
    /\ client' = [client EXCEPT ![c] =
           [phase |-> "run", held |-> locks, touched |-> touched,
            todo |-> todo, undo |-> undo]]

NewRequest(c) ==
    /\ client[c] = Idle
    /\ requests < MaxRequests
    /\ requests' = requests + 1

(* Mutant of WriteLocks: the destination is not locked. *)
WriteLocksNoDestination(a) == {SourceLock(PathOf[a]), NameLock(a)}

(* lockSourcePathAssociationNameAndDestination *)
WriteLocks(a) == {SourceLock(PathOf[a]), NameLock(a), DestLock(DestOf[a])}

(* associationProvider, before the locks: the check made again under them. *)
AssociationProvider(d) == DestActive(d)

(* associationUpdateBase: a request that updates an association starts     *)
(* from its stored record, one that creates it from none.                  *)
UpdateBase(a) == rec[a]

EnabledDefault(base) == base.live => base.enabled

ConfigDefault(base) == IF base.live THEN base.config ELSE DefaultConfig

(* associationRecordFromFieldData: the fields of the request over those of *)
(* the base record; "keep" and 0 stand for an omitted field.  The identity *)
(* of an association is its path, destination and name, so a request that  *)
(* changes one of these is about another association.                      *)
RecordFromFieldData(base, enabled, config) ==
    [enabled |-> IF enabled = "keep" THEN EnabledDefault(base)
                 ELSE enabled = "yes",
     config  |-> IF config = 0 THEN ConfigDefault(base) ELSE config]

(* pathAssociationWrite before the locks *)
WriteDraft(c, a, enabled, config) ==
    /\ NewRequest(c)
    /\ AssociationProvider(DestOf[a])
    /\ client' = [client EXCEPT ![c] =
           [phase |-> "draft", id |-> a,
            fields |-> RecordFromFieldData(UpdateBase(a), enabled, config)]]
    /\ UNCHANGED <<stored, hardened, fresh, faults>>

(* associationWritePreflight: the record as it will be stored, or a refusal *)
WritePreflight(a, r) ==
    /\ data[PathOf[a]] # {}
    /\ NamesFree(a, Reserves(a, r))
    /\ r.enabled => SourceEligible(PathOf[a])
    /\ DestActive(DestOf[a])

DesiredStateChanged(old, new) == old.live /\ old.config # new.config

(* A new association, one that was disabled, or a changed desired state. *)
ShouldEnqueue(old, new) ==
    new.enabled /\ (~old.live \/ ~old.enabled \/ DesiredStateChanged(old, new))

(* associationWritePlan under the locks *)
Write(c) ==
    /\ client[c].phase = "draft"
    /\ LET a == client[c].id
           r == [live |-> TRUE, enabled |-> client[c].fields.enabled,
                 config |-> client[c].fields.config,
                 names |-> ConcreteNames(a, data[PathOf[a]])]
       IN IF WritePreflight(a, r)
          THEN Begin(c, WriteLocks(a), {a},
                     PutAssociation(a, rec[a], r)
                         \o (IF ShouldEnqueue(rec[a], r)
                             THEN << Enqueue({a}) >> ELSE << >>),
                     Rollback(a, rec[a], r))
          ELSE /\ Held \cap WriteLocks(a) = {}
               /\ client' = [client EXCEPT ![c] = Idle]
    /\ UNCHANGED <<stored, hardened, fresh, requests, faults>>

(* pathAssociationEnable: only the source path is locked. *)
Enable(c, a) ==
    LET p == PathOf[a]
        r == [rec[a] EXCEPT !.names = ConcreteNames(a, data[p])]
    IN  /\ NewRequest(c)
        /\ rec[a].live
        /\ data[p] # {}
        /\ SourceEligible(p)
        /\ DestActive(DestOf[a])
        /\ NamesFree(a, Reserves(a, r))
        /\ Begin(c, {SourceLock(p)}, {a},
                 PutAssociation(a, rec[a], [r EXCEPT !.enabled = TRUE])
                     \o (IF rec[a].enabled THEN << >> ELSE << Enqueue({a}) >>),
                 Rollback(a, r, [r EXCEPT !.enabled = TRUE]))
        /\ UNCHANGED <<stored, hardened, fresh, faults>>

(* pathAssociationDisable *)
Disable(c, a) ==
    /\ NewRequest(c)
    /\ rec[a].live
    /\ Begin(c, {SourceLock(PathOf[a])}, {a},
             << CancelQueued(a) >>
                 \o PutAssociation(a, rec[a], [rec[a] EXCEPT !.enabled = FALSE]),
             << >>)
    /\ UNCHANGED <<stored, hardened, fresh, faults>>

(* pathAssociationSync *)
Sync(c, a) ==
    /\ NewRequest(c)
    /\ rec[a].live /\ rec[a].enabled
    /\ data[PathOf[a]] # {}
    /\ SourceEligible(PathOf[a])
    /\ DestActive(DestOf[a])
    /\ Begin(c, {SourceLock(PathOf[a])}, {}, << Enqueue({a}) >>, << >>)
    /\ UNCHANGED <<stored, hardened, fresh, faults>>

(* pathAssociationDelete: the source path and the name are locked. *)
Delete(c, a) ==
    /\ NewRequest(c)
    /\ rec[a].live
    /\ Begin(c, {SourceLock(PathOf[a]), NameLock(a)}, {a},
             << CancelQueued(a) >> \o DeleteAssociation(a, rec[a]), << >>)
    /\ UNCHANGED <<stored, hardened, fresh, faults>>

(* associationReservationUpdatesForPayload: the record with the names of   *)
(* the new keys.                                                           *)
Renamed(a, keys) == [rec[a] EXCEPT !.names = ConcreteNames(a, keys)]

(* pathDataWrite: the enabled associations are refreshed with the names of *)
(* the new keys, then the version is committed and enqueued for them.  A   *)
(* name that is taken refuses the write (by another association, or by two *)
(* of this path).                                                          *)
DataWrite(c, p, keys) ==
    LET as == IF SourceEligible(p) THEN EnabledAt(p) ELSE {}
        new(a) == Renamed(a, keys)
        changed == {a \in as : new(a) # rec[a]}
    IN  /\ NewRequest(c)
        /\ \A a \in as : NamesFree(a, Reserves(a, new(a)))
        /\ \A a, b \in as : a # b /\ DestOf[a] = DestOf[b] =>
               Reserves(a, new(a)) \cap Reserves(b, new(b)) = {}
        /\ Begin(c, {SourceLock(p)}, as,
                 << Refresh(changed, keys), Commit(p, keys, as) >>, << >>)
        /\ UNCHANGED <<stored, hardened, fresh, faults>>

(* pathSourceSyncSet; an enqueue that fails restores the flag. *)
SourceSync(c, p, on) ==
    LET as == IF data[p] = {} THEN {} ELSE EnabledAt(p)
    IN  /\ NewRequest(c)
        /\ eligible[p] # on
        /\ Begin(c, {SourceLock(p)}, {},
                 << SetEligible(p, on) >>
                     \o (IF on /\ as # {} THEN << Enqueue(as) >> ELSE << >>),
                 << SetEligible(p, ~on) >>)
        /\ UNCHANGED <<stored, hardened, fresh, faults>>

(* Mutant of StoreDestination: the old sensitive configuration goes first. *)
StoreDestinationLate(d, r) ==
    (IF dest[d].secret # 0
     THEN << DelSecret(Secret(d, dest[d].secret)) >> ELSE << >>)
        \o (IF r.secret # 0 THEN << PutSecret(Secret(d, r.secret)) >> ELSE << >>)
        \o << StoreDest(d, r) >>

(* storeDestinationWrite: the new sensitive configuration, the record that *)
(* points to it, and then the deletion of the one before.                  *)
StoreDestination(d, r) ==
    (IF r.secret # 0 THEN << PutSecret(Secret(d, r.secret)) >> ELSE << >>)
        \o << StoreDest(d, r) >>
        \o (IF dest[d].secret # 0
            THEN << DelSecret(Secret(d, dest[d].secret)) >> ELSE << >>)

(* pathDestinationWrite *)
DestinationWrite(c, d, disabled, sensitive) ==
    /\ NewRequest(c)
    /\ sensitive => fresh < MaxSecrets
    /\ fresh' = IF sensitive THEN fresh + 1 ELSE fresh
    /\ Begin(c, {DestLock(d)}, {},
             StoreDestination(d, [live |-> TRUE, disabled |-> disabled,
                                  secret |-> IF sensitive THEN fresh' ELSE 0]),
             IF sensitive THEN << DelSecret(Secret(d, fresh')) >> ELSE << >>)
    /\ UNCHANGED <<stored, hardened, faults>>

NoAssociations(d) == AssociationsAt(d) = {}

(* pathDestinationDelete: the record, then every sensitive configuration. *)
DestinationDelete(c, d) ==
    /\ NewRequest(c)
    /\ dest[d].live
    /\ NoAssociations(d)
    /\ Begin(c, {DestLock(d)}, {},
             << StoreDest(d, NoDest), DelSecrets(d) >>, << >>)
    /\ UNCHANGED <<stored, hardened, fresh, faults>>

-----------------------------------------------------------------------------
(* The steps of a request *)

Continue(c, todo) ==
    client' = [client EXCEPT ![c] =
        IF todo = << >> THEN Idle
        ELSE [@ EXCEPT !.todo = todo]]

EnqueuedFor(a, keys) ==
    [names |-> Objects(a, keys), config |-> rec[a].config]

(* The change that step s makes to storage. *)
Apply(s) ==
    /\ rec' = IF s.do = "store" THEN [rec EXCEPT ![s.id] = s.to] ELSE rec
    /\ secrets' = CASE s.do = "putSecret"  -> secrets \cup {s.secret}
                    [] s.do = "delSecret"  -> secrets \ {s.secret}
                    [] s.do = "delSecrets" -> {x \in secrets : x.of # s.of}
                    [] OTHER               -> secrets
    /\ dest' = IF s.do = "destination"
               THEN [dest EXCEPT ![s.name] = s.to] ELSE dest
    /\ eligible' = IF s.do = "eligible"
                   THEN [eligible EXCEPT ![s.path] = s.on] ELSE eligible
    /\ data' = IF s.do = "commit" THEN [data EXCEPT ![s.path] = s.keys] ELSE data
    /\ work' = [a \in Assoc |->
           CASE s.do = "enqueue" /\ a \in s.for -> EnqueuedFor(a, data[PathOf[a]])
             [] s.do = "commit" /\ a \in s.for  -> EnqueuedFor(a, s.keys)
             [] s.do = "cancel" /\ a = s.id     -> NoWork
             [] OTHER                           -> work[a]]
    /\ excused' =
           CASE s.do = "enqueue" -> excused \ s.for
             [] s.do = "commit"  ->
                    (excused \ s.for)
                        \cup {a \in Assoc \ s.for : PathOf[a] = s.path}
             [] OTHER -> excused
    /\ UNCHANGED index

Step(c) ==
    /\ Running(c)
    /\ Head(client[c].todo).do \notin {"put", "del", "refresh"}
    /\ Apply(Head(client[c].todo))
    /\ Continue(c, Tail(client[c].todo))
    /\ UNCHANGED <<hardened, fresh, requests, faults>>

(* One round of a loop over index entries. *)
IndexStep(c) ==
    LET s == Head(client[c].todo)
    IN  /\ Running(c)
        /\ s.do \in {"put", "del"}
        /\ \E k \in s.keys :
               /\ index' = IF s.do = "put" THEN index \cup {k} ELSE index \ {k}
               /\ Continue(c, << [s EXCEPT !.keys = @ \ {k}] >>
                                  \o Tail(client[c].todo))
        /\ UNCHANGED <<rec, dest, secrets, data, eligible, work, excused,
                       hardened, fresh, requests, faults>>

(* One round of the loop of commitDataWritePlan: an association is put     *)
(* with its new names.                                                     *)
RefreshStep(c) ==
    LET s == Head(client[c].todo)
    IN  /\ Running(c)
        /\ s.do = "refresh"
        /\ \E a \in s.ids :
               Continue(c, PutAssociation(a, rec[a], Renamed(a, s.keys))
                               \o << Refresh(s.ids \ {a}, s.keys) >>
                               \o Tail(client[c].todo))
        /\ UNCHANGED <<stored, hardened, fresh, requests, faults>>

(* The loop has no more to do. *)
LoopDone(s) ==
    \/ s.do \in {"put", "del"} /\ s.keys = {}
    \/ s.do = "refresh" /\ s.ids = {}

LoopEnds(c) ==
    /\ Running(c)
    /\ LoopDone(Head(client[c].todo))
    /\ Continue(c, Tail(client[c].todo))
    /\ UNCHANGED <<stored, hardened, fresh, requests, faults>>

(* The queue is full, or an operation that a cancel wants is claimed. *)
Refused(c) ==
    /\ Running(c)
    /\ \/ /\ Head(client[c].todo).do = "enqueue"
          /\ client' = [client EXCEPT ![c] =
                 IF @.undo = << >> THEN Idle
                 ELSE [@ EXCEPT !.todo = client[c].undo, !.undo = << >>]]
       \/ /\ Head(client[c].todo).do = "cancel"
          /\ client' = [client EXCEPT ![c] = Idle]
    /\ UNCHANGED <<stored, hardened, fresh, requests, faults>>

(* A storage call fails: the request returns the error where it is.  Only  *)
(* an enqueue and the write of a destination record are undone.            *)
StorageFails(c) ==
    /\ faults < MaxFaults
    /\ Running(c)
    /\ Head(client[c].todo).do # "refresh" /\ ~LoopDone(Head(client[c].todo))
    /\ LET todo == client[c].todo
           undo == client[c].undo
           undone == /\ Head(todo).do \in {"enqueue", "destination"}
                     /\ undo # << >>
       IN  /\ client' = [client EXCEPT ![c] =
                  IF undone THEN [@ EXCEPT !.todo = undo, !.undo = << >>] ELSE Idle]
           /\ excused' = IF undone THEN excused ELSE excused \cup client[c].touched
    /\ faults' = faults + 1
    /\ UNCHANGED <<rec, index, dest, secrets, data, eligible, work, hardened,
                   fresh, requests>>

(* The process dies: requests in progress and their locks are gone. *)
Crash ==
    /\ faults < MaxFaults
    /\ \E c \in Client : client[c] # Idle
    /\ excused' = excused \cup
           UNION {client[c].touched : c \in {x \in Client : Running(x)}}
    /\ client' = [c \in Client |-> Idle]
    /\ faults' = faults + 1
    /\ UNCHANGED <<rec, index, dest, secrets, data, eligible, work, hardened,
                   fresh, requests>>

-----------------------------------------------------------------------------
Init ==
    /\ data \in [Path -> InitialKeys]
    /\ \E as \in InitialAssocs :
         /\ rec = [a \in Assoc |->
                IF a \in as
                THEN [live |-> TRUE, enabled |-> TRUE, config |-> DefaultConfig,
                      names |-> ConcreteNames(a, data[PathOf[a]])]
                ELSE Gone]
         /\ dest \in [Dest -> {NoDest, [NoDest EXCEPT !.live = TRUE]}]
         /\ \A a \in as : dest[DestOf[a]].live
         /\ work = [a \in Assoc |->
                IF a \in as THEN EnqueuedFor(a, data[PathOf[a]]) ELSE NoWork]
    /\ index = UNION {IndexKeys(a, rec[a]) : a \in Assoc}
    /\ secrets = {}
    /\ eligible = [p \in Path |-> TRUE]
    /\ hardened \in Postures
    /\ excused = {}
    /\ client = [c \in Client |-> Idle]
    /\ fresh = 0 /\ requests = 0 /\ faults = 0

AssociationRequest(c, a) ==
    \/ \E e \in {"yes", "no", "keep"}, k \in Config \cup {0} : WriteDraft(c, a, e, k)
    \/ Enable(c, a)
    \/ Disable(c, a)
    \/ Sync(c, a)
    \/ Delete(c, a)

Next ==
    \/ \E c \in Client :
         \/ \E a \in Assoc : AssociationRequest(c, a)
         \/ Write(c)
         \/ \E p \in Path, keys \in SUBSET Key \ {{}} : DataWrite(c, p, keys)
         \/ \E p \in Path, on \in BOOLEAN : SourceSync(c, p, on)
         \/ \E d \in Dest, off, sensitive \in BOOLEAN :
               DestinationWrite(c, d, off, sensitive)
         \/ \E d \in Dest : DestinationDelete(c, d)
         \/ Step(c)
         \/ IndexStep(c)
         \/ RefreshStep(c)
         \/ LoopEnds(c)
         \/ Refused(c)
         \/ StorageFails(c)
    \/ Crash

Spec == Init /\ [][Next]_vars

-----------------------------------------------------------------------------
(* Properties *)

(* A stored association can be found by its destination and by every name  *)
(* it reserves, wherever a put, a rollback or a delete stopped: the guard  *)
(* of destination deletion and the name check both search these indexes.   *)
AssociationIndexed == \A a \in Assoc : IndexKeys(a, rec[a]) \subseteq index

(* Two associations never have the same reservationName at a destination,  *)
(* whatever requests run beside each other.                                *)
OwnNameOnce ==
    \A a, b \in Assoc :
        /\ a # b
        /\ DestOf[a] = DestOf[b]
        /\ rec[a].live /\ rec[b].live
        => OwnName[a] # OwnName[b]

(* The destination of a stored association exists, though the check of an  *)
(* association write and the check of a destination delete are two         *)
(* requests.                                                               *)
DestinationPresent == \A a \in Assoc : rec[a].live => dest[DestOf[a]].live

(* The sensitive configuration a destination record points to is stored:   *)
(* no write that stops half way leaves a destination without credentials.  *)
SensitiveStored ==
    \A d \in Dest : dest[d].secret # 0 => Secret(d, dest[d].secret) \in secrets

(* An enabled association has been enqueued for the current version in its *)
(* present configuration, unless a request about it died or failed in      *)
(* storage, or the version was written while the destination was disabled  *)
(* or the source not eligible.                                             *)
EnabledHasWork ==
    \A a \in Assoc :
        rec[a].live /\ rec[a].enabled /\ a \notin excused /\ ~Locked(PathOf[a])
            => work[a] = EnqueuedFor(a, data[PathOf[a]])

(* "two associations cannot manage the same remote object": no two         *)
(* associations have work for one name at one destination.                 *)
OneManager ==
    \A a, b \in Assoc :
        /\ a # b
        /\ DestOf[a] = DestOf[b]
        /\ rec[a].live /\ rec[a].enabled
        /\ rec[b].live /\ rec[b].enabled
        => work[a].names \cap work[b].names = {}
=============================================================================
