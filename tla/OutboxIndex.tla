---------------------------- MODULE OutboxIndex ----------------------------
(***************************************************************************)
(* The outbox as it is stored: one canonical entry per operation id and,   *)
(* beside it, index entries by path, by state and by due time.  Storage    *)
(* changes one key at a time, so a process that dies, or a storage call    *)
(* that fails, leaves a put or a delete half done.                         *)
(*                                                                         *)
(* Writers hold enqueueMu; the scan for due operations and the search for  *)
(* terminal records to prune hold nothing and read key by key beside them. *)
(***************************************************************************)
EXTENDS Integers, FiniteSets

CONSTANTS
    Op,            \* operation ids, ordered as their strings are
    RetryDelay,    \* retryDelay of a failed operation, in clock ticks
    Retention,     \* terminalOutboxRetention, in clock ticks
    MaxRecords,    \* maxRetainedTerminalOutboxRecords
    ExpiredLimit,  \* defaultTerminalOutboxPruneLimit
    ExcessLimit,   \* defaultTerminalOutboxExcessLimit
    MaxTime,       \* bound: clock
    MaxTorn        \* bound: writes that are interrupted

ASSUME OutboxIndexAssumption ==
    /\ Op \subseteq Nat
    /\ RetryDelay \in Nat
    /\ Retention \in Nat
    /\ MaxRecords \in Nat
    /\ ExpiredLimit \in Nat
    /\ ExcessLimit \in Nat
    /\ MaxTime \in Nat
    /\ MaxTorn \in Nat

VARIABLES
    record,    \* the canonical entries
    keys,      \* the index entries that exist
    adding,    \* index entries the lock holder has still to write
    storing,   \* the canonical entry it has still to write or delete
    dropping,  \* index entries it has still to delete
    now,       \* the clock
    torn,      \* writes that were interrupted so far
    phase,     \* what the reader (a dispatch scan or the pruner) is doing
    at,        \* the reader's copy of the clock
    dirs,      \* due times the scan has still to list
    listed,    \* index entries the scan, or the pruner, has still to look up
    got,       \* operation ids the scan has collected
    pruning,   \* records the pruner has read, then its candidates
    must, may  \* what a scan has to return, and what it is allowed to

writeVars == <<adding, storing, dropping>>
scanVars  == <<phase, at, dirs, listed, got, pruning>>
vars == <<record, keys, adding, storing, dropping, now, torn, phase, at, dirs,
          listed, got, pruning, must, may>>

-----------------------------------------------------------------------------
(* Records and their index entries.  Claims are left out, no index depends *)
(* on them: a handler here may find any queued record unclaimed.           *)
(* updated_time is kept for terminal records, the only ones whose          *)
(* retention reads it.                                                     *)

Record == [state : {"absent", "pending", "retry_wait", "failed_terminal"},
           due : Nat, updated : Nat]

Absent == [state |-> "absent", due |-> 0, updated |-> 0]

IsQueued(r) == r.state \in {"pending", "retry_wait"}

(* The record of an operation that a pass may dispatch at time t. *)
DueAt(r, t) == IsQueued(r) /\ r.due <= t

PathKey(o)     == [by |-> "path", due |-> 0, id |-> o]
StateKey(o, s) == [by |-> s, due |-> 0, id |-> o]
DueKey(o, t)   == [by |-> "due", due |-> t, id |-> o]

Key == [by : {"path", "due", "pending", "retry_wait", "failed_terminal"},
        due : Nat, id : Op]

(* outboxIndexKeys: only a queued record has a due time (outboxDueIndexTime). *)
IndexKeys(o, r) ==
    IF r.state = "absent" THEN {}
    ELSE {PathKey(o), StateKey(o, r.state)}
             \cup (IF IsQueued(r) THEN {DueKey(o, r.due)} ELSE {})

-----------------------------------------------------------------------------
(* Writers: what the holder of enqueueMu has still to do to storage *)

Unlocked == adding = {} /\ storing = {} /\ dropping = {}

(* Mutant of PutOutbox: stale indexes are left behind. *)
PutOutboxKeepsStale(o, r) ==
    /\ Unlocked
    /\ adding' = IndexKeys(o, r) \ keys
    /\ storing' = {[id |-> o, rec |-> r]}
    /\ dropping' = {}

(* putOutbox: the index entries of the new record, the record, and then    *)
(* the deletion of those index entries of the old record (putOutbox read   *)
(* it first) that the new one does not share.  Writing an entry that is    *)
(* there already changes nothing and is no step of its own.  deleteOutbox  *)
(* is the same with no new record.                                         *)
PutOutbox(o, r) ==
    /\ Unlocked
    /\ adding' = IndexKeys(o, r) \ keys
    /\ storing' = {[id |-> o, rec |-> r]}
    /\ dropping' = IndexKeys(o, record[o]) \ IndexKeys(o, r)

DeleteOutbox(o) == PutOutbox(o, Absent)

Requested == UNCHANGED <<record, keys, now, torn, scanVars, must, may>>

(* putOutboxRecords: a new record over whatever the id holds. *)
Enqueue(o) ==
    /\ PutOutbox(o, [Absent EXCEPT !.state = "pending", !.due = now])
    /\ Requested

(* A pass that holds the claim commits success, or finds the operation     *)
(* stale or of an unknown type: the record is deleted.                     *)
Complete(o) ==
    /\ DueAt(record[o], now)
    /\ DeleteOutbox(o)
    /\ Requested

(* markOperationFailed: another attempt later, or none. *)
Fail(o, retry) ==
    /\ DueAt(record[o], now)
    /\ PutOutbox(o, [record[o] EXCEPT
           !.state = IF retry THEN "retry_wait" ELSE "failed_terminal",
           !.due = IF retry THEN now + RetryDelay ELSE 0,
           !.updated = IF retry THEN 0 ELSE now])
    /\ Requested

(* pathQueueOperationRetry *)
Retry(o) ==
    /\ record[o].state \in {"retry_wait", "failed_terminal"}
    /\ PutOutbox(o, [record[o] EXCEPT !.state = "pending", !.due = now,
                                      !.updated = 0])
    /\ Requested

(* pathQueueOperationCancel, and the cancellations of source mutations and *)
(* of an association's disable or delete.                                  *)
Cancel(o) ==
    /\ record[o].state # "absent"
    /\ DeleteOutbox(o)
    /\ Requested

-----------------------------------------------------------------------------
(* Storage steps of the lock holder *)

Unchanged == UNCHANGED <<now, torn, scanVars>>

(* The order in which outboxIndexKeys names the entries. *)
Before(j, k) ==
    \/ j.by = "path" /\ k.by # "path"
    \/ j.by # "due" /\ k.by = "due"

PutIndex ==
    \E k \in adding :
        /\ \A j \in adding : ~Before(j, k)
        /\ keys' = keys \cup {k}
        /\ adding' = adding \ {k}
        /\ UNCHANGED <<record, storing, dropping, must, may>>
        /\ Unchanged

(* A scan returns when no listed entry is left to look up. *)
Returned == phase = "keys" /\ listed = {}
Scanning == phase \in {"dirs", "keys"} /\ ~Returned

(* Mutant of PutRecord: the record does not wait for its index entries. *)
PutRecordEarly ==
    \E s \in storing :
        /\ record' = [record EXCEPT ![s.id] = s.rec]
        /\ storing' = {}
        /\ must' = must \ {s.id}
        /\ may' = IF Scanning /\ DueAt(s.rec, at) THEN may \cup {s.id} ELSE may
        /\ UNCHANGED <<keys, adding, dropping>>
        /\ Unchanged

PutRecord ==
    \E s \in storing :
        /\ adding = {}
        /\ record' = [record EXCEPT ![s.id] = s.rec]
        /\ storing' = {}
        /\ must' = must \ {s.id}
        /\ may' = IF Scanning /\ DueAt(s.rec, at) THEN may \cup {s.id} ELSE may
        /\ UNCHANGED <<keys, adding, dropping>>
        /\ Unchanged

DropIndex ==
    \E k \in dropping :
        /\ adding = {} /\ storing = {}
        /\ \A j \in dropping : ~Before(j, k)
        /\ keys' = keys \ {k}
        /\ dropping' = dropping \ {k}
        /\ UNCHANGED <<record, adding, storing, must, may>>
        /\ Unchanged

(* A storage call fails: the handler returns and its remaining writes do   *)
(* not happen.  Readers go on.                                             *)
StorageError ==
    /\ ~Unlocked
    /\ torn < MaxTorn
    /\ torn' = torn + 1
    /\ adding' = {} /\ storing' = {} /\ dropping' = {}
    /\ UNCHANGED <<record, keys, now, scanVars, must, may>>

-----------------------------------------------------------------------------
(* The scan for due operations: listDueOutboxIDs *)

(* CollectKeysWithPrefix lists the due times first ... *)
ScanStart ==
    /\ phase = "idle"
    /\ phase' = "dirs"
    /\ at' = now
    /\ dirs' = {k.due : k \in {j \in keys : j.by = "due"}}
    /\ listed' = {}
    /\ got' = {}
    /\ must' = {o \in Op : DueAt(record[o], now)}
    /\ may' = must'
    /\ UNCHANGED <<record, keys, writeVars, now, torn, pruning>>

(* ... and then the operation ids under each of them. *)
ScanList(t) ==
    /\ phase = "dirs"
    /\ t \in dirs
    /\ dirs' = dirs \ {t}
    /\ listed' = listed \cup {k \in keys : k.by = "due" /\ k.due = t}
    /\ UNCHANGED <<record, keys, writeVars, now, torn, phase, at, got, pruning,
                   must, may>>

(* The keys are sorted, so those after the clock end the walk. *)
ScanSort ==
    /\ phase = "dirs"
    /\ dirs = {}
    /\ phase' = "keys"
    /\ listed' = {k \in listed : k.due <= at}
    /\ UNCHANGED <<record, keys, writeVars, now, torn, at, dirs, got, pruning,
                   must, may>>

(* Mutant of Matches: the record is not compared with the index entry. *)
MatchesAny(k) == record[k.id].state # "absent"

(* An index entry counts only if the canonical record still has that due   *)
(* time.                                                                   *)
Matches(k) == IsQueued(record[k.id]) /\ record[k.id].due = k.due

ScanLookup(k) ==
    /\ phase = "keys"
    /\ k \in listed
    /\ \A j \in listed : k.due <= j.due
    /\ listed' = listed \ {k}
    /\ got' = IF Matches(k) THEN got \cup {k.id} ELSE got
    /\ UNCHANGED <<record, keys, writeVars, now, torn, phase, at, dirs, pruning,
                   must, may>>

(* The caller is done with what the scan returned. *)
ScanEnd ==
    /\ Returned
    /\ phase' = "idle"
    /\ at' = 0
    /\ got' = {}
    /\ must' = {} /\ may' = {}
    /\ UNCHANGED <<record, keys, writeVars, now, torn, dirs, listed, pruning>>

-----------------------------------------------------------------------------
(* Retention of terminal records: pruneTerminalOutboxRecordsLimit *)

(* terminalOutboxRecords lists the index of failed_terminal ... *)
PruneStart ==
    /\ phase = "idle"
    /\ phase' = "collect"
    /\ at' = now
    /\ listed' = {k \in keys : k.by = "failed_terminal"}
    /\ pruning' = {}
    /\ UNCHANGED <<record, keys, writeVars, now, torn, dirs, got, must, may>>

(* ... and reads each record. *)
PruneRead(k) ==
    /\ phase = "collect"
    /\ k \in listed
    /\ listed' = listed \ {k}
    /\ pruning' = IF record[k.id].state = "failed_terminal"
                  THEN pruning \cup {[id |-> k.id, rec |-> record[k.id]]}
                  ELSE pruning
    /\ UNCHANGED <<record, keys, writeVars, now, torn, phase, at, dirs, got,
                   must, may>>

(* terminalOutboxPruneCandidates: the records in the order of their        *)
(* retention time; the oldest ones in excess of MaxRecords, then those     *)
(* whose retention has ended, each up to its limit (0 is no limit).        *)
Older(p, q) ==
    \/ p.rec.updated < q.rec.updated
    \/ p.rec.updated = q.rec.updated /\ p.id < q.id

Index(p) == Cardinality({q \in pruning : Older(q, p)})

Excess == IF Cardinality(pruning) > MaxRecords
          THEN Cardinality(pruning) - MaxRecords ELSE 0

Expired(p) == p.rec.updated <= at - Retention

ExpiredBefore(p) ==
    {q \in pruning : Older(q, p) /\ Index(q) >= Excess /\ Expired(q)}

ShouldPrune(p) ==
    IF Index(p) < Excess
    THEN ExcessLimit = 0 \/ Index(p) < ExcessLimit
    ELSE /\ Expired(p)
         /\ ExpiredLimit = 0 \/ Cardinality(ExpiredBefore(p)) < ExpiredLimit

PruneSelect ==
    /\ phase = "collect"
    /\ listed = {}
    /\ phase' = "prune"
    /\ pruning' = {p \in pruning : ShouldPrune(p)}
    /\ UNCHANGED <<record, keys, writeVars, now, torn, at, dirs, listed, got,
                   must, may>>

(* Mutant of StillPrunable: the record is taken as it was read. *)
StillPrunableUnread(p) == TRUE

StillPrunable(p) ==
    /\ record[p.id] = p.rec
    /\ record[p.id].state = "failed_terminal"

(* pruneTerminalOutboxRecord *)
PruneOne(p) ==
    /\ phase = "prune"
    /\ p \in pruning
    /\ \A q \in pruning : ~Older(q, p)
    /\ Unlocked
    /\ IF StillPrunable(p) THEN DeleteOutbox(p.id) ELSE UNCHANGED writeVars
    /\ pruning' = pruning \ {p}
    /\ UNCHANGED <<record, keys, now, torn, phase, at, dirs, listed, got, must,
                   may>>

PruneEnd ==
    /\ phase = "prune"
    /\ pruning = {}
    /\ phase' = "idle"
    /\ at' = 0
    /\ UNCHANGED <<record, keys, writeVars, now, torn, dirs, listed, got,
                   pruning, must, may>>

-----------------------------------------------------------------------------
(* The environment *)

(* The process dies: the writer and the reader are gone. *)
Crash ==
    /\ torn < MaxTorn
    /\ torn' = IF Unlocked THEN torn ELSE torn + 1
    /\ phase # "idle" \/ ~Unlocked
    /\ adding' = {} /\ storing' = {} /\ dropping' = {}
    /\ phase' = "idle"
    /\ at' = 0
    /\ dirs' = {} /\ listed' = {} /\ got' = {} /\ pruning' = {}
    /\ must' = {} /\ may' = {}
    /\ UNCHANGED <<record, keys, now>>

Tick ==
    /\ now < MaxTime
    /\ now' = now + 1
    /\ UNCHANGED <<record, keys, writeVars, torn, scanVars, must, may>>

Handler(o) ==
    \/ Enqueue(o)
    \/ Complete(o)
    \/ \E retry \in BOOLEAN : Fail(o, retry)
    \/ Retry(o)
    \/ Cancel(o)

Storage == PutIndex \/ PutRecord \/ DropIndex \/ StorageError

Scan ==
    \/ ScanStart
    \/ \E t \in dirs : ScanList(t)
    \/ ScanSort
    \/ \E k \in listed : ScanLookup(k)
    \/ ScanEnd

Prune ==
    \/ PruneStart
    \/ \E k \in listed : PruneRead(k)
    \/ PruneSelect
    \/ \E p \in pruning : PruneOne(p)
    \/ PruneEnd

Init ==
    /\ record = [o \in Op |-> Absent]
    /\ keys = {}
    /\ adding = {} /\ storing = {} /\ dropping = {}
    /\ now = 0
    /\ torn = 0
    /\ phase = "idle"
    /\ at = 0
    /\ dirs = {} /\ listed = {} /\ got = {} /\ pruning = {}
    /\ must = {} /\ may = {}

Next ==
    \/ \E o \in Op : Handler(o)
    \/ Storage
    \/ Scan
    \/ Prune
    \/ Crash
    \/ Tick

Spec == Init /\ [][Next]_vars

-----------------------------------------------------------------------------
(* Properties *)

(* Every stored record can be found through each of its index entries, in  *)
(* every state between two storage calls and after every interruption: "a  *)
(* failed index or canonical write can leave only stale indexes".          *)
IndexComplete == \A o \in Op : IndexKeys(o, record[o]) \subseteq keys

(* While no write was ever interrupted nothing stale is left behind: when  *)
(* nobody holds enqueueMu the index is exactly that of the stored records. *)
IndexExact ==
    torn = 0 /\ Unlocked =>
        keys = UNION {IndexKeys(o, record[o]) : o \in Op}

(* Retention, which looks for old terminal records without enqueueMu,      *)
(* never deletes an operation that was retried or queued again before the  *)
(* pruner got to it.                                                       *)
QueuedNotPruned ==
    [][\A p \in pruning :
           phase = "prune" /\ p \notin pruning' /\ storing' # {}
               => record[p.id].state = "failed_terminal"]_vars

(* The indexed outbox implements the atomic one: every scan returns the    *)
(* operations that stayed due, whatever is written or interrupted beside   *)
(* it.                                                                     *)
Queue == INSTANCE OutboxQueue WITH
             scanning <- Scanning,
             at <- IF Scanning THEN at ELSE 0,
             must <- IF Scanning THEN must ELSE {},
             may <- IF Scanning THEN may ELSE {},
             found <- IF Returned THEN got ELSE {}

ImplementsQueue == Queue!QueueSpec
=============================================================================
