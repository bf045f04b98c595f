---------------------------- MODULE OutboxQueue ----------------------------
(***************************************************************************)
(* What the durable outbox promises the code that uses it: a map from      *)
(* operation ids to records in which every put and delete takes effect at  *)
(* once, and a scan for due operations that may run beside them.  A scan   *)
(* returns every operation that stayed as it was, and due, for as long as  *)
(* the scan ran; it returns none that was never due while it ran.          *)
(*                                                                         *)
(* storage_outbox.go implements this with single-key storage writes and an *)
(* index of its own (module OutboxIndex).                                  *)
(***************************************************************************)
EXTENDS Integers

CONSTANTS Op, Record, IsQueued(_)

VARIABLES
    record,     \* the stored record of each operation id
    now,        \* the clock
    at,         \* the time a scan compares due times with
    scanning,   \* a scan is running
    must,       \* operations the scan has to return
    may,        \* operations the scan is allowed to return
    found       \* what the last scan returned

queueVars == <<record, now, at, scanning, must, may, found>>

(* listDueOutboxIDs asks for queued records whose due time has come. *)
DueAt(r, t) == IsQueued(r) /\ r.due <= t

QueueInit ==
    /\ record \in [Op -> Record]
    /\ \A o \in Op : ~IsQueued(record[o])
    /\ now = 0
    /\ at = 0
    /\ scanning = FALSE
    /\ must = {}
    /\ may = {}
    /\ found = {}

(* putOutbox and deleteOutbox *)
Write(o) ==
    /\ record'[o] \in Record
    /\ record' = [record EXCEPT ![o] = record'[o]]
    /\ must' = must \ {o}
    /\ may' = IF scanning /\ DueAt(record'[o], at) THEN may \cup {o} ELSE may
    /\ UNCHANGED <<now, at, scanning, found>>

ScanBegin ==
    /\ ~scanning
    /\ scanning' = TRUE
    /\ at' = now
    /\ must' = {o \in Op : DueAt(record[o], now)}
    /\ may' = must'
    /\ found' = {}
    /\ UNCHANGED <<record, now>>

ScanReturn ==
    /\ scanning
    /\ scanning' = FALSE
    /\ at' = 0
    /\ found' \in SUBSET may
    /\ must \subseteq found'
    /\ must' = {}
    /\ may' = {}
    /\ UNCHANGED <<record, now>>

(* The process dies during the scan. *)
ScanLost ==
    /\ scanning
    /\ scanning' = FALSE
    /\ at' = 0
    /\ must' = {}
    /\ may' = {}
    /\ found' = {}
    /\ UNCHANGED <<record, now>>

(* The caller is done with what the scan returned. *)
ScanDone ==
    /\ ~scanning
    /\ found' = {}
    /\ UNCHANGED <<record, now, at, scanning, must, may>>

Advance ==
    /\ now' = now + 1
    /\ UNCHANGED <<record, at, scanning, must, may, found>>

QueueNext ==
    \/ \E o \in Op : Write(o)
    \/ ScanBegin
    \/ ScanReturn
    \/ ScanLost
    \/ ScanDone
    \/ Advance

QueueSpec == QueueInit /\ [][QueueNext]_queueVars
=============================================================================
