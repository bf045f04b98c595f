------------------------- MODULE OutboxIndexProofs -------------------------
(***************************************************************************)
(* Proofs about the stored outbox: its index finds every record wherever a *)
(* write is interrupted, holds nothing else while none was, retention      *)
(* spares what was queued again, and together with the scan the index      *)
(* implements the atomic queue of OutboxQueue.                             *)
(***************************************************************************)
EXTENDS OutboxIndex, TLAPS

-----------------------------------------------------------------------------
(* The inductive invariant *)

Types ==
    /\ record \in [Op -> Record]
    /\ keys \subseteq Key
    /\ storing \subseteq [id : Op, rec : Record]
    /\ listed \subseteq Key
    /\ pruning \subseteq [id : Op, rec : Record]
    /\ now \in Nat
    /\ torn \in Nat

(* The lock holder writes one record; its index entries are there or to be *)
(* written first, and what it drops is what only the old record has.       *)
Writing ==
    /\ \A s, t \in storing : s = t
    /\ \A s \in storing :
           /\ IndexKeys(s.id, s.rec) \subseteq keys \cup adding
           /\ adding \subseteq IndexKeys(s.id, s.rec)
           /\ dropping = IndexKeys(s.id, record[s.id]) \ IndexKeys(s.id, s.rec)
    /\ storing = {} => adding = {}

(* After the record is written no index entry of a record is dropped. *)
Dropping ==
    storing = {} => \A o \in Op : dropping \cap IndexKeys(o, record[o]) = {}

(* Without interruptions every entry belongs to a record, to the record    *)
(* being written, or is about to be dropped.                               *)
Accounted ==
    torn = 0 => \A k \in keys :
        \/ k \in IndexKeys(k.id, record[k.id])
        \/ k \in dropping
        \/ \E s \in storing : k \in IndexKeys(s.id, s.rec)

IndexInv == Types /\ IndexComplete /\ Writing /\ Dropping /\ Accounted

-----------------------------------------------------------------------------
(* Index entries *)

(* outboxIndexKeys names keys of its own operation only. *)
LEMMA IndexKeysOfOp ==
    ASSUME NEW o \in Op, NEW r \in Record
    PROVE  /\ IndexKeys(o, r) \subseteq Key
           /\ \A k \in IndexKeys(o, r) : k.id = o
  BY DEF IndexKeys, Key, Record, PathKey, StateKey, DueKey, IsQueued

(* The empty record has no index entry and no due time. *)
LEMMA AbsentIsEmpty ==
    /\ Absent \in Record
    /\ \A o : IndexKeys(o, Absent) = {}
  BY DEF Absent, Record, IndexKeys

-----------------------------------------------------------------------------
(* Puts and deletes *)

(* putOutbox of a well-typed record establishes what the lock holder's     *)
(* steps rely on.                                                          *)
LEMMA PutOutboxStep ==
    ASSUME IndexInv, NEW o \in Op, NEW r \in Record, PutOutbox(o, r),
           record' = record, keys' = keys, listed' = listed, now' = now,
           torn' = torn, pruning' \subseteq pruning
    PROVE  IndexInv'
<1>1. Unlocked /\ storing' = {[id |-> o, rec |-> r]}
      /\ adding' = IndexKeys(o, r) \ keys
      /\ dropping' = IndexKeys(o, record[o]) \ IndexKeys(o, r)
  BY DEF PutOutbox
<1>2. Types'
  BY <1>1 DEF IndexInv, Types
<1>3. IndexComplete'
  BY DEF IndexInv, IndexComplete
<1>4. Writing' /\ Dropping'
  <2>1. \A s \in storing' : s.id = o /\ s.rec = r
    BY <1>1
  <2>2. \A s, t \in storing' : s = t
    BY <1>1
  <2>3. storing' # {}
    BY <1>1
  <2>4. \A s \in storing' :
           /\ IndexKeys(s.id, s.rec) \subseteq keys' \cup adding'
           /\ adding' \subseteq IndexKeys(s.id, s.rec)
           /\ dropping' = IndexKeys(s.id, record'[s.id]) \ IndexKeys(s.id, s.rec)
    BY <1>1, <2>1
  <2> QED
    BY <2>2, <2>3, <2>4 DEF Writing, Dropping
<1>5. Accounted'
  <2> SUFFICES ASSUME torn = 0, NEW k \in keys
               PROVE  k \in IndexKeys(k.id, record[k.id])
    BY DEF Accounted
  <2> QED
    BY <1>1 DEF IndexInv, Accounted, Unlocked
<1> QED
  BY <1>2, <1>3, <1>4, <1>5 DEF IndexInv

(* Every handler puts a well-typed record. *)
LEMMA HandlerStep ==
    ASSUME IndexInv, NEW o \in Op, Handler(o)
    PROVE  IndexInv'
<1> record[o] \in Record /\ now \in Nat /\ RetryDelay \in Nat
  BY OutboxIndexAssumption DEF IndexInv, Types
<1> USE AbsentIsEmpty
<1>1. CASE Enqueue(o)
  <2> [Absent EXCEPT !.state = "pending", !.due = now] \in Record
    BY DEF Record, Absent
  <2> QED
    BY <1>1, PutOutboxStep DEF Enqueue, Requested, scanVars
<1>2. CASE Complete(o)
  BY <1>2, PutOutboxStep DEF Complete, Requested, scanVars, DeleteOutbox
<1>3. ASSUME NEW retry \in BOOLEAN, Fail(o, retry) PROVE IndexInv'
  <2> DEFINE r == [record[o] EXCEPT
                     !.state = IF retry THEN "retry_wait" ELSE "failed_terminal",
                     !.due = IF retry THEN now + RetryDelay ELSE 0,
                     !.updated = IF retry THEN 0 ELSE now]
  <2> r \in Record
    <3>1. now + RetryDelay \in Nat
      OBVIOUS
    <3>2. \A d, u \in Nat, x \in {"retry_wait", "failed_terminal"} :
            [record[o] EXCEPT !.state = x, !.due = d, !.updated = u] \in Record
      BY DEF Record
    <3> QED
      BY <3>1, <3>2
  <2> QED
    BY <1>3, PutOutboxStep DEF Fail, Requested, scanVars
<1>4. CASE Retry(o)
  <2> DEFINE r == [record[o] EXCEPT !.state = "pending", !.due = now,
                                    !.updated = 0]
  <2> r \in Record
    BY DEF Record
  <2> QED
    BY <1>4, PutOutboxStep DEF Retry, Requested, scanVars
<1>5. CASE Cancel(o)
  BY <1>5, PutOutboxStep DEF Cancel, Requested, scanVars, DeleteOutbox
<1> QED
  BY <1>1, <1>2, <1>3, <1>4, <1>5 DEF Handler

-----------------------------------------------------------------------------
(* Storage steps of the lock holder *)

LEMMA PutIndexStep ==
    ASSUME IndexInv, PutIndex
    PROVE  IndexInv'
<1> PICK k \in adding : /\ keys' = keys \cup {k}
                        /\ adding' = adding \ {k}
                        /\ UNCHANGED <<record, storing, dropping, must, may>>
                        /\ Unchanged
  BY DEF PutIndex
<1> PICK s \in storing : TRUE
  BY DEF IndexInv, Writing
<1>1. s.id \in Op /\ s.rec \in Record /\ k \in IndexKeys(s.id, s.rec)
  BY DEF IndexInv, Types, Writing
<1>2. k \in Key
  BY <1>1, IndexKeysOfOp
<1>3. Types'
  BY <1>2 DEF IndexInv, Types, Unchanged, scanVars
<1>4. IndexComplete' /\ Writing' /\ Dropping'
  BY DEF IndexInv, IndexComplete, Writing, Dropping, Unchanged
<1>5. Accounted'
  BY <1>1 DEF IndexInv, Accounted, Unchanged
<1> QED
  BY <1>3, <1>4, <1>5 DEF IndexInv

LEMMA PutRecordStep ==
    ASSUME IndexInv, PutRecord
    PROVE  IndexInv'
<1> PICK s \in storing : /\ adding = {}
                         /\ record' = [record EXCEPT ![s.id] = s.rec]
                         /\ storing' = {}
                         /\ UNCHANGED <<keys, adding, dropping>>
                         /\ Unchanged
  BY DEF PutRecord
<1>1. s.id \in Op /\ s.rec \in Record
  BY DEF IndexInv, Types
<1>2. record' \in [Op -> Record] /\ record'[s.id] = s.rec
      /\ \A o \in Op \ {s.id} : record'[o] = record[o]
  BY <1>1 DEF IndexInv, Types
<1>3. IndexKeys(s.id, s.rec) \subseteq keys
      /\ dropping = IndexKeys(s.id, record[s.id]) \ IndexKeys(s.id, s.rec)
  BY DEF IndexInv, Writing
<1>4. Types'
  BY <1>2 DEF IndexInv, Types, Unchanged, scanVars
<1>5. IndexComplete'
  <2> SUFFICES ASSUME NEW o \in Op PROVE IndexKeys(o, record'[o]) \subseteq keys
    BY DEF IndexComplete
  <2> QED
    BY <1>2, <1>3 DEF IndexInv, IndexComplete
<1>6. Writing'
  BY DEF Writing
<1>7. Dropping'
  <2> SUFFICES ASSUME NEW o \in Op
               PROVE  dropping \cap IndexKeys(o, record'[o]) = {}
    BY DEF Dropping
  <2>1. CASE o = s.id
    BY <1>2, <1>3, <2>1
  <2>2. CASE o # s.id
    <3>1. \A k \in dropping : k.id = s.id
      BY <1>1, <1>3, IndexKeysOfOp DEF IndexInv, Types
    <3>2. \A k \in IndexKeys(o, record'[o]) : k.id = o
      BY <1>2, IndexKeysOfOp
    <3> QED
      BY <3>1, <3>2, <2>2
  <2> QED
    BY <2>1, <2>2
<1>8. Accounted'
  <2> SUFFICES ASSUME torn = 0, NEW k \in keys
               PROVE  k \in IndexKeys(k.id, record'[k.id]) \/ k \in dropping
    BY DEF Accounted, Unchanged
  <2>1. k.id \in Op
    BY DEF IndexInv, Types, Key
  <2>2. CASE k \in IndexKeys(k.id, record[k.id])
    BY <1>2, <1>3, <2>1, <2>2
  <2>3. CASE k \in IndexKeys(s.id, s.rec)
    BY <1>1, <1>2, <2>3, IndexKeysOfOp
  <2>4. \A t \in storing : t = s
    BY DEF IndexInv, Writing
  <2> QED
    BY <2>2, <2>3, <2>4 DEF IndexInv, Accounted
<1> QED
  BY <1>4, <1>5, <1>6, <1>7, <1>8 DEF IndexInv

LEMMA DropIndexStep ==
    ASSUME IndexInv, DropIndex
    PROVE  IndexInv'
<1> PICK k \in dropping : /\ adding = {} /\ storing = {}
                          /\ keys' = keys \ {k}
                          /\ dropping' = dropping \ {k}
                          /\ UNCHANGED <<record, adding, storing, must, may>>
                          /\ Unchanged
  BY DEF DropIndex
<1>1. Types'
  BY DEF IndexInv, Types, Unchanged, scanVars
<1>2. IndexComplete' /\ Writing' /\ Dropping'
  BY DEF IndexInv, IndexComplete, Writing, Dropping
<1>3. Accounted'
  BY DEF IndexInv, Accounted, Unchanged
<1> QED
  BY <1>1, <1>2, <1>3 DEF IndexInv

(* Giving up the remaining writes, for an error or a crash. *)
LEMMA TornStep ==
    ASSUME IndexInv, adding' = {}, storing' = {}, dropping' = {},
           record' = record, keys' = keys, now' = now,
           listed' \subseteq listed, pruning' \subseteq pruning,
           torn' = torn + 1 \/ (Unlocked /\ torn' = torn)
    PROVE  IndexInv'
<1>1. Types'
  BY DEF IndexInv, Types
<1>2. IndexComplete' /\ Writing' /\ Dropping'
  BY DEF IndexInv, IndexComplete, Writing, Dropping
<1>3. Accounted'
  <2>1. CASE torn' = torn + 1
    BY <2>1 DEF IndexInv, Types, Accounted
  <2>2. CASE Unlocked /\ torn' = torn
    BY <2>2 DEF IndexInv, Accounted, Unlocked
  <2> QED
    BY <2>1, <2>2
<1> QED
  BY <1>1, <1>2, <1>3 DEF IndexInv

-----------------------------------------------------------------------------
(* Readers *)

(* A step that leaves storage and the lock holder alone. *)
LEMMA ReaderStep ==
    ASSUME IndexInv, UNCHANGED <<record, keys, writeVars, torn>>, now' \in Nat,
           listed' \subseteq Key, pruning' \subseteq [id : Op, rec : Record]
    PROVE  IndexInv'
  BY DEF IndexInv, Types, IndexComplete, Writing, Dropping, Accounted, writeVars

LEMMA ScanStep ==
    ASSUME IndexInv, Scan
    PROVE  IndexInv'
<1> USE DEF IndexInv, Types
<1>1. CASE ScanStart
  BY <1>1, ReaderStep DEF ScanStart
<1>2. ASSUME NEW t \in dirs, ScanList(t) PROVE IndexInv'
  BY <1>2, ReaderStep DEF ScanList
<1>3. CASE ScanSort
  BY <1>3, ReaderStep DEF ScanSort
<1>4. ASSUME NEW k \in listed, ScanLookup(k) PROVE IndexInv'
  BY <1>4, ReaderStep DEF ScanLookup
<1>5. CASE ScanEnd
  BY <1>5, ReaderStep DEF ScanEnd
<1> QED
  BY <1>1, <1>2, <1>3, <1>4, <1>5 DEF Scan

LEMMA PruneStep ==
    ASSUME IndexInv, Prune
    PROVE  IndexInv'
<1>1. CASE PruneStart
  BY <1>1, ReaderStep DEF PruneStart, IndexInv, Types
<1>2. ASSUME NEW k \in listed, PruneRead(k) PROVE IndexInv'
  <2> k.id \in Op /\ record[k.id] \in Record
    BY DEF IndexInv, Types, Key
  <2> pruning' \subseteq [id : Op, rec : Record]
    BY <1>2 DEF PruneRead, IndexInv, Types
  <2> QED
    BY <1>2, ReaderStep DEF PruneRead, IndexInv, Types
<1>3. CASE PruneSelect
  BY <1>3, ReaderStep DEF PruneSelect, IndexInv, Types
<1>4. ASSUME NEW p \in pruning, PruneOne(p) PROVE IndexInv'
  <2> p.id \in Op
    BY DEF IndexInv, Types
  <2>1. CASE StillPrunable(p)
    BY <1>4, <2>1, PutOutboxStep, AbsentIsEmpty DEF PruneOne, DeleteOutbox
  <2>2. CASE ~StillPrunable(p)
    BY <1>4, <2>2, ReaderStep DEF PruneOne, IndexInv, Types
  <2> QED
    BY <2>1, <2>2
<1>5. CASE PruneEnd
  BY <1>5, ReaderStep DEF PruneEnd, IndexInv, Types
<1> QED
  BY <1>1, <1>2, <1>3, <1>4, <1>5 DEF Prune

-----------------------------------------------------------------------------
(* Theorems *)

LEMMA IndexInvInit ==
    Init => IndexInv
<1> SUFFICES ASSUME Init PROVE IndexInv
  OBVIOUS
<1> USE AbsentIsEmpty DEF Init
<1>1. Types
  BY DEF Types
<1>2. IndexComplete /\ Writing /\ Dropping /\ Accounted
  BY DEF IndexComplete, Writing, Dropping, Accounted
<1> QED
  BY <1>1, <1>2 DEF IndexInv

LEMMA IndexInvStep ==
    ASSUME IndexInv, [Next]_vars
    PROVE  IndexInv'
<1>1. ASSUME NEW o \in Op, Handler(o) PROVE IndexInv'
  BY <1>1, HandlerStep
<1>2. CASE Storage
  <2>1. CASE StorageError
    BY <2>1, TornStep DEF StorageError, scanVars
  <2> QED
    BY <1>2, <2>1, PutIndexStep, PutRecordStep, DropIndexStep DEF Storage
<1>3. CASE Scan
  BY <1>3, ScanStep
<1>4. CASE Prune
  BY <1>4, PruneStep
<1>5. CASE Crash
  BY <1>5, TornStep DEF Crash
<1>6. CASE Tick
  BY <1>6, ReaderStep DEF Tick, scanVars, IndexInv, Types
<1>7. CASE UNCHANGED vars
  BY <1>7, ReaderStep DEF vars, writeVars, IndexInv, Types
<1> QED
  BY <1>1, <1>2, <1>3, <1>4, <1>5, <1>6, <1>7 DEF Next

LEMMA IndexInvariant ==
    Spec => []IndexInv
<1> QED
  BY IndexInvInit, IndexInvStep, PTL DEF Spec

(* putOutbox and deleteOutbox: a stored record is found through each of    *)
(* its index entries, for any operations, whatever write was interrupted.  *)
THEOREM IndexStaysComplete ==
    Spec => []IndexComplete
<1>1. IndexInv => IndexComplete
  BY DEF IndexInv
<1> QED
  BY <1>1, IndexInvariant, PTL

(* putOutbox and deleteOutbox leave no stale index entry unless they were  *)
(* interrupted.                                                            *)
THEOREM IndexStaysExact ==
    Spec => []IndexExact
<1>1. ASSUME IndexInv, torn = 0, Unlocked
      PROVE  keys = UNION {IndexKeys(o, record[o]) : o \in Op}
  <2>1. \A k \in keys : k.id \in Op /\ k \in IndexKeys(k.id, record[k.id])
    BY <1>1 DEF IndexInv, Types, Key, Accounted, Unlocked
  <2> QED
    BY <1>1, <2>1 DEF IndexInv, IndexComplete
<1>2. IndexInv => IndexExact
  BY <1>1 DEF IndexExact
<1> QED
  BY <1>2, IndexInvariant, PTL

(* pruneTerminalOutboxRecord deletes no operation that was queued again    *)
(* after the pruner read it.                                               *)
THEOREM RetentionSparesQueued ==
    Spec => QueuedNotPruned
<1>1. ASSUME [Next]_vars, NEW p \in pruning, phase = "prune",
             p \notin pruning', storing' # {}
      PROVE  record[p.id].state = "failed_terminal"
  <2>1. pruning' # pruning /\ phase = "prune"
    BY <1>1
  <2>2. ~UNCHANGED vars /\ ~Crash /\ ~Tick /\ ~Storage /\ ~Scan
    BY <1>1, <2>1 DEF vars, Crash, Tick, Storage, Scan, PutIndex, PutRecord,
          DropIndex, StorageError, Unchanged, scanVars, ScanStart, ScanList,
          ScanSort, ScanLookup, ScanEnd
  <2>3. \A o \in Op : ~Handler(o)
    BY <2>1 DEF Handler, Enqueue, Complete, Fail, Retry, Cancel, Requested,
          scanVars
  <2>4. PICK q \in pruning : PruneOne(q)
    BY <1>1, <2>1, <2>2, <2>3 DEF Next, Prune, PruneStart, PruneRead,
          PruneSelect, PruneEnd
  <2>5. p = q
    BY <1>1, <2>4 DEF PruneOne
  <2>6. StillPrunable(p)
    BY <1>1, <2>4, <2>5 DEF PruneOne, Unlocked, writeVars
  <2> QED
    BY <2>6 DEF StillPrunable
<1>2. [Next]_vars =>
          [\A p \in pruning :
               phase = "prune" /\ p \notin pruning' /\ storing' # {}
                   => record[p.id].state = "failed_terminal"]_vars
  BY <1>1
<1> QED
  BY <1>2, PTL DEF Spec, QueuedNotPruned
-----------------------------------------------------------------------------
(* Refinement: what a scan under way has found and has still to look at *)

(* An operation the scan has to return is due as its record stands, and is *)
(* found already, listed, or under a due time still to be listed.          *)
OnTheWay(o) ==
    /\ DueAt(record[o], at)
    /\ \/ phase = "dirs" /\ record[o].due \in dirs
       \/ DueKey(o, record[o].due) \in listed
       \/ phase = "keys" /\ o \in got

ScanInv ==
    /\ phase \in {"dirs", "keys"} =>
           /\ must \subseteq Op
           /\ got \subseteq may
           /\ phase = "dirs" => got = {}
           /\ phase = "keys" => \A k \in listed : k.due <= at
    /\ Scanning =>
           /\ \A o \in must : OnTheWay(o)
           /\ \A o \in Op : DueAt(record[o], at) => o \in may

LEMMA ScanInvInit ==
    Init => ScanInv
  BY DEF Init, ScanInv, Scanning

(* A step that leaves records and readers alone. *)
LEMMA ScanInvOther ==
    ASSUME ScanInv, UNCHANGED <<record, scanVars, must, may>>
    PROVE  ScanInv'
  BY DEF ScanInv, OnTheWay, Scanning, Returned, scanVars

(* A put of a record while the scan runs. *)
LEMMA ScanInvPut ==
    ASSUME IndexInv, ScanInv, PutRecord
    PROVE  ScanInv'
<1> PICK s \in storing :
        /\ record' = [record EXCEPT ![s.id] = s.rec]
        /\ must' = must \ {s.id}
        /\ may' = IF Scanning /\ DueAt(s.rec, at) THEN may \cup {s.id} ELSE may
        /\ Unchanged
  BY DEF PutRecord
<1>1. s.id \in Op /\ record'[s.id] = s.rec
      /\ \A o \in Op \ {s.id} : record'[o] = record[o]
  BY DEF IndexInv, Types
<1>2. UNCHANGED <<phase, at, dirs, listed, got>> /\ Scanning' = Scanning
  BY DEF Unchanged, scanVars, Scanning, Returned
<1>3. phase \in {"dirs", "keys"} =>
          /\ must' \subseteq Op
          /\ got \subseteq may'
  BY DEF ScanInv
<1>4. ASSUME Scanning, NEW o \in must' PROVE OnTheWay(o)'
  <2>1. o \in Op \ {s.id} /\ OnTheWay(o)
    BY <1>4 DEF ScanInv, Scanning
  <2> QED
    BY <1>1, <1>2, <2>1 DEF OnTheWay
<1>5. ASSUME Scanning, NEW o \in Op, DueAt(record'[o], at) PROVE o \in may'
  <2>1. CASE o = s.id
    BY <1>1, <1>5, <2>1
  <2>2. CASE o # s.id
    BY <1>1, <1>5, <2>2 DEF ScanInv
  <2> QED
    BY <2>1, <2>2
<1> QED
  BY <1>2, <1>3, <1>4, <1>5 DEF ScanInv

(* The steps of the scan. *)
LEMMA ScanInvScan ==
    ASSUME IndexInv, ScanInv, Scan
    PROVE  ScanInv'
<1> USE DEF DueKey
<1>1. CASE ScanStart
  <2>1. \A o \in must' : OnTheWay(o)'
    <3> SUFFICES ASSUME NEW o \in Op, DueAt(record[o], now)
                 PROVE  record[o].due \in {k.due : k \in {j \in keys : j.by = "due"}}
      BY <1>1 DEF ScanStart, OnTheWay
    <3>1. DueKey(o, record[o].due) \in keys
      BY DEF IndexInv, IndexComplete, IndexKeys, DueAt, IsQueued
    <3> QED
      BY <3>1
  <2> QED
    BY <1>1, <2>1 DEF ScanStart, ScanInv
<1>2. ASSUME NEW t \in dirs, ScanList(t) PROVE ScanInv'
  <2>1. Scanning /\ Scanning'
    BY <1>2 DEF ScanList, Scanning, Returned
  <2>2. ASSUME NEW o \in must PROVE OnTheWay(o)'
    <3>1. OnTheWay(o) /\ o \in Op
      BY <2>1 DEF ScanInv, Scanning
    <3>2. CASE record[o].due = t
      <4>1. DueKey(o, t) \in keys
        BY <3>1, <3>2 DEF IndexInv, IndexComplete, IndexKeys, DueAt, IsQueued,
              OnTheWay
      <4> QED
        BY <1>2, <3>1, <3>2, <4>1 DEF ScanList, OnTheWay
    <3>3. CASE record[o].due # t
      BY <1>2, <3>1, <3>3 DEF ScanList, OnTheWay
    <3> QED
      BY <3>2, <3>3
  <2> QED
    BY <1>2, <2>1, <2>2 DEF ScanList, ScanInv
<1>3. CASE ScanSort
  <2>1. Scanning
    BY <1>3 DEF ScanSort, Scanning, Returned
  <2>2. ASSUME NEW o \in must PROVE OnTheWay(o)'
    <3>1. OnTheWay(o)
      BY <2>1 DEF ScanInv, Scanning
    <3> QED
      BY <1>3, <3>1 DEF ScanSort, OnTheWay, DueAt
  <2> QED
    BY <1>3, <2>1, <2>2 DEF ScanSort, ScanInv
<1>4. ASSUME NEW k \in listed, ScanLookup(k) PROVE ScanInv'
  <2>1. Scanning
    BY <1>4 DEF ScanLookup, Scanning, Returned
  <2>2. ASSUME NEW o \in must PROVE OnTheWay(o)'
    <3>1. OnTheWay(o)
      BY <2>1 DEF ScanInv, Scanning
    <3>2. CASE k = DueKey(o, record[o].due)
      <4>1. Matches(k) /\ k.id = o
        BY <3>1, <3>2 DEF Matches, OnTheWay, DueAt
      <4> QED
        BY <1>4, <3>1, <4>1 DEF ScanLookup, OnTheWay
    <3>3. CASE k # DueKey(o, record[o].due)
      BY <1>4, <3>1, <3>3 DEF ScanLookup, OnTheWay
    <3> QED
      BY <3>2, <3>3
  <2>3. Matches(k) => k.id \in may
    BY <1>4, <2>1 DEF Matches, DueAt, ScanLookup, ScanInv, IndexInv, Types, Key
  <2> QED
    BY <1>4, <2>1, <2>2, <2>3 DEF ScanLookup, ScanInv
<1>5. CASE ScanEnd
  BY <1>5 DEF ScanEnd, ScanInv, Scanning
<1> QED
  BY <1>1, <1>2, <1>3, <1>4, <1>5 DEF Scan

LEMMA ScanInvStep ==
    ASSUME IndexInv, ScanInv, [Next]_vars
    PROVE  ScanInv'
<1>1. ASSUME NEW o \in Op, Handler(o) PROVE ScanInv'
  BY <1>1, ScanInvOther DEF Handler, Enqueue, Complete, Fail, Retry, Cancel,
        Requested
<1>2. CASE Storage
  BY <1>2, ScanInvPut, ScanInvOther DEF Storage, PutIndex, DropIndex,
        StorageError, Unchanged
<1>3. CASE Scan
  BY <1>3, ScanInvScan
<1>4. CASE Prune
  BY <1>4 DEF Prune, PruneStart, PruneRead, PruneSelect, PruneOne, PruneEnd,
        ScanInv, Scanning
<1>5. CASE Crash
  BY <1>5 DEF Crash, ScanInv, Scanning
<1>6. CASE Tick
  BY <1>6, ScanInvOther DEF Tick
<1>7. CASE UNCHANGED vars
  BY <1>7, ScanInvOther DEF vars, scanVars
<1> QED
  BY <1>1, <1>2, <1>3, <1>4, <1>5, <1>6, <1>7 DEF Next

-----------------------------------------------------------------------------
(* Every step of the stored outbox is a step of the atomic queue *)

LEMMA QueueStutters ==
    ASSUME UNCHANGED <<record, now, Scanning, Returned, at, must, may, got>>
    PROVE  UNCHANGED Queue!queueVars
  BY DEF Queue!queueVars

LEMMA QueuePut ==
    ASSUME IndexInv, PutRecord
    PROVE  Queue!QueueNext
<1> PICK s \in storing :
        /\ record' = [record EXCEPT ![s.id] = s.rec]
        /\ must' = must \ {s.id}
        /\ may' = IF Scanning /\ DueAt(s.rec, at) THEN may \cup {s.id} ELSE may
        /\ Unchanged
  BY DEF PutRecord
<1>1. s.id \in Op /\ s.rec \in Record /\ record'[s.id] = s.rec
  BY DEF IndexInv, Types
<1>2. UNCHANGED <<now, phase, at, listed, got>>
      /\ Scanning' = Scanning /\ Returned' = Returned
  BY DEF Unchanged, scanVars, Scanning, Returned
<1>3. Queue!Write(s.id)
  BY <1>1, <1>2 DEF Queue!Write, Queue!DueAt, DueAt
<1> QED
  BY <1>1, <1>3 DEF Queue!QueueNext

(* A step after which no listed entry is left ends the scan. *)
LEMMA QueueReturn ==
    ASSUME ScanInv, ScanInv', Scanning, Returned',
           UNCHANGED <<record, now, must, may>>,
           must \subseteq got'
    PROVE  Queue!ScanReturn
<1>1. ~Scanning' /\ phase' = "keys"
  BY DEF Scanning, Returned
<1>2. got' \subseteq may
  BY <1>1 DEF ScanInv
<1> QED
  BY <1>1, <1>2 DEF Queue!ScanReturn

LEMMA QueueScan ==
    ASSUME IndexInv, ScanInv, ScanInv', Scan
    PROVE  [Queue!QueueNext]_Queue!queueVars
<1>1. CASE ScanStart
  <2>1. ~Scanning /\ ~Returned /\ Scanning' /\ ~Returned'
    BY <1>1 DEF ScanStart, Scanning, Returned
  <2>2. Queue!ScanBegin
    BY <1>1, <2>1 DEF ScanStart, Queue!ScanBegin, Queue!DueAt, DueAt
  <2> QED
    BY <2>2 DEF Queue!QueueNext
<1>2. ASSUME NEW t \in dirs, ScanList(t)
      PROVE  [Queue!QueueNext]_Queue!queueVars
  BY <1>2, QueueStutters DEF ScanList, Scanning, Returned
<1>3. CASE ScanSort
  <2>1. Scanning /\ ~Returned /\ phase' = "keys" /\ got' = got
    BY <1>3 DEF ScanSort, Scanning, Returned
  <2>2. CASE Returned'
    <3>1. must \subseteq got'
      <4> SUFFICES ASSUME NEW o \in must PROVE FALSE
        OBVIOUS
      <4>1. OnTheWay(o)
        BY <2>1 DEF ScanInv
      <4>2. DueKey(o, record[o].due) \in listed'
        BY <1>3, <4>1 DEF ScanSort, OnTheWay, DueAt, DueKey
      <4> QED
        BY <2>2, <4>2 DEF Returned
    <3>2. Queue!ScanReturn
      BY <1>3, <2>1, <2>2, <3>1, QueueReturn DEF ScanSort
    <3> QED
      BY <3>2 DEF Queue!QueueNext
  <2>3. CASE ~Returned'
    <3>1. Scanning' = Scanning /\ Returned' = Returned
      BY <1>3, <2>1, <2>3 DEF ScanSort, Scanning, Returned
    <3> QED
      BY <1>3, <3>1, QueueStutters DEF ScanSort
  <2> QED
    BY <2>2, <2>3
<1>4. ASSUME NEW k \in listed, ScanLookup(k)
      PROVE  [Queue!QueueNext]_Queue!queueVars
  <2>1. Scanning /\ ~Returned /\ phase' = "keys"
    BY <1>4 DEF ScanLookup, Scanning, Returned
  <2>2. CASE Returned'
    <3>1. must \subseteq got'
      <4> SUFFICES ASSUME NEW o \in must PROVE o \in got'
        OBVIOUS
      <4>1. OnTheWay(o)
        BY <2>1 DEF ScanInv
      <4>2. CASE o \in got
        BY <1>4, <4>2 DEF ScanLookup
      <4>3. CASE DueKey(o, record[o].due) = k
        BY <1>4, <4>1, <4>3 DEF ScanLookup, OnTheWay, DueAt, Matches, DueKey
      <4>4. DueKey(o, record[o].due) \in listed => DueKey(o, record[o].due) = k
        BY <1>4, <2>2 DEF ScanLookup, Returned
      <4> QED
        BY <1>4, <4>1, <4>2, <4>3, <4>4 DEF OnTheWay, ScanLookup
    <3>2. Queue!ScanReturn
      BY <1>4, <2>1, <2>2, <3>1, QueueReturn DEF ScanLookup
    <3> QED
      BY <3>2 DEF Queue!QueueNext
  <2>3. CASE ~Returned'
    <3>1. Scanning'
      BY <2>1, <2>3 DEF Scanning
    <3> QED
      BY <1>4, <2>1, <2>3, <3>1 DEF ScanLookup, Queue!queueVars
  <2> QED
    BY <2>2, <2>3
<1>5. CASE ScanEnd
  <2>1. ~Scanning /\ Scanning' = Scanning /\ ~Returned'
    BY <1>5 DEF ScanEnd, Scanning, Returned
  <2>2. Queue!ScanDone
    BY <1>5, <2>1 DEF ScanEnd, Queue!ScanDone
  <2> QED
    BY <2>2 DEF Queue!QueueNext
<1> QED
  BY <1>1, <1>2, <1>3, <1>4, <1>5 DEF Scan

LEMMA QueueCrash ==
    ASSUME Crash
    PROVE  [Queue!QueueNext]_Queue!queueVars
<1>1. ~Scanning' /\ ~Returned' /\ UNCHANGED <<record, now>>
  BY DEF Crash, Scanning, Returned
<1>2. CASE Scanning
  <2>1. ~Returned
    BY <1>2 DEF Scanning
  <2>2. Queue!ScanLost
    BY <1>1, <1>2, <2>1 DEF Queue!ScanLost
  <2> QED
    BY <2>2 DEF Queue!QueueNext
<1>3. CASE ~Scanning
  <2>1. Scanning' = Scanning
    BY <1>1, <1>3 DEF Scanning
  <2>2. Queue!ScanDone
    BY <1>1, <1>3, <2>1 DEF Queue!ScanDone
  <2> QED
    BY <2>2 DEF Queue!QueueNext
<1> QED
  BY <1>2, <1>3

LEMMA QueueStep ==
    ASSUME IndexInv, ScanInv, ScanInv', [Next]_vars
    PROVE  [Queue!QueueNext]_Queue!queueVars
<1> USE DEF Scanning, Returned
<1>1. ASSUME NEW o \in Op, Handler(o) PROVE UNCHANGED Queue!queueVars
  BY <1>1, QueueStutters DEF Handler, Enqueue, Complete, Fail, Retry, Cancel,
        Requested, scanVars
<1>2. CASE Storage
  BY <1>2, QueuePut, QueueStutters DEF Storage, PutIndex, DropIndex,
        StorageError, Unchanged, scanVars
<1>3. CASE Scan
  BY <1>3, QueueScan
<1>4. CASE Prune
  <2>1. ~Scanning /\ ~Scanning' /\ ~Returned /\ ~Returned'
        /\ UNCHANGED <<record, now>>
    BY <1>4 DEF Prune, PruneStart, PruneRead, PruneSelect, PruneOne, PruneEnd
  <2> QED
    BY <2>1 DEF Queue!queueVars
<1>5. CASE Crash
  BY <1>5, QueueCrash
<1>6. CASE Tick
  <2>1. Queue!Advance
    BY <1>6 DEF Tick, scanVars, Queue!Advance
  <2> QED
    BY <2>1 DEF Queue!QueueNext
<1>7. CASE UNCHANGED vars
  BY <1>7, QueueStutters DEF vars
<1> QED
  BY <1>1, <1>2, <1>3, <1>4, <1>5, <1>6, <1>7 DEF Next

LEMMA QueueInitially ==
    Init => Queue!QueueInit
<1> SUFFICES ASSUME Init PROVE Queue!QueueInit
  OBVIOUS
<1>1. ~Scanning /\ ~Returned
  BY DEF Init, Scanning, Returned
<1> QED
  BY <1>1, AbsentIsEmpty DEF Init, Queue!QueueInit, IsQueued, Absent

(* The indexed outbox with its lock-free scan implements the atomic queue: *)
(* listDueOutboxIDs returns every operation that stayed due while it ran,  *)
(* for any operations, writes, interruptions and restarts beside it.       *)
THEOREM OutboxImplementsQueue ==
    Spec => ImplementsQueue
<1>1. Init => IndexInv /\ ScanInv /\ Queue!QueueInit
  BY IndexInvInit, ScanInvInit, QueueInitially
<1>2. IndexInv /\ ScanInv /\ [Next]_vars => IndexInv' /\ ScanInv'
  BY IndexInvStep, ScanInvStep
<1>3. IndexInv /\ ScanInv /\ ScanInv' /\ [Next]_vars
          => [Queue!QueueNext]_Queue!queueVars
  BY QueueStep
<1> QED
  BY <1>1, <1>2, <1>3, PTL DEF Spec, ImplementsQueue, Queue!QueueSpec
=============================================================================
