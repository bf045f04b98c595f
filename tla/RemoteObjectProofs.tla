------------------------- MODULE RemoteObjectProofs -------------------------
(***************************************************************************)
(* Theorems about RemoteObject, for every set of provider calls, every     *)
(* payload and any number of edits by other clients.                       *)
(***************************************************************************)
EXTENDS RemoteObject, TLAPS

-----------------------------------------------------------------------------
(* The inductive invariant *)

Keys   == {"payload"} \cup UNION {MapKeys[v] : v \in Versions}
Values == {"edited"} \cup {Payload[v] : v \in Versions}
Data   == UNION {[S -> Values] : S \in SUBSET Keys}

Object == [there : BOOLEAN, scheduled : BOOLEAN, frozen : BOOLEAN, arn : Nat,
           owner : {"me", "other", "none"}, ver : Nat, sha : Data,
           managed : SUBSET Keys, data : Data]

CallSteps == {"idle", "read", "value", "create", "put", "tag", "restore",
              "delete", "ok", "failed"}

Call == [op : {"none", "upsert", "delete"}, ver : Nat, step : CallSteps,
         seen : Object, clean : BOOLEAN]

Types ==
    /\ kind \in AllKinds
    /\ readable \in BOOLEAN
    /\ overlap \in BOOLEAN
    /\ remote \in Object
    /\ call \in [Worker -> Call]
    /\ edits \in Nat

(* What is true of the object whoever wrote it last. *)
ObjectInv ==
    /\ ~remote.there => remote = Missing
    /\ remote.scheduled => kind = "aws"
    /\ remote.owner = "me" => remote.ver \in Versions
    /\ kind = "gitlab" /\ edits = 0 => remote.data = remote.sha

(* The steps between the first read and the last write. *)
Acting(c) == c.step \in {"value", "put", "tag", "restore", "delete"}

(* What a call knows of the object from its first read ... *)
ReadInv(c) ==
    /\ c.step # "idle" => c.ver \in Versions
    /\ c.step = "delete" => c.op # "upsert"
    /\ c.step \in {"value", "tag", "restore"} => kind = "aws"
    /\ Acting(c) => /\ c.seen.there
                    /\ c.seen.owner = "me"
                    /\ c.seen.ver <= c.ver
    /\ kind = "k8s_map" /\ c.step = "put" => ~Conflicts(c.seen, c.ver)

(* ... and what of it still holds while nobody else comes between. *)
OwnedInv(c) ==
    Acting(c) => /\ c.clean => remote.there /\ remote.owner = "me"
                 /\ ~overlap => remote.ver <= c.ver

(* How far an undisturbed upsert has come. *)
UpsertInv(c) ==
    Trustworthy /\ c.clean /\ c.op = "upsert" =>
        /\ c.step \in {"value", "put", "tag"} => ~remote.scheduled
        /\ c.step \in {"restore", "value"} => remote.ver = c.seen.ver
        /\ c.step = "tag" => remote.data = Contents(c.ver)
        /\ c.step = "ok" => Holds(c.ver)

(* Without overrun leases one call is under way at a time. *)
OneCall ==
    ~overlap => \A v, w \in Worker :
                    v # w => call[v].step = "idle" \/ call[w].step = "idle"

CallsInv ==
    \A w \in Worker : ReadInv(call[w]) /\ OwnedInv(call[w]) /\ UpsertInv(call[w])

RemoteInv == Types /\ ObjectInv /\ CallsInv /\ OneCall

-----------------------------------------------------------------------------
(* Objects *)

(* Functions from data keys to values are data. *)
LEMMA DataIntro ==
    ASSUME NEW S \in SUBSET Keys, NEW f \in [S -> Values]
    PROVE  f \in Data
BY DEF Data

(* Data are functions from some data keys to values. *)
LEMMA DataElim ==
    ASSUME NEW f \in Data
    PROVE  DOMAIN f \in SUBSET Keys /\ f \in [DOMAIN f -> Values]
BY DEF Data

(* The empty data map is data. *)
LEMMA NoDataIsData == NoData \in Data
<1>1. {} \in SUBSET Keys
  OBVIOUS
<1>2. NoData \in [{} -> Values]
  BY DEF NoData
<1> QED
  BY <1>1, <1>2, DataIntro

(* A missing object is an object. *)
LEMMA MissingIsObject == Missing \in Object
BY NoDataIsData DEF Missing, Object

(* What an upsert writes is data. *)
LEMMA ContentsIsData ==
    ASSUME NEW v \in Versions
    PROVE  Contents(v) \in Data
<1> DEFINE K == IF kind = "k8s_map" THEN MapKeys[v] ELSE {"payload"}
<1>1. K \in SUBSET Keys
  BY DEF Keys
<1>2. Contents(v) = [k \in K |-> Payload[v]]
  BY DEF Contents
<1>3. Payload[v] \in Values
  BY DEF Values
<1>4. Contents(v) \in [K -> Values]
  BY <1>2, <1>3
<1> QED
  BY <1>1, <1>4, DataIntro

(* mergedDataMap of data is data. *)
LEMMA MergedIsData ==
    ASSUME NEW obj \in Object, NEW new \in Data
    PROVE  MergedData(obj, new) \in Data
<1> DEFINE kept == DOMAIN obj.data \ ManagedKeys(obj)
           f == [k \in kept \cup DOMAIN new |->
                     IF k \in DOMAIN new THEN new[k] ELSE obj.data[k]]
<1>1. obj.data \in Data
  BY DEF Object
<1>2. /\ DOMAIN obj.data \in SUBSET Keys
      /\ \A k \in DOMAIN obj.data : obj.data[k] \in Values
  BY <1>1, DataElim
<1>3. /\ DOMAIN new \in SUBSET Keys
      /\ \A k \in DOMAIN new : new[k] \in Values
  BY DataElim
<1> HIDE DEF kept
<1>4. kept \in SUBSET DOMAIN obj.data
  BY DEF kept
<1>5. kept \cup DOMAIN new \in SUBSET Keys
  BY <1>2, <1>3, <1>4
<1>6. f \in [kept \cup DOMAIN new -> Values]
  BY <1>2, <1>3, <1>4
<1>7. f \in Data
  BY <1>5, <1>6, DataIntro
<1>8. MergedData(obj, new) = f
  BY DEF MergedData, kept
<1> QED
  BY <1>7, <1>8

(* A full write leaves an object. *)
LEMMA WrittenIsObject ==
    ASSUME NEW w \in Worker, call[w].ver \in Versions, NEW obj \in Object
    PROVE  Written(w, obj) \in Object
<1> DEFINE new == Contents(call[w].ver)
<1>1. new \in Data
  BY ContentsIsData
<1>2. DOMAIN new \in SUBSET Keys
  BY <1>1, DataElim
<1> HIDE DEF new
<1>3. MergedData(obj, new) \in Data
  BY <1>1, MergedIsData
<1>4. call[w].ver \in Nat
  BY RemoteObjectAssumption
<1> QED
  BY <1>1, <1>2, <1>3, <1>4 DEF Written, new, Object

(* A deleted object is an object. *)
LEMMA DeletedIsObject ==
    ASSUME NEW obj \in Object
    PROVE  Deleted(obj) \in Object
<1>1. MergedData(obj, NoData) \in Data
  BY NoDataIsData, MergedIsData
<1> QED
  BY <1>1, NoDataIsData, MissingIsObject DEF Deleted, RemoveOwnership, Object

-----------------------------------------------------------------------------
(* The decisions of a call *)

(* Where an upsert goes after its first read, and what it then knows. *)
LEMMA UpsertReadSteps ==
    ASSUME NEW obj \in Object, NEW v \in Versions, kind \in AllKinds,
           readable \in BOOLEAN
    PROVE  LET s == AfterUpsertRead(obj, v)
           IN  /\ s \in {"create", "failed", "restore", "value", "put", "tag", "ok"}
               /\ s \in {"restore", "value", "tag"} => kind = "aws"
               /\ s \in {"restore", "value", "put", "tag", "ok"} =>
                      obj.there /\ obj.owner = "me" /\ obj.ver <= v
               /\ s \in {"value", "put", "tag", "ok"} =>
                      (kind = "aws" => ~obj.scheduled)
               /\ s = "put" => ~Conflicts(obj, v)
               /\ s = "tag" => ~readable
<1> USE RemoteObjectAssumption
<1>1. v \in Nat /\ obj.ver \in Nat
  BY DEF Object
<1>2. CASE kind = "aws"
  BY <1>1, <1>2 DEF AfterUpsertRead, CompareAWS, UpsertAWS, OwnedByRequest,
                   RemoteSourceVersionNewer, Conflicts
<1>3. CASE kind = "gitlab"
  BY <1>1, <1>3 DEF AfterUpsertRead, UpsertGitLab, OwnedByRequest,
                   RemoteSourceVersionNewer, Conflicts
<1>4. CASE kind = "k8s"
  BY <1>1, <1>4 DEF AfterUpsertRead, UpsertKubernetes, OwnedByRequest,
                   RemoteSourceVersionNewer, Conflicts
<1>5. CASE kind = "k8s_map"
  BY <1>1, <1>5 DEF AfterUpsertRead, UpsertDataMap, OwnedByRequest,
                   RemoteSourceVersionNewer
<1> QED
  BY <1>2, <1>3, <1>4, <1>5 DEF AllKinds

(* Where a delete goes after its read, and what it then knows. *)
LEMMA DeleteReadSteps ==
    ASSUME NEW obj \in Object, NEW v \in Versions
    PROVE  LET s == AfterDeleteRead(obj, v)
           IN  /\ s \in {"ok", "failed", "delete"}
               /\ s = "delete" => obj.there /\ obj.owner = "me" /\ obj.ver <= v
<1>1. v \in Nat /\ obj.ver \in Nat
  BY RemoteObjectAssumption DEF Object
<1> QED
  BY <1>1 DEF AfterDeleteRead, OwnedByRequest, RemoteSourceVersionNewer

(* An object that an upsert of version v would leave as it is. *)
LEMMA MatchHolds ==
    ASSUME Types, ObjectInv, Trustworthy, NEW v \in Versions,
           remote.there, ~remote.scheduled,
           PayloadMatches(remote, remote.data, v), MetadataMatches(remote, v)
    PROVE  Holds(v)
<1> USE DEF PayloadMatches, MetadataMatches, Holds, Contents, Restricted
<1>1. CASE kind = "k8s_map"
  BY <1>1
<1>2. CASE kind = "k8s"
  BY <1>2
<1>3. CASE kind \in {"aws", "gitlab"}
  <2>1. remote.data = Contents(v)
    BY <1>3 DEF Trustworthy, ObjectInv
  <2> QED
    BY <2>1, <1>3
<1> QED
  BY <1>1, <1>2, <1>3 DEF Types, AllKinds

(* An upsert that ends with its first read has found its value. *)
LEMMA ReadHolds ==
    ASSUME Types, ObjectInv, Trustworthy, NEW v \in Versions,
           AfterUpsertRead(remote, v) = "ok"
    PROVE  Holds(v)
<1>1. remote.there /\ ~remote.scheduled
  BY UpsertReadSteps DEF Types, ObjectInv
<1>2. PayloadMatches(remote, remote.data, v) /\ MetadataMatches(remote, v)
  <2>1. CASE kind = "aws"
    BY <2>1, <1>1 DEF AfterUpsertRead, CompareAWS, UpsertAWS
  <2>2. CASE kind = "gitlab"
    BY <2>2, <1>1 DEF AfterUpsertRead, UpsertGitLab
  <2>3. CASE kind = "k8s"
    BY <2>3, <1>1 DEF AfterUpsertRead, UpsertKubernetes
  <2>4. CASE kind = "k8s_map"
    BY <2>4, <1>1 DEF AfterUpsertRead, UpsertDataMap
  <2> QED
    BY <2>1, <2>2, <2>3, <2>4 DEF Types, AllKinds
<1> QED
  BY <1>1, <1>2, MatchHolds

-----------------------------------------------------------------------------
(* The other calls *)

CallInv(c) == ReadInv(c) /\ OwnedInv(c) /\ UpsertInv(c)

(* A step of one call that leaves the object alone is nothing to another. *)
LEMMA CallUntouched ==
    ASSUME CallsInv, NEW c \in Worker, call'[c] = call[c],
           UNCHANGED <<kind, readable, overlap, edits, remote>>
    PROVE  CallInv(call[c])'
<1>1. CallInv(call[c])
  BY DEF CallsInv, CallInv
<1>2. ReadInv(call[c])'
  BY <1>1 DEF CallInv, ReadInv, Acting, Conflicts, ManagedKeys
<1>3. OwnedInv(call[c])'
  BY <1>1 DEF CallInv, OwnedInv, Acting
<1>4. UpsertInv(call[c])'
  BY <1>1 DEF CallInv, UpsertInv, Trustworthy, Holds, Contents, Restricted
<1> QED
  BY <1>2, <1>3, <1>4 DEF CallInv

(* A call that somebody else's write overtakes is marked. *)
LEMMA CallOvertaken ==
    ASSUME Types, Types', CallsInv, NEW w, NEW c \in Worker, c # w,
           call'[c] = Disturbed(w)[c],
           UNCHANGED <<kind, readable, overlap>>,
           overlap \/ call[c].step = "idle" \/ remote'.ver <= remote.ver
    PROVE  CallInv(call[c])'
<1>1. ReadInv(call[c]) /\ OwnedInv(call[c])
  BY DEF CallsInv
<1>2. call[c] \in Call
  BY DEF Types
<1>3. call'[c] = IF call[c].step \in {"idle", "read"} THEN call[c]
                 ELSE [call[c] EXCEPT !.clean = FALSE]
  BY DEF Disturbed
<1>4. /\ call'[c].step = call[c].step
      /\ call'[c].op = call[c].op
      /\ call'[c].ver = call[c].ver
      /\ call'[c].seen = call[c].seen
      /\ call[c].step \notin {"idle", "read"} => ~call'[c].clean
  BY <1>2, <1>3 DEF Call
<1>5. ReadInv(call[c])'
  BY <1>1, <1>4 DEF ReadInv, Acting, Conflicts, ManagedKeys
<1>6. OwnedInv(call[c])'
  <2>1. remote.ver \in Nat /\ remote'.ver \in Nat /\ call[c].ver \in Nat
    BY <1>2 DEF Types, Object, Call
  <2> QED
    BY <1>1, <1>4, <2>1 DEF OwnedInv, Acting
<1>7. UpsertInv(call[c])'
  BY <1>4 DEF UpsertInv
<1> QED
  BY <1>5, <1>6, <1>7 DEF CallInv

-----------------------------------------------------------------------------
(* Steps that leave the object alone *)

(* What such a step of call w has to show. *)
LEMMA QuietStep ==
    ASSUME RemoteInv, NEW w \in Worker, NEW c \in Call,
           call' = [call EXCEPT ![w] = c],
           UNCHANGED <<kind, readable, overlap, edits, remote>>,
           CallInv(call[w])',
           c.step # "idle" => \/ call[w].step # "idle"
                              \/ overlap
                              \/ \A v \in Worker : call[v].step = "idle"
    PROVE  RemoteInv'
<1>1. Types'
  BY DEF RemoteInv, Types
<1>2. ObjectInv'
  BY DEF RemoteInv, ObjectInv
<1>3. call'[w] = c /\ \A v \in Worker : v # w => call'[v] = call[v]
  BY DEF RemoteInv, Types
<1>4. CallsInv'
  <2>1. \A v \in Worker : CallInv(call[v])'
    BY <1>3, CallUntouched DEF RemoteInv
  <2> QED
    BY <2>1 DEF CallsInv, CallInv
<1>5. OneCall'
  BY <1>3 DEF RemoteInv, OneCall
<1> QED
  BY <1>1, <1>2, <1>4, <1>5 DEF RemoteInv

(* Nothing is known of an idle call, or of one that has not read. *)
LEMMA NothingRead ==
    ASSUME NEW w, call'[w].step \in {"idle", "read", "failed"},
           call'[w].step # "idle" => call'[w].ver \in Versions
    PROVE  CallInv(call[w])'
BY DEF CallInv, ReadInv, OwnedInv, UpsertInv, Acting

(* An idle call is a call. *)
LEMMA IdleIsCall == Idle \in Call
BY MissingIsObject DEF Idle, Call, CallSteps

(* The initial states satisfy the invariant. *)
LEMMA InitInv == Init => RemoteInv
<1> SUFFICES ASSUME Init PROVE RemoteInv
  OBVIOUS
<1>1. Types
  BY RemoteObjectAssumption, IdleIsCall, MissingIsObject DEF Init, Types
<1>2. ObjectInv
  BY DEF Init, ObjectInv, Missing
<1>3. \A w \in Worker : call[w].step = "idle"
  BY DEF Init, Idle
<1>4. CallsInv
  BY <1>3 DEF CallsInv, ReadInv, OwnedInv, UpsertInv, Acting
<1>5. OneCall
  BY <1>3 DEF OneCall
<1> QED
  BY <1>1, <1>2, <1>4, <1>5 DEF RemoteInv

(* Begin preserves the invariant. *)
LEMMA BeginInv ==
    ASSUME RemoteInv, NEW w \in Worker, NEW op \in {"upsert", "delete"},
           NEW v \in Versions, Begin(w, op, v)
    PROVE  RemoteInv'
<1> DEFINE c == [Idle EXCEPT !.op = op, !.ver = v, !.step = "read"]
<1>1. v \in Nat
  BY RemoteObjectAssumption
<1>2. c \in Call /\ c.step = "read" /\ c.ver = v
  BY <1>1, MissingIsObject DEF Idle, Call, CallSteps
<1>3. call' = [call EXCEPT ![w] = c]
  BY DEF Begin
<1>4. UNCHANGED <<kind, readable, overlap, edits, remote>>
  BY DEF Begin, Stays
<1>5. overlap \/ \A u \in Worker : call[u].step = "idle"
  BY DEF Begin
<1> HIDE DEF c
<1>6. call'[w] = c
  BY <1>3 DEF RemoteInv, Types
<1>7. CallInv(call[w])'
  BY <1>2, <1>6, NothingRead
<1> QED
  BY <1>2, <1>3, <1>4, <1>5, <1>7, QuietStep

(* End preserves the invariant. *)
LEMMA EndInv ==
    ASSUME RemoteInv, NEW w \in Worker, End(w)
    PROVE  RemoteInv'
<1>1. call' = [call EXCEPT ![w] = Idle]
  BY DEF End
<1>2. UNCHANGED <<kind, readable, overlap, edits, remote>>
  BY DEF End, Stays
<1>3. call'[w] = Idle
  BY <1>1 DEF RemoteInv, Types
<1>4. Idle.step = "idle"
  BY DEF Idle
<1>5. CallInv(call[w])'
  BY <1>3, <1>4, NothingRead
<1> QED
  BY <1>1, <1>2, <1>4, <1>5, IdleIsCall, QuietStep

(* The first read preserves the invariant. *)
LEMMA ReadPreserves ==
    ASSUME RemoteInv, NEW w \in Worker, Read(w)
    PROVE  RemoteInv'
<1> DEFINE v == call[w].ver
           s == IF call[w].op = "upsert" THEN AfterUpsertRead(remote, v)
                ELSE AfterDeleteRead(remote, v)
           c == [call[w] EXCEPT !.seen = remote, !.step = s]
<1>1. call[w] \in Call /\ remote \in Object /\ kind \in AllKinds
         /\ readable \in BOOLEAN
  BY DEF RemoteInv, Types
<1>2. call[w].step = "read" /\ v \in Versions
  BY DEF Read, RemoteInv, CallsInv, ReadInv
<1>3. /\ s \in CallSteps \ {"idle", "read"}
      /\ s = "delete" => call[w].op # "upsert"
      /\ s \in {"value", "tag", "restore"} => kind = "aws"
      /\ s \in {"value", "put", "tag", "restore", "delete"} =>
             remote.there /\ remote.owner = "me" /\ remote.ver <= v
      /\ s = "put" => ~Conflicts(remote, v)
      /\ s \in {"value", "put", "tag"} => (kind = "aws" => ~remote.scheduled)
      /\ s = "tag" => ~readable
  <2>1. CASE call[w].op = "upsert"
    BY <2>1, <1>1, <1>2, UpsertReadSteps DEF CallSteps
  <2>2. CASE call[w].op # "upsert"
    BY <2>2, <1>1, <1>2, DeleteReadSteps DEF CallSteps
  <2> QED
    BY <2>1, <2>2
<1>4. s = "ok" /\ call[w].op = "upsert" /\ Trustworthy => Holds(v)
  BY <1>2, ReadHolds DEF RemoteInv
<1>5. Trustworthy /\ kind = "aws" => readable
  BY DEF Trustworthy
<1>6. call' = [call EXCEPT ![w] = c]
  BY <1>1 DEF Read, RemoteInv, Types, Call
<1>7. UNCHANGED <<kind, readable, overlap, edits, remote>>
  BY DEF Read, Stays
<1> HIDE DEF s
<1>8. /\ c \in Call
      /\ c.step = s /\ c.seen = remote /\ c.op = call[w].op
      /\ c.ver = v /\ c.clean = call[w].clean
  BY <1>1, <1>3 DEF Call
<1> HIDE DEF c
<1>9. call'[w] = c
  BY <1>6 DEF RemoteInv, Types
<1>10. CallInv(call[w])'
  <2>1. ReadInv(call[w])'
    BY <1>2, <1>3, <1>7, <1>8, <1>9
       DEF ReadInv, Acting, Conflicts, ManagedKeys
  <2>2. OwnedInv(call[w])'
    BY <1>3, <1>7, <1>8, <1>9 DEF OwnedInv, Acting
  <2>3. UpsertInv(call[w])'
    <3>1. kind # "aws" => ~remote.scheduled
      BY DEF RemoteInv, ObjectInv
    <3>2. Trustworthy' = Trustworthy /\ Holds(v)' = Holds(v)
      BY <1>7, <1>8, <1>9
         DEF Trustworthy, Holds, Contents, Restricted
    <3> QED
      BY <1>3, <1>4, <1>5, <1>7, <1>8, <1>9, <3>1, <3>2 DEF UpsertInv
  <2> QED
    BY <2>1, <2>2, <2>3 DEF CallInv
<1> QED
  BY <1>2, <1>6, <1>7, <1>8, <1>10, QuietStep

(* Reading the value of an AWS secret preserves the invariant. *)
LEMMA ReadValuePreserves ==
    ASSUME RemoteInv, NEW w \in Worker, ReadValue(w)
    PROVE  RemoteInv'
<1> DEFINE v == call[w].ver
           seen == call[w].seen
           s == IF remote.there /\ ~remote.scheduled /\ remote.arn = seen.arn
                THEN UpsertAWS(seen, remote.data, v) ELSE "failed"
           c == [call[w] EXCEPT !.step = s]
<1>1. call[w] \in Call /\ remote \in Object
  BY DEF RemoteInv, Types
<1>2. call[w].step = "value" /\ CallInv(call[w])
  BY DEF ReadValue, RemoteInv, CallsInv, CallInv
<1>3. /\ v \in Versions /\ kind = "aws"
      /\ seen.there /\ seen.owner = "me" /\ seen.ver <= v
  BY <1>2 DEF CallInv, ReadInv, Acting
<1>4. /\ s \in {"put", "tag", "ok", "failed"}
      /\ s # "failed" => remote.there /\ ~remote.scheduled
  BY DEF UpsertAWS
<1>5. s \in {"tag", "ok"} /\ Trustworthy => remote.data = Contents(v)
  BY <1>3 DEF UpsertAWS, PayloadMatches, Trustworthy
<1>6. s = "ok" => seen.ver = v
  BY DEF UpsertAWS, MetadataMatches
<1>7. call' = [call EXCEPT ![w] = c]
  BY <1>1 DEF ReadValue, GoTo, RemoteInv, Types, Call
<1>8. UNCHANGED <<kind, readable, overlap, edits, remote>>
  BY DEF ReadValue, Stays
<1> HIDE DEF s
<1>9. /\ c \in Call
      /\ c.step = s /\ c.seen = seen /\ c.op = call[w].op
      /\ c.ver = v /\ c.clean = call[w].clean
  BY <1>1, <1>4 DEF Call, CallSteps
<1> HIDE DEF c
<1>10. call'[w] = c
  BY <1>7 DEF RemoteInv, Types
<1>11. CallInv(call[w])'
  <2>1. ReadInv(call[w])'
    BY <1>3, <1>4, <1>8, <1>9, <1>10 DEF ReadInv, Acting
  <2>2. OwnedInv(call[w])'
    BY <1>2, <1>4, <1>8, <1>9, <1>10 DEF CallInv, OwnedInv, Acting
  <2>3. UpsertInv(call[w])'
    <3>1. /\ Trustworthy' = Trustworthy
          /\ Contents(call[w].ver)' = Contents(v)
          /\ Holds(call[w].ver)' = Holds(v)
      BY <1>8, <1>9, <1>10 DEF Trustworthy, Holds, Contents, Restricted
    <3>2. s = "ok" /\ Trustworthy /\ call[w].clean /\ call[w].op = "upsert"
              => Holds(v)
      <4>1. SUFFICES ASSUME s = "ok", Trustworthy, call[w].clean,
                            call[w].op = "upsert"
                     PROVE  Holds(v)
        OBVIOUS
      <4>2. remote.ver = v
        BY <4>1, <1>2, <1>6 DEF CallInv, UpsertInv
      <4>3. remote.data = Contents(v)
        BY <4>1, <1>5
      <4> QED
        BY <4>1, <4>2, <4>3, <1>4 DEF Holds, Contents, Restricted
    <3> QED
      BY <1>4, <1>5, <1>8, <1>9, <1>10, <3>1, <3>2 DEF UpsertInv
  <2> QED
    BY <2>1, <2>2, <2>3 DEF CallInv
<1> QED
  BY <1>2, <1>7, <1>8, <1>9, <1>11, QuietStep

-----------------------------------------------------------------------------
(* Steps that write the object *)

(* What a write of call w that goes on with step s has to show. *)
LEMMA ApplyPreserves ==
    ASSUME RemoteInv, NEW w \in Worker, NEW obj \in Object,
           NEW accepted \in BOOLEAN, NEW s \in CallSteps \ {"idle"},
           call[w].step \notin {"idle", "read"},
           Apply(w, accepted, obj, s),
           accepted /\ remote' = obj => ObjectInv',
           accepted /\ remote' = obj /\ call'[w] = [call[w] EXCEPT !.step = s]
               => CallInv(call[w])'
    PROVE  RemoteInv'
<1>1. call \in [Worker -> Call] /\ call[w] \in Call
  BY DEF RemoteInv, Types
<1>2. UNCHANGED <<kind, readable, overlap, edits>>
  BY DEF Apply, Stays
<1>3. call[w].ver \in Versions
  BY DEF RemoteInv, CallsInv, ReadInv
<1>4. CASE UNCHANGED remote /\ GoTo(w, call, "failed")
  <2> DEFINE c == [call[w] EXCEPT !.step = "failed"]
  <2>1. c \in Call /\ c.step = "failed" /\ c.ver = call[w].ver
    BY <1>1 DEF Call, CallSteps
  <2>2. call' = [call EXCEPT ![w] = c]
    BY <1>1, <1>4 DEF GoTo, Call
  <2> HIDE DEF c
  <2>3. call'[w] = c
    BY <1>1, <2>2
  <2>4. CallInv(call[w])'
    BY <1>3, <2>1, <2>3, NothingRead
  <2> QED
    BY <1>2, <1>4, <2>1, <2>2, <2>4, QuietStep
<1>5. ASSUME accepted, remote' = obj, NEW t \in {s, "failed"},
             GoTo(w, Disturbed(w), t)
      PROVE  RemoteInv'
  <2> DEFINE c == [call[w] EXCEPT !.step = t]
  <2>1. c \in Call /\ c.step = t /\ c.ver = call[w].ver
    BY <1>1 DEF Call, CallSteps
  <2>2. Disturbed(w) \in [Worker -> Call] /\ Disturbed(w)[w] = call[w]
    BY <1>1 DEF Disturbed, Call
  <2>3. call' = [Disturbed(w) EXCEPT ![w] = c]
    BY <1>5, <2>2 DEF GoTo, Call
  <2> HIDE DEF c
  <2>4. /\ call' \in [Worker -> Call]
        /\ call'[w] = c
        /\ \A v \in Worker : v # w => call'[v] = Disturbed(w)[v]
    BY <2>1, <2>2, <2>3
  <2>5. Types'
    BY <1>2, <1>5, <2>4 DEF RemoteInv, Types
  <2>6. ObjectInv'
    BY <1>5
  <2>7. CallInv(call[w])'
    <3>1. CASE t = s
      BY <3>1, <1>5, <2>4 DEF c
    <3>2. CASE t = "failed"
      BY <3>2, <1>3, <2>1, <2>4, NothingRead
    <3> QED
      BY <3>1, <3>2
  <2>8. \A v \in Worker : v # w => CallInv(call[v])'
    <3>1. SUFFICES ASSUME NEW v \in Worker, v # w PROVE CallInv(call[v])'
      OBVIOUS
    <3>2. overlap \/ call[v].step = "idle"
      BY <3>1 DEF RemoteInv, OneCall
    <3> QED
      BY <3>1, <3>2, <1>2, <2>4, <2>5, CallOvertaken DEF RemoteInv
  <2>9. CallsInv'
    BY <2>7, <2>8 DEF CallsInv, CallInv
  <2>10. \A v \in Worker : v # w => call'[v].step = call[v].step
    BY <1>1, <2>4 DEF Disturbed, Call
  <2>11. OneCall'
    BY <1>2, <2>10 DEF RemoteInv, OneCall
  <2> QED
    BY <2>5, <2>6, <2>9, <2>11 DEF RemoteInv
<1> QED
  BY <1>4, <1>5 DEF Apply

(* What a full write leaves at the destination. *)
LEMMA WrittenFields ==
    ASSUME NEW w \in Worker, NEW obj \in Object
    PROVE  LET v == call[w].ver
               new == Written(w, obj)
           IN  /\ new.there /\ new.owner = "me" /\ new.ver = v
               /\ new.scheduled = obj.scheduled
               /\ new.sha = Contents(v)
               /\ kind # "k8s_map" => new.data = Contents(v)
               /\ kind = "k8s_map" =>
                      new.data = MergedData(obj, Contents(v))
               /\ Restricted(new.data, DOMAIN Contents(v)) = Contents(v)
<1> DEFINE v == call[w].ver
           new == Written(w, obj)
<1>1. /\ new.there /\ new.owner = "me" /\ new.ver = v
      /\ new.scheduled = obj.scheduled
      /\ new.sha = Contents(v)
      /\ kind # "k8s_map" => new.data = Contents(v)
      /\ kind = "k8s_map" => new.data = MergedData(obj, Contents(v))
  BY DEF Written, Object
<1>2. Restricted(new.data, DOMAIN Contents(v)) = Contents(v)
  <2>1. CASE kind = "k8s_map"
    BY <1>1, <2>1 DEF MergedData, Restricted, Contents
  <2>2. CASE kind # "k8s_map"
    BY <1>1, <2>2 DEF Restricted, Contents
  <2> QED
    BY <2>1, <2>2
<1> QED
  BY <1>1, <1>2

(* A full write of an object that is not scheduled for deletion. *)
LEMMA WritePreserves ==
    ASSUME RemoteInv, NEW w \in Worker, NEW obj \in Object,
           NEW accepted \in BOOLEAN, call[w].step \in {"create", "put"},
           accepted => ~obj.scheduled,
           Apply(w, accepted, Written(w, obj), "ok")
    PROVE  RemoteInv'
<1> DEFINE v == call[w].ver
           new == Written(w, obj)
<1>1. v \in Versions /\ call[w] \in Call
  BY DEF RemoteInv, Types, CallsInv, ReadInv
<1>2. new \in Object
  BY <1>1, WrittenIsObject
<1>3. /\ new.there /\ new.owner = "me" /\ new.ver = v
      /\ new.scheduled = obj.scheduled
      /\ new.sha = Contents(v)
      /\ kind # "k8s_map" => new.data = Contents(v)
      /\ Restricted(new.data, DOMAIN Contents(v)) = Contents(v)
  BY WrittenFields
<1>4. UNCHANGED <<kind, readable, overlap, edits>>
  BY DEF Apply, Stays
<1> HIDE DEF new
<1>5. accepted /\ remote' = new => ObjectInv'
  BY <1>1, <1>3, <1>4 DEF ObjectInv
<1>6. ASSUME accepted, remote' = new, call'[w] = [call[w] EXCEPT !.step = "ok"]
      PROVE  CallInv(call[w])'
  <2>1. call'[w].step = "ok" /\ call'[w].ver = v
    BY <1>1, <1>6 DEF Call
  <2>2. Holds(call[w].ver)'
    <3>1. Contents(call[w].ver)' = Contents(v)
      BY <1>4, <2>1 DEF Contents
    <3>2. Restricted(remote.data, DOMAIN Contents(call[w].ver))' = Contents(v)
      BY <3>1, <1>3, <1>6 DEF Restricted
    <3> QED
      BY <3>1, <3>2, <1>3, <1>6, <2>1 DEF Holds
  <2> QED
    BY <1>1, <2>1, <2>2 DEF CallInv, ReadInv, OwnedInv, UpsertInv, Acting
<1>7. "ok" \in CallSteps \ {"idle"}
  BY DEF CallSteps
<1>8. Apply(w, accepted, new, "ok")
  BY DEF new
<1> QED
  BY <1>2, <1>5, <1>6, <1>7, <1>8, ApplyPreserves

(* Create preserves the invariant. *)
LEMMA CreatePreserves ==
    ASSUME RemoteInv, NEW w \in Worker, Create(w)
    PROVE  RemoteInv'
<1>1. remote.there \in BOOLEAN
  BY DEF RemoteInv, Types, Object
<1>2. ~Missing.scheduled
  BY DEF Missing
<1> QED
  BY <1>1, <1>2, MissingIsObject, WritePreserves DEF Create

(* Put preserves the invariant. *)
LEMMA PutPreserves ==
    ASSUME RemoteInv, NEW w \in Worker, Put(w)
    PROVE  RemoteInv'
<1>1. remote \in Object /\ call[w] \in Call
  BY DEF RemoteInv, Types
<1>2. PutAccepted(w) \in BOOLEAN
  BY DEF PutAccepted
<1>3. CASE kind # "aws"
  <2>1. ~remote.scheduled
    BY <1>3 DEF RemoteInv, ObjectInv
  <2>2. call[w].step = "put" /\ Apply(w, PutAccepted(w), Written(w, remote), "ok")
    BY <1>3 DEF Put
  <2> QED
    BY <1>1, <1>2, <2>1, <2>2, WritePreserves
<1>4. CASE kind = "aws"
  <2> DEFINE v == call[w].ver
             new == [remote EXCEPT !.data = Contents(v)]
  <2>1. call[w].step = "put" /\ Apply(w, PutAccepted(w), new, "tag")
    BY <1>4 DEF Put
  <2>2. CallInv(call[w]) /\ v \in Versions
    BY <2>1 DEF RemoteInv, CallsInv, CallInv, ReadInv
  <2>3. new \in Object
    BY <1>1, <2>2, ContentsIsData DEF Object
  <2>4. /\ new.data = Contents(v)
        /\ new.there = remote.there /\ new.owner = remote.owner
        /\ new.ver = remote.ver /\ new.scheduled = remote.scheduled
    BY <1>1 DEF Object
  <2>5. UNCHANGED <<kind, readable, overlap, edits>>
    BY <2>1 DEF Apply, Stays
  <2> HIDE DEF new
  <2>6. PutAccepted(w) => remote.there /\ ~remote.scheduled
    BY <1>4 DEF PutAccepted
  <2>7. PutAccepted(w) /\ remote' = new => ObjectInv'
    BY <1>4, <2>4, <2>5, <2>6 DEF RemoteInv, ObjectInv
  <2>8. ASSUME PutAccepted(w), remote' = new,
               call'[w] = [call[w] EXCEPT !.step = "tag"]
        PROVE  CallInv(call[w])'
    <3>1. /\ call'[w].step = "tag" /\ call'[w].ver = v
          /\ call'[w].seen = call[w].seen /\ call'[w].clean = call[w].clean
          /\ call'[w].op = call[w].op
      BY <1>1, <2>8 DEF Call
    <3>2. ReadInv(call[w])'
      BY <1>4, <2>1, <2>2, <2>5, <3>1 DEF CallInv, ReadInv, Acting
    <3>3. OwnedInv(call[w])'
      BY <2>1, <2>2, <2>4, <2>5, <2>8, <3>1 DEF CallInv, OwnedInv, Acting
    <3>4. UpsertInv(call[w])'
      <4>1. Contents(call[w].ver)' = Contents(v)
        BY <2>5, <3>1 DEF Contents
      <4> QED
        BY <2>4, <2>6, <2>8, <3>1, <4>1 DEF UpsertInv
    <3> QED
      BY <3>2, <3>3, <3>4 DEF CallInv
  <2>9. "tag" \in CallSteps \ {"idle"}
    BY DEF CallSteps
  <2> QED
    BY <1>2, <2>1, <2>3, <2>7, <2>8, <2>9, ApplyPreserves
<1> QED
  BY <1>3, <1>4

(* TagResource preserves the invariant. *)
LEMMA TagPreserves ==
    ASSUME RemoteInv, NEW w \in Worker, Tag(w)
    PROVE  RemoteInv'
<1> DEFINE v == call[w].ver
           accepted == remote.there /\ remote.arn = call[w].seen.arn
           new == [remote EXCEPT !.owner = "me", !.ver = v, !.sha = Contents(v)]
<1>1. remote \in Object /\ call[w] \in Call
  BY DEF RemoteInv, Types
<1>2. call[w].step = "tag" /\ Apply(w, accepted, new, "ok")
  BY DEF Tag
<1>3. CallInv(call[w]) /\ v \in Versions /\ kind = "aws" /\ v \in Nat
  BY <1>1, <1>2 DEF RemoteInv, CallsInv, CallInv, ReadInv, Call
<1>4. new \in Object
  BY <1>1, <1>3, ContentsIsData DEF Object
<1>5. /\ new.data = remote.data /\ new.there = remote.there
      /\ new.owner = "me" /\ new.ver = v /\ new.scheduled = remote.scheduled
  BY <1>1 DEF Object
<1>6. UNCHANGED <<kind, readable, overlap, edits>>
  BY <1>2 DEF Apply, Stays
<1>7. accepted \in BOOLEAN
  BY <1>1 DEF Object
<1> HIDE DEF new
<1>8. accepted /\ remote' = new => ObjectInv'
  BY <1>3, <1>5, <1>6 DEF ObjectInv
<1>9. ASSUME accepted, remote' = new, call'[w] = [call[w] EXCEPT !.step = "ok"]
      PROVE  CallInv(call[w])'
  <2>1. /\ call'[w].step = "ok" /\ call'[w].ver = v
        /\ call'[w].clean = call[w].clean /\ call'[w].op = call[w].op
    BY <1>1, <1>9 DEF Call
  <2>2. ReadInv(call[w])' /\ OwnedInv(call[w])'
    BY <1>3, <2>1 DEF ReadInv, OwnedInv, Acting
  <2>3. UpsertInv(call[w])'
    <3>1. SUFFICES ASSUME Trustworthy', call[w].clean, call[w].op = "upsert"
                   PROVE  Holds(call[w].ver)'
      BY <2>1 DEF UpsertInv
    <3>2. Trustworthy
      BY <3>1, <1>6 DEF Trustworthy
    <3>3. ~remote.scheduled /\ remote.data = Contents(v)
      BY <1>2, <1>3, <3>1, <3>2 DEF CallInv, UpsertInv
    <3>4. Contents(call[w].ver)' = Contents(v)
      BY <1>6, <2>1 DEF Contents
    <3>5. Restricted(Contents(v), DOMAIN Contents(v)) = Contents(v)
      BY DEF Restricted, Contents
    <3>6. Restricted(remote.data, DOMAIN Contents(call[w].ver))' = Contents(v)
      BY <1>5, <1>9, <3>3, <3>4, <3>5 DEF Restricted
    <3> QED
      BY <1>5, <1>9, <2>1, <3>3, <3>4, <3>6 DEF Holds
  <2> QED
    BY <2>2, <2>3 DEF CallInv
<1>10. "ok" \in CallSteps \ {"idle"}
  BY DEF CallSteps
<1> HIDE DEF accepted
<1> QED
  BY <1>2, <1>4, <1>7, <1>8, <1>9, <1>10, ApplyPreserves

(* restoreSecretIfScheduled preserves the invariant. *)
LEMMA RestorePreserves ==
    ASSUME RemoteInv, NEW w \in Worker, Restore(w)
    PROVE  RemoteInv'
<1> DEFINE v == call[w].ver
           accepted == remote.there /\ remote.arn = call[w].seen.arn
           new == [remote EXCEPT !.scheduled = FALSE]
           s == CompareAWS(call[w].seen, v)
<1>1. remote \in Object /\ call[w] \in Call
  BY DEF RemoteInv, Types
<1>2. call[w].step = "restore" /\ Apply(w, accepted, new, s)
  BY DEF Restore
<1>3. CallInv(call[w]) /\ kind = "aws"
  BY <1>2 DEF RemoteInv, CallsInv, CallInv, ReadInv
<1>4. new \in Object
  BY <1>1 DEF Object
<1>5. /\ new.data = remote.data /\ new.there = remote.there
      /\ new.owner = remote.owner /\ new.ver = remote.ver
      /\ ~new.scheduled
  BY <1>1 DEF Object
<1>6. UNCHANGED <<kind, readable, overlap, edits>>
  BY <1>2 DEF Apply, Stays
<1>7. accepted \in BOOLEAN
  BY <1>1 DEF Object
<1>8. s \in {"value", "put", "tag", "ok"} /\ (readable => s = "value")
  BY DEF CompareAWS, UpsertAWS
<1> HIDE DEF new, s
<1>9. accepted /\ remote' = new => ObjectInv'
  BY <1>3, <1>5, <1>6 DEF RemoteInv, ObjectInv
<1>10. ASSUME accepted, remote' = new, call'[w] = [call[w] EXCEPT !.step = s]
       PROVE  CallInv(call[w])'
  <2>1. /\ call'[w].step = s /\ call'[w].ver = v
        /\ call'[w].seen = call[w].seen
        /\ call'[w].clean = call[w].clean /\ call'[w].op = call[w].op
    BY <1>1, <1>10 DEF Call
  <2>2. ReadInv(call[w])'
    BY <1>2, <1>3, <1>6, <1>8, <2>1 DEF CallInv, ReadInv, Acting
  <2>3. OwnedInv(call[w])'
    BY <1>2, <1>3, <1>5, <1>6, <1>8, <1>10, <2>1 DEF CallInv, OwnedInv, Acting
  <2>4. UpsertInv(call[w])'
    <3>1. SUFFICES ASSUME Trustworthy', call[w].clean, call[w].op = "upsert"
                   PROVE  ~remote'.scheduled /\ s = "value"
                              /\ remote'.ver = call[w].seen.ver
      BY <2>1 DEF UpsertInv
    <3>2. Trustworthy /\ readable
      BY <3>1, <1>3, <1>6 DEF Trustworthy
    <3> QED
      BY <3>1, <3>2, <1>2, <1>3, <1>5, <1>8, <1>10 DEF CallInv, UpsertInv
  <2> QED
    BY <2>2, <2>3, <2>4 DEF CallInv
<1>11. s \in CallSteps \ {"idle"}
  BY <1>8 DEF CallSteps
<1> HIDE DEF accepted
<1> QED
  BY <1>2, <1>4, <1>7, <1>9, <1>10, <1>11, ApplyPreserves

(* What a delete leaves at the destination. *)
LEMMA DeletedFields ==
    ASSUME NEW obj \in Object
    PROVE  LET new == Deleted(obj)
           IN  /\ kind = "aws" => new = [obj EXCEPT !.scheduled = TRUE]
               /\ kind # "aws" =>
                      \/ new = Missing
                      \/ /\ kind = "k8s_map"
                         /\ new.there = obj.there
                         /\ new.scheduled = obj.scheduled
                         /\ new.owner = "none"
                         /\ new.data = MergedData(obj, NoData)
BY DEF Deleted, RemoveOwnership, Object

(* Delete preserves the invariant. *)
LEMMA DeletePreserves ==
    ASSUME RemoteInv, NEW w \in Worker, Delete(w)
    PROVE  RemoteInv'
<1> DEFINE new == Deleted(remote)
<1>1. remote \in Object /\ call[w] \in Call
  BY DEF RemoteInv, Types
<1>2. call[w].step = "delete" /\ Apply(w, PutAccepted(w), new, "ok")
  BY DEF Delete
<1>3. ReadInv(call[w])
  BY DEF RemoteInv, CallsInv
<1>4. new \in Object
  BY <1>1, DeletedIsObject
<1>5. UNCHANGED <<kind, readable, overlap, edits>>
  BY <1>2 DEF Apply, Stays
<1>6. PutAccepted(w) \in BOOLEAN /\ (PutAccepted(w) => remote.there)
  BY DEF PutAccepted
<1>7. ASSUME PutAccepted(w), remote' = new
      PROVE  ObjectInv'
  <2>1. CASE kind = "aws"
    <3>1. new = [remote EXCEPT !.scheduled = TRUE]
      BY <1>1, <2>1, DeletedFields
    <3>2. new.there = remote.there /\ new.owner = remote.owner
             /\ new.ver = remote.ver
      BY <1>1, <3>1 DEF Object
    <3> HIDE DEF new
    <3> QED
      BY <1>5, <1>6, <1>7, <2>1, <3>2 DEF RemoteInv, ObjectInv
  <2>2. CASE kind # "aws" /\ new = Missing
    BY <1>5, <1>7, <2>2 DEF ObjectInv, Missing
  <2>3. CASE kind # "aws" /\ new # Missing
    <3>1. /\ kind = "k8s_map" /\ new.there = remote.there
          /\ new.scheduled = remote.scheduled /\ new.owner = "none"
      BY <1>1, <2>3, DeletedFields
    <3> HIDE DEF new
    <3> QED
      BY <1>5, <1>6, <1>7, <3>1 DEF RemoteInv, ObjectInv
  <2> QED
    BY <2>1, <2>2, <2>3
<1> HIDE DEF new
<1>8. ASSUME call'[w] = [call[w] EXCEPT !.step = "ok"]
      PROVE  CallInv(call[w])'
  <2>1. /\ call'[w].step = "ok" /\ call'[w].ver = call[w].ver
        /\ call'[w].op = call[w].op
    BY <1>1, <1>8 DEF Call
  <2>2. call[w].ver \in Versions /\ call[w].op # "upsert"
    BY <1>2, <1>3 DEF ReadInv
  <2> QED
    BY <2>1, <2>2 DEF CallInv, ReadInv, OwnedInv, UpsertInv, Acting
<1>9. "ok" \in CallSteps \ {"idle"}
  BY DEF CallSteps
<1> QED
  BY <1>2, <1>4, <1>6, <1>7, <1>8, <1>9, ApplyPreserves

-----------------------------------------------------------------------------
(* Edits by other clients *)

(* What an edit has to show. *)
LEMMA EditedPreserves ==
    ASSUME RemoteInv, NEW obj \in Object, Edited(obj),
           obj.ver <= remote.ver,
           ~obj.there => obj = Missing,
           obj.scheduled => kind = "aws",
           obj.owner = "me" => remote.owner = "me" /\ obj.ver = remote.ver
    PROVE  RemoteInv'
<1>1. call \in [Worker -> Call] /\ edits \in Nat
  BY DEF RemoteInv, Types
<1>2. /\ remote' = obj /\ edits' = edits + 1 /\ call' = Disturbed("other")
      /\ UNCHANGED <<kind, readable, overlap>>
  BY DEF Edited
<1>3. call' \in [Worker -> Call]
  BY <1>1, <1>2 DEF Disturbed, Call
<1>4. Types'
  BY <1>1, <1>2, <1>3 DEF RemoteInv, Types
<1>5. ObjectInv'
  <2>1. edits' # 0
    BY <1>1, <1>2
  <2> QED
    BY <1>2, <2>1 DEF RemoteInv, ObjectInv
<1>6. CallsInv'
  <2>1. SUFFICES ASSUME NEW c \in Worker PROVE CallInv(call[c])'
    BY DEF CallsInv, CallInv
  <2>2. c # "other"
    BY RemoteObjectAssumption
  <2>3. call'[c] = Disturbed("other")[c] /\ remote'.ver <= remote.ver
    BY <1>2
  <2> QED
    BY <1>2, <1>4, <2>2, <2>3, CallOvertaken DEF RemoteInv
<1>7. OneCall'
  <2>1. \A c \in Worker : call'[c].step = call[c].step
    BY <1>1, <1>2 DEF Disturbed, Call
  <2> QED
    BY <1>2, <2>1 DEF RemoteInv, OneCall
<1> QED
  BY <1>4, <1>5, <1>6, <1>7 DEF RemoteInv

(* Changing the value of a data key leaves data. *)
LEMMA ChangedKeyIsData ==
    ASSUME NEW d \in Data, NEW k \in Keys
    PROVE  [j \in DOMAIN d \cup {k} |-> IF j = k THEN "edited" ELSE d[j]] \in Data
<1> DEFINE f == [j \in DOMAIN d \cup {k} |-> IF j = k THEN "edited" ELSE d[j]]
<1>1. DOMAIN d \in SUBSET Keys /\ \A j \in DOMAIN d : d[j] \in Values
  BY DataElim
<1>2. DOMAIN d \cup {k} \in SUBSET Keys
  BY <1>1
<1>3. f \in [DOMAIN d \cup {k} -> Values]
  BY <1>1 DEF Values
<1> QED
  BY <1>2, <1>3, DataIntro

(* An object that somebody else puts in another's place is an object. *)
LEMMA ReplacedIsObject ==
    ASSUME NEW m \in Object, NEW n \in Nat, NEW d \in Data
    PROVE  LET obj == [m EXCEPT !.there = TRUE, !.arn = n, !.owner = "other",
                                !.data = d]
           IN  /\ obj \in Object /\ obj.there = TRUE /\ obj.owner = "other"
               /\ obj.ver = m.ver /\ obj.scheduled = m.scheduled
BY DEF Object

(* Every edit preserves the invariant. *)
LEMMA EditPreserves ==
    ASSUME RemoteInv, Edit
    PROVE  RemoteInv'
<1>1. /\ remote \in Object /\ remote.ver \in Nat /\ remote.data \in Data
      /\ remote.scheduled => kind = "aws"
      /\ edits \in Nat
  BY DEF RemoteInv, Types, Object, ObjectInv
<1>2. CASE EditValue
  <2>1. PICK k \in DOMAIN remote.data :
            Edited([remote EXCEPT !.data[k] = "edited"])
    BY <1>2 DEF EditValue
  <2> DEFINE d == [j \in DOMAIN remote.data \cup {k} |->
                       IF j = k THEN "edited" ELSE remote.data[j]]
             obj == [remote EXCEPT !.data = d]
  <2>2. k \in Keys /\ remote.data \in [DOMAIN remote.data -> Values]
    BY <1>1, DataElim
  <2>3. d = [remote.data EXCEPT ![k] = "edited"]
    BY <2>2
  <2>4. d \in Data
    BY <1>1, <2>2, ChangedKeyIsData
  <2> HIDE DEF d
  <2>5. /\ obj \in Object /\ obj.there = remote.there /\ obj.ver = remote.ver
        /\ obj.owner = remote.owner /\ obj.scheduled = remote.scheduled
    BY <1>1, <2>4 DEF Object
  <2>6. Edited(obj)
    BY <2>1, <2>3
  <2> HIDE DEF obj
  <2>7. obj.there
    BY <1>2, <2>5 DEF EditValue
  <2> QED
    BY <1>1, <2>5, <2>6, <2>7, EditedPreserves
<1>3. CASE EditAddKey
  <2>1. PICK k \in Keys :
            Edited([remote EXCEPT !.data =
                [j \in DOMAIN remote.data \cup {k} |->
                     IF j = k THEN "edited" ELSE remote.data[j]]])
    BY <1>3 DEF EditAddKey, Keys
  <2> DEFINE d == [j \in DOMAIN remote.data \cup {k} |->
                       IF j = k THEN "edited" ELSE remote.data[j]]
             obj == [remote EXCEPT !.data = d]
  <2>3. d \in Data
    BY <1>1, ChangedKeyIsData
  <2>4. Edited(obj)
    BY <2>1
  <2> HIDE DEF d
  <2>5. /\ obj \in Object /\ obj.there = remote.there /\ obj.ver = remote.ver
        /\ obj.owner = remote.owner /\ obj.scheduled = remote.scheduled
    BY <1>1, <2>3 DEF Object
  <2> HIDE DEF obj
  <2>6. obj.there
    BY <1>3, <2>5 DEF EditAddKey
  <2> QED
    BY <1>1, <2>4, <2>5, <2>6, EditedPreserves
<1>4. CASE EditFreeze
  <2> DEFINE obj == [remote EXCEPT !.frozen = TRUE]
  <2>1. /\ obj \in Object /\ obj.there = remote.there /\ obj.ver = remote.ver
        /\ obj.owner = remote.owner /\ obj.scheduled = remote.scheduled
    BY <1>1 DEF Object
  <2>2. Edited(obj) /\ remote.there
    BY <1>4 DEF EditFreeze
  <2> HIDE DEF obj
  <2>3. obj.there
    BY <2>1, <2>2
  <2> QED
    BY <1>1, <2>1, <2>2, <2>3, EditedPreserves
<1>5. CASE EditTakeOver
  <2> DEFINE obj == [remote EXCEPT !.owner = "other"]
  <2>1. /\ obj \in Object /\ obj.there = remote.there /\ obj.ver = remote.ver
        /\ obj.owner = "other" /\ obj.scheduled = remote.scheduled
    BY <1>1 DEF Object
  <2>2. Edited(obj) /\ remote.there
    BY <1>5 DEF EditTakeOver
  <2> HIDE DEF obj
  <2>3. obj.there
    BY <2>1, <2>2
  <2> QED
    BY <1>1, <2>1, <2>2, <2>3, EditedPreserves
<1>6. CASE EditReplace
  <2> DEFINE d == [k \in {"payload"} |-> "edited"]
             obj == [Missing EXCEPT !.there = TRUE, !.arn = edits + 1,
                                    !.owner = "other", !.data = d]
  <2>1. d \in [{"payload"} -> Values] /\ {"payload"} \in SUBSET Keys
    BY DEF Values, Keys
  <2>2. d \in Data
    BY <2>1, DataIntro
  <2>3. Edited(obj)
    BY <1>6 DEF EditReplace
  <2> HIDE DEF d
  <2>4. Missing.ver = 0 /\ Missing.scheduled = FALSE
    BY DEF Missing
  <2>5. /\ obj \in Object /\ obj.there = TRUE /\ obj.owner = "other"
        /\ obj.ver = Missing.ver /\ obj.scheduled = Missing.scheduled
    <3>1. edits + 1 \in Nat
      BY <1>1
    <3> QED
      BY <2>2, <3>1, MissingIsObject, ReplacedIsObject
  <2> HIDE DEF obj
  <2>6. obj.ver = 0 /\ ~obj.scheduled /\ obj.there
    BY <2>4, <2>5
  <2> QED
    BY <1>1, <2>3, <2>5, <2>6, EditedPreserves
<1>7. CASE EditRemove
  <2>1. Missing.ver = 0 /\ ~Missing.scheduled /\ Missing.owner = "none"
    BY DEF Missing
  <2>2. Edited(Missing)
    BY <1>7 DEF EditRemove
  <2> QED
    BY <1>1, <2>1, <2>2, MissingIsObject, EditedPreserves
<1> QED
  BY <1>2, <1>3, <1>4, <1>5, <1>6, <1>7 DEF Edit

-----------------------------------------------------------------------------
(* Theorems *)

(* Every step of the specification preserves the invariant. *)
LEMMA NextInv == RemoteInv /\ [Next]_vars => RemoteInv'
<1> SUFFICES ASSUME RemoteInv, [Next]_vars PROVE RemoteInv'
  OBVIOUS
<1>1. ASSUME NEW w \in Worker, Step(w) PROVE RemoteInv'
  BY <1>1, BeginInv, EndInv, ReadPreserves, ReadValuePreserves, CreatePreserves,
     PutPreserves, TagPreserves, RestorePreserves, DeletePreserves DEF Step
<1>2. CASE Edit
  BY <1>2, EditPreserves
<1>3. CASE UNCHANGED vars
  <2>1. UNCHANGED <<kind, readable, overlap, remote, call, edits>>
    BY <1>3 DEF vars
  <2>2. Types'
    BY <2>1 DEF RemoteInv, Types
  <2>3. ObjectInv'
    BY <2>1 DEF RemoteInv, ObjectInv
  <2>4. CallsInv'
    <3>1. \A c \in Worker : CallInv(call[c])'
      BY <2>1, CallUntouched DEF RemoteInv
    <3> QED
      BY <3>1 DEF CallsInv, CallInv
  <2>5. OneCall'
    BY <2>1 DEF RemoteInv, OneCall
  <2> QED
    BY <2>2, <2>3, <2>4, <2>5 DEF RemoteInv
<1> QED
  BY <1>1, <1>2, <1>3 DEF Next

(* The object, what each provider call has seen of it and how far it has   *)
(* come fit together in every reachable state.                             *)
THEOREM RemoteInvariant == Spec => []RemoteInv
BY InitInv, NextInv, PTL DEF Spec

(* The Upsert of each provider reports success only when the destination   *)
(* holds the payload and version of its request, unless somebody else      *)
(* changed the object while it ran.                                        *)
THEOREM SuccessTellsTheTruth == Spec => []SuccessIsValue
<1>1. RemoteInv => SuccessIsValue
  BY DEF RemoteInv, CallsInv, UpsertInv, SuccessIsValue, UpsertDone
<1> QED
  BY <1>1, RemoteInvariant, PTL

(* A step of a provider that changes the object is a write of one call. *)
LEMMA WritingSteps ==
    ASSUME RemoteInv, [Next]_vars, Ours
    PROVE  \E w \in Worker :
               \/ Create(w) /\ ~remote.there /\ remote' = Written(w, Missing)
               \/ Put(w) /\ kind # "aws" /\ PutAccepted(w)
                     /\ remote' = Written(w, remote)
               \/ Put(w) /\ kind = "aws"
                     /\ remote' = [remote EXCEPT !.data = Contents(call[w].ver)]
               \/ Tag(w)
                     /\ remote' = [remote EXCEPT !.owner = "me",
                                       !.ver = call[w].ver,
                                       !.sha = Contents(call[w].ver)]
               \/ Restore(w) /\ remote' = [remote EXCEPT !.scheduled = FALSE]
               \/ Delete(w) /\ PutAccepted(w) /\ remote' = Deleted(remote)
<1>1. edits \in Nat /\ edits' = edits /\ remote' # remote
  BY DEF RemoteInv, Types, Ours
<1>2. PICK w \in Worker : Step(w)
  <2>1. Edit => \E obj : Edited(obj)
    BY Zenon DEF Edit, EditValue, EditAddKey, EditFreeze, EditTakeOver,
                 EditReplace, EditRemove
  <2>2. \A obj : ~Edited(obj)
    BY <1>1 DEF Edited
  <2> QED
    BY <1>1, <2>1, <2>2 DEF Next, vars
<1>3. Create(w) \/ Put(w) \/ Tag(w) \/ Restore(w) \/ Delete(w)
  BY <1>1, <1>2 DEF Step, Begin, Read, ReadValue, End
<1>4. CASE Create(w)
  BY <1>1, <1>4 DEF Create, Apply
<1>5. CASE Put(w)
  BY <1>1, <1>5 DEF Put, Apply
<1>6. CASE Tag(w)
  BY <1>1, <1>6 DEF Tag, Apply
<1>7. CASE Restore(w)
  BY <1>1, <1>7 DEF Restore, Apply
<1>8. CASE Delete(w)
  BY <1>1, <1>8 DEF Delete, Apply
<1> QED
  BY <1>3, <1>4, <1>5, <1>6, <1>7, <1>8

(* The source version in the metadata of an owned object never goes back:  *)
(* remoteSourceVersionNewer together with conditional writes, or with      *)
(* passes that do not overlap.                                             *)
THEOREM VersionsGoForward == Spec => VersionForward
<1>1. ASSUME RemoteInv, [Next]_vars, Ours, Conditional \/ ~overlap,
             remote'.there, remote.owner = "me", remote'.owner = "me"
      PROVE  remote'.ver >= remote.ver
  <2>1. remote \in Object /\ remote.ver \in Nat /\ remote.there
    BY <1>1 DEF RemoteInv, Types, Object, ObjectInv, Missing
  <2>2. PICK w \in Worker :
            \/ Put(w) /\ kind # "aws" /\ PutAccepted(w)
                  /\ remote' = Written(w, remote)
            \/ Put(w) /\ kind = "aws"
                  /\ remote' = [remote EXCEPT !.data = Contents(call[w].ver)]
            \/ Tag(w)
                  /\ remote' = [remote EXCEPT !.owner = "me",
                                    !.ver = call[w].ver,
                                    !.sha = Contents(call[w].ver)]
            \/ Restore(w) /\ remote' = [remote EXCEPT !.scheduled = FALSE]
            \/ Delete(w) /\ PutAccepted(w) /\ remote' = Deleted(remote)
    BY <1>1, <2>1, WritingSteps
  <2>3. ReadInv(call[w]) /\ OwnedInv(call[w]) /\ call[w].ver \in Nat
    BY <1>1 DEF RemoteInv, Types, CallsInv, Call
  <2>4. CASE Put(w) /\ kind # "aws" /\ PutAccepted(w)
                 /\ remote' = Written(w, remote)
    <3>1. remote'.ver = call[w].ver
      BY <2>1, <2>4, WrittenFields
    <3>2. Acting(call[w])
      BY <2>4 DEF Put, Acting
    <3>3. remote.ver <= call[w].ver
      BY <1>1, <2>3, <2>4, <3>2 DEF PutAccepted, ReadInv, OwnedInv
    <3> QED
      BY <2>1, <2>3, <3>1, <3>3
  <2>5. CASE remote' = [remote EXCEPT !.data = Contents(call[w].ver)]
    BY <2>1, <2>5 DEF Object
  <2>6. CASE Tag(w) /\ remote' = [remote EXCEPT !.owner = "me",
                                      !.ver = call[w].ver,
                                      !.sha = Contents(call[w].ver)]
    <3>1. remote'.ver = call[w].ver
      BY <2>1, <2>6 DEF Object
    <3>2. Acting(call[w]) /\ kind = "aws"
      BY <2>3, <2>6 DEF Tag, Acting, ReadInv
    <3>3. remote.ver <= call[w].ver
      BY <1>1, <2>3, <3>2 DEF Conditional, OwnedInv
    <3> QED
      BY <2>1, <2>3, <3>1, <3>3
  <2>7. CASE remote' = [remote EXCEPT !.scheduled = FALSE]
    BY <2>1, <2>7 DEF Object
  <2>8. CASE remote' = Deleted(remote)
    <3>1. kind = "aws"
      BY <1>1, <2>1, <2>8, DeletedFields DEF Missing
    <3>2. remote' = [remote EXCEPT !.scheduled = TRUE]
      BY <2>1, <2>8, <3>1, DeletedFields
    <3> QED
      BY <2>1, <3>2 DEF Object
  <2> QED
    BY <2>2, <2>4, <2>5, <2>6, <2>7, <2>8
<1>2. RemoteInv /\ [Next]_vars =>
          [Ours /\ (Conditional \/ ~overlap) /\ remote'.there
               /\ remote.owner = "me" /\ remote'.owner = "me" =>
                   remote'.ver >= remote.ver]_vars
  BY <1>1
<1> QED
  BY <1>2, RemoteInvariant, PTL DEF Spec, VersionForward

(* mergedDataMap and unmanagedDataKeyConflicts keep the data keys of a     *)
(* shared Secret that the association does not manage.                     *)
THEOREM UnmanagedKeysStay == Spec => UnmanagedKept
<1>1. ASSUME RemoteInv, [Next]_vars, Ours, kind = "k8s_map",
             NEW k \in DOMAIN remote.data \ ManagedKeys(remote)
      PROVE  k \in DOMAIN remote'.data /\ remote'.data[k] = remote.data[k]
  <2>1. remote \in Object
    BY <1>1 DEF RemoteInv, Types
  <2>2. PICK w \in Worker :
            \/ ~remote.there
            \/ Put(w) /\ PutAccepted(w) /\ remote' = Written(w, remote)
            \/ Tag(w)
            \/ Restore(w)
            \/ remote' = Deleted(remote)
    BY <1>1, WritingSteps
  <2>3. ReadInv(call[w])
    BY <1>1 DEF RemoteInv, CallsInv
  <2>4. CASE ~remote.there
    BY <1>1, <2>4 DEF RemoteInv, ObjectInv, Missing, NoData
  <2>5. CASE Put(w) /\ PutAccepted(w) /\ remote' = Written(w, remote)
    <3>1. remote'.data = MergedData(remote, Contents(call[w].ver))
      BY <1>1, <2>1, <2>5, WrittenFields
    <3>2. ~Conflicts(remote, call[w].ver)
      BY <1>1, <2>3, <2>5 DEF Put, PutAccepted, Conditional, ReadInv
    <3>3. k \notin DOMAIN Contents(call[w].ver)
      BY <1>1, <3>2 DEF Conflicts, Contents
    <3> QED
      BY <1>1, <3>1, <3>3 DEF MergedData
  <2>6. CASE Tag(w) \/ Restore(w)
    BY <1>1, <2>3, <2>6 DEF Tag, Restore, ReadInv
  <2>7. CASE remote' = Deleted(remote)
    <3>1. /\ DOMAIN MergedData(remote, NoData)
                 = DOMAIN remote.data \ ManagedKeys(remote)
          /\ MergedData(remote, NoData)[k] = remote.data[k]
      BY <1>1 DEF MergedData, NoData
    <3>2. remote'.data = MergedData(remote, NoData)
      <4>1. DOMAIN MergedData(remote, NoData) # {}
        BY <1>1, <3>1
      <4>2. remote' = [RemoveOwnership(remote) EXCEPT
                           !.data = MergedData(remote, NoData)]
        BY <1>1, <2>7, <4>1 DEF Deleted
      <4> QED
        BY <2>1, <4>2 DEF RemoveOwnership, Object
    <3> QED
      BY <1>1, <3>1, <3>2
  <2> QED
    BY <2>2, <2>4, <2>5, <2>6, <2>7
<1>2. RemoteInv /\ [Next]_vars =>
          [Ours /\ kind = "k8s_map" =>
               \A k \in DOMAIN remote.data \ ManagedKeys(remote) :
                   k \in DOMAIN remote'.data /\ remote'.data[k] = remote.data[k]
          ]_vars
  BY <1>1
<1> QED
  BY <1>2, RemoteInvariant, PTL DEF Spec, UnmanagedKept

(* A call that writes takes a step. *)
LEMMA ApplyMoves ==
    ASSUME Types, NEW w \in Worker, NEW accepted, NEW obj, NEW s,
           Apply(w, accepted, obj, s), call[w].step \notin {s, "failed"}
    PROVE  call'[w].step # call[w].step
<1>1. call \in [Worker -> Call] /\ call[w] \in Call
  BY DEF Types
<1>2. /\ Disturbed(w)[w] = call[w]
      /\ DOMAIN Disturbed(w) = Worker
      /\ Disturbed(w) = [c \in Worker |-> Disturbed(w)[c]]
  BY <1>1 DEF Disturbed
<1>3. ASSUME NEW t, NEW calls \in {call, Disturbed(w)}, GoTo(w, calls, t)
      PROVE  call'[w].step = t
  BY <1>1, <1>2, <1>3 DEF GoTo, Call
<1> QED
  BY <1>3 DEF Apply

(* An object of somebody else is never written or deleted, except, where   *)
(* the service takes no precondition, by a call that read it when it was   *)
(* still owned: ownedByRequest and the resource version.                   *)
THEOREM ForeignObjectsStay == Spec => ForeignUntouched
<1>1. ASSUME RemoteInv, [Next]_vars, Ours, remote.there,
             ~(remote.owner = "me")
      PROVE  /\ ~Conditional
             /\ \E w \in Worker : call[w].step # call'[w].step /\ ~call[w].clean
  <2>1. PICK w \in Worker :
            \/ Put(w) /\ (kind # "aws" => PutAccepted(w))
            \/ Tag(w)
            \/ Restore(w)
            \/ Delete(w) /\ PutAccepted(w)
    BY <1>1, WritingSteps
  <2>2. ReadInv(call[w]) /\ OwnedInv(call[w])
    BY <1>1 DEF RemoteInv, CallsInv
  <2>3. Acting(call[w])
    BY <2>1 DEF Put, Tag, Restore, Delete, Acting
  <2>4. ~call[w].clean
    BY <1>1, <2>2, <2>3 DEF OwnedInv
  <2>5. ~Conditional
    BY <1>1, <2>1, <2>2, <2>3
       DEF Put, Tag, Restore, Delete, PutAccepted, Conditional, ReadInv
  <2>6. call'[w].step # call[w].step
    <3>1. Types
      BY <1>1 DEF RemoteInv
    <3>2. CASE Put(w)
      BY <3>1, <3>2, ApplyMoves DEF Put
    <3>3. CASE Tag(w)
      BY <3>1, <3>3, ApplyMoves DEF Tag
    <3>4. CASE Restore(w)
      <4>1. CompareAWS(call[w].seen, call[w].ver) # "restore"
        BY DEF CompareAWS, UpsertAWS
      <4> QED
        BY <3>1, <3>4, <4>1, ApplyMoves DEF Restore
    <3>5. CASE Delete(w)
      BY <3>1, <3>5, ApplyMoves DEF Delete
    <3> QED
      BY <2>1, <3>2, <3>3, <3>4, <3>5
  <2> QED
    BY <2>4, <2>5, <2>6
<1>2. RemoteInv /\ [Next]_vars =>
          [Ours /\ remote.there /\ ~(remote.owner = "me") =>
               /\ ~Conditional
               /\ \E w \in Worker :
                      call[w].step # call'[w].step /\ ~call[w].clean
          ]_vars
  BY <1>1
<1> QED
  BY <1>2, RemoteInvariant, PTL DEF Spec, ForeignUntouched

(* What plan and reconcile report of an object is what an upsert would do  *)
(* to it: Plan, ReadState and Upsert of each provider compare the object   *)
(* in their own code.                                                      *)
THEOREM ReadersForetell == Spec => []ReadersAgree
<1>1. ASSUME RemoteInv, NEW v \in Versions
      PROVE  LET plan == Plan(remote, v)
                 state == ReconcileState(ReadState(remote), v)
                 step == AfterUpsertRead(remote, v)
                 last == IF step = "value" THEN UpsertAWS(remote, remote.data, v)
                         ELSE step
             IN  /\ (plan = "noop") = (last = "ok")
                 /\ (plan = "create") = (last = "create")
                 /\ (plan \in {"conflict", "blocked"}) = (last = "failed")
                 /\ last = "ok" => state = "SYNCED"
                 /\ state = "DRIFTED" => last # "ok"
                 /\ state = "SYNCED" => last # "failed"
                 /\ state = "SYNCED" /\ Trustworthy => Holds(v)
  <2> DEFINE plan == Plan(remote, v)
             state == ReconcileState(ReadState(remote), v)
             step == AfterUpsertRead(remote, v)
             last == IF step = "value" THEN UpsertAWS(remote, remote.data, v)
                     ELSE step
             pays == PayloadMatches(remote, remote.data, v)
             meta == MetadataMatches(remote, v)
  <2>1. /\ remote \in Object /\ remote.ver \in Nat /\ v \in Nat /\ v > 0
        /\ remote.there \in BOOLEAN /\ remote.scheduled \in BOOLEAN
        /\ remote.frozen \in BOOLEAN /\ readable \in BOOLEAN
        /\ kind \in {"aws", "gitlab", "k8s", "k8s_map"}
        /\ remote.owner = "me" => remote.ver > 0
        /\ remote.scheduled => kind = "aws"
    BY <1>1, RemoteObjectAssumption
       DEF RemoteInv, Types, Object, ObjectInv, AllKinds
  <2>2. pays \in BOOLEAN /\ meta \in BOOLEAN /\ (meta => remote.ver = v)
    BY DEF PayloadMatches, MetadataMatches
  <2> DEFINE sha == IF kind = "aws"
                    THEN IF readable /\ remote.owner = "me" THEN remote.data
                         ELSE remote.sha
                    ELSE IF kind = "gitlab"
                    THEN IF readable THEN remote.data ELSE remote.sha
                    ELSE IF kind = "k8s_map"
                    THEN Restricted(remote.data, remote.managed)
                    ELSE remote.data
  <2>4. remote.owner = "me" => pays = (sha = Contents(v))
    BY <2>1 DEF PayloadMatches
  <2>5. state = IF ~remote.there \/ remote.scheduled THEN "REMOTE_MISSING"
                ELSE IF remote.owner # "me" THEN "REMOTE_OWNERSHIP_LOST"
                ELSE IF remote.ver > 0 /\ remote.ver # v THEN "DRIFTED"
                ELSE IF sha = Contents(v) THEN "SYNCED"
                ELSE IF sha # NoData THEN "DRIFTED"
                ELSE "UNKNOWN"
    <3>1. CASE kind = "aws"
      BY <2>1, <3>1 DEF ReconcileState, ReadState, ReadStateAWS, OwnedByRequest
    <3>2. CASE kind = "gitlab"
      BY <2>1, <3>2
         DEF ReconcileState, ReadState, ReadStateGitLab, OwnedByRequest
    <3>3. CASE kind \in {"k8s", "k8s_map"}
      BY <2>1, <3>3
         DEF ReconcileState, ReadState, ReadStateKubernetes, OwnedByRequest
    <3> QED
      BY <2>1, <3>1, <3>2, <3>3
  <2>6. state = "SYNCED" =>
            /\ remote.there /\ ~remote.scheduled /\ remote.owner = "me"
            /\ remote.ver = v /\ pays
    BY <2>1, <2>4, <2>5
  <2>8. pays /\ kind = "k8s_map" => ~Conflicts(remote, v)
    <3>1. pays /\ kind = "k8s_map" => MapKeys[v] \subseteq remote.managed
      BY DEF PayloadMatches, Restricted, Contents
    <3> QED
      BY <3>1 DEF Conflicts, ManagedKeys
  <2>9. state = "SYNCED" /\ Trustworthy => Holds(v)
    <3>1. CASE kind = "k8s_map"
      BY <2>6, <3>1 DEF PayloadMatches, Holds, Restricted, Contents
    <3>2. CASE kind # "k8s_map"
      <4>1. state = "SYNCED" /\ Trustworthy => remote.data = Contents(v)
        BY <1>1, <2>1, <2>6, <3>2
           DEF PayloadMatches, Trustworthy, RemoteInv, ObjectInv
      <4>2. Restricted(Contents(v), DOMAIN Contents(v)) = Contents(v)
        BY DEF Restricted, Contents
      <4> QED
        BY <2>6, <4>1, <4>2 DEF Holds
    <3> QED
      BY <3>1, <3>2
  <2>10. Conflicts(remote, v) \in BOOLEAN
           /\ (Conflicts(remote, v) => kind = "k8s_map")
    BY DEF Conflicts
  <2> HIDE DEF pays, meta, sha
  <2>11. last = IF ~remote.there THEN "create"
                ELSE IF remote.owner # "me" \/ remote.ver > v THEN "failed"
                ELSE IF kind = "aws"
                THEN IF remote.scheduled THEN "restore"
                     ELSE IF ~pays THEN "put"
                     ELSE IF ~meta THEN "tag"
                     ELSE "ok"
                ELSE IF pays /\ meta THEN "ok"
                ELSE IF kind = "gitlab" THEN "put"
                ELSE IF ~pays /\ remote.frozen THEN "failed"
                ELSE IF Conflicts(remote, v) THEN "failed"
                ELSE "put"
    <3>1. CASE kind = "aws"
      BY <2>1, <2>2, <3>1 DEF AfterUpsertRead, CompareAWS, UpsertAWS,
                 OwnedByRequest, RemoteSourceVersionNewer, pays, meta
    <3>2. CASE kind = "gitlab"
      BY <2>1, <2>2, <3>2 DEF AfterUpsertRead, UpsertGitLab,
                 OwnedByRequest, RemoteSourceVersionNewer, pays, meta
    <3>3. CASE kind = "k8s"
      BY <2>1, <2>2, <2>10, <3>3 DEF AfterUpsertRead, UpsertKubernetes,
                 OwnedByRequest, RemoteSourceVersionNewer, pays, meta
    <3>4. CASE kind = "k8s_map"
      BY <2>1, <2>2, <2>10, <3>4 DEF AfterUpsertRead, UpsertDataMap,
                 OwnedByRequest, RemoteSourceVersionNewer, pays, meta
    <3> QED
      BY <2>1, <3>1, <3>2, <3>3, <3>4
  <2>12. plan = IF ~remote.there THEN "create"
                ELSE IF remote.owner # "me" THEN "conflict"
                ELSE IF remote.ver > v THEN "blocked"
                ELSE IF kind \in {"aws", "gitlab"}
                THEN IF ~remote.scheduled /\ pays /\ meta THEN "noop"
                     ELSE "update"
                ELSE IF Conflicts(remote, v) THEN "conflict"
                ELSE IF pays /\ meta THEN "noop"
                ELSE IF ~pays /\ remote.frozen THEN "blocked"
                ELSE "update"
    <3>1. CASE kind = "aws"
      BY <2>1, <2>2, <3>1 DEF Plan, PlanAWS, OwnedByRequest,
                 RemoteSourceVersionNewer, pays, meta
    <3>2. CASE kind = "gitlab"
      BY <2>1, <2>2, <3>2 DEF Plan, PlanGitLab, OwnedByRequest,
                 RemoteSourceVersionNewer, pays, meta
    <3>3. CASE kind \in {"k8s", "k8s_map"}
      BY <2>1, <2>2, <3>3 DEF Plan, PlanKubernetes, OwnedByRequest,
                 RemoteSourceVersionNewer, pays, meta
    <3> QED
      BY <2>1, <3>1, <3>2, <3>3
  <2> HIDE DEF plan, state, last
  <2>13. /\ (plan = "noop") = (last = "ok")
         /\ (plan = "create") = (last = "create")
         /\ (plan \in {"conflict", "blocked"}) = (last = "failed")
    BY <2>1, <2>2, <2>8, <2>10, <2>11, <2>12
  <2>14. last = "ok" => state = "SYNCED"
    BY <2>1, <2>2, <2>4, <2>5, <2>11
  <2>15. state = "SYNCED" => last # "failed"
    BY <2>1, <2>6, <2>8, <2>10, <2>11
  <2> QED
    BY <2>9, <2>13, <2>14, <2>15 DEF plan, state, last
<1>2. RemoteInv => ReadersAgree
  BY <1>1 DEF ReadersAgree
<1> QED
  BY <1>2, RemoteInvariant, PTL
=============================================================================
