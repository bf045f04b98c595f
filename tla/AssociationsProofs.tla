------------------------- MODULE AssociationsProofs -------------------------
(***************************************************************************)
(* Proofs about Associations for every set of requests, associations,      *)
(* destinations, names and keys, any number of faults included.            *)
(*                                                                         *)
(* What is said of a request is said of its four parts: h the locks it     *)
(* holds, w the associations it is about, t what it has still to do and u  *)
(* how it is undone.  These operators take the stored state they depend on *)
(* as arguments.                                                           *)
(***************************************************************************)
EXTENDS Associations, SequenceTheorems, TLAPS

-----------------------------------------------------------------------------
(* Types *)

Configs == Config \cup {0, DefaultConfig}

AssocRecord == [live : BOOLEAN, enabled : BOOLEAN, config : Configs,
                names : SUBSET Name]
DestRecord == [live : BOOLEAN, disabled : BOOLEAN, secret : Nat]

IndexEntries == [by : {"destination", "name"}, of : Assoc, name : Name]

LoopSteps == [do : {"put", "del"}, keys : SUBSET IndexEntries]

Steps ==
    LoopSteps
        \cup [do : {"store"}, id : Assoc, to : AssocRecord]
        \cup [do : {"enqueue"}, for : SUBSET Assoc]
        \cup [do : {"cancel"}, id : Assoc]
        \cup [do : {"eligible"}, path : Path, on : BOOLEAN]
        \cup [do : {"refresh"}, ids : SUBSET Assoc, keys : SUBSET Key]
        \cup [do : {"commit"}, path : Path, keys : SUBSET Key, for : SUBSET Assoc]
        \cup [do : {"putSecret", "delSecret"}, secret : [of : Dest, version : Nat]]
        \cup [do : {"delSecrets"}, of : Dest]
        \cup [do : {"destination"}, name : Dest, to : DestRecord]

Locks == {SourceLock(p) : p \in Path} \cup {NameLock(a) : a \in Assoc}
             \cup {DestLock(d) : d \in Dest}

Drafts == [phase : {"draft"}, id : Assoc,
           fields : [enabled : BOOLEAN, config : Configs]]

Runs == [phase : {"run"}, held : SUBSET Locks, touched : SUBSET Assoc,
         todo : Seq(Steps) \ {<< >>}, undo : Seq(Steps)]

TypeOK ==
    /\ rec \in [Assoc -> AssocRecord]
    /\ dest \in [Dest -> DestRecord]
    /\ data \in [Path -> SUBSET Key]
    /\ eligible \in [Path -> BOOLEAN]
    /\ client \in [Client -> {Idle} \cup Drafts \cup Runs]
    /\ fresh \in Nat

(* Different kinds of steps have different fields. *)
LEMMA StepFields ==
    ASSUME NEW s \in Steps
    PROVE  /\ s.do \in {"put", "del"} => s \in LoopSteps
           /\ s.do = "store" => s.id \in Assoc /\ s.to \in AssocRecord
           /\ s.do = "enqueue" => s.for \subseteq Assoc
           /\ s.do = "cancel" => s.id \in Assoc
           /\ s.do = "eligible" => s.path \in Path /\ s.on \in BOOLEAN
           /\ s.do = "refresh" => s.ids \subseteq Assoc /\ s.keys \subseteq Key
           /\ s.do = "commit" =>
                  s.path \in Path /\ s.keys \subseteq Key /\ s.for \subseteq Assoc
           /\ s.do \in {"putSecret", "delSecret"} =>
                  s.secret \in [of : Dest, version : Nat]
           /\ s.do = "delSecrets" => s.of \in Dest
           /\ s.do = "destination" => s.name \in Dest /\ s.to \in DestRecord
BY DEF Steps, LoopSteps

LEMMA StepTypes ==
    /\ \A ks \in SUBSET IndexEntries : PutKeys(ks) \in Steps /\ DelKeys(ks) \in Steps
    /\ \A a \in Assoc, r \in AssocRecord : Store(a, r) \in Steps
    /\ \A as \in SUBSET Assoc : Enqueue(as) \in Steps
    /\ \A a \in Assoc : CancelQueued(a) \in Steps
    /\ \A p \in Path, on \in BOOLEAN : SetEligible(p, on) \in Steps
    /\ \A as \in SUBSET Assoc, ks \in SUBSET Key : Refresh(as, ks) \in Steps
    /\ \A p \in Path, as \in SUBSET Assoc, ks \in SUBSET Key :
           Commit(p, ks, as) \in Steps
    /\ \A d \in Dest, v \in Nat : /\ PutSecret(Secret(d, v)) \in Steps
                                  /\ DelSecret(Secret(d, v)) \in Steps
    /\ \A d \in Dest : DelSecrets(d) \in Steps
    /\ \A d \in Dest, r \in DestRecord : StoreDest(d, r) \in Steps
<1>1. \A ks \in SUBSET IndexEntries : PutKeys(ks) \in Steps /\ DelKeys(ks) \in Steps
  BY DEF PutKeys, DelKeys, Steps, LoopSteps
<1>2. \A a \in Assoc, r \in AssocRecord : Store(a, r) \in Steps
  BY DEF Store, Steps
<1>3. /\ \A as \in SUBSET Assoc : Enqueue(as) \in Steps
      /\ \A a \in Assoc : CancelQueued(a) \in Steps
  BY DEF Enqueue, CancelQueued, Steps
<1>4. \A p \in Path, on \in BOOLEAN : SetEligible(p, on) \in Steps
  BY DEF SetEligible, Steps
<1>5. \A as \in SUBSET Assoc, ks \in SUBSET Key : Refresh(as, ks) \in Steps
  BY DEF Refresh, Steps
<1>6. \A p \in Path, as \in SUBSET Assoc, ks \in SUBSET Key :
          Commit(p, ks, as) \in Steps
  BY DEF Commit, Steps
<1>7. \A d \in Dest, v \in Nat : /\ PutSecret(Secret(d, v)) \in Steps
                                 /\ DelSecret(Secret(d, v)) \in Steps
  BY DEF PutSecret, DelSecret, Secret, Steps
<1>8. \A d \in Dest : DelSecrets(d) \in Steps
  BY DEF DelSecrets, Steps
<1>9. \A d \in Dest, r \in DestRecord : StoreDest(d, r) \in Steps
  BY DEF StoreDest, Steps
<1> QED BY <1>1, <1>2, <1>3, <1>4, <1>5, <1>6, <1>7, <1>8, <1>9

-----------------------------------------------------------------------------
(* Sequences of steps *)

LEMMA TailFacts ==
    ASSUME NEW S, NEW t \in Seq(S), t # << >>
    PROVE  /\ Len(t) \in Nat \ {0}
           /\ DOMAIN t = 1..Len(t)
           /\ Head(t) = t[1] /\ t[1] \in S
           /\ Tail(t) \in Seq(S)
           /\ Len(Tail(t)) = Len(t) - 1
           /\ DOMAIN Tail(t) = 1..(Len(t) - 1)
           /\ \A i \in DOMAIN Tail(t) : i + 1 \in DOMAIN t /\ Tail(t)[i] = t[i + 1]
           /\ \A i \in DOMAIN t : i # 1 => /\ i - 1 \in DOMAIN Tail(t)
                                           /\ Tail(t)[i - 1] = t[i]
OBVIOUS

LEMMA HeadChanged ==
    ASSUME NEW S, NEW t \in Seq(S), t # << >>, NEW e \in S,
           NEW v, v = << e >> \o Tail(t)
    PROVE  /\ v \in Seq(S) /\ v # << >>
           /\ Len(v) = Len(t)
           /\ DOMAIN v = DOMAIN t
           /\ v[1] = e
           /\ \A i \in DOMAIN t : i # 1 => v[i] = t[i]
OBVIOUS

LEMMA OneMore ==
    ASSUME NEW S, NEW a \in S, NEW b \in S, NEW c \in S, NEW e \in S
    PROVE  /\ << a, b, c >> \o << e >> = << a, b, c, e >>
           /\ << e >> \o << a, b, c >> = << e, a, b, c >>
           /\ << a, b, c >> \o << >> = << a, b, c >>
<1>1. << a, b, c >> \o << e >> = << a, b, c, e >>
  <2> DEFINE v == << a, b, c >> \o << e >>
             x == << a, b, c, e >>
  <2>1. v \in Seq(S) /\ Len(v) = 4 /\ v[1] = a /\ v[2] = b /\ v[3] = c /\ v[4] = e
    OBVIOUS
  <2>2. x \in Seq(S) /\ Len(x) = 4 /\ x[1] = a /\ x[2] = b /\ x[3] = c /\ x[4] = e
    OBVIOUS
  <2> HIDE DEF v, x
  <2>3. \A i \in 1..Len(v) : v[i] = x[i]
    BY <2>1, <2>2
  <2>4. v = x
    BY <2>1, <2>2, <2>3, SeqEqual
  <2> QED BY <2>4 DEF v, x
<1>2. << e >> \o << a, b, c >> = << e, a, b, c >>
  <2> DEFINE v == << e >> \o << a, b, c >>
             x == << e, a, b, c >>
  <2>1. v \in Seq(S) /\ Len(v) = 4 /\ v[1] = e /\ v[2] = a /\ v[3] = b /\ v[4] = c
    OBVIOUS
  <2>2. x \in Seq(S) /\ Len(x) = 4 /\ x[1] = e /\ x[2] = a /\ x[3] = b /\ x[4] = c
    OBVIOUS
  <2> HIDE DEF v, x
  <2>3. \A i \in 1..Len(v) : v[i] = x[i]
    BY <2>1, <2>2
  <2>4. v = x
    BY <2>1, <2>2, <2>3, SeqEqual
  <2> QED BY <2>4 DEF v, x
<1>3. << a, b, c >> \o << >> = << a, b, c >>
  OBVIOUS
<1> QED BY <1>1, <1>2, <1>3

LEMMA TwoSteps ==
    ASSUME NEW S, NEW a \in S, NEW e \in S
    PROVE  << a >> \o << e >> = << a, e >>
<1> DEFINE v == << a >> \o << e >>
           x == << a, e >>
<1>1. v \in Seq(S) /\ Len(v) = 2 /\ v[1] = a /\ v[2] = e
  OBVIOUS
<1>2. x \in Seq(S) /\ Len(x) = 2 /\ x[1] = a /\ x[2] = e
  OBVIOUS
<1> HIDE DEF v, x
<1>3. \A i \in 1..Len(v) : v[i] = x[i]
  BY <1>1, <1>2
<1>4. v = x
  BY <1>1, <1>2, <1>3, SeqEqual
<1> QED BY <1>4 DEF v, x

LEMMA TupleFacts ==
    ASSUME NEW S, NEW a \in S, NEW b \in S, NEW c \in S, NEW e \in S
    PROVE  /\ << a, b, c >> \in Seq(S) \ {<< >>} /\ Len(<< a, b, c >>) = 3
           /\ DOMAIN << a, b, c >> = 1..3
           /\ << a, b, c >>[1] = a /\ << a, b, c >>[2] = b /\ << a, b, c >>[3] = c
           /\ << a, b, c, e >> \in Seq(S) \ {<< >>} /\ Len(<< a, b, c, e >>) = 4
           /\ DOMAIN << a, b, c, e >> = 1..4
           /\ << a, b, c, e >>[1] = a /\ << a, b, c, e >>[2] = b
           /\ << a, b, c, e >>[3] = c /\ << a, b, c, e >>[4] = e
OBVIOUS

(* The todo of a data write after one round of its loop. *)
LEMMA TwoMore ==
    ASSUME NEW S, NEW a \in S, NEW b \in S, NEW c \in S, NEW e \in S,
           NEW t \in Seq(S), Len(t) = 2
    PROVE  << a, b, c >> \o << e >> \o Tail(t) = << a, b, c, e, t[2] >>
<1> DEFINE v == << a, b, c >> \o << e >> \o Tail(t)
           x == << a, b, c, e, t[2] >>
           y == << a, b, c, e >>
<1>1. Tail(t) \in Seq(S) /\ Len(Tail(t)) = 1 /\ Tail(t)[1] = t[2] /\ t[2] \in S
  OBVIOUS
<1>2. v = y \o Tail(t) /\ y \in Seq(S) /\ Len(y) = 4
      /\ y[1] = a /\ y[2] = b /\ y[3] = c /\ y[4] = e
  BY OneMore
<1> HIDE DEF y, v
<1>3. v \in Seq(S) /\ Len(v) = 5
      /\ v[1] = a /\ v[2] = b /\ v[3] = c /\ v[4] = e /\ v[5] = t[2]
  <2> DEFINE z == Tail(t)
  <2> HIDE DEF z
  <2>1. v = y \o z /\ z \in Seq(S) /\ Len(z) = 1 /\ z[1] = t[2]
    BY <1>1, <1>2 DEF z
  <2>2. /\ y \o z \in Seq(S) /\ Len(y \o z) = Len(y) + Len(z)
        /\ \A i \in 1..Len(y) + Len(z) :
               (y \o z)[i] = IF i <= Len(y) THEN y[i] ELSE z[i - Len(y)]
    BY <2>1, <1>2, ConcatProperties
  <2>3. \A i \in 1..5 : v[i] = IF i <= 4 THEN y[i] ELSE z[i - 4]
    BY <2>1, <2>2, <1>2
  <2> QED BY <2>1, <2>2, <2>3, <1>2
<1>4. x \in Seq(S) /\ Len(x) = 5
      /\ x[1] = a /\ x[2] = b /\ x[3] = c /\ x[4] = e /\ x[5] = t[2]
  BY <1>1
<1> HIDE DEF x
<1>5. \A i \in 1..Len(v) : v[i] = x[i]
  BY <1>3, <1>4
<1>6. v = x
  BY <1>3, <1>4, <1>5, SeqEqual
<1> QED BY <1>6 DEF v, x

-----------------------------------------------------------------------------
(* Locks and shapes *)

(* Requests in progress hold different locks. *)
LocksApart ==
    \A c1, c2 \in Client :
        c1 # c2 /\ client[c1] \in Runs /\ client[c2] \in Runs =>
            client[c1].held \cap client[c2].held = {}

HasPath(h, a) == SourceLock(PathOf[a]) \in h

(* A request holds the locks of what step s of it reads and changes. *)
StepHeld(h, w, s) ==
    /\ s.do \in {"put", "del"} => \A k \in s.keys : HasPath(h, k.of)
    /\ s.do = "store" => HasPath(h, s.id) /\ s.id \in w
    /\ s.do = "enqueue" => \A a \in s.for : HasPath(h, a)
    /\ s.do = "cancel" => HasPath(h, s.id) /\ s.id \in w
    /\ s.do = "refresh" => \A a \in s.ids : HasPath(h, a) /\ a \in w
    /\ s.do = "commit" => /\ SourceLock(s.path) \in h
                          /\ \A a \in s.for : PathOf[a] = s.path
    /\ s.do \in {"putSecret", "delSecret"} => h = {DestLock(s.secret.of)}
    /\ s.do = "delSecrets" => h = {DestLock(s.of)}
    /\ s.do = "destination" => h = {DestLock(s.name)}

StepsHeld(h, w, t) == \A i \in DOMAIN t : StepHeld(h, w, t[i])

StoreAt(t, i, a) == i \in DOMAIN t /\ t[i].do = "store" /\ t[i].id = a

StoresOnce(t) ==
    \A i, j \in DOMAIN t :
        t[i].do = "store" /\ t[j].do = "store" /\ t[i].id = t[j].id => i = j

EnqueuesLast(t) ==
    \A i \in DOMAIN t : t[i].do \in {"enqueue", "commit"} => i = Len(t)

DestinationOnce(t) ==
    \A i, j \in DOMAIN t :
        t[i].do = "destination" /\ t[j].do = "destination" => i = j

(* The loop of a data write is followed by the commit alone, and an        *)
(* association that is being put is no longer to be refreshed.             *)
RefreshShape(t, u) ==
    \A i \in DOMAIN t : t[i].do = "refresh" =>
        /\ u = << >>
        /\ i + 1 = Len(t) /\ t[i + 1].do = "commit"
        /\ \A j \in DOMAIN t : t[j].do = "store" => t[j].id \notin t[i].ids

(* An undo puts a record back before it deletes index entries, and a       *)
(* request that undoes a record has stored one.                            *)
UndoShape(t, u) ==
    \A i \in DOMAIN u :
        /\ u[i].do \in {"put", "store", "del", "eligible", "delSecret"}
        /\ u[i].do = "store" =>
               \A j \in DOMAIN t : t[j].do = "store" => t[j].to.live
        /\ u[i].do = "del" => \A k \in u[i].keys :
               \E j \in 1..(i - 1) : /\ StoreAt(u, j, k.of)
                                     /\ k \notin IndexKeys(k.of, u[j].to)
        /\ u[i].do = "delSecret" => \A j \in DOMAIN t : t[j].do # "enqueue"

Shape(t, u) ==
    /\ StoresOnce(t) /\ StoresOnce(u)
    /\ EnqueuesLast(t)
    /\ DestinationOnce(t)
    /\ RefreshShape(t, u)
    /\ UndoShape(t, u)

Planned(h, w, t, u) ==
    /\ StepsHeld(h, w, t) /\ StepsHeld(h, w, u)
    /\ Shape(t, u)

BaseInv ==
    /\ TypeOK
    /\ LocksApart
    /\ \A c \in Client : client[c] \in Runs =>
           Planned(client[c].held, client[c].touched, client[c].todo,
                   client[c].undo)

(* What is left of a request once a step is done. *)
LEMMA PlannedTail ==
    ASSUME NEW h, NEW w, NEW t \in Seq(Steps), NEW u \in Seq(Steps), t # << >>,
           Planned(h, w, t, u)
    PROVE  Planned(h, w, Tail(t), u)
<1> DEFINE v == Tail(t)
<1>1. /\ Len(t) \in Nat \ {0} /\ DOMAIN t = 1..Len(t)
      /\ Len(v) = Len(t) - 1 /\ DOMAIN v = 1..(Len(t) - 1)
      /\ \A i \in DOMAIN v : i + 1 \in DOMAIN t /\ v[i] = t[i + 1]
  BY TailFacts
<1> HIDE DEF v
<1>2. StepsHeld(h, w, v) /\ StepsHeld(h, w, u)
  BY <1>1 DEF Planned, StepsHeld
<1>3. StoresOnce(v) /\ StoresOnce(u)
  BY <1>1 DEF Planned, Shape, StoresOnce
<1>4. EnqueuesLast(v)
  BY <1>1 DEF Planned, Shape, EnqueuesLast
<1>5. DestinationOnce(v)
  BY <1>1 DEF Planned, Shape, DestinationOnce
<1>6. RefreshShape(v, u)
  BY <1>1 DEF Planned, Shape, RefreshShape
<1>7. UndoShape(v, u)
  BY <1>1 DEF Planned, Shape, UndoShape
<1> QED BY <1>2, <1>3, <1>4, <1>5, <1>6, <1>7 DEF Planned, Shape, v

(* One round of a loop over index entries takes an entry from the first    *)
(* step, ...                                                               *)
RoundOf(t, k, v) ==
    /\ v \in Seq(Steps) \ {<< >>}
    /\ Len(v) = Len(t) /\ DOMAIN v = DOMAIN t
    /\ 1 \in DOMAIN t
    /\ t[1].do \in {"put", "del"}
    /\ v[1].do = t[1].do /\ v[1].keys = t[1].keys \ {k}
    /\ \A i \in DOMAIN t : v[i].do = t[i].do
    /\ \A i \in DOMAIN t : i # 1 \/ t[i].do \notin {"put", "del"} => v[i] = t[i]

LEMMA RoundFacts ==
    ASSUME NEW t \in Seq(Steps), t # << >>,
           t[1].do \in {"put", "del"}, NEW k
    PROVE  RoundOf(t, k, << [t[1] EXCEPT !.keys = @ \ {k}] >> \o Tail(t))
<1> DEFINE e == [t[1] EXCEPT !.keys = @ \ {k}]
           v == << e >> \o Tail(t)
<1>1. t[1] \in LoopSteps
  BY StepFields, TailFacts
<1>2. e \in LoopSteps /\ e.do = t[1].do /\ e.keys = t[1].keys \ {k}
  BY <1>1 DEF LoopSteps
<1>3. e \in Steps
  BY <1>2 DEF Steps
<1> HIDE DEF e
<1>4. /\ v \in Seq(Steps) /\ v # << >>
      /\ Len(v) = Len(t) /\ DOMAIN v = DOMAIN t /\ v[1] = e
      /\ \A i \in DOMAIN t : i # 1 => v[i] = t[i]
  BY <1>3, HeadChanged
<1>5. 1 \in DOMAIN t
  BY TailFacts
<1> HIDE DEF v
<1>6. RoundOf(t, k, v)
  BY <1>2, <1>4, <1>5 DEF RoundOf
<1> QED BY <1>6 DEF v, e

(* ... and leaves the shape as it is. *)
LEMMA PlannedRound ==
    ASSUME NEW h, NEW w, NEW t \in Seq(Steps), NEW u \in Seq(Steps),
           Planned(h, w, t, u), NEW k, NEW v, RoundOf(t, k, v)
    PROVE  Planned(h, w, v, u)
<1>1. StepsHeld(h, w, v)
  <2> SUFFICES ASSUME NEW i \in DOMAIN v PROVE StepHeld(h, w, v[i])
    BY DEF StepsHeld
  <2>1. i \in DOMAIN t /\ StepHeld(h, w, t[i])
    BY DEF Planned, StepsHeld, RoundOf
  <2>2. CASE i # 1
    BY <2>1, <2>2 DEF RoundOf
  <2>3. CASE i = 1
    BY <2>1, <2>3 DEF StepHeld, RoundOf
  <2> QED BY <2>2, <2>3
<1>2. StoresOnce(v)
  BY DEF Planned, Shape, StoresOnce, RoundOf
<1>3. EnqueuesLast(v) /\ DestinationOnce(v)
  BY DEF Planned, Shape, EnqueuesLast, DestinationOnce, RoundOf
<1>4. RefreshShape(v, u)
  <2> SUFFICES ASSUME NEW i \in DOMAIN v, v[i].do = "refresh"
               PROVE  /\ u = << >>
                      /\ i + 1 = Len(v) /\ v[i + 1].do = "commit"
                      /\ \A j \in DOMAIN v :
                             v[j].do = "store" => v[j].id \notin v[i].ids
    BY DEF RefreshShape
  <2>1. i \in DOMAIN t /\ t[i].do = "refresh" /\ v[i] = t[i]
    BY DEF RoundOf
  <2>2. /\ u = << >>
        /\ i + 1 = Len(t) /\ t[i + 1].do = "commit"
        /\ \A j \in DOMAIN t : t[j].do = "store" => t[j].id \notin t[i].ids
    BY <2>1 DEF Planned, Shape, RefreshShape
  <2>3. i + 1 \in DOMAIN t
    BY <2>1, <2>2, LenProperties
  <2> QED BY <2>1, <2>2, <2>3 DEF RoundOf
<1>5. UndoShape(v, u)
  BY DEF Planned, Shape, UndoShape, RoundOf
<1> QED BY <1>1, <1>2, <1>3, <1>4, <1>5 DEF Planned, Shape

(* What a request has to do once it turns to its undo. *)
LEMMA PlannedUndo ==
    ASSUME NEW h, NEW w, NEW t \in Seq(Steps), NEW u \in Seq(Steps), t # << >>,
           Planned(h, w, t, u), t[1].do \in {"enqueue", "destination"}
    PROVE  /\ Planned(h, w, u, << >>)
           /\ \A i \in DOMAIN t : t[i].do # "store"
           /\ t[1].do = "enqueue" => Len(t) = 1
           /\ \A i \in DOMAIN u :
                  u[i].do \in {"put", "store", "del", "eligible", "delSecret"}
<1>1. /\ Len(t) \in Nat \ {0} /\ DOMAIN t = 1..Len(t) /\ 1 \in DOMAIN t
  BY TailFacts
<1>2. StepsHeld(h, w, << >>)
  BY DEF StepsHeld
<1>3. \A i \in DOMAIN u :
          u[i].do \in {"put", "store", "del", "eligible", "delSecret"}
  BY DEF Planned, Shape, UndoShape
<1>4. EnqueuesLast(u) /\ DestinationOnce(u) /\ RefreshShape(u, << >>)
  BY <1>3 DEF EnqueuesLast, DestinationOnce, RefreshShape
<1>5. StoresOnce(<< >>) /\ UndoShape(u, << >>)
  BY DEF StoresOnce, UndoShape
<1>6. t[1].do = "enqueue" => Len(t) = 1
  BY <1>1 DEF Planned, Shape, EnqueuesLast
<1>7. t[1].do = "destination" => \A i \in DOMAIN t : t[i].do # "store"
  BY <1>1 DEF Planned, StepsHeld, StepHeld, HasPath, SourceLock, DestLock
<1>8. \A i \in DOMAIN t : t[i].do # "store"
  BY <1>1, <1>6, <1>7
<1> QED BY <1>2, <1>3, <1>4, <1>5, <1>6, <1>8 DEF Planned, Shape

-----------------------------------------------------------------------------
(* The plans of requests about one association *)

(* t stores a record for a, as its step j, in place of `old`: the index    *)
(* entries that are new go first, entries are deleted last.                *)
Putting(t, j, a, old, new) ==
    /\ StoreAt(t, j, a) /\ t[j].to = new
    /\ \A i \in DOMAIN t :
           /\ t[i].do = "store" => i = j
           /\ t[i].do = "put" => \A k \in t[i].keys : k.of = a
           /\ t[i].do = "del" =>
                  i > j /\ \A k \in t[i].keys : k.of = a /\ k \notin IndexKeys(a, new)
    /\ \A k \in IndexKeys(a, new) :
           \/ k \in IndexKeys(a, old)
           \/ \E i \in 1..(j - 1) : t[i].do = "put" /\ k \in t[i].keys

LEMMA KeyFacts ==
    ASSUME NEW a \in Assoc, NEW r \in AssocRecord
    PROVE  /\ IndexKeys(a, r) \subseteq IndexEntries
           /\ NameKeys(a, r) \subseteq IndexEntries
           /\ DestKey(a) \in IndexEntries
           /\ \A k \in IndexKeys(a, r) : k.of = a
           /\ \A k \in NameKeys(a, r) : k.of = a /\ k # DestKey(a)
           /\ DestKey(a).of = a
BY AssociationsAssumption
   DEF IndexKeys, NameKeys, NameKey, DestKey, Reserves, AssocRecord, IndexEntries

LEMMA GoneFacts ==
    /\ Gone \in AssocRecord /\ ~Gone.live
    /\ \A a : IndexKeys(a, Gone) = {}
BY DEF Gone, AssocRecord, Configs, IndexKeys

(* The three steps of putAssociation, ... *)
NewEntries(a, old, new) == PutKeys(IndexKeys(a, new) \ IndexKeys(a, old))
StaleEntries(a, old, new) == DelKeys(NameKeys(a, old) \ NameKeys(a, new))

LEMMA PutSteps ==
    ASSUME NEW a \in Assoc, NEW old \in AssocRecord, NEW new \in AssocRecord
    PROVE  /\ PutAssociation(a, old, new) =
                  << NewEntries(a, old, new), Store(a, new), StaleEntries(a, old, new) >>
           /\ NewEntries(a, old, new) \in Steps
           /\ Store(a, new) \in Steps
           /\ StaleEntries(a, old, new) \in Steps
           /\ NewEntries(a, old, new).do = "put"
           /\ \A k \in IndexKeys(a, new) :
                  k \in IndexKeys(a, old) \/ k \in NewEntries(a, old, new).keys
           /\ \A k \in NewEntries(a, old, new).keys : k.of = a
           /\ Store(a, new).do = "store"
           /\ Store(a, new).id = a /\ Store(a, new).to = new
           /\ StaleEntries(a, old, new).do = "del"
           /\ \A k \in StaleEntries(a, old, new).keys :
                  k.of = a /\ k \notin IndexKeys(a, new)
<1> DEFINE X == IndexKeys(a, new) \ IndexKeys(a, old)
           Y == NameKeys(a, old) \ NameKeys(a, new)
<1>1. X \in SUBSET IndexEntries /\ Y \in SUBSET IndexEntries
  BY KeyFacts
<1>2. \A k \in X : k.of = a
  BY KeyFacts
<1>3. \A k \in Y : k.of = a /\ k # DestKey(a) /\ k \notin NameKeys(a, new)
  BY KeyFacts
<1>4. \A k \in Y : k.of = a /\ k \notin IndexKeys(a, new)
  BY <1>3 DEF IndexKeys
<1>5. \A k \in IndexKeys(a, new) : k \in IndexKeys(a, old) \/ k \in X
  OBVIOUS
<1> HIDE DEF X, Y
<1>6. PutKeys(X) \in Steps /\ Store(a, new) \in Steps /\ DelKeys(Y) \in Steps
  BY <1>1, StepTypes
<1>7. /\ PutKeys(X).do = "put" /\ PutKeys(X).keys = X
      /\ Store(a, new).do = "store" /\ Store(a, new).id = a /\ Store(a, new).to = new
      /\ DelKeys(Y).do = "del" /\ DelKeys(Y).keys = Y
  BY DEF PutKeys, Store, DelKeys
<1>8. NewEntries(a, old, new) = PutKeys(X) /\ StaleEntries(a, old, new) = DelKeys(Y)
  BY DEF NewEntries, StaleEntries, X, Y
<1>9. PutAssociation(a, old, new) =
          << NewEntries(a, old, new), Store(a, new), StaleEntries(a, old, new) >>
  BY DEF PutAssociation, NewEntries, StaleEntries
<1> QED BY <1>2, <1>4, <1>5, <1>6, <1>7, <1>8, <1>9

(* ... and of deleteAssociation. *)
DestEntry(a) == DelKeys({DestKey(a)})
NameEntries(a, r) == DelKeys(NameKeys(a, r))

LEMMA DeleteSteps ==
    ASSUME NEW a \in Assoc, NEW old \in AssocRecord
    PROVE  /\ DeleteAssociation(a, old) =
                  << Store(a, Gone), DestEntry(a), NameEntries(a, old) >>
           /\ Store(a, Gone) \in Steps
           /\ DestEntry(a) \in Steps
           /\ NameEntries(a, old) \in Steps
           /\ Store(a, Gone).do = "store"
           /\ Store(a, Gone).id = a /\ Store(a, Gone).to = Gone
           /\ DestEntry(a).do = "del"
           /\ \A k \in DestEntry(a).keys :
                  k.of = a /\ k \notin IndexKeys(a, Gone)
           /\ NameEntries(a, old).do = "del"
           /\ \A k \in NameEntries(a, old).keys :
                  k.of = a /\ k \notin IndexKeys(a, Gone)
<1>1. {DestKey(a)} \in SUBSET IndexEntries /\ NameKeys(a, old) \in SUBSET IndexEntries
  BY KeyFacts
<1>2. /\ \A k \in {DestKey(a)} : k.of = a
      /\ \A k \in NameKeys(a, old) : k.of = a
  BY KeyFacts
<1>3. /\ Store(a, Gone) \in Steps
      /\ DestEntry(a) \in Steps
      /\ NameEntries(a, old) \in Steps
  BY <1>1, StepTypes, GoneFacts DEF DestEntry, NameEntries
<1>4. /\ Store(a, Gone).do = "store"
      /\ Store(a, Gone).id = a /\ Store(a, Gone).to = Gone
      /\ DestEntry(a).do = "del" /\ DestEntry(a).keys = {DestKey(a)}
      /\ NameEntries(a, old).do = "del" /\ NameEntries(a, old).keys = NameKeys(a, old)
  BY DEF Store, DelKeys, DestEntry, NameEntries
<1>5. DeleteAssociation(a, old) =
          << Store(a, Gone), DestEntry(a), NameEntries(a, old) >>
  BY DEF DeleteAssociation, DestEntry, NameEntries
<1> QED BY <1>2, <1>3, <1>4, <1>5, GoneFacts

PutTodo(t, a, old, new) ==
    /\ Putting(t, 2, a, old, new)
    /\ \A i \in DOMAIN t : t[i].do \in {"put", "store", "del", "enqueue"}
    /\ \A i \in DOMAIN t : t[i].do = "enqueue" => i = Len(t) /\ t[i].for = {a}

PutUndo(u, a, new, r) ==
    /\ \E m \in DOMAIN u : Putting(u, m, a, new, r)
    /\ \A i \in DOMAIN u : u[i].do \in {"put", "store", "del"}

Enqueueing(t) == \E i \in DOMAIN t : t[i].do = "enqueue"

(* The record that Rollback stores. *)
Restored(previous) == IF previous.live THEN previous ELSE Gone

(* What Write and Enable plan, ... *)
PutThenEnqueue(a, old, new, b) ==
    PutAssociation(a, old, new) \o (IF b THEN << Enqueue({a}) >> ELSE << >>)

LEMMA PutPlan ==
    ASSUME NEW a \in Assoc, NEW old \in AssocRecord, NEW new \in AssocRecord,
           NEW b \in BOOLEAN, NEW t, t = PutThenEnqueue(a, old, new, b)
    PROVE  /\ t \in Seq(Steps) \ {<< >>}
           /\ PutTodo(t, a, old, new)
           /\ Enqueueing(t) <=> b
<1> DEFINE ps == NewEntries(a, old, new)
           st == Store(a, new)
           ds == StaleEntries(a, old, new)
           e == Enqueue({a})
<1>1. e \in Steps /\ e.do = "enqueue" /\ e.for = {a}
  BY StepTypes DEF Enqueue
<1>2. /\ PutAssociation(a, old, new) = << ps, st, ds >>
      /\ ps \in Steps /\ st \in Steps /\ ds \in Steps
      /\ ps.do = "put"
      /\ \A k \in IndexKeys(a, new) : k \in IndexKeys(a, old) \/ k \in ps.keys
      /\ \A k \in ps.keys : k.of = a
      /\ st.do = "store" /\ st.id = a /\ st.to = new
      /\ ds.do = "del"
      /\ \A k \in ds.keys : k.of = a /\ k \notin IndexKeys(a, new)
  BY PutSteps
<1> HIDE DEF ps, st, ds, e
<1>3. t = IF b THEN << ps, st, ds, e >> ELSE << ps, st, ds >>
  <2>1. /\ << ps, st, ds >> \o << e >> = << ps, st, ds, e >>
        /\ << ps, st, ds >> \o << >> = << ps, st, ds >>
    BY <1>1, <1>2, OneMore
  <2>2. CASE b
    BY <1>2, <2>1, <2>2 DEF e, PutThenEnqueue
  <2>3. CASE ~b
    BY <1>2, <2>1, <2>3 DEF PutThenEnqueue
  <2> QED BY <2>2, <2>3
<1>4. /\ t \in Seq(Steps) \ {<< >>} /\ Len(t) = IF b THEN 4 ELSE 3
      /\ DOMAIN t = 1..Len(t)
      /\ t[1] = ps /\ t[2] = st /\ t[3] = ds /\ (b => t[4] = e)
  <2>1. CASE b
    <3>1. t = << ps, st, ds, e >>
      BY <1>3, <2>1
    <3>2. /\ ps \in Steps /\ st \in Steps /\ ds \in Steps /\ e \in Steps
      BY <1>1, <1>2
    <3>3. /\ t \in Seq(Steps) \ {<< >>} /\ Len(t) = 4 /\ DOMAIN t = 1..4
          /\ t[1] = ps /\ t[2] = st /\ t[3] = ds /\ t[4] = e
      BY ONLY <3>1, <3>2, TupleFacts
    <3> QED BY <2>1, <3>3
  <2>2. CASE ~b
    <3>1. t = << ps, st, ds >>
      BY <1>3, <2>2
    <3> QED BY <1>1, <1>2, <2>2, <3>1, TupleFacts
  <2> QED BY <2>1, <2>2
<1>5. Putting(t, 2, a, old, new)
  <2>1. StoreAt(t, 2, a) /\ t[2].to = new
    BY <1>2, <1>4 DEF StoreAt
  <2>2. ASSUME NEW i \in DOMAIN t
        PROVE  /\ t[i].do = "store" => i = 2
               /\ t[i].do = "put" => \A k \in t[i].keys : k.of = a
               /\ t[i].do = "del" => i > 2 /\ \A k \in t[i].keys :
                                         k.of = a /\ k \notin IndexKeys(a, new)
    BY <1>1, <1>2, <1>4
  <2>3. ASSUME NEW k \in IndexKeys(a, new), k \notin IndexKeys(a, old)
        PROVE  \E i \in 1..(2 - 1) : t[i].do = "put" /\ k \in t[i].keys
    BY <1>2, <1>4, <2>3
  <2> QED BY <2>1, <2>2, <2>3 DEF Putting
<1>6. ASSUME NEW i \in DOMAIN t
      PROVE  /\ t[i].do \in {"put", "store", "del", "enqueue"}
             /\ t[i].do = "enqueue" => b /\ i = Len(t) /\ t[i].for = {a}
  <2>1. i = 1 \/ i = 2 \/ i = 3 \/ (b /\ i = 4 /\ i = Len(t))
    BY <1>4
  <2> QED BY <1>1, <1>2, <1>4, <2>1
<1>7. PutTodo(t, a, old, new)
  BY <1>5, <1>6 DEF PutTodo
<1>8. Enqueueing(t) <=> b
  <2>1. ASSUME b PROVE 4 \in DOMAIN t /\ t[4].do = "enqueue"
    <3>1. Len(t) = 4 /\ t[4] = e /\ DOMAIN t = 1..4
      BY <1>4, <2>1
    <3> QED BY ONLY <1>1, <3>1
  <2> QED BY <1>6, <2>1 DEF Enqueueing
<1> QED BY <1>4, <1>7, <1>8

(* ... what undoes it, ... *)
LEMMA RollbackPlan ==
    ASSUME NEW a \in Assoc, NEW previous \in AssocRecord, NEW new \in AssocRecord,
           NEW u, u = Rollback(a, previous, new)
    PROVE  /\ u \in Seq(Steps)
           /\ PutUndo(u, a, new, Restored(previous))
           /\ Restored(previous) \in AssocRecord
<1>1. CASE previous.live
  <2> DEFINE ps == NewEntries(a, new, previous)
             st == Store(a, previous)
             ds == StaleEntries(a, new, previous)
  <2>1. /\ PutAssociation(a, new, previous) = << ps, st, ds >>
        /\ ps \in Steps /\ st \in Steps /\ ds \in Steps
        /\ ps.do = "put"
        /\ \A k \in IndexKeys(a, previous) : k \in IndexKeys(a, new) \/ k \in ps.keys
        /\ \A k \in ps.keys : k.of = a
        /\ st.do = "store" /\ st.id = a /\ st.to = previous
        /\ ds.do = "del"
        /\ \A k \in ds.keys : k.of = a /\ k \notin IndexKeys(a, previous)
    BY PutSteps
  <2> HIDE DEF ps, st, ds
  <2>2. u = << ps, st, ds >>
    BY <1>1, <2>1 DEF Rollback
  <2>3. /\ u \in Seq(Steps) /\ DOMAIN u = 1..3
        /\ u[1] = ps /\ u[2] = st /\ u[3] = ds
    BY <2>1, <2>2
  <2>4. StoreAt(u, 2, a) /\ u[2].to = previous
    BY <2>1, <2>3 DEF StoreAt
  <2>5. ASSUME NEW i \in DOMAIN u
        PROVE  /\ u[i].do = "store" => i = 2
               /\ u[i].do = "put" => \A k \in u[i].keys : k.of = a
               /\ u[i].do = "del" => i > 2 /\ \A k \in u[i].keys :
                                         k.of = a /\ k \notin IndexKeys(a, previous)
               /\ u[i].do \in {"put", "store", "del"}
    BY <2>1, <2>3
  <2>6. ASSUME NEW k \in IndexKeys(a, previous), k \notin IndexKeys(a, new)
        PROVE  \E i \in 1..(2 - 1) : u[i].do = "put" /\ k \in u[i].keys
    BY <2>1, <2>3, <2>6
  <2>7. Putting(u, 2, a, new, previous)
    BY <2>4, <2>5, <2>6 DEF Putting
  <2>8. 2 \in DOMAIN u
    BY <2>3
  <2>9. PutUndo(u, a, new, previous)
    BY <2>5, <2>7, <2>8 DEF PutUndo
  <2> QED BY <1>1, <2>3, <2>9 DEF Restored
<1>2. CASE ~previous.live
  <2> DEFINE st == Store(a, Gone)
             d1 == DestEntry(a)
             d2 == NameEntries(a, new)
  <2>1. /\ DeleteAssociation(a, new) = << st, d1, d2 >>
        /\ st \in Steps /\ d1 \in Steps /\ d2 \in Steps
        /\ st.do = "store" /\ st.id = a /\ st.to = Gone
        /\ d1.do = "del" /\ d2.do = "del"
        /\ \A k \in d1.keys \cup d2.keys : k.of = a /\ k \notin IndexKeys(a, Gone)
    BY DeleteSteps
  <2> HIDE DEF st, d1, d2
  <2>2. u = << st, d1, d2 >>
    BY <1>2, <2>1 DEF Rollback
  <2>3. /\ u \in Seq(Steps) /\ DOMAIN u = 1..3
        /\ u[1] = st /\ u[2] = d1 /\ u[3] = d2
    BY <2>1, <2>2
  <2>4. StoreAt(u, 1, a) /\ u[1].to = Gone
    BY <2>1, <2>3 DEF StoreAt
  <2>5. ASSUME NEW i \in DOMAIN u
        PROVE  /\ u[i].do = "store" => i = 1
               /\ u[i].do = "put" => \A k \in u[i].keys : k.of = a
               /\ u[i].do = "del" => i > 1 /\ \A k \in u[i].keys :
                                         k.of = a /\ k \notin IndexKeys(a, Gone)
               /\ u[i].do \in {"put", "store", "del"}
    BY <2>1, <2>3
  <2>6. Putting(u, 1, a, new, Gone)
    BY <2>4, <2>5, GoneFacts DEF Putting
  <2>7. 1 \in DOMAIN u
    BY <2>3
  <2>8. PutUndo(u, a, new, Gone)
    BY <2>5, <2>6, <2>7 DEF PutUndo
  <2> QED BY <1>2, <2>3, <2>8, GoneFacts DEF Restored
<1> QED BY <1>1, <1>2

(* ... what Disable and Delete plan, ... *)
CancelThenPut(a, old, new) == << CancelQueued(a) >> \o PutAssociation(a, old, new)
CancelThenDelete(a, old) == << CancelQueued(a) >> \o DeleteAssociation(a, old)

LEMMA CancelPlan ==
    ASSUME NEW a \in Assoc, NEW old \in AssocRecord, NEW new \in AssocRecord, NEW t,
           \/ t = CancelThenPut(a, old, new)
           \/ new = Gone /\ t = CancelThenDelete(a, old)
    PROVE  /\ t \in Seq(Steps) \ {<< >>}
           /\ \E j \in DOMAIN t : Putting(t, j, a, old, new)
           /\ \A i \in DOMAIN t : t[i].do \in {"cancel", "put", "store", "del"}
           /\ \A i \in DOMAIN t : t[i].do = "cancel" => i = 1 /\ t[i].id = a
<1> DEFINE x == CancelQueued(a)
<1>1. x \in Steps /\ x.do = "cancel" /\ x.id = a
  BY StepTypes DEF CancelQueued
<1>2. CASE t = CancelThenPut(a, old, new)
  <2> DEFINE ps == NewEntries(a, old, new)
             st == Store(a, new)
             ds == StaleEntries(a, old, new)
  <2>1. /\ PutAssociation(a, old, new) = << ps, st, ds >>
        /\ ps \in Steps /\ st \in Steps /\ ds \in Steps
        /\ ps.do = "put"
        /\ \A k \in IndexKeys(a, new) : k \in IndexKeys(a, old) \/ k \in ps.keys
        /\ \A k \in ps.keys : k.of = a
        /\ st.do = "store" /\ st.id = a /\ st.to = new
        /\ ds.do = "del"
        /\ \A k \in ds.keys : k.of = a /\ k \notin IndexKeys(a, new)
    BY PutSteps
  <2> HIDE DEF ps, st, ds, x
  <2>2. t = << x, ps, st, ds >>
    <3>1. << x >> \o << ps, st, ds >> = << x, ps, st, ds >>
      BY <1>1, <2>1, OneMore
    <3> QED BY <1>2, <2>1, <3>1 DEF CancelThenPut, x
  <2>3. /\ t \in Seq(Steps) \ {<< >>} /\ DOMAIN t = 1..4
        /\ t[1] = x /\ t[2] = ps /\ t[3] = st /\ t[4] = ds
    BY <1>1, <2>1, <2>2
  <2>4. StoreAt(t, 3, a) /\ t[3].to = new
    BY <2>1, <2>3 DEF StoreAt
  <2>5. ASSUME NEW i \in DOMAIN t
        PROVE  /\ t[i].do = "store" => i = 3
               /\ t[i].do = "put" => \A k \in t[i].keys : k.of = a
               /\ t[i].do = "del" => i > 3 /\ \A k \in t[i].keys :
                                         k.of = a /\ k \notin IndexKeys(a, new)
               /\ t[i].do \in {"cancel", "put", "store", "del"}
               /\ t[i].do = "cancel" => i = 1 /\ t[i].id = a
    BY <1>1, <2>1, <2>3
  <2>6. ASSUME NEW k \in IndexKeys(a, new), k \notin IndexKeys(a, old)
        PROVE  \E i \in 1..(3 - 1) : t[i].do = "put" /\ k \in t[i].keys
    BY <2>1, <2>3, <2>6
  <2>7. Putting(t, 3, a, old, new)
    BY <2>4, <2>5, <2>6 DEF Putting
  <2> QED BY <2>3, <2>5, <2>7
<1>3. CASE new = Gone /\ t = CancelThenDelete(a, old)
  <2> DEFINE st == Store(a, Gone)
             d1 == DestEntry(a)
             d2 == NameEntries(a, old)
  <2>1. /\ DeleteAssociation(a, old) = << st, d1, d2 >>
        /\ st \in Steps /\ d1 \in Steps /\ d2 \in Steps
        /\ st.do = "store" /\ st.id = a /\ st.to = Gone
        /\ d1.do = "del" /\ d2.do = "del"
        /\ \A k \in d1.keys : k.of = a /\ k \notin IndexKeys(a, Gone)
        /\ \A k \in d2.keys : k.of = a /\ k \notin IndexKeys(a, Gone)
    BY DeleteSteps
  <2> HIDE DEF d1, d2, st, x
  <2>2. t = << x, st, d1, d2 >>
    <3>1. << x >> \o << st, d1, d2 >> = << x, st, d1, d2 >>
      BY <1>1, <2>1, OneMore
    <3> QED BY <1>3, <2>1, <3>1 DEF CancelThenDelete, x
  <2>3. /\ t \in Seq(Steps) \ {<< >>} /\ DOMAIN t = 1..4
        /\ t[1] = x /\ t[2] = st /\ t[3] = d1 /\ t[4] = d2
    BY <1>1, <2>1, <2>2
  <2>4. StoreAt(t, 2, a) /\ t[2].to = new
    BY <1>3, <2>1, <2>3 DEF StoreAt
  <2>5. ASSUME NEW i \in DOMAIN t
        PROVE  /\ t[i].do = "store" => i = 2
               /\ t[i].do = "put" => \A k \in t[i].keys : k.of = a
               /\ t[i].do = "del" => i > 2 /\ \A k \in t[i].keys :
                                         k.of = a /\ k \notin IndexKeys(a, Gone)
               /\ t[i].do \in {"cancel", "put", "store", "del"}
               /\ t[i].do = "cancel" => i = 1 /\ t[i].id = a
    BY <1>1, <2>1, <2>3
  <2>6. Putting(t, 2, a, old, new)
    BY <1>3, <2>4, <2>5, GoneFacts DEF Putting
  <2> QED BY <2>3, <2>5, <2>6
<1> QED BY <1>2, <1>3

(* ... and what one round of the loop of a data write leaves to be done. *)
RefreshRound(a, old, new, bs, ks, t) ==
    PutAssociation(a, old, new) \o << Refresh(bs, ks) >> \o Tail(t)

LEMMA RefreshPlan ==
    ASSUME NEW a \in Assoc, NEW old \in AssocRecord, NEW new \in AssocRecord,
           NEW bs \in SUBSET Assoc, NEW ks \in SUBSET Key,
           NEW t \in Seq(Steps), Len(t) = 2, NEW v,
           v = RefreshRound(a, old, new, bs, ks, t)
    PROVE  /\ v \in Seq(Steps) \ {<< >>}
           /\ Len(v) = 5 /\ DOMAIN v = 1..5
           /\ \A i \in 1..3 : v[i].do \in {"put", "store", "del"}
           /\ v[4] = Refresh(bs, ks) /\ v[5] = t[2]
           /\ t[2].do \notin {"put", "store", "del"} => Putting(v, 2, a, old, new)
<1> DEFINE ps == NewEntries(a, old, new)
           st == Store(a, new)
           ds == StaleEntries(a, old, new)
           e == Refresh(bs, ks)
<1>1. e \in Steps /\ e.do = "refresh"
  BY StepTypes DEF Refresh
<1>2. /\ PutAssociation(a, old, new) = << ps, st, ds >>
      /\ ps \in Steps /\ st \in Steps /\ ds \in Steps
      /\ ps.do = "put"
      /\ \A k \in IndexKeys(a, new) : k \in IndexKeys(a, old) \/ k \in ps.keys
      /\ \A k \in ps.keys : k.of = a
      /\ st.do = "store" /\ st.id = a /\ st.to = new
      /\ ds.do = "del"
      /\ \A k \in ds.keys : k.of = a /\ k \notin IndexKeys(a, new)
  BY PutSteps
<1> HIDE DEF ps, st, ds, e
<1>3. v = << ps, st, ds, e, t[2] >>
  <2>1. << ps, st, ds >> \o << e >> \o Tail(t) = << ps, st, ds, e, t[2] >>
    BY <1>1, <1>2, TwoMore
  <2> QED BY <1>2, <2>1 DEF e, RefreshRound
<1>4. t[2] \in Steps
  BY LenProperties, ElementOfSeq
<1>5. /\ v \in Seq(Steps) \ {<< >>} /\ Len(v) = 5 /\ DOMAIN v = 1..5
      /\ v[1] = ps /\ v[2] = st /\ v[3] = ds /\ v[4] = e /\ v[5] = t[2]
  BY <1>1, <1>2, <1>3, <1>4
<1>6. \A i \in 1..3 : v[i].do \in {"put", "store", "del"}
  <2>1. v[1].do = "put" /\ v[2].do = "store" /\ v[3].do = "del"
    BY <1>2, <1>5
  <2>2. \A i \in 1..3 : i = 1 \/ i = 2 \/ i = 3
    OBVIOUS
  <2> QED BY <2>1, <2>2
<1>7. ASSUME t[2].do \notin {"put", "store", "del"}
      PROVE  Putting(v, 2, a, old, new)
  <2>1. StoreAt(v, 2, a) /\ v[2].to = new
    BY <1>2, <1>5 DEF StoreAt
  <2>2. ASSUME NEW i \in DOMAIN v
        PROVE  /\ v[i].do = "store" => i = 2
               /\ v[i].do = "put" => \A k \in v[i].keys : k.of = a
               /\ v[i].do = "del" => i > 2 /\ \A k \in v[i].keys :
                                         k.of = a /\ k \notin IndexKeys(a, new)
    <3>1. i = 1 \/ i = 2 \/ i = 3 \/ i = 4 \/ i = 5
      BY <1>5
    <3> QED BY <1>1, <1>2, <1>5, <1>7, <3>1
  <2>3. ASSUME NEW k \in IndexKeys(a, new), k \notin IndexKeys(a, old)
        PROVE  \E i \in 1..(2 - 1) : v[i].do = "put" /\ k \in v[i].keys
    <3>1. v[1].do = "put" /\ k \in v[1].keys
      BY <1>2, <1>5, <2>3
    <3>2. 1 \in 1..(2 - 1)
      OBVIOUS
    <3> QED BY <3>1, <3>2
  <2> QED BY <2>1, <2>2, <2>3 DEF Putting
<1> QED BY <1>5, <1>6, <1>7 DEF e

-----------------------------------------------------------------------------
(* Every request begins planned *)

AboutOne(t, a) ==
    /\ \A i \in DOMAIN t :
           t[i].do \in {"cancel", "put", "store", "del", "enqueue"}
    /\ \A i \in DOMAIN t : t[i].do = "enqueue" => i = Len(t) /\ t[i].for = {a}
    /\ \A i \in DOMAIN t : t[i].do = "cancel" => t[i].id = a

UndoesOne(u, a, new) ==
    \/ u = << >>
    \/ new.live /\ \E r \in AssocRecord : PutUndo(u, a, new, r)

LEMMA PlannedPutting ==
    ASSUME NEW a \in Assoc, NEW old, NEW new \in AssocRecord, NEW j,
           NEW h, HasPath(h, a), NEW w, w = {a},
           NEW t \in Seq(Steps), Putting(t, j, a, old, new), AboutOne(t, a),
           NEW u \in Seq(Steps), UndoesOne(u, a, new)
    PROVE  Planned(h, w, t, u)
<1>1. StepsHeld(h, w, t)
  <2> SUFFICES ASSUME NEW i \in DOMAIN t PROVE StepHeld(h, {a}, t[i])
    BY DEF StepsHeld
  <2> QED BY DEF Putting, AboutOne, StepHeld, StoreAt
<1>2. StoresOnce(t)
  BY DEF StoresOnce, Putting
<1>3. EnqueuesLast(t) /\ DestinationOnce(t) /\ RefreshShape(t, u)
  BY DEF AboutOne, EnqueuesLast, DestinationOnce, RefreshShape
<1>4. CASE u = << >>
  <2>1. DOMAIN u = {}
    BY <1>4
  <2>2. StepsHeld(h, w, u) /\ StoresOnce(u) /\ UndoShape(t, u)
    BY <2>1 DEF StepsHeld, StoresOnce, UndoShape
  <2> QED BY <1>1, <1>2, <1>3, <2>2 DEF Planned, Shape
<1>5. CASE u # << >>
  <2>1. PICK m \in DOMAIN u, r \in AssocRecord : Putting(u, m, a, new, r)
    BY <1>5 DEF UndoesOne, PutUndo
  <2>2. new.live /\ \A i \in DOMAIN u : u[i].do \in {"put", "store", "del"}
    BY <1>5 DEF UndoesOne, PutUndo
  <2>3. DOMAIN u \subseteq Nat /\ m \in DOMAIN u
    BY LenProperties
  <2>4. StepsHeld(h, w, u)
    <3> SUFFICES ASSUME NEW i \in DOMAIN u PROVE StepHeld(h, {a}, u[i])
      BY DEF StepsHeld
    <3> QED BY <2>1, <2>2 DEF Putting, StepHeld, StoreAt
  <2>5. StoresOnce(u)
    BY <2>1 DEF StoresOnce, Putting
  <2>6. UndoShape(t, u)
    <3> SUFFICES ASSUME NEW i \in DOMAIN u
                 PROVE  /\ u[i].do = "store" =>
                               \A n \in DOMAIN t : t[n].do = "store" => t[n].to.live
                        /\ u[i].do = "del" => \A k \in u[i].keys :
                               \E n \in 1..(i - 1) :
                                   /\ StoreAt(u, n, k.of)
                                   /\ k \notin IndexKeys(k.of, u[n].to)
      BY <2>2 DEF UndoShape
    <3>1. u[i].do = "store" =>
              \A n \in DOMAIN t : t[n].do = "store" => t[n].to.live
      BY <2>2 DEF Putting
    <3>2. ASSUME u[i].do = "del", NEW k \in u[i].keys
          PROVE  \E n \in 1..(i - 1) : /\ StoreAt(u, n, k.of)
                                       /\ k \notin IndexKeys(k.of, u[n].to)
      <4>1. /\ i > m /\ k.of = a /\ k \notin IndexKeys(a, r)
            /\ StoreAt(u, m, a) /\ u[m].to = r
        BY <2>1, <3>2 DEF Putting
      <4>2. m \in 1..(i - 1)
        <5>1. DOMAIN u = 1..Len(u) /\ Len(u) \in Nat
          BY LenProperties
        <5> QED BY <4>1, <5>1
      <4> QED BY <4>1, <4>2
    <3> QED BY <3>1, <3>2
  <2> QED BY <1>1, <1>2, <1>3, <2>4, <2>5, <2>6 DEF Planned, Shape
<1> QED BY <1>4, <1>5

(* A sync, ... *)
LEMMA PlannedSync ==
    ASSUME NEW a \in Assoc, NEW h, HasPath(h, a), NEW w
    PROVE  /\ << Enqueue({a}) >> \in Seq(Steps) \ {<< >>}
           /\ Planned(h, w, << Enqueue({a}) >>, << >>)
<1> DEFINE e == Enqueue({a})
           t == << e >>
<1>1. e \in Steps /\ e.do = "enqueue" /\ e.for = {a}
  BY StepTypes DEF Enqueue
<1> HIDE DEF e
<1>2. t \in Seq(Steps) \ {<< >>} /\ Len(t) = 1 /\ DOMAIN t = {1} /\ t[1] = e
  BY <1>1
<1> HIDE DEF t
<1>3. StepsHeld(h, w, t) /\ StepsHeld(h, w, << >>)
  BY <1>1, <1>2 DEF StepsHeld, StepHeld
<1>4. /\ StoresOnce(t) /\ StoresOnce(<< >>)
      /\ EnqueuesLast(t) /\ DestinationOnce(t)
      /\ RefreshShape(t, << >>) /\ UndoShape(t, << >>)
  BY <1>1, <1>2
     DEF StoresOnce, EnqueuesLast, DestinationOnce, RefreshShape, UndoShape
<1> QED BY <1>2, <1>3, <1>4 DEF t, e, Planned, Shape

(* ... the setting of source_sync_enabled, ... *)
LEMMA PlannedSourceSync ==
    ASSUME NEW p \in Path, NEW on \in BOOLEAN, NEW bs \in SUBSET Assoc,
           \A a \in bs : PathOf[a] = p,
           NEW h, h = {SourceLock(p)}, NEW w, NEW b \in BOOLEAN, NEW t,
           t = << SetEligible(p, on) >>
                   \o (IF b THEN << Enqueue(bs) >> ELSE << >>)
    PROVE  /\ t \in Seq(Steps) \ {<< >>}
           /\ << SetEligible(p, ~on) >> \in Seq(Steps)
           /\ Planned(h, w, t, << SetEligible(p, ~on) >>)
           /\ \A i \in DOMAIN t : t[i] \in {SetEligible(p, on), Enqueue(bs)}
<1> DEFINE s == SetEligible(p, on)
           x == SetEligible(p, ~on)
           e == Enqueue(bs)
           u == << x >>
<1>1. /\ s \in Steps /\ s.do = "eligible"
      /\ x \in Steps /\ x.do = "eligible"
      /\ e \in Steps /\ e.do = "enqueue" /\ e.for = bs
  BY StepTypes DEF Enqueue, SetEligible
<1>2. t = IF b THEN << s, e >> ELSE << s >>
  <2>1. CASE b
    <3> HIDE DEF s, e
    <3>1. << s >> \o << e >> = << s, e >>
      BY <1>1, TwoSteps
    <3> QED BY <2>1, <3>1 DEF s, e
  <2>2. CASE ~b
    BY <2>2
  <2> QED BY <2>1, <2>2
<1> HIDE DEF e, s, x
<1>3. /\ t \in Seq(Steps) \ {<< >>} /\ Len(t) = IF b THEN 2 ELSE 1
      /\ DOMAIN t = 1..Len(t) /\ t[1] = s /\ (b => t[2] = e)
  <2>1. CASE b
    <3>1. t = << s, e >>
      BY <1>2, <2>1
    <3> QED BY <1>1, <2>1, <3>1
  <2>2. CASE ~b
    <3>1. t = << s >>
      BY <1>2, <2>2
    <3> QED BY <1>1, <2>2, <3>1
  <2> QED BY <2>1, <2>2
<1>4. u \in Seq(Steps) /\ DOMAIN u = {1} /\ u[1] = x
  BY <1>1
<1> HIDE DEF u
<1>5. \A i \in DOMAIN t : \/ i = 1 /\ t[i] = s
                          \/ i = 2 /\ i = Len(t) /\ t[i] = e
  BY <1>3
<1>6. StepsHeld(h, w, t) /\ StepsHeld(h, w, u)
  BY <1>1, <1>4, <1>5 DEF StepsHeld, StepHeld, HasPath
<1>7. /\ StoresOnce(t) /\ StoresOnce(u)
      /\ EnqueuesLast(t) /\ DestinationOnce(t)
      /\ RefreshShape(t, u) /\ UndoShape(t, u)
  BY <1>1, <1>4, <1>5
     DEF StoresOnce, EnqueuesLast, DestinationOnce, RefreshShape, UndoShape
<1> QED BY <1>3, <1>4, <1>5, <1>6, <1>7 DEF u, x, s, e, Planned, Shape

(* ... a data write, ... *)
LEMMA PlannedDataWrite ==
    ASSUME NEW p \in Path, NEW ks \in SUBSET Key, NEW bs \in SUBSET Assoc,
           \A a \in bs : PathOf[a] = p,
           NEW cs \in SUBSET bs,
           NEW h, h = {SourceLock(p)}, NEW t,
           t = << Refresh(cs, ks), Commit(p, ks, bs) >>
    PROVE  /\ t \in Seq(Steps) \ {<< >>}
           /\ Planned(h, bs, t, << >>)
           /\ DOMAIN t = 1..2
           /\ t[1] = Refresh(cs, ks) /\ t[2] = Commit(p, ks, bs)
<1> DEFINE s == Refresh(cs, ks)
           e == Commit(p, ks, bs)
<1>1. /\ s \in Steps /\ s.do = "refresh" /\ s.ids = cs
      /\ e \in Steps /\ e.do = "commit" /\ e.path = p /\ e.for = bs
  BY StepTypes DEF Refresh, Commit
<1> HIDE DEF e, s
<1>2. /\ t \in Seq(Steps) \ {<< >>} /\ Len(t) = 2
      /\ DOMAIN t = 1..2 /\ t[1] = s /\ t[2] = e
  BY <1>1 DEF s, e
<1>3. \A i \in DOMAIN t : (i = 1 /\ t[i] = s) \/ (i = 2 /\ t[i] = e)
  BY <1>2
<1>4. StepsHeld(h, bs, t) /\ StepsHeld(h, bs, << >>)
  BY <1>1, <1>3 DEF StepsHeld, StepHeld, HasPath
<1>5. /\ StoresOnce(t) /\ StoresOnce(<< >>)
      /\ EnqueuesLast(t) /\ DestinationOnce(t) /\ UndoShape(t, << >>)
  BY <1>1, <1>2, <1>3
     DEF StoresOnce, EnqueuesLast, DestinationOnce, UndoShape
<1>6. RefreshShape(t, << >>)
  BY <1>1, <1>2, <1>3 DEF RefreshShape
<1> QED BY <1>2, <1>4, <1>5, <1>6 DEF s, e, Planned, Shape

(* ... the write of a destination, ... *)
DestSteps(d, r, old) ==
    (IF r.secret # 0 THEN << PutSecret(Secret(d, r.secret)) >> ELSE << >>)
        \o << StoreDest(d, r) >>
        \o (IF old # 0 THEN << DelSecret(Secret(d, old)) >> ELSE << >>)

DestShape(t, j, d, r, old) ==
    /\ t[j] = StoreDest(d, r)
    /\ r.secret # 0 => \E i \in 1..(j - 1) : t[i] = PutSecret(Secret(d, r.secret))
    /\ \A i \in DOMAIN t :
           /\ i < j => t[i] = PutSecret(Secret(d, r.secret))
           /\ i > j => old # 0 /\ t[i] = DelSecret(Secret(d, old))

LEMMA DestPlan ==
    ASSUME NEW d \in Dest, NEW r \in DestRecord, NEW old \in Nat,
           NEW t, t = DestSteps(d, r, old)
    PROVE  /\ t \in Seq(Steps) \ {<< >>}
           /\ \E j \in DOMAIN t : DestShape(t, j, d, r, old)
<1> DEFINE ps == PutSecret(Secret(d, r.secret))
           st == StoreDest(d, r)
           ds == DelSecret(Secret(d, old))
<1>1. ps \in Steps /\ st \in Steps /\ ds \in Steps
  <2>1. r.secret \in Nat
    BY DEF DestRecord
  <2> QED BY <2>1, StepTypes
<1>2. t = (IF r.secret # 0 THEN << ps >> ELSE << >>) \o << st >>
              \o (IF old # 0 THEN << ds >> ELSE << >>)
  BY DEF DestSteps
<1> HIDE DEF ps, st, ds
<1>3. /\ << ps >> \o << st >> = << ps, st >>
      /\ << st >> \o << ds >> = << st, ds >>
      /\ << >> \o << st >> = << st >>
      /\ << st >> \o << >> = << st >>
      /\ << ps, st >> \o << >> = << ps, st >>
  BY <1>1, TwoSteps
<1>4. << ps, st >> \o << ds >> = << ps, st, ds >>
  <2> DEFINE v == << ps, st >> \o << ds >>
             x == << ps, st, ds >>
  <2>1. v \in Seq(Steps) /\ Len(v) = 3 /\ v[1] = ps /\ v[2] = st /\ v[3] = ds
    BY <1>1
  <2>2. x \in Seq(Steps) /\ Len(x) = 3 /\ x[1] = ps /\ x[2] = st /\ x[3] = ds
    BY <1>1
  <2> HIDE DEF v, x
  <2>3. \A i \in 1..Len(v) : v[i] = x[i]
    BY <2>1, <2>2
  <2>4. v = x
    BY <2>1, <2>2, <2>3, SeqEqual
  <2> QED BY <2>4 DEF v, x
<1>5. CASE r.secret # 0 /\ old # 0
  <2>1. t = << ps, st, ds >>
    BY <1>2, <1>3, <1>4, <1>5
  <2>2. /\ t \in Seq(Steps) \ {<< >>} /\ DOMAIN t = 1..3
        /\ t[1] = ps /\ t[2] = st /\ t[3] = ds
    BY <1>1, <2>1
  <2>3. \A i \in DOMAIN t : /\ i < 2 => t[i] = ps
                            /\ i > 2 => t[i] = ds
    BY <2>2
  <2>4. 2 \in DOMAIN t /\ 1 \in 1..(2 - 1)
    BY <2>2
  <2>5. DestShape(t, 2, d, r, old)
    BY <1>5, <2>2, <2>3, <2>4 DEF DestShape, ps, st, ds
  <2> QED BY <2>2, <2>4, <2>5
<1>6. CASE r.secret # 0 /\ old = 0
  <2>1. t = << ps, st >>
    BY <1>2, <1>3, <1>6
  <2>2. /\ t \in Seq(Steps) \ {<< >>} /\ DOMAIN t = 1..2
        /\ t[1] = ps /\ t[2] = st
    BY <1>1, <2>1
  <2>3. \A i \in DOMAIN t : ~(i > 2) /\ (i < 2 => t[i] = ps)
    BY <2>2
  <2>4. 2 \in DOMAIN t /\ 1 \in 1..(2 - 1)
    BY <2>2
  <2>5. DestShape(t, 2, d, r, old)
    BY <1>6, <2>2, <2>3, <2>4 DEF DestShape, ps, st
  <2> QED BY <2>2, <2>4, <2>5
<1>7. CASE r.secret = 0 /\ old # 0
  <2>1. t = << st, ds >>
    BY <1>2, <1>3, <1>7
  <2>2. /\ t \in Seq(Steps) \ {<< >>} /\ DOMAIN t = 1..2
        /\ t[1] = st /\ t[2] = ds
    BY <1>1, <2>1
  <2>3. \A i \in DOMAIN t : ~(i < 1) /\ (i > 1 => t[i] = ds)
    BY <2>2
  <2>4. 1 \in DOMAIN t
    BY <2>2
  <2>5. DestShape(t, 1, d, r, old)
    BY <1>7, <2>2, <2>3, <2>4 DEF DestShape, st, ds
  <2> QED BY <2>2, <2>4, <2>5
<1>8. CASE r.secret = 0 /\ old = 0
  <2>1. t = << st >>
    BY <1>2, <1>3, <1>8
  <2>2. t \in Seq(Steps) \ {<< >>} /\ DOMAIN t = 1..1 /\ t[1] = st
    BY <1>1, <2>1
  <2>3. \A i \in DOMAIN t : ~(i < 1) /\ ~(i > 1)
    BY <2>2
  <2>4. 1 \in DOMAIN t
    BY <2>2
  <2>5. DestShape(t, 1, d, r, old)
    BY <1>8, <2>2, <2>3, <2>4 DEF DestShape, st
  <2> QED BY <2>2, <2>4, <2>5
<1> QED BY <1>5, <1>6, <1>7, <1>8

DestUndos(d, v) == {<< >>, << DelSecret(Secret(d, v)) >>}

LEMMA PlannedDestinationWrite ==
    ASSUME NEW d \in Dest, NEW r \in DestRecord, NEW old \in Nat, NEW v \in Nat,
           NEW h, h = {DestLock(d)}, NEW w,
           NEW t, t = DestSteps(d, r, old),
           NEW u \in DestUndos(d, v)
    PROVE  /\ u \in Seq(Steps)
           /\ Planned(h, w, t, u)
           /\ \A i \in DOMAIN u : u[i] = DelSecret(Secret(d, v))
<1>1. /\ t \in Seq(Steps) \ {<< >>}
      /\ \A i \in DOMAIN t : t[i] \in {StoreDest(d, r), PutSecret(Secret(d, r.secret)),
                                       DelSecret(Secret(d, old))}
      /\ \E j \in DOMAIN t : \A i \in DOMAIN t : i # j => t[i] # StoreDest(d, r)
  <2>1. PICK j \in DOMAIN t : DestShape(t, j, d, r, old)
    BY DestPlan
  <2>2. t \in Seq(Steps) \ {<< >>}
    BY DestPlan
  <2>3. DOMAIN t \subseteq Nat
    BY <2>2, LenProperties
  <2>4. ASSUME NEW i \in DOMAIN t
        PROVE  \/ i = j /\ t[i] = StoreDest(d, r)
               \/ i # j /\ t[i] = PutSecret(Secret(d, r.secret))
               \/ i # j /\ t[i] = DelSecret(Secret(d, old))
    <3>1. i < j \/ i = j \/ i > j
      BY <2>3
    <3> QED BY <2>1, <2>3, <3>1 DEF DestShape
  <2>5. /\ PutSecret(Secret(d, r.secret)) # StoreDest(d, r)
        /\ DelSecret(Secret(d, old)) # StoreDest(d, r)
    <3>1. /\ PutSecret(Secret(d, r.secret)).do = "putSecret"
          /\ DelSecret(Secret(d, old)).do = "delSecret"
          /\ StoreDest(d, r).do = "destination"
      BY DEF PutSecret, DelSecret, StoreDest
    <3> QED BY <3>1
  <2> QED BY <2>2, <2>4, <2>5
<1>2. /\ StoreDest(d, r).do = "destination" /\ StoreDest(d, r).name = d
      /\ PutSecret(Secret(d, r.secret)).do = "putSecret"
      /\ PutSecret(Secret(d, r.secret)).secret.of = d
      /\ \A n : DelSecret(Secret(d, n)).do = "delSecret"
      /\ \A n : DelSecret(Secret(d, n)).secret.of = d
  BY DEF StoreDest, PutSecret, DelSecret, Secret
<1>3. u \in Seq(Steps) /\ \A i \in DOMAIN u : u[i] = DelSecret(Secret(d, v))
  <2> DEFINE e == DelSecret(Secret(d, v))
  <2>1. e \in Steps
    BY StepTypes
  <2> HIDE DEF e
  <2>2. << e >> \in Seq(Steps) /\ \A i \in DOMAIN << e >> : << e >>[i] = e
    BY <2>1
  <2>3. << >> \in Seq(Steps) /\ DOMAIN << >> = {}
    OBVIOUS
  <2>4. u = << >> \/ u = << e >>
    BY DEF e, DestUndos
  <2> QED BY <2>2, <2>3, <2>4 DEF e
<1>4. \A i \in DOMAIN t :
          /\ t[i].do \in {"destination", "putSecret", "delSecret"}
          /\ t[i].do = "destination" => t[i] = StoreDest(d, r)
          /\ t[i].do \in {"putSecret", "delSecret"} => t[i].secret.of = d
  BY <1>1, <1>2
<1>5. \A i \in DOMAIN u : u[i].do = "delSecret" /\ u[i].secret.of = d
  BY <1>2, <1>3
<1>6. StepsHeld(h, w, t)
  BY <1>2, <1>4 DEF StepsHeld, StepHeld
<1>7. StepsHeld(h, w, u)
  BY <1>5 DEF StepsHeld, StepHeld
<1>8. /\ StoresOnce(t) /\ StoresOnce(u) /\ EnqueuesLast(t)
      /\ RefreshShape(t, u) /\ UndoShape(t, u)
  BY <1>4, <1>5 DEF StoresOnce, EnqueuesLast, RefreshShape, UndoShape
<1>9. DestinationOnce(t)
  BY <1>1, <1>4 DEF DestinationOnce
<1> QED BY <1>3, <1>6, <1>7, <1>8, <1>9 DEF Planned, Shape

(* ... and its deletion. *)
LEMMA PlannedDestinationDelete ==
    ASSUME NEW d \in Dest, NEW w, NEW h, h = {DestLock(d)},
           NEW t, t = << StoreDest(d, NoDest), DelSecrets(d) >>
    PROVE  /\ t \in Seq(Steps) \ {<< >>}
           /\ DOMAIN t = 1..2
           /\ t[1] = StoreDest(d, NoDest) /\ t[2] = DelSecrets(d)
           /\ Planned(h, w, t, << >>)
<1> DEFINE s == StoreDest(d, NoDest)
           e == DelSecrets(d)
<1>1. NoDest \in DestRecord
  BY DEF NoDest, DestRecord
<1>2. /\ s \in Steps /\ s.do = "destination" /\ s.name = d
      /\ e \in Steps /\ e.do = "delSecrets" /\ e.of = d
  BY <1>1, StepTypes DEF StoreDest, DelSecrets
<1> HIDE DEF e, s
<1>3. /\ t \in Seq(Steps) \ {<< >>} /\ Len(t) = 2
      /\ DOMAIN t = 1..2 /\ t[1] = s /\ t[2] = e
  BY <1>2 DEF s, e
<1>4. \A i \in DOMAIN t : (i = 1 /\ t[i] = s) \/ (i = 2 /\ t[i] = e)
  BY <1>3
<1>5. StepsHeld(h, w, t) /\ StepsHeld(h, w, << >>)
  BY <1>2, <1>4 DEF StepsHeld, StepHeld
<1>6. /\ StoresOnce(t) /\ StoresOnce(<< >>) /\ EnqueuesLast(t)
      /\ DestinationOnce(t) /\ RefreshShape(t, << >>) /\ UndoShape(t, << >>)
  BY <1>2, <1>4
     DEF StoresOnce, EnqueuesLast, DestinationOnce, RefreshShape, UndoShape
<1> QED BY <1>3, <1>5, <1>6 DEF s, e, Planned, Shape

-----------------------------------------------------------------------------
(* How a request begins, and how its record changes *)

RunOf(h, w, t, u) ==
    [phase |-> "run", held |-> h, touched |-> w, todo |-> t, undo |-> u]

RestOK ==
    /\ rec \in [Assoc -> AssocRecord]
    /\ dest \in [Dest -> DestRecord]
    /\ data \in [Path -> SUBSET Key]
    /\ eligible \in [Path -> BOOLEAN]
    /\ fresh \in Nat

LEMMA RunFacts ==
    /\ Idle \notin Runs /\ Idle \notin Drafts
    /\ \A x \in Drafts : x \notin Runs /\ x # Idle
    /\ \A x \in Runs : x # Idle /\ x.phase = "run"
    /\ \A h \in SUBSET Locks, w \in SUBSET Assoc,
          t \in Seq(Steps) \ {<< >>}, u \in Seq(Steps) :
           /\ RunOf(h, w, t, u) \in Runs
           /\ RunOf(h, w, t, u).held = h /\ RunOf(h, w, t, u).touched = w
           /\ RunOf(h, w, t, u).todo = t /\ RunOf(h, w, t, u).undo = u
BY DEF Idle, Drafts, Runs, RunOf

LEMMA RunningIsRun ==
    ASSUME TypeOK, NEW c \in Client
    PROVE  /\ Running(c) <=> client[c] \in Runs
           /\ client[c] \in Runs =>
                  /\ client[c].held \in SUBSET Locks
                  /\ client[c].touched \in SUBSET Assoc
                  /\ client[c].todo \in Seq(Steps) /\ client[c].todo # << >>
                  /\ client[c].undo \in Seq(Steps)
                  /\ client[c] = RunOf(client[c].held, client[c].touched,
                                       client[c].todo, client[c].undo)
<1>1. client[c] \in {Idle} \cup Drafts \cup Runs
  BY DEF TypeOK
<1>2. Running(c) <=> client[c] \in Runs
  BY <1>1 DEF Running, Idle, Drafts, Runs
<1>3. ASSUME NEW x \in Runs
      PROVE  /\ x.held \in SUBSET Locks /\ x.touched \in SUBSET Assoc
             /\ x.todo \in Seq(Steps) /\ x.todo # << >> /\ x.undo \in Seq(Steps)
             /\ x = RunOf(x.held, x.touched, x.todo, x.undo)
  BY DEF Runs, RunOf
<1> QED BY <1>2, <1>3

Onward(x, t) == [x EXCEPT !.todo = t]
Undoing(x, t, u) == [x EXCEPT !.todo = t, !.undo = u]

LEMMA ExceptRun ==
    ASSUME NEW h, NEW w, NEW t0, NEW u0, NEW t, NEW u
    PROVE  /\ Undoing(RunOf(h, w, t0, u0), t, u) = RunOf(h, w, t, u)
           /\ Onward(RunOf(h, w, t0, u0), t) = RunOf(h, w, t, u0)
<1> DEFINE Run(x, y) ==
        [phase : {"run"}, held : {h}, touched : {w}, todo : {x}, undo : {y}]
<1>1. RunOf(h, w, t0, u0) \in Run(t0, u0)
  BY DEF RunOf
<1>2. \A x \in Run(t0, u0) : /\ Undoing(x, t, u) \in Run(t, u)
                              /\ Onward(x, t) \in Run(t, u0)
  BY DEF Undoing, Onward
<1>3. /\ \A x \in Run(t, u) : x = RunOf(h, w, t, u)
      /\ \A x \in Run(t, u0) : x = RunOf(h, w, t, u0)
  BY DEF RunOf
<1> HIDE DEF Run
<1> QED BY <1>1, <1>2, <1>3

(* A request takes on the record x. *)
LEMMA BaseAfter ==
    ASSUME BaseInv, RestOK', NEW c \in Client,
           NEW x \in {Idle} \cup Drafts \cup Runs,
           client' = [client EXCEPT ![c] = x],
           x \in Runs =>
               /\ Planned(x.held, x.touched, x.todo, x.undo)
               /\ \A c2 \in Client : c2 # c /\ client[c2] \in Runs =>
                      x.held \cap client[c2].held = {}
    PROVE  BaseInv'
<1>1. client'[c] = x /\ \A c2 \in Client : c2 # c => client'[c2] = client[c2]
  BY DEF BaseInv, TypeOK
<1>2. TypeOK'
  BY DEF BaseInv, TypeOK, RestOK
<1>3. LocksApart'
  <2> SUFFICES ASSUME NEW c1 \in Client, NEW c2 \in Client, c1 # c2,
                      client'[c1] \in Runs, client'[c2] \in Runs
               PROVE  client'[c1].held \cap client'[c2].held = {}
    BY DEF LocksApart
  <2>1. CASE c1 # c /\ c2 # c
    BY <1>1, <2>1 DEF BaseInv, LocksApart
  <2>2. CASE c1 = c
    BY <1>1, <2>2
  <2>3. CASE c2 = c
    BY <1>1, <2>3
  <2> QED BY <2>1, <2>2, <2>3
<1>4. ASSUME NEW c2 \in Client, client'[c2] \in Runs
      PROVE  Planned(client'[c2].held, client'[c2].touched, client'[c2].todo,
                     client'[c2].undo)
  <2>1. CASE c2 = c
    BY <1>1, <1>4, <2>1
  <2>2. CASE c2 # c
    BY <1>1, <1>4, <2>2 DEF BaseInv
  <2> QED BY <2>1, <2>2
<1> QED BY <1>2, <1>3, <1>4 DEF BaseInv

LEMMA BeginRun ==
    ASSUME BaseInv, RestOK', NEW c \in Client,
           NEW h \in SUBSET Locks, NEW w \in SUBSET Assoc,
           NEW t \in Seq(Steps) \ {<< >>}, NEW u \in Seq(Steps),
           Begin(c, h, w, t, u), Planned(h, w, t, u)
    PROVE  /\ client'[c] = RunOf(h, w, t, u)
           /\ \A c2 \in Client : c2 # c => client'[c2] = client[c2]
           /\ BaseInv'
<1>1. client' = [client EXCEPT ![c] = RunOf(h, w, t, u)] /\ Held \cap h = {}
  BY DEF Begin, RunOf
<1>2. /\ RunOf(h, w, t, u) \in Runs
      /\ RunOf(h, w, t, u).held = h /\ RunOf(h, w, t, u).touched = w
      /\ RunOf(h, w, t, u).todo = t /\ RunOf(h, w, t, u).undo = u
  BY RunFacts
<1>3. ASSUME NEW c2 \in Client, client[c2] \in Runs
      PROVE  h \cap client[c2].held = {}
  <2>1. Running(c2)
    BY <1>3, RunningIsRun DEF BaseInv
  <2>2. client[c2].held \subseteq Held
    BY <2>1 DEF Held
  <2> QED BY <1>1, <2>2
<1> HIDE DEF RunOf
<1>4. BaseInv'
  BY <1>1, <1>2, <1>3, BaseAfter
<1>5. /\ client'[c] = RunOf(h, w, t, u)
      /\ \A c2 \in Client : c2 # c => client'[c2] = client[c2]
  BY <1>1 DEF BaseInv, TypeOK
<1> QED BY <1>4, <1>5

(* A request goes on with what it has still to do, t, and how it is undone. *)
GoesOn(c, t, u) ==
    /\ client'[c] = IF t = << >> THEN Idle
                    ELSE RunOf(client[c].held, client[c].touched, t, u)
    /\ \A c2 \in Client : c2 # c => client'[c2] = client[c2]

LEMMA GoOn ==
    ASSUME BaseInv, RestOK', NEW c \in Client, client[c] \in Runs,
           NEW t \in Seq(Steps), NEW u \in Seq(Steps),
           t # << >> => Planned(client[c].held, client[c].touched, t, u),
           client' = [client EXCEPT ![c] =
               IF t = << >> THEN Idle
               ELSE Undoing(client[c], t, u)]
    PROVE  BaseInv' /\ GoesOn(c, t, u)
<1> DEFINE x == IF t = << >> THEN Idle
                ELSE RunOf(client[c].held, client[c].touched, t, u)
<1>1. /\ client[c].held \in SUBSET Locks /\ client[c].touched \in SUBSET Assoc
      /\ client[c] = RunOf(client[c].held, client[c].touched,
                           client[c].todo, client[c].undo)
  BY RunningIsRun DEF BaseInv
<1>2. Undoing(client[c], t, u)
          = RunOf(client[c].held, client[c].touched, t, u)
  BY <1>1, ExceptRun
<1>3. client' = [client EXCEPT ![c] = x]
  BY <1>2
<1>4. x \in {Idle} \cup Runs
  BY <1>1, RunFacts
<1>5. x \in Runs =>
          /\ x.held = client[c].held /\ x.touched = client[c].touched
          /\ x.todo = t /\ x.undo = u /\ t # << >>
  BY <1>1, RunFacts
<1> HIDE DEF x
<1>6. \A c2 \in Client : c2 # c /\ client[c2] \in Runs =>
          client[c].held \cap client[c2].held = {}
  BY DEF BaseInv, LocksApart
<1>7. BaseInv'
  BY <1>3, <1>4, <1>5, <1>6, BaseAfter
<1>8. client'[c] = x /\ \A c2 \in Client : c2 # c => client'[c2] = client[c2]
  BY <1>3 DEF BaseInv, TypeOK
<1> QED BY <1>7, <1>8 DEF x, GoesOn

LEMMA ContinueRun ==
    ASSUME BaseInv, NEW c \in Client, client[c] \in Runs, NEW t, Continue(c, t)
    PROVE  client' = [client EXCEPT ![c] =
               IF t = << >> THEN Idle
               ELSE Undoing(client[c], t, client[c].undo)]
<1>1. client[c] = RunOf(client[c].held, client[c].touched,
                        client[c].todo, client[c].undo)
  BY RunningIsRun DEF BaseInv
<1>2. Onward(client[c], t) = Undoing(client[c], t, client[c].undo)
  BY <1>1, ExceptRun
<1>3. client' = [client EXCEPT ![c] =
          IF t = << >> THEN Idle ELSE Onward(client[c], t)]
  BY DEF Continue, Onward
<1> QED BY <1>2, <1>3

-----------------------------------------------------------------------------
(* The steps of a request keep its shape *)

LEMMA StepBase ==
    ASSUME BaseInv, NEW c \in Client, Step(c)
    PROVE  /\ BaseInv'
           /\ client[c] \in Runs
           /\ Head(client[c].todo) = client[c].todo[1]
           /\ client[c].todo[1] \in Steps
           /\ client[c].todo[1].do \notin {"put", "del", "refresh"}
           /\ Apply(client[c].todo[1])
           /\ fresh' = fresh
           /\ GoesOn(c, Tail(client[c].todo), client[c].undo)
<1>1. /\ client[c] \in Runs
      /\ client[c].todo \in Seq(Steps) /\ client[c].todo # << >>
      /\ client[c].undo \in Seq(Steps)
  BY RunningIsRun DEF BaseInv, Step
<1> DEFINE t == client[c].todo
           s == t[1]
<1>2. Head(t) = s /\ s \in Steps /\ Tail(t) \in Seq(Steps)
  BY <1>1, TailFacts
<1>3. s.do \notin {"put", "del", "refresh"} /\ Apply(s) /\ Continue(c, Tail(t))
      /\ fresh' = fresh
  BY <1>2 DEF Step
<1> HIDE DEF s
<1>4. RestOK'
  <2>1. rec' \in [Assoc -> AssocRecord]
    BY <1>2, <1>3, StepFields DEF Apply, BaseInv, TypeOK
  <2>2. dest' \in [Dest -> DestRecord]
    BY <1>2, <1>3, StepFields DEF Apply, BaseInv, TypeOK
  <2>3. data' \in [Path -> SUBSET Key]
    BY <1>2, <1>3, StepFields DEF Apply, BaseInv, TypeOK
  <2>4. eligible' \in [Path -> BOOLEAN]
    BY <1>2, <1>3, StepFields DEF Apply, BaseInv, TypeOK
  <2>5. fresh' \in Nat
    BY <1>3 DEF BaseInv, TypeOK
  <2> QED BY <2>1, <2>2, <2>3, <2>4, <2>5 DEF RestOK
<1>5. Planned(client[c].held, client[c].touched, t, client[c].undo)
  BY <1>1 DEF BaseInv
<1>6. Planned(client[c].held, client[c].touched, Tail(t), client[c].undo)
  BY <1>1, <1>5, PlannedTail
<1>7. client' = [client EXCEPT ![c] =
          IF Tail(t) = << >> THEN Idle
          ELSE Undoing(client[c], Tail(t), client[c].undo)]
  BY <1>1, <1>3, ContinueRun
<1>8. BaseInv' /\ GoesOn(c, Tail(t), client[c].undo)
  BY <1>1, <1>2, <1>4, <1>6, <1>7, GoOn
<1> QED BY <1>1, <1>2, <1>3, <1>8 DEF s

LEMMA IndexStepBase ==
    ASSUME BaseInv, NEW c \in Client, IndexStep(c)
    PROVE  /\ BaseInv'
           /\ client[c] \in Runs
           /\ \E k \in client[c].todo[1].keys, t \in Seq(Steps) :
                  /\ RoundOf(client[c].todo, k, t)
                  /\ index' = IF client[c].todo[1].do = "put" THEN index \cup {k}
                              ELSE index \ {k}
                  /\ GoesOn(c, t, client[c].undo)
           /\ UNCHANGED <<rec, dest, secrets, data, eligible, work, excused, fresh>>
<1>1. /\ client[c] \in Runs
      /\ client[c].todo \in Seq(Steps) /\ client[c].todo # << >>
      /\ client[c].undo \in Seq(Steps)
  BY RunningIsRun DEF BaseInv, IndexStep
<1>2. Head(client[c].todo) = client[c].todo[1]
  BY <1>1, TailFacts
<1>3. UNCHANGED <<rec, dest, secrets, data, eligible, work, excused, fresh>>
  BY DEF IndexStep
<1>4. RestOK'
  BY <1>3 DEF RestOK, BaseInv, TypeOK
<1>5. PICK k \in client[c].todo[1].keys :
          /\ client[c].todo[1].do \in {"put", "del"}
          /\ index' = IF client[c].todo[1].do = "put" THEN index \cup {k}
                      ELSE index \ {k}
          /\ Continue(c, << [client[c].todo[1] EXCEPT !.keys = @ \ {k}] >>
                             \o Tail(client[c].todo))
  BY <1>2 DEF IndexStep
<1>6. PICK t : t = << [client[c].todo[1] EXCEPT !.keys = @ \ {k}] >>
                       \o Tail(client[c].todo)
  OBVIOUS
<1>7. RoundOf(client[c].todo, k, t)
  BY <1>1, <1>5, <1>6, RoundFacts
<1>8. Continue(c, t)
  BY <1>5, <1>6
<1>9. t \in Seq(Steps) /\ t # << >>
  BY <1>7 DEF RoundOf
<1>10. Planned(client[c].held, client[c].touched, t, client[c].undo)
  BY <1>1, <1>7, <1>9, PlannedRound DEF BaseInv
<1>11. client' = [client EXCEPT ![c] =
           IF t = << >> THEN Idle ELSE Undoing(client[c], t, client[c].undo)]
  BY <1>1, <1>8, ContinueRun
<1>12. BaseInv' /\ GoesOn(c, t, client[c].undo)
  BY <1>1, <1>4, <1>9, <1>10, <1>11, GoOn
<1> QED BY <1>1, <1>3, <1>5, <1>7, <1>9, <1>12

(* The steps that replace index entries and records of one association.    *)
LEMMA RenamedFacts ==
    ASSUME TypeOK, NEW a \in Assoc, NEW ks \in SUBSET Key
    PROVE  /\ Renamed(a, ks) \in AssocRecord
           /\ Renamed(a, ks).live = rec[a].live
           /\ Renamed(a, ks).enabled = rec[a].enabled
           /\ Renamed(a, ks).config = rec[a].config
           /\ ConcreteNames(a, ks) \in SUBSET Name
<1>1. rec[a] \in AssocRecord
  BY DEF TypeOK
<1>2. ConcreteNames(a, ks) \in SUBSET Name
  BY AssociationsAssumption DEF ConcreteNames
<1> QED BY <1>1, <1>2 DEF Renamed, AssocRecord

LEMMA RefreshStepBase ==
    ASSUME BaseInv, NEW c \in Client, RefreshStep(c)
    PROVE  /\ BaseInv'
           /\ client[c] \in Runs
           /\ client[c].undo = << >>
           /\ client[c].todo[1] \in Steps
           /\ client[c].todo[1].do = "refresh"
           /\ \E a \in client[c].todo[1].ids, t \in Seq(Steps) :
                  LET s == client[c].todo[1]
                  IN  /\ Len(t) = 5 /\ DOMAIN t = 1..5
                      /\ Putting(t, 2, a, rec[a], Renamed(a, s.keys))
                      /\ \A i \in 1..3 : t[i].do \in {"put", "store", "del"}
                      /\ t[4] = Refresh(s.ids \ {a}, s.keys)
                      /\ t[5].do = "commit" /\ t[5] = client[c].todo[2]
                      /\ Len(client[c].todo) = 2
                      /\ GoesOn(c, t, << >>)
           /\ UNCHANGED <<rec, index, dest, secrets, data, eligible, work, excused,
                          fresh>>
<1>1. /\ client[c] \in Runs
      /\ client[c].todo \in Seq(Steps) /\ client[c].todo # << >>
      /\ client[c].undo \in Seq(Steps)
  BY RunningIsRun DEF BaseInv, RefreshStep
<1> DEFINE td == client[c].todo
           s == td[1]
<1>2. /\ Head(td) = s /\ s \in Steps /\ 1 \in DOMAIN td
      /\ DOMAIN td = 1..Len(td) /\ Len(td) \in Nat
  BY <1>1, TailFacts
<1>3. UNCHANGED <<rec, index, dest, secrets, data, eligible, work, excused, fresh>>
  BY DEF RefreshStep, stored
<1>4. RestOK'
  BY <1>3 DEF RestOK, BaseInv, TypeOK
<1>5. /\ s.do = "refresh"
      /\ \E a \in s.ids :
             Continue(c, PutAssociation(a, rec[a], Renamed(a, s.keys))
                             \o << Refresh(s.ids \ {a}, s.keys) >> \o Tail(td))
  BY <1>2 DEF RefreshStep
<1>6. Planned(client[c].held, client[c].touched, td, client[c].undo)
  BY <1>1 DEF BaseInv
<1>7. /\ client[c].undo = << >>
      /\ Len(td) = 2 /\ td[2].do = "commit"
      /\ \A b \in s.ids : HasPath(client[c].held, b) /\ b \in client[c].touched
  <2>1. StepHeld(client[c].held, client[c].touched, s)
    BY <1>2, <1>6 DEF Planned, StepsHeld
  <2>2. /\ client[c].undo = << >>
        /\ 1 + 1 = Len(td) /\ td[1 + 1].do = "commit"
    BY <1>2, <1>5, <1>6 DEF Planned, Shape, RefreshShape
  <2> QED BY <1>5, <2>1, <2>2 DEF StepHeld
<1>8. s.ids \in SUBSET Assoc /\ s.keys \in SUBSET Key
  BY <1>2, <1>5, StepFields
<1>9. PICK a \in s.ids :
          Continue(c, RefreshRound(a, rec[a], Renamed(a, s.keys),
                                   s.ids \ {a}, s.keys, td))
  BY <1>5 DEF RefreshRound
<1>10. PICK t : t = RefreshRound(a, rec[a], Renamed(a, s.keys), s.ids \ {a}, s.keys, td)
  OBVIOUS
<1> DEFINE bs == s.ids \ {a}
           ks == s.keys
           new == Renamed(a, ks)
<1>11. /\ a \in Assoc /\ rec[a] \in AssocRecord /\ new \in AssocRecord
       /\ bs \in SUBSET Assoc /\ ks \in SUBSET Key
  BY <1>8, RenamedFacts DEF BaseInv, TypeOK
<1> HIDE DEF td, s, bs, ks, new
<1>12. /\ t \in Seq(Steps) \ {<< >>}
       /\ Len(t) = 5 /\ DOMAIN t = 1..5
       /\ \A i \in 1..3 : t[i].do \in {"put", "store", "del"}
       /\ t[4] = Refresh(bs, ks) /\ t[5] = td[2]
       /\ Putting(t, 2, a, rec[a], new)
  <2>1. t = RefreshRound(a, rec[a], new, bs, ks, td)
    BY <1>10 DEF bs, ks, new
  <2>2. td \in Seq(Steps) /\ Len(td) = 2
        /\ td[2].do \notin {"put", "store", "del"}
    BY <1>1, <1>7 DEF td
  <2> QED BY ONLY <1>11, <2>1, <2>2, RefreshPlan
<1>13. Planned(client[c].held, client[c].touched, t, << >>)
  <2> DEFINE h == client[c].held
             w == client[c].touched
  <2>1. Refresh(bs, ks).do = "refresh" /\ Refresh(bs, ks).ids = bs
    BY DEF Refresh
  <2>2. \A i \in DOMAIN t : \/ i \in 1..3 /\ t[i].do \in {"put", "store", "del"}
                            \/ i = 4 /\ t[i] = Refresh(bs, ks)
                            \/ i = 5 /\ t[i] = td[2]
    BY <1>12
  <2>3. /\ HasPath(h, a) /\ a \in w /\ a \notin bs
        /\ \A b \in bs : HasPath(h, b) /\ b \in w
        /\ StepHeld(h, w, td[2])
    <3>1. StepHeld(h, w, td[2])
      BY <1>2, <1>6, <1>7 DEF Planned, StepsHeld
    <3> QED BY <1>7, <3>1 DEF bs
  <2> HIDE DEF h, w
  <2>4. StepsHeld(h, w, t)
    <3> SUFFICES ASSUME NEW i \in DOMAIN t PROVE StepHeld(h, w, t[i])
      BY DEF StepsHeld
    <3>1. CASE t[i].do \in {"put", "store", "del"}
      BY <1>12, <2>3, <3>1 DEF Putting, StepHeld, StoreAt
    <3>2. CASE t[i] = Refresh(bs, ks)
      BY <2>1, <2>3, <3>2 DEF StepHeld
    <3>3. CASE t[i] = td[2]
      BY <2>3, <3>3
    <3> QED BY <2>2, <3>1, <3>2, <3>3
  <2>5. StepsHeld(h, w, << >>)
    BY DEF StepsHeld
  <2>6. /\ t[4].do = "refresh" /\ t[4].ids = bs /\ t[5].do = "commit"
        /\ \A i \in DOMAIN t :
               i = 4 \/ i = 5 \/ (i \in 1..3 /\ t[i].do \in {"put", "store", "del"})
        /\ \A i \in DOMAIN t : t[i].do = "store" => i = 2 /\ t[i].id = a
    BY <1>7, <1>12, <2>1, <2>2 DEF Putting, StoreAt
  <2>7. StoresOnce(t) /\ StoresOnce(<< >>)
    BY <2>6 DEF StoresOnce
  <2>8. EnqueuesLast(t) /\ DestinationOnce(t)
    BY <1>12, <2>6 DEF EnqueuesLast, DestinationOnce
  <2>9. RefreshShape(t, << >>)
    BY <1>12, <2>3, <2>6 DEF RefreshShape
  <2>10. UndoShape(t, << >>)
    BY DEF UndoShape
  <2> QED BY <2>4, <2>5, <2>7, <2>8, <2>9, <2>10 DEF Planned, Shape, h, w
<1>14. client' = [client EXCEPT ![c] =
           IF t = << >> THEN Idle ELSE Undoing(client[c], t, client[c].undo)]
  <2>1. Continue(c, t)
    BY <1>9, <1>10
  <2> QED BY <1>1, <2>1, ContinueRun
<1>15. BaseInv' /\ GoesOn(c, t, << >>)
  <2>1. t \in Seq(Steps) /\ << >> \in Seq(Steps)
    BY <1>12
  <2> QED BY <1>1, <1>4, <1>7, <1>13, <1>14, <2>1, GoOn
<1> QED BY <1>1, <1>2, <1>3, <1>5, <1>7, <1>12, <1>15 DEF td, s, bs, ks, new

LEMMA LoopEndsBase ==
    ASSUME BaseInv, NEW c \in Client, LoopEnds(c)
    PROVE  /\ BaseInv'
           /\ client[c] \in Runs
           /\ LoopDone(client[c].todo[1])
           /\ GoesOn(c, Tail(client[c].todo), client[c].undo)
           /\ UNCHANGED <<rec, index, dest, secrets, data, eligible, work, excused,
                          fresh>>
<1>1. /\ client[c] \in Runs
      /\ client[c].todo \in Seq(Steps) /\ client[c].todo # << >>
      /\ client[c].undo \in Seq(Steps)
  BY RunningIsRun DEF BaseInv, LoopEnds
<1>2. Head(client[c].todo) = client[c].todo[1] /\ Tail(client[c].todo) \in Seq(Steps)
  BY <1>1, TailFacts
<1>3. /\ LoopDone(client[c].todo[1]) /\ Continue(c, Tail(client[c].todo))
      /\ UNCHANGED <<rec, index, dest, secrets, data, eligible, work, excused, fresh>>
  BY <1>2 DEF LoopEnds, stored
<1>4. RestOK'
  BY <1>3 DEF RestOK, BaseInv, TypeOK
<1>5. Planned(client[c].held, client[c].touched, Tail(client[c].todo), client[c].undo)
  BY <1>1, PlannedTail DEF BaseInv
<1>6. client' = [client EXCEPT ![c] =
          IF Tail(client[c].todo) = << >> THEN Idle
          ELSE Undoing(client[c], Tail(client[c].todo), client[c].undo)]
  BY <1>1, <1>3, ContinueRun
<1>7. BaseInv' /\ GoesOn(c, Tail(client[c].todo), client[c].undo)
  BY <1>1, <1>2, <1>4, <1>5, <1>6, GoOn
<1> QED BY <1>1, <1>3, <1>7

(* A request ends, or turns to its undo. *)
LEMMA Ends ==
    ASSUME BaseInv, RestOK', NEW c \in Client, client[c] \in Runs,
           client' = [client EXCEPT ![c] = Idle]
    PROVE  BaseInv' /\ GoesOn(c, << >>, << >>)
<1>1. << >> \in Seq(Steps)
  OBVIOUS
<1>2. client' = [client EXCEPT ![c] =
          IF << >> = << >> THEN Idle ELSE Undoing(client[c], << >>, << >>)]
  OBVIOUS
<1> QED BY <1>1, <1>2, GoOn

LEMMA TurnsToUndo ==
    ASSUME BaseInv, RestOK', NEW c \in Client, client[c] \in Runs,
           client[c].todo[1].do \in {"enqueue", "destination"},
           client' = [client EXCEPT ![c] =
               IF client[c].undo = << >> THEN Idle
               ELSE Undoing(client[c], client[c].undo, << >>)]
    PROVE  BaseInv' /\ GoesOn(c, client[c].undo, << >>)
<1>1. /\ client[c].todo \in Seq(Steps) /\ client[c].todo # << >>
      /\ client[c].undo \in Seq(Steps) /\ << >> \in Seq(Steps)
  BY RunningIsRun DEF BaseInv
<1>2. Planned(client[c].held, client[c].touched, client[c].undo, << >>)
  BY <1>1, PlannedUndo DEF BaseInv
<1> QED BY <1>1, <1>2, GoOn

LEMMA RefusedBase ==
    ASSUME BaseInv, NEW c \in Client, Refused(c)
    PROVE  /\ BaseInv'
           /\ client[c] \in Runs
           /\ \/ /\ client[c].todo[1].do = "enqueue"
                 /\ GoesOn(c, client[c].undo, << >>)
              \/ /\ client[c].todo[1].do = "cancel"
                 /\ GoesOn(c, << >>, << >>)
           /\ UNCHANGED <<rec, index, dest, secrets, data, eligible, work, excused,
                          fresh>>
<1>1. /\ client[c] \in Runs
      /\ client[c].todo \in Seq(Steps) /\ client[c].todo # << >>
  BY RunningIsRun DEF BaseInv, Refused
<1>2. Head(client[c].todo) = client[c].todo[1]
  BY <1>1, TailFacts
<1>3. UNCHANGED <<rec, index, dest, secrets, data, eligible, work, excused, fresh>>
  BY DEF Refused, stored
<1>4. RestOK'
  BY <1>3 DEF RestOK, BaseInv, TypeOK
<1>5. CASE /\ client[c].todo[1].do = "enqueue"
           /\ client' = [client EXCEPT ![c] =
                  IF client[c].undo = << >> THEN Idle
                  ELSE Undoing(client[c], client[c].undo, << >>)]
  BY <1>1, <1>3, <1>4, <1>5, TurnsToUndo
<1>6. CASE /\ client[c].todo[1].do = "cancel"
           /\ client' = [client EXCEPT ![c] = Idle]
  BY <1>1, <1>3, <1>4, <1>6, Ends
<1> QED BY <1>2, <1>5, <1>6 DEF Refused, Undoing

LEMMA StorageFailsBase ==
    ASSUME BaseInv, NEW c \in Client, StorageFails(c)
    PROVE  /\ BaseInv'
           /\ client[c] \in Runs
           /\ client[c].todo[1].do # "refresh"
           /\ \/ /\ client[c].todo[1].do \in {"enqueue", "destination"}
                 /\ client[c].undo # << >>
                 /\ GoesOn(c, client[c].undo, << >>)
                 /\ excused' = excused
              \/ /\ GoesOn(c, << >>, << >>)
                 /\ excused' = excused \cup client[c].touched
           /\ UNCHANGED <<rec, index, dest, secrets, data, eligible, work, fresh>>
<1>1. /\ client[c] \in Runs
      /\ client[c].todo \in Seq(Steps) /\ client[c].todo # << >>
  BY RunningIsRun DEF BaseInv, StorageFails
<1>2. Head(client[c].todo) = client[c].todo[1]
  BY <1>1, TailFacts
<1>3. /\ UNCHANGED <<rec, index, dest, secrets, data, eligible, work, fresh>>
      /\ client[c].todo[1].do # "refresh"
  BY <1>2 DEF StorageFails
<1>4. RestOK'
  BY <1>3 DEF RestOK, BaseInv, TypeOK
<1> DEFINE undone == /\ client[c].todo[1].do \in {"enqueue", "destination"}
                     /\ client[c].undo # << >>
<1>5. /\ client' = [client EXCEPT ![c] =
             IF undone THEN Undoing(client[c], client[c].undo, << >>) ELSE Idle]
      /\ excused' = IF undone THEN excused ELSE excused \cup client[c].touched
  BY <1>2 DEF StorageFails, Undoing
<1>6. CASE undone
  <2>1. client' = [client EXCEPT ![c] =
            IF client[c].undo = << >> THEN Idle
            ELSE Undoing(client[c], client[c].undo, << >>)]
    BY <1>5, <1>6
  <2>2. BaseInv' /\ GoesOn(c, client[c].undo, << >>)
    BY <1>1, <1>4, <1>6, <2>1, TurnsToUndo
  <2> QED BY <1>1, <1>3, <1>5, <1>6, <2>2
<1>7. CASE ~undone
  <2>1. client' = [client EXCEPT ![c] = Idle]
    BY <1>5, <1>7
  <2>2. BaseInv' /\ GoesOn(c, << >>, << >>)
    BY <1>1, <1>4, <2>1, Ends
  <2> QED BY <1>1, <1>3, <1>5, <1>7, <2>2
<1> QED BY <1>6, <1>7

LEMMA CrashBase ==
    ASSUME BaseInv, Crash
    PROVE  /\ BaseInv'
           /\ \A c \in Client : client'[c] \notin Runs
           /\ \A c \in Client : client[c] \in Runs => client[c].touched \subseteq excused'
           /\ excused \subseteq excused'
           /\ UNCHANGED <<rec, index, dest, secrets, data, eligible, work, fresh>>
<1>1. /\ client' = [c \in Client |-> Idle]
      /\ UNCHANGED <<rec, index, dest, secrets, data, eligible, work, fresh>>
  BY DEF Crash
<1>2. \A c \in Client : client'[c] \notin Runs
  BY <1>1, RunFacts
<1>3. TypeOK'
  BY <1>1 DEF BaseInv, TypeOK
<1>4. BaseInv'
  BY <1>2, <1>3 DEF BaseInv, LocksApart
<1>5. excused' = excused \cup
          UNION {client[c].touched : c \in {x \in Client : Running(x)}}
  BY DEF Crash
<1>6. \A c \in Client : client[c] \in Runs => client[c].touched \subseteq excused'
  BY <1>5, RunningIsRun DEF BaseInv
<1> QED BY <1>1, <1>2, <1>4, <1>5, <1>6

-----------------------------------------------------------------------------
(* Every request begins planned: the base invariant *)

LEMMA LockFacts ==
    ASSUME NEW a \in Assoc
    PROVE  /\ PathOf[a] \in Path /\ DestOf[a] \in Dest
           /\ WriteLocks(a) \in SUBSET Locks /\ HasPath(WriteLocks(a), a)
           /\ {SourceLock(PathOf[a])} \in SUBSET Locks
           /\ HasPath({SourceLock(PathOf[a])}, a)
           /\ {SourceLock(PathOf[a]), NameLock(a)} \in SUBSET Locks
           /\ HasPath({SourceLock(PathOf[a]), NameLock(a)}, a)
BY AssociationsAssumption DEF WriteLocks, Locks, HasPath

LEMMA PutRequestPlanned ==
    ASSUME NEW a \in Assoc, NEW old \in AssocRecord, NEW new \in AssocRecord,
           new.live, NEW previous \in AssocRecord, NEW h, HasPath(h, a), NEW w, w = {a},
           NEW b \in BOOLEAN, NEW t, NEW u,
           t = PutThenEnqueue(a, old, new, b),
           u = Rollback(a, previous, new)
    PROVE  /\ t \in Seq(Steps) \ {<< >>} /\ u \in Seq(Steps)
           /\ PutTodo(t, a, old, new) /\ PutUndo(u, a, new, Restored(previous))
           /\ Restored(previous) \in AssocRecord
           /\ Enqueueing(t) <=> b
           /\ Planned(h, w, t, u)
<1>1. /\ t \in Seq(Steps) \ {<< >>}
      /\ PutTodo(t, a, old, new)
      /\ Enqueueing(t) <=> b
  BY PutPlan
<1>2. /\ u \in Seq(Steps)
      /\ PutUndo(u, a, new, Restored(previous))
      /\ Restored(previous) \in AssocRecord
  BY RollbackPlan
<1>3. Putting(t, 2, a, old, new) /\ AboutOne(t, a)
  BY <1>1 DEF PutTodo, AboutOne
<1>4. UndoesOne(u, a, new)
  BY <1>2 DEF UndoesOne
<1>5. Planned(h, w, t, u)
  BY ONLY <1>1, <1>2, <1>3, <1>4, HasPath(h, a), w = {a}, a \in Assoc,
          new \in AssocRecord, PlannedPutting
<1> QED BY <1>1, <1>2, <1>5

(* The request of c begins as a run with these parts. *)
Begins(c, h, w, t, u) ==
    /\ client'[c] = RunOf(h, w, t, u)
    /\ h \in SUBSET Locks /\ w \in SUBSET Assoc
    /\ t \in Seq(Steps) \ {<< >>} /\ u \in Seq(Steps)
    /\ \A c2 \in Client : c2 # c => client'[c2] = client[c2]

LEMMA BeginFacts ==
    ASSUME BaseInv, NEW c \in Client, UNCHANGED stored, fresh' \in Nat,
           NEW h \in SUBSET Locks, NEW w \in SUBSET Assoc,
           NEW t \in Seq(Steps) \ {<< >>}, NEW u \in Seq(Steps),
           Begin(c, h, w, t, u), Planned(h, w, t, u)
    PROVE  BaseInv' /\ Begins(c, h, w, t, u)
<1>1. RestOK'
  BY DEF RestOK, BaseInv, TypeOK, stored
<1>2. /\ client'[c] = RunOf(h, w, t, u)
      /\ \A c2 \in Client : c2 # c => client'[c2] = client[c2]
      /\ BaseInv'
  BY <1>1, BeginRun
<1> QED BY <1>2 DEF Begins

LEMMA FieldsFacts ==
    ASSUME NEW base \in AssocRecord, NEW e \in {"yes", "no", "keep"},
           NEW k \in Config \cup {0}
    PROVE  RecordFromFieldData(base, e, k) \in [enabled : BOOLEAN, config : Configs]
<1>1. EnabledDefault(base) \in BOOLEAN
  BY DEF EnabledDefault, AssocRecord
<1>2. ConfigDefault(base) \in Configs
  BY DEF ConfigDefault, AssocRecord, Configs
<1>3. k \in Configs
  BY DEF Configs
<1> HIDE DEF EnabledDefault
<1> QED BY <1>1, <1>2, <1>3 DEF RecordFromFieldData

LEMMA WriteDraftBase ==
    ASSUME BaseInv, NEW c \in Client, NEW a \in Assoc,
           NEW e \in {"yes", "no", "keep"}, NEW k \in Config \cup {0},
           WriteDraft(c, a, e, k)
    PROVE  /\ BaseInv'
           /\ client[c] \notin Runs /\ client'[c] \notin Runs
           /\ \A c2 \in Client : c2 # c => client'[c2] = client[c2]
           /\ UNCHANGED stored /\ fresh' = fresh
<1> DEFINE x == [phase |-> "draft", id |-> a,
                 fields |-> RecordFromFieldData(UpdateBase(a), e, k)]
<1>1. /\ client[c] = Idle
      /\ client' = [client EXCEPT ![c] = x]
      /\ UNCHANGED stored /\ fresh' = fresh
  BY DEF WriteDraft, NewRequest
<1>2. x \in Drafts
  <2>1. RecordFromFieldData(UpdateBase(a), e, k) \in [enabled : BOOLEAN, config : Configs]
    BY FieldsFacts DEF UpdateBase, BaseInv, TypeOK
  <2> QED BY <2>1 DEF Drafts
<1> HIDE DEF x
<1>3. RestOK'
  BY <1>1 DEF RestOK, BaseInv, TypeOK, stored
<1>4. x \notin Runs /\ client[c] \notin Runs
  BY <1>1, <1>2, RunFacts
<1>5. BaseInv'
  BY <1>1, <1>2, <1>3, <1>4, BaseAfter
<1>6. client'[c] = x /\ \A c2 \in Client : c2 # c => client'[c2] = client[c2]
  BY <1>1 DEF BaseInv, TypeOK
<1> QED BY <1>1, <1>4, <1>5, <1>6

(* The request of c writes the record `new` for a, enqueues if b, and puts *)
(* `previous` back if the enqueue fails.                                   *)
PutBegins(c, a, new, previous, b, h, w, t, u) ==
    /\ Begins(c, h, w, t, u)
    /\ HasPath(h, a) /\ w = {a} /\ new.live
    /\ PutTodo(t, a, rec[a], new)
    /\ PutUndo(u, a, new, Restored(previous))
    /\ Enqueueing(t) <=> b

(* No request before, or none after: c holds no locks. *)
StaysOut(c) ==
    /\ client'[c] \notin Runs
    /\ \A c2 \in Client : c2 # c => client'[c2] = client[c2]

LEMMA PutBeginsFacts ==
    ASSUME BaseInv, NEW c \in Client, UNCHANGED stored, fresh' = fresh,
           NEW a \in Assoc, NEW new \in AssocRecord, new.live,
           NEW previous \in AssocRecord, NEW b \in BOOLEAN,
           NEW h \in SUBSET Locks, HasPath(h, a), NEW w, w = {a},
           NEW t, t = PutThenEnqueue(a, rec[a], new, b),
           NEW u, u = Rollback(a, previous, new),
           Begin(c, h, w, t, u)
    PROVE  BaseInv' /\ PutBegins(c, a, new, previous, b, h, w, t, u)
<1>1. rec[a] \in AssocRecord /\ fresh' \in Nat
  BY DEF BaseInv, TypeOK
<1>2. /\ t \in Seq(Steps) \ {<< >>} /\ u \in Seq(Steps)
      /\ PutTodo(t, a, rec[a], new) /\ PutUndo(u, a, new, Restored(previous))
      /\ Enqueueing(t) <=> b
      /\ Planned(h, w, t, u)
  BY ONLY <1>1, a \in Assoc, new \in AssocRecord, new.live,
          previous \in AssocRecord, HasPath(h, a), w = {a}, b \in BOOLEAN,
          t = PutThenEnqueue(a, rec[a], new, b),
          u = Rollback(a, previous, new), PutRequestPlanned
<1>3. w \in SUBSET Assoc
  OBVIOUS
<1>4. BaseInv' /\ Begins(c, h, w, t, u)
  BY ONLY BaseInv, c \in Client, UNCHANGED stored, h \in SUBSET Locks,
          Begin(c, h, w, t, u), <1>1, <1>2, <1>3, BeginFacts
<1> QED BY <1>2, <1>4 DEF PutBegins

WriteRecord(a, fields) ==
    [live |-> TRUE, enabled |-> fields.enabled, config |-> fields.config,
     names |-> ConcreteNames(a, data[PathOf[a]])]

LEMMA WriteBase ==
    ASSUME BaseInv, NEW c \in Client, Write(c)
    PROVE  /\ BaseInv'
           /\ client[c] \notin Runs
           /\ UNCHANGED stored /\ fresh' = fresh
           /\ \/ StaysOut(c)
              \/ \E a \in Assoc, new \in AssocRecord : \E h, w, t, u :
                     /\ PutBegins(c, a, new, rec[a], ShouldEnqueue(rec[a], new),
                                  h, w, t, u)
                     /\ h = WriteLocks(a)
                     /\ WritePreflight(a, new)
<1>1. /\ client[c].phase = "draft"
      /\ UNCHANGED stored /\ fresh' = fresh
  BY DEF Write
<1>2. client[c] \in Drafts /\ client[c] \notin Runs
  <2>1. client[c] \in {Idle} \cup Drafts \cup Runs
    BY DEF BaseInv, TypeOK
  <2> QED BY <1>1, <2>1 DEF Idle, Drafts, Runs
<1>3. PICK a \in Assoc : a = client[c].id
  BY <1>2 DEF Drafts
<1> DEFINE new == WriteRecord(a, client[c].fields)
<1>4. new \in AssocRecord /\ new.live
  <2>1. ConcreteNames(a, data[PathOf[a]]) \in SUBSET Name
    BY RenamedFacts, AssociationsAssumption DEF BaseInv, TypeOK
  <2>2. client[c].fields \in [enabled : BOOLEAN, config : Configs]
    BY <1>2 DEF Drafts
  <2> QED BY <2>1, <2>2 DEF WriteRecord, AssocRecord
<1>5. \/ /\ WritePreflight(a, new)
         /\ Begin(c, WriteLocks(a), {a},
                  PutThenEnqueue(a, rec[a], new, ShouldEnqueue(rec[a], new)),
                  Rollback(a, rec[a], new))
      \/ client' = [client EXCEPT ![c] = Idle]
  BY <1>3 DEF Write, WriteRecord, PutThenEnqueue
<1> HIDE DEF new
<1>6. CASE client' = [client EXCEPT ![c] = Idle]
  <2>1. RestOK'
    BY <1>1 DEF RestOK, BaseInv, TypeOK, stored
  <2>2. BaseInv'
    BY <1>6, <2>1, RunFacts, BaseAfter
  <2>3. StaysOut(c)
    BY <1>6, RunFacts DEF BaseInv, TypeOK, StaysOut
  <2> QED BY <1>1, <1>2, <2>2, <2>3
<1>7. CASE /\ WritePreflight(a, new)
           /\ Begin(c, WriteLocks(a), {a},
                    PutThenEnqueue(a, rec[a], new, ShouldEnqueue(rec[a], new)),
                    Rollback(a, rec[a], new))
  <2>1. PICK h, w, t, u, b :
            /\ h = WriteLocks(a) /\ w = {a} /\ b = ShouldEnqueue(rec[a], new)
            /\ t = PutThenEnqueue(a, rec[a], new, b)
            /\ u = Rollback(a, rec[a], new)
    OBVIOUS
  <2>2. Begin(c, h, w, t, u)
    BY <1>7, <2>1
  <2>3. h \in SUBSET Locks /\ HasPath(h, a)
    BY <2>1, LockFacts
  <2>4. rec[a] \in AssocRecord
    BY DEF BaseInv, TypeOK
  <2>5. b \in BOOLEAN
    BY <1>4, <2>1, <2>4 DEF ShouldEnqueue, AssocRecord
  <2>6. BaseInv' /\ PutBegins(c, a, new, rec[a], b, h, w, t, u)
    BY <1>1, <1>4, <2>1, <2>2, <2>3, <2>4, <2>5, PutBeginsFacts
  <2> QED BY <1>1, <1>2, <1>4, <1>7, <2>1, <2>6
<1> QED BY <1>5, <1>6, <1>7

LEMMA EnableBase ==
    ASSUME BaseInv, NEW c \in Client, NEW a \in Assoc, Enable(c, a)
    PROVE  /\ BaseInv'
           /\ client[c] \notin Runs
           /\ UNCHANGED stored /\ fresh' = fresh
           /\ rec[a].live
           /\ \E new \in AssocRecord, previous \in AssocRecord : \E h, w, t, u :
                  /\ PutBegins(c, a, new, previous, ~rec[a].enabled, h, w, t, u)
                  /\ previous.live /\ previous.enabled = rec[a].enabled
                  /\ new.config = rec[a].config
<1> DEFINE old == Renamed(a, data[PathOf[a]])
           put == [old EXCEPT !.enabled = TRUE]
<1>1. /\ client[c] = Idle
      /\ UNCHANGED stored /\ fresh' = fresh
      /\ rec[a].live
      /\ Begin(c, {SourceLock(PathOf[a])}, {a},
               PutThenEnqueue(a, rec[a], put, ~rec[a].enabled),
               Rollback(a, old, put))
  BY DEF Enable, NewRequest, PutThenEnqueue, Renamed
<1>2. rec[a] \in AssocRecord
  BY DEF BaseInv, TypeOK
<1>3. /\ old \in AssocRecord /\ old.live = rec[a].live
      /\ old.enabled = rec[a].enabled /\ old.config = rec[a].config
  BY RenamedFacts, AssociationsAssumption DEF BaseInv, TypeOK
<1> HIDE DEF old
<1>4. put \in AssocRecord /\ put.live /\ put.config = rec[a].config
  BY <1>1, <1>3 DEF AssocRecord
<1> HIDE DEF put
<1>5. PICK h, w, t, u, b :
          /\ h = {SourceLock(PathOf[a])} /\ w = {a} /\ b = ~rec[a].enabled
          /\ t = PutThenEnqueue(a, rec[a], put, b)
          /\ u = Rollback(a, old, put)
  OBVIOUS
<1>6. Begin(c, h, w, t, u)
  BY <1>1, <1>5
<1>7. h \in SUBSET Locks /\ HasPath(h, a)
  BY <1>5, LockFacts
<1>8. b \in BOOLEAN
  BY <1>2, <1>5 DEF AssocRecord
<1>9. BaseInv' /\ PutBegins(c, a, put, old, b, h, w, t, u)
  BY <1>1, <1>3, <1>4, <1>5, <1>6, <1>7, <1>8, PutBeginsFacts
<1>10. /\ PutBegins(c, a, put, old, ~rec[a].enabled, h, w, t, u)
       /\ old.live /\ old.enabled = rec[a].enabled /\ put.config = rec[a].config
  BY <1>1, <1>3, <1>4, <1>5, <1>9
<1>11. client[c] \notin Runs
  BY <1>1, RunFacts
<1> QED BY ONLY <1>1, <1>3, <1>4, <1>9, <1>10, <1>11

(* A request that cancels what is queued for a before it puts `new`. *)
CancelBegins(c, a, new, h, w, t, u) ==
    /\ Begins(c, h, w, t, u)
    /\ HasPath(h, a) /\ w = {a} /\ u = << >>
    /\ new.live => rec[a].live
    /\ ~(new.live /\ new.enabled)
    /\ \E j \in DOMAIN t : Putting(t, j, a, rec[a], new)
    /\ \A i \in DOMAIN t : t[i].do \in {"cancel", "put", "store", "del"}
    /\ \A i \in DOMAIN t : t[i].do = "cancel" => i = 1 /\ t[i].id = a

LEMMA CancelBeginsFacts ==
    ASSUME BaseInv, NEW c \in Client, UNCHANGED stored, fresh' = fresh,
           NEW a \in Assoc, NEW new \in AssocRecord,
           new.live => rec[a].live, ~(new.live /\ new.enabled),
           NEW h \in SUBSET Locks, HasPath(h, a), NEW w, w = {a},
           NEW t, \/ t = CancelThenPut(a, rec[a], new)
                  \/ new = Gone /\ t = CancelThenDelete(a, rec[a]),
           NEW u, u = << >>, Begin(c, h, w, t, u)
    PROVE  BaseInv' /\ CancelBegins(c, a, new, h, w, t, u)
<1>1. rec[a] \in AssocRecord /\ fresh' \in Nat
  BY DEF BaseInv, TypeOK
<1>2. /\ t \in Seq(Steps) \ {<< >>}
      /\ \E j \in DOMAIN t : Putting(t, j, a, rec[a], new)
      /\ \A i \in DOMAIN t : t[i].do \in {"cancel", "put", "store", "del"}
      /\ \A i \in DOMAIN t : t[i].do = "cancel" => i = 1 /\ t[i].id = a
  BY <1>1, CancelPlan
<1>3. u \in Seq(Steps) /\ w \in SUBSET Assoc
  OBVIOUS
<1>4. PICK j \in DOMAIN t : Putting(t, j, a, rec[a], new)
  BY <1>2
<1>5. AboutOne(t, a) /\ UndoesOne(u, a, new)
  BY <1>2 DEF AboutOne, UndoesOne
<1>6. Planned(h, w, t, u)
  BY <1>2, <1>3, <1>4, <1>5, PlannedPutting
<1>7. BaseInv' /\ Begins(c, h, w, t, u)
  BY ONLY BaseInv, c \in Client, UNCHANGED stored, h \in SUBSET Locks,
          Begin(c, h, w, t, u), <1>1, <1>2, <1>3, <1>6, BeginFacts
<1> QED BY <1>2, <1>7 DEF CancelBegins

LEMMA DisableBase ==
    ASSUME BaseInv, NEW c \in Client, NEW a \in Assoc, Disable(c, a)
    PROVE  /\ BaseInv'
           /\ client[c] \notin Runs
           /\ UNCHANGED stored /\ fresh' = fresh
           /\ \E new \in AssocRecord : \E h, w, t, u :
                  CancelBegins(c, a, new, h, w, t, u)
<1> DEFINE new == [rec[a] EXCEPT !.enabled = FALSE]
<1>1. /\ client[c] = Idle
      /\ UNCHANGED stored /\ fresh' = fresh
      /\ rec[a].live
      /\ Begin(c, {SourceLock(PathOf[a])}, {a},
               CancelThenPut(a, rec[a], new), << >>)
  BY DEF Disable, NewRequest, CancelThenPut
<1>2. new \in AssocRecord /\ ~new.enabled
  BY DEF BaseInv, TypeOK, AssocRecord
<1> HIDE DEF new
<1>3. PICK h, w, t, u :
          /\ h = {SourceLock(PathOf[a])} /\ w = {a}
          /\ t = CancelThenPut(a, rec[a], new) /\ u = << >>
  OBVIOUS
<1>4. Begin(c, h, w, t, u)
  BY <1>1, <1>3
<1>5. h \in SUBSET Locks /\ HasPath(h, a)
  BY <1>3, LockFacts
<1>6. BaseInv' /\ CancelBegins(c, a, new, h, w, t, u)
  BY <1>1, <1>2, <1>3, <1>4, <1>5, CancelBeginsFacts
<1> QED BY <1>1, <1>2, <1>6, RunFacts

LEMMA DeleteBase ==
    ASSUME BaseInv, NEW c \in Client, NEW a \in Assoc, Delete(c, a)
    PROVE  /\ BaseInv'
           /\ client[c] \notin Runs
           /\ UNCHANGED stored /\ fresh' = fresh
           /\ \E new \in AssocRecord : \E h, w, t, u :
                  CancelBegins(c, a, new, h, w, t, u)
<1>1. /\ client[c] = Idle
      /\ UNCHANGED stored /\ fresh' = fresh
      /\ Begin(c, {SourceLock(PathOf[a]), NameLock(a)}, {a},
               CancelThenDelete(a, rec[a]), << >>)
  BY DEF Delete, NewRequest, CancelThenDelete
<1>2. PICK h, w, t, u :
          /\ h = {SourceLock(PathOf[a]), NameLock(a)} /\ w = {a}
          /\ t = CancelThenDelete(a, rec[a]) /\ u = << >>
  OBVIOUS
<1>3. Begin(c, h, w, t, u)
  BY <1>1, <1>2
<1>4. h \in SUBSET Locks /\ HasPath(h, a)
  BY <1>2, LockFacts
<1>5. BaseInv' /\ CancelBegins(c, a, Gone, h, w, t, u)
  BY <1>1, <1>2, <1>3, <1>4, GoneFacts, CancelBeginsFacts
<1> QED BY <1>1, <1>5, GoneFacts, RunFacts

(* A request that stores no association and no destination. *)
EnqueueBegins(c, h, w, t, u) ==
    /\ Begins(c, h, w, t, u)
    /\ \A i \in DOMAIN t : t[i].do \in {"enqueue", "eligible"}
    /\ \A i \in DOMAIN u : u[i].do = "eligible"

LEMMA SyncBase ==
    ASSUME BaseInv, NEW c \in Client, NEW a \in Assoc, Sync(c, a)
    PROVE  /\ BaseInv'
           /\ client[c] \notin Runs
           /\ UNCHANGED stored /\ fresh' = fresh
           /\ \E h, w, t, u : EnqueueBegins(c, h, w, t, u)
<1>1. /\ client[c] = Idle
      /\ UNCHANGED stored /\ fresh' = fresh
      /\ Begin(c, {SourceLock(PathOf[a])}, {}, << Enqueue({a}) >>, << >>)
  BY DEF Sync, NewRequest
<1>2. PICK h, w, t, u : /\ h = {SourceLock(PathOf[a])} /\ w = {}
                        /\ t = << Enqueue({a}) >> /\ u = << >>
  OBVIOUS
<1>3. Begin(c, h, w, t, u)
  BY <1>1, <1>2
<1>4. /\ h \in SUBSET Locks /\ HasPath(h, a) /\ w \in SUBSET Assoc
      /\ u \in Seq(Steps)
  <2>1. h \in SUBSET Locks /\ HasPath(h, a)
    BY <1>2, LockFacts
  <2> QED BY <1>2, <2>1
<1>5. t \in Seq(Steps) \ {<< >>} /\ Planned(h, w, t, u)
  BY <1>2, <1>4, PlannedSync
<1>6. fresh' \in Nat
  BY <1>1 DEF BaseInv, TypeOK
<1>7. BaseInv' /\ Begins(c, h, w, t, u)
  BY ONLY BaseInv, c \in Client, <1>1, <1>3, <1>4, <1>5, <1>6, BeginFacts
<1>8. \A i \in DOMAIN t : t[i].do \in {"enqueue", "eligible"}
  <2> DEFINE e == Enqueue({a})
  <2>1. e.do = "enqueue"
    BY DEF Enqueue
  <2> HIDE DEF e
  <2>2. \A i \in DOMAIN << e >> : << e >>[i] = e
    OBVIOUS
  <2> QED BY <1>2, <2>1, <2>2 DEF e
<1>9. \A i \in DOMAIN u : u[i].do = "eligible"
  BY <1>2
<1>10. EnqueueBegins(c, h, w, t, u)
  BY <1>7, <1>8, <1>9 DEF EnqueueBegins
<1> QED BY <1>1, <1>7, <1>10, RunFacts

EnabledAtOrNone(p, b) == IF b THEN EnabledAt(p) ELSE {}

LEMMA EnabledFacts ==
    ASSUME NEW p \in Path, NEW b
    PROVE  /\ EnabledAtOrNone(p, b) \in SUBSET Assoc
           /\ \A a \in EnabledAtOrNone(p, b) : PathOf[a] = p /\ rec[a].live
BY DEF EnabledAt, EnabledAtOrNone

SetThenEnqueue(p, on, bs, b) ==
    << SetEligible(p, on) >> \o (IF b THEN << Enqueue(bs) >> ELSE << >>)

LEMMA SourceSyncBase ==
    ASSUME BaseInv, NEW c \in Client, NEW p \in Path, NEW on \in BOOLEAN,
           SourceSync(c, p, on)
    PROVE  /\ BaseInv'
           /\ client[c] \notin Runs
           /\ UNCHANGED stored /\ fresh' = fresh
           /\ \E h, w, t, u : EnqueueBegins(c, h, w, t, u)
<1>1. PICK bs : bs = EnabledAtOrNone(p, data[p] # {})
  OBVIOUS
<1>2. PICK b \in BOOLEAN : b <=> (on /\ bs # {})
  OBVIOUS
<1>3. /\ client[c] = Idle
      /\ UNCHANGED stored /\ fresh' = fresh
      /\ Begin(c, {SourceLock(p)}, {}, SetThenEnqueue(p, on, bs, b),
               << SetEligible(p, ~on) >>)
  BY <1>1, <1>2 DEF SourceSync, NewRequest, SetThenEnqueue, EnabledAtOrNone
<1>4. PICK h, w, t, u : /\ h = {SourceLock(p)} /\ w = {}
                        /\ t = SetThenEnqueue(p, on, bs, b)
                        /\ u = << SetEligible(p, ~on) >>
  OBVIOUS
<1>5. Begin(c, h, w, t, u)
  BY <1>3, <1>4
<1>6. h \in SUBSET Locks /\ w \in SUBSET Assoc
  BY <1>4 DEF Locks
<1>7. bs \in SUBSET Assoc /\ \A a \in bs : PathOf[a] = p
  BY <1>1, EnabledFacts
<1>8. /\ t \in Seq(Steps) \ {<< >>}
      /\ u \in Seq(Steps)
      /\ Planned(h, w, t, u)
      /\ \A i \in DOMAIN t : t[i] \in {SetEligible(p, on), Enqueue(bs)}
  <2>1. t = << SetEligible(p, on) >> \o (IF b THEN << Enqueue(bs) >> ELSE << >>)
    BY <1>4 DEF SetThenEnqueue
  <2>2. /\ t \in Seq(Steps) \ {<< >>}
        /\ << SetEligible(p, ~on) >> \in Seq(Steps)
        /\ Planned(h, w, t, << SetEligible(p, ~on) >>)
        /\ \A i \in DOMAIN t : t[i] \in {SetEligible(p, on), Enqueue(bs)}
    BY ONLY p \in Path, on \in BOOLEAN, <1>2, <1>4, <1>7, <2>1, PlannedSourceSync
  <2> QED BY <1>4, <2>2
<1>9. fresh' \in Nat
  BY <1>3 DEF BaseInv, TypeOK
<1>10. BaseInv' /\ Begins(c, h, w, t, u)
  BY ONLY BaseInv, c \in Client, <1>3, <1>5, <1>6, <1>8, <1>9, BeginFacts
<1>11. \A i \in DOMAIN t : t[i].do \in {"enqueue", "eligible"}
  BY <1>8 DEF SetEligible, Enqueue
<1>12. \A i \in DOMAIN u : u[i].do = "eligible"
  <2> DEFINE e == SetEligible(p, ~on)
  <2>1. e.do = "eligible"
    BY DEF SetEligible
  <2> HIDE DEF e
  <2>2. \A i \in DOMAIN << e >> : << e >>[i] = e
    OBVIOUS
  <2> QED BY <1>4, <2>1, <2>2 DEF e
<1>13. EnqueueBegins(c, h, w, t, u)
  BY <1>10, <1>11, <1>12 DEF EnqueueBegins
<1> QED BY <1>3, <1>10, <1>13, RunFacts

(* A data write that refreshes the names of cs and enqueues for bs. *)
DataBegins(c, p, ks, bs, cs, h, w, t, u) ==
    /\ Begins(c, h, w, t, u)
    /\ DOMAIN t = 1..2 /\ u = << >>
    /\ t[1] = Refresh(cs, ks) /\ t[2] = Commit(p, ks, bs)
    /\ \A a \in cs : rec[a].live

LEMMA DataWriteBase ==
    ASSUME BaseInv, NEW c \in Client, NEW p \in Path,
           NEW keys \in SUBSET Key, DataWrite(c, p, keys)
    PROVE  /\ BaseInv'
           /\ client[c] \notin Runs
           /\ UNCHANGED stored /\ fresh' = fresh
           /\ \E bs, cs, h, w, t, u : DataBegins(c, p, keys, bs, cs, h, w, t, u)
<1>1. PICK bs : bs = EnabledAtOrNone(p, SourceEligible(p))
  OBVIOUS
<1>2. PICK cs : cs = {a \in bs : Renamed(a, keys) # rec[a]}
  OBVIOUS
<1>3. /\ client[c] = Idle
      /\ UNCHANGED stored /\ fresh' = fresh
      /\ Begin(c, {SourceLock(p)}, bs,
               << Refresh(cs, keys), Commit(p, keys, bs) >>, << >>)
  BY <1>1, <1>2 DEF DataWrite, NewRequest, EnabledAtOrNone
<1>4. PICK h, w, t, u : /\ h = {SourceLock(p)} /\ w = bs
                        /\ t = << Refresh(cs, keys), Commit(p, keys, bs) >>
                        /\ u = << >>
  OBVIOUS
<1>5. Begin(c, h, w, t, u)
  BY <1>3, <1>4
<1>6. bs \in SUBSET Assoc /\ \A a \in bs : PathOf[a] = p /\ rec[a].live
  BY <1>1, EnabledFacts
<1>7. cs \in SUBSET bs
  BY <1>2
<1>8. h \in SUBSET Locks /\ w \in SUBSET Assoc /\ u \in Seq(Steps)
  BY <1>4, <1>6 DEF Locks
<1>9. /\ t \in Seq(Steps) \ {<< >>}
      /\ Planned(h, w, t, u)
      /\ DOMAIN t = 1..2
      /\ t[1] = Refresh(cs, keys) /\ t[2] = Commit(p, keys, bs)
  BY ONLY p \in Path, keys \in SUBSET Key, <1>4, <1>6, <1>7, PlannedDataWrite
<1>10. fresh' \in Nat
  BY <1>3 DEF BaseInv, TypeOK
<1>11. BaseInv' /\ Begins(c, h, w, t, u)
  BY ONLY BaseInv, c \in Client, <1>3, <1>5, <1>8, <1>9, <1>10, BeginFacts
<1>12. DataBegins(c, p, keys, bs, cs, h, w, t, u)
  BY <1>4, <1>6, <1>7, <1>9, <1>11 DEF DataBegins
<1> QED BY <1>3, <1>11, <1>12, RunFacts

(* The write of destination d, and how a new sensitive configuration is    *)
(* deleted again.                                                          *)
DestBegins(c, d, r, h, w, t, u) ==
    /\ Begins(c, h, w, t, u)
    /\ r.live /\ h = {DestLock(d)}
    /\ \E j \in DOMAIN t : DestShape(t, j, d, r, dest[d].secret)
    /\ \A i \in DOMAIN u : u[i] = DelSecret(Secret(d, fresh + 1))
    /\ u # << >> => fresh' = fresh + 1
    /\ \/ r.secret = 0 /\ fresh' = fresh
       \/ r.secret = fresh + 1 /\ fresh' = fresh + 1

LEMMA DestinationWriteBase ==
    ASSUME BaseInv, NEW c \in Client, NEW d \in Dest,
           NEW off \in BOOLEAN, NEW sensitive \in BOOLEAN,
           DestinationWrite(c, d, off, sensitive)
    PROVE  /\ BaseInv'
           /\ client[c] \notin Runs
           /\ UNCHANGED stored
           /\ \E r \in DestRecord : \E h, w, t, u : DestBegins(c, d, r, h, w, t, u)
<1>1. PICK r : r = [live |-> TRUE, disabled |-> off,
                    secret |-> IF sensitive THEN fresh' ELSE 0]
  OBVIOUS
<1>2. /\ client[c] = Idle
      /\ UNCHANGED stored
      /\ fresh' = IF sensitive THEN fresh + 1 ELSE fresh
      /\ Begin(c, {DestLock(d)}, {}, DestSteps(d, r, dest[d].secret),
               IF sensitive THEN << DelSecret(Secret(d, fresh')) >> ELSE << >>)
  BY <1>1 DEF DestinationWrite, NewRequest, StoreDestination, DestSteps, stored
<1>3. /\ fresh \in Nat /\ fresh' \in Nat /\ dest[d].secret \in Nat
      /\ r \in DestRecord /\ r.live
      /\ r.secret = IF sensitive THEN fresh' ELSE 0
  BY <1>1, <1>2 DEF BaseInv, TypeOK, DestRecord
<1>4. PICK h, w, t, u :
          /\ h = {DestLock(d)} /\ w = {}
          /\ t = DestSteps(d, r, dest[d].secret)
          /\ u = IF sensitive THEN << DelSecret(Secret(d, fresh')) >> ELSE << >>
  OBVIOUS
<1>5. Begin(c, h, w, t, u)
  BY <1>2, <1>4
<1>6. h \in SUBSET Locks /\ w \in SUBSET Assoc
  BY <1>4 DEF Locks
<1>7. /\ t \in Seq(Steps) \ {<< >>}
      /\ \E j \in DOMAIN t : DestShape(t, j, d, r, dest[d].secret)
  BY ONLY d \in Dest, <1>3, <1>4, DestPlan
<1>8. PICK v \in Nat : v = fresh'
  BY <1>3
<1>9. /\ u \in Seq(Steps)
      /\ Planned(h, w, t, u)
      /\ \A i \in DOMAIN u : u[i] = DelSecret(Secret(d, v))
  <2>1. u \in DestUndos(d, v)
    BY <1>4, <1>8 DEF DestUndos
  <2>2. PICK old \in Nat : old = dest[d].secret
    BY <1>3
  <2>3. t = DestSteps(d, r, old)
    BY <1>4, <2>2
  <2>4. h = {DestLock(d)}
    BY <1>4
  <2>5. r \in DestRecord
    BY <1>3
  <2> HIDE DEF DestLock
  <2> QED BY ONLY d \in Dest, <2>1, <2>3, <2>4, <2>5,
               v \in Nat, old \in Nat, PlannedDestinationWrite
<1>10. BaseInv' /\ Begins(c, h, w, t, u)
  BY ONLY BaseInv, c \in Client, <1>2, <1>3, <1>5, <1>6, <1>7, <1>9, BeginFacts
<1>11. /\ u # << >> => fresh' = fresh + 1
       /\ \A i \in DOMAIN u : u[i] = DelSecret(Secret(d, fresh + 1))
       /\ \/ r.secret = 0 /\ fresh' = fresh
          \/ r.secret = fresh + 1 /\ fresh' = fresh + 1
  <2>1. CASE sensitive
    BY <1>2, <1>3, <1>8, <1>9, <2>1
  <2>2. CASE ~sensitive
    BY <1>2, <1>3, <1>4, <2>2
  <2> QED BY <2>1, <2>2
<1>12. DestBegins(c, d, r, h, w, t, u)
  BY ONLY <1>3, <1>4, <1>7, <1>10, <1>11 DEF DestBegins
<1> QED BY <1>2, <1>3, <1>10, <1>12, RunFacts

DestDeleteBegins(c, d, h, w, t, u) ==
    /\ Begins(c, h, w, t, u)
    /\ h = {DestLock(d)} /\ u = << >>
    /\ DOMAIN t = 1..2
    /\ t[1] = StoreDest(d, NoDest) /\ t[2] = DelSecrets(d)
    /\ NoAssociations(d)

LEMMA DestinationDeleteBase ==
    ASSUME BaseInv, NEW c \in Client, NEW d \in Dest, DestinationDelete(c, d)
    PROVE  /\ BaseInv'
           /\ client[c] \notin Runs
           /\ UNCHANGED stored /\ fresh' = fresh
           /\ \E h, w, t, u : DestDeleteBegins(c, d, h, w, t, u)
<1>1. /\ client[c] = Idle
      /\ NoAssociations(d)
      /\ UNCHANGED stored /\ fresh' = fresh
      /\ Begin(c, {DestLock(d)}, {}, << StoreDest(d, NoDest), DelSecrets(d) >>, << >>)
  BY DEF DestinationDelete, NewRequest
<1>2. PICK h, w, t, u : /\ h = {DestLock(d)} /\ w = {} /\ u = << >>
                        /\ t = << StoreDest(d, NoDest), DelSecrets(d) >>
  OBVIOUS
<1>3. Begin(c, h, w, t, u)
  BY <1>1, <1>2
<1>4. h \in SUBSET Locks /\ w \in SUBSET Assoc /\ u \in Seq(Steps)
  BY <1>2 DEF Locks
<1>5. /\ t \in Seq(Steps) \ {<< >>}
      /\ DOMAIN t = 1..2
      /\ t[1] = StoreDest(d, NoDest) /\ t[2] = DelSecrets(d)
      /\ Planned(h, w, t, u)
  BY ONLY d \in Dest, <1>2, PlannedDestinationDelete
<1>6. fresh' \in Nat
  BY <1>1 DEF BaseInv, TypeOK
<1>7. BaseInv' /\ Begins(c, h, w, t, u)
  BY ONLY BaseInv, c \in Client, <1>1, <1>3, <1>4, <1>5, <1>6, BeginFacts
<1>8. DestDeleteBegins(c, d, h, w, t, u)
  BY <1>1, <1>2, <1>5, <1>7 DEF DestDeleteBegins
<1> QED BY <1>1, <1>7, <1>8, RunFacts

(* Requests that wait for a write, or leave the stored state alone. *)
LEMMA InitBase ==
    ASSUME Init
    PROVE  BaseInv /\ \A c \in Client : client[c] \notin Runs
<1>1. client = [c \in Client |-> Idle] /\ fresh = 0
  BY DEF Init
<1>2. \A c \in Client : client[c] = Idle /\ client[c] \notin Runs
  BY <1>1, RunFacts
<1>3. data \in [Path -> SUBSET Key]
  BY AssociationsAssumption DEF Init
<1>4. DefaultConfig \in Configs
  BY DEF Configs
<1>5. rec \in [Assoc -> AssocRecord]
  <2>1. PICK bs \in InitialAssocs :
            rec = [a \in Assoc |->
                IF a \in bs
                THEN [live |-> TRUE, enabled |-> TRUE, config |-> DefaultConfig,
                      names |-> ConcreteNames(a, data[PathOf[a]])]
                ELSE Gone]
    BY DEF Init
  <2>2. \A a \in Assoc : ConcreteNames(a, data[PathOf[a]]) \in SUBSET Name
    BY <1>3, AssociationsAssumption DEF ConcreteNames
  <2>3. ASSUME NEW a \in Assoc PROVE rec[a] \in AssocRecord
    BY <1>4, <2>1, <2>2, GoneFacts DEF AssocRecord
  <2> QED BY <2>1, <2>3
<1>6. dest \in [Dest -> DestRecord]
  <2>1. dest \in [Dest -> {NoDest, [NoDest EXCEPT !.live = TRUE]}]
    BY DEF Init
  <2>2. NoDest \in DestRecord /\ [NoDest EXCEPT !.live = TRUE] \in DestRecord
    BY DEF NoDest, DestRecord
  <2> QED BY <2>1, <2>2
<1>7. eligible \in [Path -> BOOLEAN]
  BY DEF Init
<1>8. TypeOK
  BY <1>1, <1>3, <1>5, <1>6, <1>7 DEF TypeOK
<1> QED BY <1>2, <1>8 DEF BaseInv, LocksApart

-----------------------------------------------------------------------------
(* Stored associations can be found: AssociationIndexed                    *)

(* Before a record is stored, its index entries are there or are put. *)
PutsFirst(t, ix) ==
    \A i \in DOMAIN t : t[i].do = "store" =>
        \A k \in IndexKeys(t[i].id, t[i].to) :
            \/ k \in ix
            \/ \E j \in 1..(i - 1) : t[j].do = "put" /\ k \in t[j].keys

(* An entry is deleted only when the record no longer needs it. *)
DelsLast(t, r) ==
    \A i \in DOMAIN t : t[i].do = "del" =>
        \A k \in t[i].keys :
            /\ \A j \in DOMAIN t : StoreAt(t, j, k.of) =>
                   j < i /\ k \notin IndexKeys(k.of, t[j].to)
            /\ (\A j \in DOMAIN t : ~StoreAt(t, j, k.of)) =>
                   k \notin IndexKeys(k.of, r[k.of])

(* The index entries that an undo does not put are those of the record     *)
(* that it replaces.                                                       *)
UndoPuts(t, u, r) ==
    \A i \in DOMAIN u : u[i].do = "store" =>
        \A k \in IndexKeys(u[i].id, u[i].to) :
            \/ \E j \in 1..(i - 1) : u[j].do = "put" /\ k \in u[j].keys
            \/ \E j \in DOMAIN t :
                   StoreAt(t, j, u[i].id) /\ k \in IndexKeys(u[i].id, t[j].to)
            \/ /\ \A j \in DOMAIN t : ~StoreAt(t, j, u[i].id)
               /\ k \in IndexKeys(u[i].id, r[u[i].id])

IndexesKept(t, u, r, ix) == PutsFirst(t, ix) /\ DelsLast(t, r) /\ UndoPuts(t, u, r)

IndexInv ==
    /\ BaseInv
    /\ AssociationIndexed
    /\ \A c \in Client : client[c] \in Runs =>
           IndexesKept(client[c].todo, client[c].undo, rec, index)

(* The record a step stores, if it is one of a. *)
RecAfter(s, r, a) == IF s.do = "store" /\ s.id = a THEN s.to ELSE r[a]

LEMMA IndexTail ==
    ASSUME NEW t \in Seq(Steps), NEW u \in Seq(Steps), t # << >>,
           NEW r, NEW r2, NEW ix,
           StoresOnce(t), IndexesKept(t, u, r, ix),
           t[1].do = "put" => t[1].keys = {},
           \A a \in Assoc : r2[a] = RecAfter(t[1], r, a)
    PROVE  IndexesKept(Tail(t), u, r2, ix)
<1> DEFINE v == Tail(t)
<1>1. /\ Len(t) \in Nat \ {0} /\ DOMAIN t = 1..Len(t) /\ 1 \in DOMAIN t
      /\ v \in Seq(Steps)
      /\ Len(v) = Len(t) - 1 /\ DOMAIN v = 1..(Len(t) - 1)
      /\ \A i \in DOMAIN v : i + 1 \in DOMAIN t /\ v[i] = t[i + 1]
      /\ \A i \in DOMAIN t : i # 1 => i - 1 \in DOMAIN v /\ v[i - 1] = t[i]
  BY TailFacts
<1> HIDE DEF v
<1>2. PutsFirst(v, ix)
  <2> SUFFICES ASSUME NEW i \in DOMAIN v, v[i].do = "store",
                      NEW k \in IndexKeys(v[i].id, v[i].to), k \notin ix
               PROVE  \E j \in 1..(i - 1) : v[j].do = "put" /\ k \in v[j].keys
    BY DEF PutsFirst
  <2>1. PICK j \in 1..((i + 1) - 1) : t[j].do = "put" /\ k \in t[j].keys
    BY <1>1 DEF IndexesKept, PutsFirst
  <2>2. j # 1
    BY <2>1
  <2>3. j \in DOMAIN t /\ j - 1 \in 1..(i - 1)
    BY <1>1, <2>2
  <2> QED BY <1>1, <2>1, <2>2, <2>3
<1>3. ASSUME NEW a \in Assoc, \A j \in DOMAIN v : ~StoreAt(v, j, a)
      PROVE  \/ StoreAt(t, 1, a) /\ r2[a] = t[1].to
             \/ (\A j \in DOMAIN t : ~StoreAt(t, j, a)) /\ r2[a] = r[a]
  <2>1. \A j \in DOMAIN t : StoreAt(t, j, a) => j = 1
    BY <1>1, <1>3 DEF StoreAt
  <2> QED BY <1>1, <2>1 DEF StoreAt, RecAfter
<1>4. \A a : \A j \in DOMAIN v : StoreAt(v, j, a) <=> StoreAt(t, j + 1, a)
  BY <1>1 DEF StoreAt
<1>5. DelsLast(v, r2)
  <2> SUFFICES ASSUME NEW i \in DOMAIN v, v[i].do = "del", NEW k \in v[i].keys
               PROVE  /\ \A j \in DOMAIN v : StoreAt(v, j, k.of) =>
                             j < i /\ k \notin IndexKeys(k.of, v[j].to)
                      /\ (\A j \in DOMAIN v : ~StoreAt(v, j, k.of)) =>
                             k \notin IndexKeys(k.of, r2[k.of])
    BY DEF DelsLast
  <2>1. i + 1 \in DOMAIN t /\ t[i + 1].do = "del" /\ k \in t[i + 1].keys
    BY <1>1
  <2>2. k.of \in Assoc
    BY <1>1, StepFields DEF LoopSteps, IndexEntries
  <2>3. /\ \A j \in DOMAIN t : StoreAt(t, j, k.of) =>
               j < i + 1 /\ k \notin IndexKeys(k.of, t[j].to)
        /\ (\A j \in DOMAIN t : ~StoreAt(t, j, k.of)) =>
               k \notin IndexKeys(k.of, r[k.of])
    BY <2>1 DEF IndexesKept, DelsLast
  <2>4. ASSUME NEW j \in DOMAIN v, StoreAt(v, j, k.of)
        PROVE  j < i /\ k \notin IndexKeys(k.of, v[j].to)
    BY <1>1, <1>4, <2>3, <2>4
  <2>5. ASSUME \A j \in DOMAIN v : ~StoreAt(v, j, k.of)
        PROVE  k \notin IndexKeys(k.of, r2[k.of])
    BY <1>1, <1>3, <2>2, <2>3, <2>5
  <2> QED BY <2>4, <2>5
<1>6. UndoPuts(v, u, r2)
  <2> SUFFICES ASSUME NEW i \in DOMAIN u, u[i].do = "store",
                      NEW k \in IndexKeys(u[i].id, u[i].to),
                      \A j \in 1..(i - 1) : ~(u[j].do = "put" /\ k \in u[j].keys),
                      \A j \in DOMAIN v :
                          ~(StoreAt(v, j, u[i].id) /\ k \in IndexKeys(u[i].id, v[j].to))
               PROVE  /\ \A j \in DOMAIN v : ~StoreAt(v, j, u[i].id)
                      /\ k \in IndexKeys(u[i].id, r2[u[i].id])
    BY DEF UndoPuts
  <2>1. u[i].id \in Assoc
    BY StepFields
  <2>2. CASE \E j \in DOMAIN t :
                 StoreAt(t, j, u[i].id) /\ k \in IndexKeys(u[i].id, t[j].to)
    <3>1. PICK j \in DOMAIN t :
              StoreAt(t, j, u[i].id) /\ k \in IndexKeys(u[i].id, t[j].to)
      BY <2>2
    <3>2. j = 1
      BY <1>1, <1>4, <3>1
    <3>3. \A n \in DOMAIN v : ~StoreAt(v, n, u[i].id)
      BY <1>1, <1>4, <3>1, <3>2 DEF StoresOnce, StoreAt
    <3> QED BY <1>3, <2>1, <3>1, <3>2, <3>3
  <2>3. CASE /\ \A j \in DOMAIN t : ~StoreAt(t, j, u[i].id)
             /\ k \in IndexKeys(u[i].id, r[u[i].id])
    <3>1. \A n \in DOMAIN v : ~StoreAt(v, n, u[i].id)
      BY <1>1, <1>4, <2>3
    <3> QED BY <1>1, <1>3, <2>1, <2>3, <3>1
  <2> QED BY <2>2, <2>3 DEF IndexesKept, UndoPuts
<1> QED BY <1>2, <1>5, <1>6 DEF IndexesKept, v

(* The index after an entry k is put or deleted by step s. *)
IndexAfter(s, ix, k) == IF s.do = "put" THEN ix \cup {k} ELSE ix \ {k}

LEMMA IndexRound ==
    ASSUME NEW t \in Seq(Steps), NEW u \in Seq(Steps), NEW v, NEW k,
           RoundOf(t, k, v), k \in t[1].keys, NEW r, NEW ix,
           IndexesKept(t, u, r, ix)
    PROVE  IndexesKept(v, u, r, IndexAfter(t[1], ix, k))
<1>1. DOMAIN v = DOMAIN t /\ \A j, a : StoreAt(v, j, a) <=> StoreAt(t, j, a)
  BY DEF RoundOf, StoreAt
<1>2. PutsFirst(v, IndexAfter(t[1], ix, k))
  <2> SUFFICES ASSUME NEW i \in DOMAIN v, v[i].do = "store",
                      NEW x \in IndexKeys(v[i].id, v[i].to),
                      x \notin IndexAfter(t[1], ix, k)
               PROVE  \E j \in 1..(i - 1) : v[j].do = "put" /\ x \in v[j].keys
    BY DEF PutsFirst
  <2>1. i \in DOMAIN t /\ v[i] = t[i] /\ t[i].do = "store"
    BY DEF RoundOf
  <2>2. t[i].id \in Assoc /\ t[i].to \in AssocRecord
    BY <2>1, StepFields
  <2>3. x.of = t[i].id
    BY <2>1, <2>2, KeyFacts
  <2>4. x \notin ix
    <3>1. CASE t[1].do = "put"
      BY <3>1 DEF IndexAfter
    <3>2. CASE t[1].do # "put"
      <4>1. t[1].do = "del" /\ 1 \in DOMAIN t
        BY <3>2 DEF RoundOf
      <4>2. x # k
        <5> SUFFICES ASSUME x = k PROVE FALSE
          OBVIOUS
        <5>1. StoreAt(t, i, k.of)
          BY <2>1, <2>3 DEF StoreAt
        <5>2. i < 1
          BY <2>1, <4>1, <5>1 DEF IndexesKept, DelsLast
        <5>3. i \in 1..Len(t)
          BY <2>1, LenProperties
        <5> QED BY <5>2, <5>3
      <4> QED BY <3>2, <4>2 DEF IndexAfter
    <3> QED BY <3>1, <3>2
  <2>5. PICK j \in 1..(i - 1) : t[j].do = "put" /\ x \in t[j].keys
    BY <2>1, <2>4 DEF IndexesKept, PutsFirst
  <2>6. j \in DOMAIN t
    BY <2>1, LenProperties
  <2>7. v[j].do = "put" /\ x \in v[j].keys
    <3>1. CASE j # 1
      BY <2>5, <2>6, <3>1 DEF RoundOf
    <3>2. CASE j = 1
      <4>1. x # k
        BY <2>5, <3>2 DEF IndexAfter
      <4> QED BY <2>5, <3>2, <4>1 DEF RoundOf
    <3> QED BY <3>1, <3>2
  <2> QED BY <2>7
<1>3. DelsLast(v, r)
  <2> SUFFICES ASSUME NEW i \in DOMAIN v, v[i].do = "del", NEW x \in v[i].keys
               PROVE  /\ \A j \in DOMAIN v : StoreAt(v, j, x.of) =>
                             j < i /\ x \notin IndexKeys(x.of, v[j].to)
                      /\ (\A j \in DOMAIN v : ~StoreAt(v, j, x.of)) =>
                             x \notin IndexKeys(x.of, r[x.of])
    BY DEF DelsLast
  <2>1. i \in DOMAIN t /\ t[i].do = "del" /\ x \in t[i].keys
    BY DEF RoundOf
  <2>2. \A j \in DOMAIN t : StoreAt(t, j, x.of) => v[j] = t[j]
    BY DEF RoundOf, StoreAt
  <2> QED BY <1>1, <2>1, <2>2 DEF IndexesKept, DelsLast
<1>4. UndoPuts(v, u, r)
  <2>1. \A a : \A j \in DOMAIN t : StoreAt(t, j, a) => v[j] = t[j]
    BY DEF RoundOf, StoreAt
  <2> QED BY <1>1, <2>1 DEF IndexesKept, UndoPuts
<1> QED BY <1>2, <1>3, <1>4 DEF IndexesKept

(* A deletion never takes an entry of a stored record. *)
LEMMA IndexedRound ==
    ASSUME NEW t \in Seq(Steps), NEW v, NEW k, RoundOf(t, k, v), k \in t[1].keys,
           NEW r \in [Assoc -> AssocRecord], NEW ix, DelsLast(t, r),
           NEW a \in Assoc, IndexKeys(a, r[a]) \subseteq ix
    PROVE  IndexKeys(a, r[a]) \subseteq IndexAfter(t[1], ix, k)
<1>1. CASE t[1].do = "put"
  BY <1>1 DEF IndexAfter
<1>2. CASE t[1].do # "put"
  <2>1. t[1].do = "del" /\ 1 \in DOMAIN t
    BY <1>2 DEF RoundOf
  <2>2. \A j \in DOMAIN t : ~StoreAt(t, j, k.of)
    <3>1. \A j \in DOMAIN t : ~(j < 1)
      BY LenProperties
    <3> QED BY <2>1, <3>1 DEF DelsLast
  <2>3. k \notin IndexKeys(k.of, r[k.of])
    BY <2>1, <2>2 DEF DelsLast
  <2>4. k \notin IndexKeys(a, r[a])
    BY <2>3, KeyFacts
  <2> QED BY <1>2, <2>4 DEF IndexAfter
<1> QED BY <1>1, <1>2

(* A request that turns to its undo. *)
LEMMA IndexUndo ==
    ASSUME NEW t \in Seq(Steps), NEW u \in Seq(Steps), NEW r, NEW ix,
           \A i \in DOMAIN t : t[i].do # "store",
           UndoShape(t, u), StoresOnce(u), IndexesKept(t, u, r, ix),
           \A a \in Assoc : IndexKeys(a, r[a]) \subseteq ix
    PROVE  IndexesKept(u, << >>, r, ix)
<1>1. PutsFirst(u, ix)
  <2> SUFFICES ASSUME NEW i \in DOMAIN u, u[i].do = "store",
                      NEW k \in IndexKeys(u[i].id, u[i].to)
               PROVE  \/ k \in ix
                      \/ \E j \in 1..(i - 1) : u[j].do = "put" /\ k \in u[j].keys
    BY DEF PutsFirst
  <2>1. u[i].id \in Assoc
    BY StepFields
  <2>2. \A j \in DOMAIN t : ~StoreAt(t, j, u[i].id)
    BY DEF StoreAt
  <2> QED BY <2>1, <2>2 DEF IndexesKept, UndoPuts
<1>2. DelsLast(u, r)
  <2> SUFFICES ASSUME NEW i \in DOMAIN u, u[i].do = "del", NEW k \in u[i].keys
               PROVE  /\ \A j \in DOMAIN u : StoreAt(u, j, k.of) =>
                             j < i /\ k \notin IndexKeys(k.of, u[j].to)
                      /\ (\A j \in DOMAIN u : ~StoreAt(u, j, k.of)) =>
                             k \notin IndexKeys(k.of, r[k.of])
    BY DEF DelsLast
  <2>1. PICK j \in 1..(i - 1) : /\ StoreAt(u, j, k.of)
                                /\ k \notin IndexKeys(k.of, u[j].to)
    BY DEF UndoShape
  <2>2. j \in DOMAIN u /\ j < i
    BY <2>1 DEF StoreAt
  <2>3. \A n \in DOMAIN u : StoreAt(u, n, k.of) => n = j
    BY <2>1, <2>2 DEF StoresOnce, StoreAt
  <2> QED BY <2>1, <2>2, <2>3
<1>3. UndoPuts(u, << >>, r)
  BY DEF UndoPuts
<1> QED BY <1>1, <1>2, <1>3 DEF IndexesKept

(* What other requests change is behind other locks. *)
LEMMA IndexElsewhere ==
    ASSUME NEW h, NEW w, NEW t \in Seq(Steps), NEW u \in Seq(Steps),
           StepsHeld(h, w, t), StepsHeld(h, w, u),
           NEW r, NEW r2, NEW ix, NEW ix2, IndexesKept(t, u, r, ix),
           \A a \in Assoc : HasPath(h, a) => r2[a] = r[a],
           \A k \in ix \ ix2 : ~HasPath(h, k.of)
    PROVE  IndexesKept(t, u, r2, ix2)
<1>1. PutsFirst(t, ix2)
  <2> SUFFICES ASSUME NEW i \in DOMAIN t, t[i].do = "store",
                      NEW k \in IndexKeys(t[i].id, t[i].to)
               PROVE  \/ k \in ix2
                      \/ \E j \in 1..(i - 1) : t[j].do = "put" /\ k \in t[j].keys
    BY DEF PutsFirst
  <2>1. t[i].id \in Assoc /\ t[i].to \in AssocRecord
    BY StepFields
  <2>2. HasPath(h, t[i].id) /\ k.of = t[i].id
    BY <2>1, KeyFacts DEF StepsHeld, StepHeld
  <2>3. k \notin ix \ ix2
    BY <2>2
  <2> QED BY <2>3 DEF IndexesKept, PutsFirst
<1>2. DelsLast(t, r2)
  <2> SUFFICES ASSUME NEW i \in DOMAIN t, t[i].do = "del", NEW k \in t[i].keys
               PROVE  r2[k.of] = r[k.of]
    BY DEF IndexesKept, DelsLast
  <2>1. k.of \in Assoc
    BY StepFields DEF LoopSteps, IndexEntries
  <2>2. HasPath(h, k.of)
    BY DEF StepsHeld, StepHeld
  <2> QED BY <2>1, <2>2
<1>3. UndoPuts(t, u, r2)
  <2>1. ASSUME NEW i \in DOMAIN u, u[i].do = "store"
        PROVE  r2[u[i].id] = r[u[i].id]
    <3>1. u[i].id \in Assoc
      BY <2>1, StepFields
    <3>2. HasPath(h, u[i].id)
      BY <2>1 DEF StepsHeld, StepHeld
    <3> QED BY <3>1, <3>2
  <2> QED BY <2>1 DEF IndexesKept, UndoPuts
<1> QED BY <1>1, <1>2, <1>3 DEF IndexesKept

(* A request that puts a record, ... *)
LEMMA IndexPut ==
    ASSUME NEW t \in Seq(Steps), NEW u \in Seq(Steps), NEW j, NEW a \in Assoc,
           NEW new \in AssocRecord, NEW r, NEW ix,
           Putting(t, j, a, r[a], new), UndoesOne(u, a, new),
           IndexKeys(a, r[a]) \subseteq ix
    PROVE  IndexesKept(t, u, r, ix)
<1>1. StoreAt(t, j, a) /\ t[j].to = new /\ j \in DOMAIN t
  BY DEF Putting, StoreAt
<1>2. PutsFirst(t, ix)
  BY <1>1 DEF PutsFirst, Putting, StoreAt
<1>3. DelsLast(t, r)
  <2> SUFFICES ASSUME NEW i \in DOMAIN t, t[i].do = "del", NEW k \in t[i].keys
               PROVE  /\ \A n \in DOMAIN t : StoreAt(t, n, k.of) =>
                             n < i /\ k \notin IndexKeys(k.of, t[n].to)
                      /\ (\A n \in DOMAIN t : ~StoreAt(t, n, k.of)) =>
                             k \notin IndexKeys(k.of, r[k.of])
    BY DEF DelsLast
  <2>1. i > j /\ k.of = a /\ k \notin IndexKeys(a, new)
    BY DEF Putting
  <2>2. \A n \in DOMAIN t : StoreAt(t, n, a) => n = j
    BY DEF Putting, StoreAt
  <2>3. i \in Nat /\ j \in Nat
    BY <1>1, LenProperties
  <2> QED BY <1>1, <2>1, <2>2, <2>3
<1>4. UndoPuts(t, u, r)
  <2> SUFFICES ASSUME NEW i \in DOMAIN u, u[i].do = "store",
                      NEW k \in IndexKeys(u[i].id, u[i].to)
               PROVE  \/ \E n \in 1..(i - 1) : u[n].do = "put" /\ k \in u[n].keys
                      \/ \E n \in DOMAIN t : /\ StoreAt(t, n, u[i].id)
                                             /\ k \in IndexKeys(u[i].id, t[n].to)
    BY DEF UndoPuts
  <2>1. PICK x \in AssocRecord : PutUndo(u, a, new, x)
    BY DEF UndoesOne
  <2>2. PICK m \in DOMAIN u : Putting(u, m, a, new, x)
    BY <2>1 DEF PutUndo
  <2>3. i = m /\ u[i].id = a /\ u[i].to = x
    BY <2>2 DEF Putting, StoreAt
  <2> QED BY <1>1, <2>2, <2>3 DEF Putting
<1> QED BY <1>2, <1>3, <1>4 DEF IndexesKept

(* ... and one that puts none. *)
LEMMA IndexNoPut ==
    ASSUME NEW t, NEW u, NEW r, NEW ix,
           \A i \in DOMAIN t : t[i].do \notin {"store", "del"},
           \A i \in DOMAIN u : u[i].do # "store"
    PROVE  IndexesKept(t, u, r, ix)
BY DEF IndexesKept, PutsFirst, DelsLast, UndoPuts

-----------------------------------------------------------------------------
(* What becomes of the request of c *)

Becomes(c, h, w, t, u) ==
    /\ \A c2 \in Client : c2 # c => client'[c2] = client[c2]
    /\ client'[c] \in Runs =>
           /\ client'[c].held = h /\ client'[c].touched = w
           /\ client'[c].todo = t /\ client'[c].undo = u

LEMMA GoesOnBecomes ==
    ASSUME TypeOK, NEW c \in Client, client[c] \in Runs,
           NEW t \in Seq(Steps), NEW u \in Seq(Steps), GoesOn(c, t, u)
    PROVE  Becomes(c, client[c].held, client[c].touched, t, u)
<1>1. client[c].held \in SUBSET Locks /\ client[c].touched \in SUBSET Assoc
  BY RunningIsRun
<1>2. ASSUME client'[c] \in Runs
      PROVE  /\ t # << >>
             /\ client'[c] = RunOf(client[c].held, client[c].touched, t, u)
  BY <1>2, RunFacts DEF GoesOn
<1>3. ASSUME t # << >>
      PROVE  LET x == RunOf(client[c].held, client[c].touched, t, u)
             IN  /\ x.held = client[c].held /\ x.touched = client[c].touched
                 /\ x.todo = t /\ x.undo = u
  BY <1>1, <1>3, RunFacts
<1>4. ASSUME client'[c] \in Runs
      PROVE  /\ client'[c].held = client[c].held
             /\ client'[c].touched = client[c].touched
             /\ client'[c].todo = t /\ client'[c].undo = u
  BY <1>2, <1>3, <1>4
<1> QED BY <1>4 DEF Becomes, GoesOn

LEMMA BeginsBecomes ==
    ASSUME NEW c, NEW h, NEW w, NEW t, NEW u, Begins(c, h, w, t, u)
    PROVE  /\ Becomes(c, h, w, t, u) /\ client'[c] \in Runs
           /\ t \in Seq(Steps) /\ u \in Seq(Steps)
BY RunFacts DEF Begins, Becomes

(* Other requests do not have the path of a. *)
OthersLack(c, a) ==
    \A c2 \in Client : c2 # c /\ client[c2] \in Runs => ~HasPath(client[c2].held, a)

LEMMA PathIsOwn ==
    ASSUME LocksApart, NEW c \in Client, client[c] \in Runs, NEW a,
           HasPath(client[c].held, a)
    PROVE  OthersLack(c, a)
BY DEF LocksApart, OthersLack, HasPath

-----------------------------------------------------------------------------
(* Every step keeps the index *)

LEMMA IndexAssembled ==
    ASSUME IndexInv, BaseInv', NEW c \in Client,
           NEW h, NEW w, NEW t, NEW u, Becomes(c, h, w, t, u),
           \A a \in Assoc : OthersLack(c, a) \/ rec'[a] = rec[a],
           \A k \in index \ index' : OthersLack(c, k.of),
           IndexesKept(t, u, rec', index') \/ client'[c] \notin Runs,
           AssociationIndexed'
    PROVE  IndexInv'
<1> SUFFICES ASSUME NEW c2 \in Client, client'[c2] \in Runs
             PROVE  IndexesKept(client'[c2].todo, client'[c2].undo, rec', index')
  BY DEF IndexInv
<1>1. CASE c2 = c
  BY <1>1 DEF Becomes
<1>2. CASE c2 # c
  <2>1. client'[c2] = client[c2] /\ client[c2] \in Runs
    BY <1>2 DEF Becomes
  <2>2. /\ client[c2].todo \in Seq(Steps) /\ client[c2].undo \in Seq(Steps)
        /\ StepsHeld(client[c2].held, client[c2].touched, client[c2].todo)
        /\ StepsHeld(client[c2].held, client[c2].touched, client[c2].undo)
    BY <2>1, RunningIsRun DEF IndexInv, BaseInv, Planned
  <2>3. IndexesKept(client[c2].todo, client[c2].undo, rec, index)
    BY <2>1 DEF IndexInv
  <2>4. /\ \A a \in Assoc : HasPath(client[c2].held, a) => rec'[a] = rec[a]
        /\ \A k \in index \ index' : ~HasPath(client[c2].held, k.of)
    BY <1>2, <2>1 DEF OthersLack
  <2>5. IndexesKept(client[c2].todo, client[c2].undo, rec', index')
    BY ONLY <2>2, <2>3, <2>4, IndexElsewhere
  <2> QED BY <2>1, <2>5
<1> QED BY <1>1, <1>2

LEMMA IndexBegins ==
    ASSUME IndexInv, BaseInv', NEW c \in Client, UNCHANGED stored,
           NEW h, NEW w, NEW t, NEW u, Becomes(c, h, w, t, u),
           IndexesKept(t, u, rec, index) \/ client'[c] \notin Runs
    PROVE  IndexInv'
<1>1. rec' = rec /\ index' = index
  BY DEF stored
<1>2. AssociationIndexed'
  BY <1>1 DEF IndexInv, AssociationIndexed
<1> QED BY <1>1, <1>2, IndexAssembled

LEMMA IndexStaysOut ==
    ASSUME IndexInv, BaseInv', NEW c \in Client, UNCHANGED stored,
           StaysOut(c)
    PROVE  IndexInv'
<1>1. Becomes(c, {}, {}, << >>, << >>)
  BY DEF StaysOut, Becomes
<1> QED BY <1>1, IndexBegins DEF StaysOut

LEMMA IndexPutBegins ==
    ASSUME IndexInv, BaseInv', NEW c \in Client, UNCHANGED stored,
           NEW a \in Assoc, NEW new \in AssocRecord, NEW previous, NEW b,
           Restored(previous) \in AssocRecord,
           NEW h, NEW w, NEW t, NEW u,
           PutBegins(c, a, new, previous, b, h, w, t, u)
    PROVE  IndexInv'
<1>1. /\ Becomes(c, h, w, t, u)
      /\ t \in Seq(Steps) /\ u \in Seq(Steps)
  BY BeginsBecomes DEF PutBegins
<1>2. Putting(t, 2, a, rec[a], new) /\ UndoesOne(u, a, new)
  BY DEF PutBegins, PutTodo, UndoesOne
<1>3. IndexKeys(a, rec[a]) \subseteq index
  BY DEF IndexInv, AssociationIndexed
<1>4. IndexesKept(t, u, rec, index)
  BY <1>1, <1>2, <1>3, IndexPut
<1> QED BY <1>1, <1>4, IndexBegins

LEMMA RestoredType ==
    ASSUME NEW r \in AssocRecord
    PROVE  Restored(r) \in AssocRecord
BY GoneFacts DEF Restored

LEMMA IndexCancelBegins ==
    ASSUME IndexInv, BaseInv', NEW c \in Client, UNCHANGED stored,
           NEW a \in Assoc, NEW new \in AssocRecord,
           NEW h, NEW w, NEW t, NEW u,
           CancelBegins(c, a, new, h, w, t, u)
    PROVE  IndexInv'
<1>1. /\ Becomes(c, h, w, t, u)
      /\ t \in Seq(Steps) /\ u \in Seq(Steps)
  BY BeginsBecomes DEF CancelBegins
<1>2. PICK j \in DOMAIN t : Putting(t, j, a, rec[a], new)
  BY DEF CancelBegins
<1>3. UndoesOne(u, a, new)
  BY DEF CancelBegins, UndoesOne
<1>4. IndexKeys(a, rec[a]) \subseteq index
  BY DEF IndexInv, AssociationIndexed
<1>5. IndexesKept(t, u, rec, index)
  BY <1>1, <1>2, <1>3, <1>4, IndexPut
<1> QED BY <1>1, <1>5, IndexBegins

LEMMA IndexOtherBegins ==
    ASSUME IndexInv, BaseInv', NEW c \in Client, UNCHANGED stored,
           NEW h, NEW w, NEW t, NEW u, Begins(c, h, w, t, u),
           \A i \in DOMAIN t : t[i].do \notin {"store", "del"},
           \A i \in DOMAIN u : u[i].do # "store"
    PROVE  IndexInv'
<1>1. Becomes(c, h, w, t, u)
  BY BeginsBecomes
<1>2. IndexesKept(t, u, rec, index)
  BY IndexNoPut
<1> QED BY <1>1, <1>2, IndexBegins

(* The kinds of the steps of requests that put no record. *)
LEMMA KindsOfSteps ==
    /\ \A as1 : Enqueue(as1).do = "enqueue"
    /\ \A p, on : SetEligible(p, on).do = "eligible"
    /\ \A bs, ks : Refresh(bs, ks).do = "refresh" /\ Refresh(bs, ks).ids = bs
                       /\ Refresh(bs, ks).keys = ks
    /\ \A p, ks, bs : /\ Commit(p, ks, bs).do = "commit"
                      /\ Commit(p, ks, bs).path = p
                      /\ Commit(p, ks, bs).keys = ks
                      /\ Commit(p, ks, bs).for = bs
    /\ \A x : PutSecret(x).do = "putSecret" /\ PutSecret(x).secret = x
    /\ \A x : DelSecret(x).do = "delSecret" /\ DelSecret(x).secret = x
    /\ \A d : DelSecrets(d).do = "delSecrets" /\ DelSecrets(d).of = d
    /\ \A d, r : /\ StoreDest(d, r).do = "destination"
                 /\ StoreDest(d, r).name = d /\ StoreDest(d, r).to = r
BY DEF Enqueue, SetEligible, Refresh, Commit, PutSecret, DelSecret, DelSecrets, StoreDest

LEMMA DataKinds ==
    ASSUME NEW c, NEW p, NEW ks, NEW bs, NEW cs, NEW h, NEW w, NEW t, NEW u,
           DataBegins(c, p, ks, bs, cs, h, w, t, u)
    PROVE  /\ \A i \in DOMAIN t : t[i].do \in {"refresh", "commit"}
           /\ DOMAIN u = {}
<1>1. \A i \in DOMAIN t : i = 1 \/ i = 2
  BY DEF DataBegins
<1>2. t[1].do = "refresh" /\ t[2].do = "commit"
  BY KindsOfSteps DEF DataBegins
<1>3. DOMAIN u = {}
  BY DEF DataBegins
<1> QED BY <1>1, <1>2, <1>3

LEMMA DestKinds ==
    ASSUME NEW c, NEW d, NEW r, NEW h, NEW w, NEW t, NEW u,
           DestBegins(c, d, r, h, w, t, u)
    PROVE  /\ \A i \in DOMAIN t : t[i].do \in {"putSecret", "destination", "delSecret"}
           /\ \A i \in DOMAIN u : u[i].do = "delSecret"
<1>1. PICK j \in DOMAIN t : DestShape(t, j, d, r, dest[d].secret)
  BY DEF DestBegins
<1>2. DOMAIN t \subseteq Nat
  BY BeginsBecomes, LenProperties DEF DestBegins
<1>3. ASSUME NEW i \in DOMAIN t
      PROVE  t[i].do \in {"putSecret", "destination", "delSecret"}
  <2>1. i < j \/ i = j \/ i > j
    BY <1>2
  <2> QED BY <1>1, <2>1, KindsOfSteps DEF DestShape
<1>4. \A i \in DOMAIN u : u[i].do = "delSecret"
  BY KindsOfSteps DEF DestBegins
<1> QED BY <1>3, <1>4

LEMMA DestDeleteKinds ==
    ASSUME NEW c, NEW d, NEW h, NEW w, NEW t, NEW u,
           DestDeleteBegins(c, d, h, w, t, u)
    PROVE  /\ \A i \in DOMAIN t : t[i].do \in {"destination", "delSecrets"}
           /\ DOMAIN u = {}
<1>1. \A i \in DOMAIN t : i = 1 \/ i = 2
  BY DEF DestDeleteBegins
<1>2. t[1].do = "destination" /\ t[2].do = "delSecrets"
  BY KindsOfSteps DEF DestDeleteBegins
<1>3. DOMAIN u = {}
  BY DEF DestDeleteBegins
<1> QED BY <1>1, <1>2, <1>3

LEMMA IndexRequest ==
    ASSUME IndexInv, NEW c \in Client,
           \/ \E a \in Assoc : AssociationRequest(c, a)
           \/ Write(c)
           \/ \E p \in Path, keys \in SUBSET Key \ {{}} : DataWrite(c, p, keys)
           \/ \E p \in Path, on \in BOOLEAN : SourceSync(c, p, on)
           \/ \E d \in Dest, off, sensitive \in BOOLEAN :
                 DestinationWrite(c, d, off, sensitive)
           \/ \E d \in Dest : DestinationDelete(c, d)
    PROVE  IndexInv'
<1> USE DEF IndexInv
<1>1. ASSUME NEW a \in Assoc, NEW e \in {"yes", "no", "keep"},
             NEW k \in Config \cup {0}, WriteDraft(c, a, e, k)
      PROVE  IndexInv'
  <2>1. BaseInv' /\ UNCHANGED stored /\ StaysOut(c)
    BY <1>1, WriteDraftBase DEF StaysOut
  <2> QED BY <2>1, IndexStaysOut
<1>2. ASSUME NEW a \in Assoc, Enable(c, a) PROVE IndexInv'
  <2>1. BaseInv' /\ UNCHANGED stored
    BY <1>2, EnableBase
  <2>2. PICK new \in AssocRecord, previous \in AssocRecord :
            \E h, w, t, u : PutBegins(c, a, new, previous, ~rec[a].enabled, h, w, t, u)
    BY <1>2, EnableBase
  <2> QED BY <2>1, <2>2, RestoredType, IndexPutBegins
<1>3. ASSUME NEW a \in Assoc, Disable(c, a) \/ Delete(c, a) PROVE IndexInv'
  <2>1. /\ BaseInv' /\ UNCHANGED stored
        /\ \E new \in AssocRecord : \E h, w, t, u : CancelBegins(c, a, new, h, w, t, u)
    BY <1>3, DisableBase, DeleteBase
  <2> QED BY <2>1, IndexCancelBegins
<1>4. ASSUME \/ \E a \in Assoc : Sync(c, a)
             \/ \E p \in Path, on \in BOOLEAN : SourceSync(c, p, on)
      PROVE  IndexInv'
  <2>1. /\ BaseInv' /\ UNCHANGED stored
        /\ \E h, w, t, u : EnqueueBegins(c, h, w, t, u)
    BY <1>4, SyncBase, SourceSyncBase
  <2>2. PICK h, w, t, u : EnqueueBegins(c, h, w, t, u)
    BY <2>1
  <2> QED BY <2>1, <2>2, IndexOtherBegins DEF EnqueueBegins
<1>5. ASSUME Write(c) PROVE IndexInv'
  <2>1. BaseInv' /\ UNCHANGED stored
    BY <1>5, WriteBase
  <2>2. \/ StaysOut(c)
        \/ \E a \in Assoc, new \in AssocRecord : \E h, w, t, u :
               PutBegins(c, a, new, rec[a], ShouldEnqueue(rec[a], new), h, w, t, u)
    BY <1>5, WriteBase
  <2>3. CASE StaysOut(c)
    BY <2>1, <2>3, IndexStaysOut
  <2>4. ASSUME NEW a \in Assoc, NEW new \in AssocRecord, NEW h, NEW w, NEW t, NEW u,
               PutBegins(c, a, new, rec[a], ShouldEnqueue(rec[a], new), h, w, t, u)
        PROVE  IndexInv'
    <3>1. Restored(rec[a]) \in AssocRecord
      BY RestoredType DEF BaseInv, TypeOK
    <3> QED BY <2>1, <2>4, <3>1, IndexPutBegins
  <2> QED BY <2>2, <2>3, <2>4
<1>6. ASSUME NEW p \in Path, NEW keys \in SUBSET Key, DataWrite(c, p, keys)
      PROVE  IndexInv'
  <2>1. /\ BaseInv' /\ UNCHANGED stored
        /\ \E bs, cs, h, w, t, u : DataBegins(c, p, keys, bs, cs, h, w, t, u)
    BY <1>6, DataWriteBase
  <2>2. PICK bs, cs, h, w, t, u : DataBegins(c, p, keys, bs, cs, h, w, t, u)
    BY <2>1
  <2>3. Begins(c, h, w, t, u)
    BY <2>2 DEF DataBegins
  <2>4. /\ \A i \in DOMAIN t : t[i].do \notin {"store", "del"}
        /\ \A i \in DOMAIN u : u[i].do # "store"
    BY <2>2, DataKinds
  <2> QED BY <2>1, <2>3, <2>4, IndexOtherBegins
<1>7. ASSUME NEW d \in Dest, NEW off \in BOOLEAN, NEW sensitive \in BOOLEAN,
             DestinationWrite(c, d, off, sensitive)
      PROVE  IndexInv'
  <2>1. /\ BaseInv' /\ UNCHANGED stored
        /\ \E r \in DestRecord : \E h, w, t, u : DestBegins(c, d, r, h, w, t, u)
    BY <1>7, DestinationWriteBase
  <2>2. PICK r, h, w, t, u : DestBegins(c, d, r, h, w, t, u)
    BY <2>1
  <2>3. Begins(c, h, w, t, u)
    BY <2>2 DEF DestBegins
  <2>4. /\ \A i \in DOMAIN t : t[i].do \notin {"store", "del"}
        /\ \A i \in DOMAIN u : u[i].do # "store"
    BY <2>2, DestKinds
  <2> QED BY <2>1, <2>3, <2>4, IndexOtherBegins
<1>8. ASSUME NEW d \in Dest, DestinationDelete(c, d) PROVE IndexInv'
  <2>1. /\ BaseInv' /\ UNCHANGED stored
        /\ \E h, w, t, u : DestDeleteBegins(c, d, h, w, t, u)
    BY <1>8, DestinationDeleteBase
  <2>2. PICK h, w, t, u : DestDeleteBegins(c, d, h, w, t, u)
    BY <2>1
  <2>3. Begins(c, h, w, t, u)
    BY <2>2 DEF DestDeleteBegins
  <2>4. /\ \A i \in DOMAIN t : t[i].do \notin {"store", "del"}
        /\ \A i \in DOMAIN u : u[i].do # "store"
    BY <2>2, DestDeleteKinds
  <2> QED BY <2>1, <2>3, <2>4, IndexOtherBegins
<1> HIDE DEF IndexInv
<1> QED BY <1>1, <1>2, <1>3, <1>4, <1>5, <1>6, <1>7, <1>8 DEF AssociationRequest

(* The steps of a request. *)
RecStored(s) ==
    rec' = IF s.do = "store" THEN [rec EXCEPT ![s.id] = s.to] ELSE rec

LEMMA RecStoredFacts ==
    ASSUME TypeOK, NEW s \in Steps, RecStored(s)
    PROVE  \A a \in Assoc : rec'[a] = RecAfter(s, rec, a)
BY StepFields DEF TypeOK, RecStored, RecAfter

LEMMA IndexStepDone ==
    ASSUME IndexInv, BaseInv', NEW c \in Client, client[c] \in Runs,
           client[c].todo[1].do = "put" => client[c].todo[1].keys = {},
           RecStored(client[c].todo[1]), index' = index,
           GoesOn(c, Tail(client[c].todo), client[c].undo)
    PROVE  IndexInv'
<1> DEFINE h == client[c].held
           w == client[c].touched
           t == client[c].todo
           u == client[c].undo
           s == t[1]
<1>1. /\ t \in Seq(Steps) /\ t # << >> /\ u \in Seq(Steps)
      /\ Tail(t) \in Seq(Steps) /\ s \in Steps /\ 1 \in DOMAIN t
  <2>1. t \in Seq(Steps) /\ t # << >> /\ u \in Seq(Steps)
    BY RunningIsRun DEF IndexInv, BaseInv
  <2> QED BY <2>1, TailFacts
<1>2. /\ Planned(h, w, t, u)
      /\ IndexesKept(t, u, rec, index)
      /\ LocksApart
  BY DEF IndexInv, BaseInv
<1>3. Becomes(c, h, w, Tail(t), u)
  BY <1>1, GoesOnBecomes DEF IndexInv, BaseInv
<1>4. \A a \in Assoc : rec'[a] = RecAfter(s, rec, a)
  BY <1>1, RecStoredFacts DEF IndexInv, BaseInv
<1>5. StepHeld(h, w, s)
  BY <1>1, <1>2 DEF Planned, StepsHeld
<1> HIDE DEF t, h, w, u
<1>6. IndexesKept(Tail(t), u, rec', index)
  <2>1. StoresOnce(t)
    BY <1>2 DEF Planned, Shape
  <2>2. t[1].do = "put" => t[1].keys = {}
    BY DEF t
  <2> QED BY <1>1, <1>2, <1>4, <2>1, <2>2, IndexTail
<1>7. \A a \in Assoc : OthersLack(c, a) \/ rec'[a] = rec[a]
  <2> SUFFICES ASSUME NEW a \in Assoc, rec'[a] # rec[a] PROVE OthersLack(c, a)
    OBVIOUS
  <2>1. s.do = "store" /\ s.id = a
    BY <1>4 DEF RecAfter
  <2>2. HasPath(h, a)
    BY <1>5, <2>1 DEF StepHeld
  <2> QED BY <1>2, <2>2, PathIsOwn DEF h
<1>8. AssociationIndexed'
  <2> SUFFICES ASSUME NEW a \in Assoc, NEW k \in IndexKeys(a, rec'[a])
               PROVE  k \in index
    BY DEF AssociationIndexed
  <2>1. CASE s.do = "store" /\ s.id = a
    <3>1. k \in IndexKeys(t[1].id, t[1].to) /\ t[1].do = "store"
      BY <1>4, <2>1 DEF RecAfter
    <3>2. \A j \in 1..(1 - 1) : FALSE
      OBVIOUS
    <3> QED BY <1>1, <1>2, <3>1, <3>2 DEF IndexesKept, PutsFirst
  <2>2. CASE ~(s.do = "store" /\ s.id = a)
    <3>1. rec'[a] = rec[a]
      BY <1>4, <2>2 DEF RecAfter
    <3> QED BY <3>1 DEF IndexInv, AssociationIndexed
  <2> QED BY <2>1, <2>2
<1> QED BY <1>3, <1>6, <1>7, <1>8, IndexAssembled

LEMMA IndexIndexStep ==
    ASSUME IndexInv, NEW c \in Client, IndexStep(c)
    PROVE  IndexInv'
<1> DEFINE h == client[c].held
           w == client[c].touched
           t == client[c].todo
           u == client[c].undo
<1>1. PICK k \in t[1].keys, v \in Seq(Steps) :
          /\ RoundOf(t, k, v)
          /\ index' = IndexAfter(t[1], index, k)
          /\ GoesOn(c, v, u)
  BY IndexStepBase DEF IndexInv, IndexAfter
<1>2. BaseInv' /\ client[c] \in Runs /\ rec' = rec
  BY IndexStepBase DEF IndexInv
<1>3. /\ t \in Seq(Steps) /\ t # << >> /\ u \in Seq(Steps) /\ 1 \in DOMAIN t
  <2>1. t \in Seq(Steps) /\ t # << >> /\ u \in Seq(Steps)
    BY <1>2, RunningIsRun DEF IndexInv, BaseInv
  <2> QED BY <2>1, TailFacts
<1>4. /\ Planned(h, w, t, u)
      /\ IndexesKept(t, u, rec, index)
      /\ LocksApart /\ rec \in [Assoc -> AssocRecord]
      /\ AssociationIndexed
  BY <1>2 DEF IndexInv, BaseInv, TypeOK
<1>5. Becomes(c, h, w, v, u)
  BY <1>1, <1>2, <1>3, GoesOnBecomes DEF IndexInv, BaseInv
<1> HIDE DEF t, h, w, u
<1>6. IndexesKept(v, u, rec, index')
  BY <1>1, <1>3, <1>4, IndexRound
<1>7. AssociationIndexed'
  <2> SUFFICES ASSUME NEW a \in Assoc PROVE IndexKeys(a, rec[a]) \subseteq index'
    BY <1>2 DEF AssociationIndexed
  <2>1. IndexKeys(a, rec[a]) \subseteq index /\ DelsLast(t, rec)
    BY <1>4 DEF AssociationIndexed, IndexesKept
  <2> QED BY <1>1, <1>3, <1>4, <2>1, IndexedRound
<1>8. \A x \in index \ index' : OthersLack(c, x.of)
  <2>1. \A x \in index \ index' : x = k
    BY <1>1 DEF IndexAfter
  <2>2. HasPath(h, k.of)
    BY <1>1, <1>3, <1>4 DEF Planned, StepsHeld, StepHeld, RoundOf
  <2> QED BY <1>2, <1>4, <2>1, <2>2, PathIsOwn DEF h
<1> QED BY <1>2, <1>5, <1>6, <1>7, <1>8, IndexAssembled

LEMMA IndexRefreshStep ==
    ASSUME IndexInv, NEW c \in Client, RefreshStep(c)
    PROVE  IndexInv'
<1> DEFINE s == client[c].todo[1]
<1>1. /\ BaseInv' /\ client[c] \in Runs
      /\ rec' = rec /\ index' = index
      /\ s \in Steps /\ s.do = "refresh"
  BY RefreshStepBase DEF IndexInv
<1>2. PICK a \in s.ids, t \in Seq(Steps) :
          /\ Putting(t, 2, a, rec[a], Renamed(a, s.keys))
          /\ GoesOn(c, t, << >>)
  BY RefreshStepBase DEF IndexInv
<1>3. a \in Assoc /\ s.keys \in SUBSET Key
  BY <1>1, StepFields
<1> HIDE DEF s
<1>4. Renamed(a, s.keys) \in AssocRecord
  BY <1>3, RenamedFacts DEF IndexInv, BaseInv
<1>5. << >> \in Seq(Steps)
  OBVIOUS
<1>6. Becomes(c, client[c].held, client[c].touched, t, << >>)
  BY <1>1, <1>2, <1>5, GoesOnBecomes DEF IndexInv, BaseInv
<1>7. IndexesKept(t, << >>, rec, index)
  <2>1. UndoesOne(<< >>, a, Renamed(a, s.keys))
    BY DEF UndoesOne
  <2>2. IndexKeys(a, rec[a]) \subseteq index
    BY <1>3 DEF IndexInv, AssociationIndexed
  <2> QED BY <1>2, <1>3, <1>4, <1>5, <2>1, <2>2, IndexPut
<1>8. AssociationIndexed'
  BY <1>1 DEF IndexInv, AssociationIndexed
<1> QED BY <1>1, <1>6, <1>7, <1>8, IndexAssembled

(* A request that ends, or turns to its undo. *)
LEMMA IndexTurns ==
    ASSUME IndexInv, BaseInv', NEW c \in Client, client[c] \in Runs,
           rec' = rec, index' = index,
           \/ GoesOn(c, << >>, << >>)
           \/ /\ client[c].todo[1].do \in {"enqueue", "destination"}
              /\ GoesOn(c, client[c].undo, << >>)
    PROVE  IndexInv'
<1> DEFINE h == client[c].held
           w == client[c].touched
           t == client[c].todo
           u == client[c].undo
<1>1. AssociationIndexed'
  BY DEF IndexInv, AssociationIndexed
<1>2. << >> \in Seq(Steps)
  OBVIOUS
<1>3. /\ t \in Seq(Steps) /\ t # << >> /\ u \in Seq(Steps)
      /\ Planned(h, w, t, u) /\ IndexesKept(t, u, rec, index)
  BY RunningIsRun DEF IndexInv, BaseInv
<1>4. CASE GoesOn(c, << >>, << >>)
  <2>1. Becomes(c, h, w, << >>, << >>)
    BY <1>2, <1>4, GoesOnBecomes DEF IndexInv, BaseInv
  <2>2. IndexesKept(<< >>, << >>, rec, index)
    BY IndexNoPut
  <2> QED BY <1>1, <2>1, <2>2, IndexAssembled
<1>5. CASE t[1].do \in {"enqueue", "destination"} /\ GoesOn(c, u, << >>)
  <2>1. Becomes(c, h, w, u, << >>)
    BY <1>2, <1>3, <1>5, GoesOnBecomes DEF IndexInv, BaseInv
  <2> HIDE DEF t, h, w, u
  <2>2. /\ \A i \in DOMAIN t : t[i].do # "store"
        /\ UndoShape(t, u) /\ StoresOnce(u)
    BY <1>3, <1>5, PlannedUndo DEF Planned, Shape
  <2>3. \A a \in Assoc : IndexKeys(a, rec[a]) \subseteq index
    BY DEF IndexInv, AssociationIndexed
  <2>4. IndexesKept(u, << >>, rec, index)
    BY <1>3, <2>2, <2>3, IndexUndo
  <2> QED BY <1>1, <2>1, <2>4, IndexAssembled
<1> QED BY <1>4, <1>5

LEMMA IndexNext ==
    ASSUME IndexInv, [Next]_vars
    PROVE  IndexInv'
<1>1. CASE UNCHANGED vars
  BY <1>1 DEF vars, IndexInv, BaseInv, TypeOK, LocksApart, AssociationIndexed
<1>2. CASE Crash
  <2>1. /\ BaseInv' /\ rec' = rec /\ index' = index
        /\ \A c \in Client : client'[c] \notin Runs
    BY <1>2, CrashBase DEF IndexInv
  <2> QED BY <2>1 DEF IndexInv, AssociationIndexed
<1>3. ASSUME NEW c \in Client, Step(c) PROVE IndexInv'
  <2>1. /\ BaseInv' /\ client[c] \in Runs
        /\ client[c].todo[1].do \notin {"put", "del", "refresh"}
        /\ Apply(client[c].todo[1])
        /\ GoesOn(c, Tail(client[c].todo), client[c].undo)
    BY <1>3, StepBase DEF IndexInv
  <2>2. RecStored(client[c].todo[1]) /\ index' = index
    BY <2>1 DEF Apply, RecStored
  <2> QED BY <2>1, <2>2, IndexStepDone
<1>4. ASSUME NEW c \in Client, LoopEnds(c) PROVE IndexInv'
  <2>1. /\ BaseInv' /\ client[c] \in Runs
        /\ LoopDone(client[c].todo[1])
        /\ GoesOn(c, Tail(client[c].todo), client[c].undo)
        /\ rec' = rec /\ index' = index
    BY <1>4, LoopEndsBase DEF IndexInv
  <2>2. /\ client[c].todo[1].do = "put" => client[c].todo[1].keys = {}
        /\ client[c].todo[1].do # "store"
    BY <2>1 DEF LoopDone
  <2>3. RecStored(client[c].todo[1])
    BY <2>1, <2>2 DEF RecStored
  <2> QED BY <2>1, <2>2, <2>3, IndexStepDone
<1>5. ASSUME NEW c \in Client, Refused(c) PROVE IndexInv'
  <2>1. /\ BaseInv' /\ client[c] \in Runs /\ rec' = rec /\ index' = index
        /\ \/ GoesOn(c, << >>, << >>)
           \/ /\ client[c].todo[1].do \in {"enqueue", "destination"}
              /\ GoesOn(c, client[c].undo, << >>)
    BY <1>5, RefusedBase DEF IndexInv
  <2> QED BY <2>1, IndexTurns
<1>6. ASSUME NEW c \in Client, StorageFails(c) PROVE IndexInv'
  <2>1. /\ BaseInv' /\ client[c] \in Runs /\ rec' = rec /\ index' = index
        /\ \/ GoesOn(c, << >>, << >>)
           \/ /\ client[c].todo[1].do \in {"enqueue", "destination"}
              /\ GoesOn(c, client[c].undo, << >>)
    BY <1>6, StorageFailsBase DEF IndexInv
  <2> QED BY <2>1, IndexTurns
<1> QED BY <1>1, <1>2, <1>3, <1>4, <1>5, <1>6, IndexRequest, IndexIndexStep,
           IndexRefreshStep DEF Next

(* An association that is stored can be found by its destination and by    *)
(* every name it reserves, wherever a put, a rollback or a delete was cut  *)
(* short: putAssociation writes the entries before the record, deleteAsso- *)
(* ciation the record before the entries, and both under the lock of the   *)
(* source path.                                                            *)
THEOREM StoredAssociationsAreIndexed == Spec => []AssociationIndexed
<1>1. Init => IndexInv
  <2> SUFFICES ASSUME Init PROVE IndexInv
    OBVIOUS
  <2>1. BaseInv /\ \A c \in Client : client[c] \notin Runs
    BY InitBase
  <2>2. AssociationIndexed
    BY DEF Init, AssociationIndexed
  <2> QED BY <2>1, <2>2 DEF IndexInv
<1>2. IndexInv /\ [Next]_vars => IndexInv'
  BY IndexNext
<1>3. IndexInv => AssociationIndexed
  BY DEF IndexInv
<1> QED BY <1>1, <1>2, <1>3, PTL DEF Spec

-----------------------------------------------------------------------------
(* Destinations and names: DestinationPresent and OwnNameOnce              *)

Twin(a, b) == a # b /\ DestOf[a] = DestOf[b] /\ OwnName[a] = OwnName[b]

(* Whoever is about to create an association holds its three locks, the    *)
(* destination is there and the name is free.                              *)
MayStore(h, w, a, r, d) ==
    \/ r[a].live
    \/ /\ WriteLocks(a) \subseteq h
       /\ w = {a}
       /\ d[DestOf[a]].live
       /\ \A b \in Assoc : Twin(a, b) => ~r[b].live

StoresAllowed(h, w, t, r, d) ==
    \A i \in DOMAIN t :
        t[i].do = "store" /\ t[i].to.live => MayStore(h, w, t[i].id, r, d)

RefreshAllowed(t, r) ==
    \A i \in DOMAIN t : t[i].do = "refresh" => \A a \in t[i].ids : r[a].live

(* A destination about to be deleted has no association. *)
DeletesAllowed(t, r) ==
    \A i \in DOMAIN t : t[i].do = "destination" /\ ~t[i].to.live =>
        \A a \in Assoc : DestOf[a] = t[i].name => ~r[a].live

Allowed(h, w, t, u, r, d) ==
    /\ StoresAllowed(h, w, t, r, d) /\ StoresAllowed(h, w, u, r, d)
    /\ RefreshAllowed(t, r)
    /\ DeletesAllowed(t, r)

PresenceInv ==
    /\ IndexInv
    /\ DestinationPresent
    /\ OwnNameOnce
    /\ \A c \in Client : client[c] \in Runs =>
           Allowed(client[c].held, client[c].touched, client[c].todo,
                   client[c].undo, rec, dest)

(* Other requests do not have lock x. *)
OthersWithout(c, x) ==
    \A c2 \in Client : c2 # c /\ client[c2] \in Runs => x \notin client[c2].held

LEMMA LockIsOwn ==
    ASSUME LocksApart, NEW c \in Client, client[c] \in Runs, NEW x,
           x \in client[c].held
    PROVE  OthersWithout(c, x)
BY DEF LocksApart, OthersWithout

LEMMA TwinLock ==
    ASSUME NEW a, NEW b, Twin(a, b)
    PROVE  NameLock(a) = NameLock(b) /\ Twin(b, a)
BY DEF Twin, NameLock

(* What is left of a request may be done still. *)
LEMMA AllowedPart ==
    ASSUME NEW h, NEW w, NEW t, NEW u, NEW r, NEW d, Allowed(h, w, t, u, r, d),
           NEW v,
           \A i \in DOMAIN v : v[i].do \in {"store", "refresh", "destination"} =>
               \E j \in DOMAIN t : t[j] = v[i]
    PROVE  Allowed(h, w, v, u, r, d)
<1>1. StoresAllowed(h, w, v, r, d)
  <2> SUFFICES ASSUME NEW i \in DOMAIN v, v[i].do = "store", v[i].to.live
               PROVE  MayStore(h, w, v[i].id, r, d)
    BY DEF StoresAllowed
  <2>1. PICK j \in DOMAIN t : t[j] = v[i]
    OBVIOUS
  <2> QED BY <2>1 DEF Allowed, StoresAllowed
<1>2. RefreshAllowed(v, r)
  <2> SUFFICES ASSUME NEW i \in DOMAIN v, v[i].do = "refresh"
               PROVE  \A a \in v[i].ids : r[a].live
    BY DEF RefreshAllowed
  <2>1. PICK j \in DOMAIN t : t[j] = v[i]
    OBVIOUS
  <2> QED BY <2>1 DEF Allowed, RefreshAllowed
<1>3. DeletesAllowed(v, r)
  <2> SUFFICES ASSUME NEW i \in DOMAIN v, v[i].do = "destination", ~v[i].to.live
               PROVE  \A a \in Assoc : DestOf[a] = v[i].name => ~r[a].live
    BY DEF DeletesAllowed
  <2>1. PICK j \in DOMAIN t : t[j] = v[i]
    OBVIOUS
  <2> QED BY <2>1 DEF Allowed, DeletesAllowed
<1> QED BY <1>1, <1>2, <1>3 DEF Allowed

LEMMA MayStoreElsewhere ==
    ASSUME NEW h, NEW w, NEW r, NEW r2, NEW d, NEW d2,
           \A a \in Assoc : HasPath(h, a) => r2[a] = r[a],
           \A a \in Assoc : r2[a].live /\ ~r[a].live => NameLock(a) \notin h,
           \A e \in Dest : DestLock(e) \in h => d2[e] = d[e],
           NEW a \in Assoc, HasPath(h, a), MayStore(h, w, a, r, d)
    PROVE  MayStore(h, w, a, r2, d2)
<1>1. r2[a] = r[a]
  OBVIOUS
<1>2. CASE r[a].live
  BY <1>1, <1>2 DEF MayStore
<1>3. CASE ~r[a].live
  <2>1. /\ WriteLocks(a) \subseteq h /\ w = {a} /\ d[DestOf[a]].live
        /\ \A b \in Assoc : Twin(a, b) => ~r[b].live
    BY <1>3 DEF MayStore
  <2>2. DestOf[a] \in Dest /\ DestLock(DestOf[a]) \in h /\ NameLock(a) \in h
    BY <2>1, AssociationsAssumption DEF WriteLocks
  <2>3. \A b \in Assoc : Twin(a, b) => ~r2[b].live
    BY <2>1, <2>2, TwinLock
  <2> QED BY <2>1, <2>2, <2>3 DEF MayStore
<1> QED BY <1>2, <1>3

LEMMA AllowedElsewhere ==
    ASSUME NEW h, NEW w, NEW t \in Seq(Steps), NEW u \in Seq(Steps),
           StepsHeld(h, w, t), StepsHeld(h, w, u),
           NEW r, NEW r2, NEW d, NEW d2, Allowed(h, w, t, u, r, d),
           \A a \in Assoc : HasPath(h, a) => r2[a] = r[a],
           \A a \in Assoc : r2[a].live /\ ~r[a].live =>
               NameLock(a) \notin h /\ DestLock(DestOf[a]) \notin h,
           \A e \in Dest : DestLock(e) \in h => d2[e] = d[e]
    PROVE  Allowed(h, w, t, u, r2, d2)
<1>1. ASSUME NEW x \in Seq(Steps), StepsHeld(h, w, x), StoresAllowed(h, w, x, r, d)
      PROVE  StoresAllowed(h, w, x, r2, d2)
  <2> SUFFICES ASSUME NEW i \in DOMAIN x, x[i].do = "store", x[i].to.live
               PROVE  MayStore(h, w, x[i].id, r2, d2)
    BY DEF StoresAllowed
  <2>1. x[i].id \in Assoc
    BY StepFields
  <2>2. HasPath(h, x[i].id) /\ MayStore(h, w, x[i].id, r, d)
    BY <1>1 DEF StepsHeld, StepHeld, StoresAllowed
  <2> QED BY <2>1, <2>2, MayStoreElsewhere
<1>2. RefreshAllowed(t, r2)
  <2> SUFFICES ASSUME NEW i \in DOMAIN t, t[i].do = "refresh", NEW a \in t[i].ids
               PROVE  r2[a].live
    BY DEF RefreshAllowed
  <2>1. a \in Assoc
    BY StepFields
  <2>2. HasPath(h, a) /\ r[a].live
    BY DEF StepsHeld, StepHeld, Allowed, RefreshAllowed
  <2> QED BY <2>1, <2>2
<1>3. DeletesAllowed(t, r2)
  <2> SUFFICES ASSUME NEW i \in DOMAIN t, t[i].do = "destination", ~t[i].to.live,
                      NEW a \in Assoc, DestOf[a] = t[i].name
               PROVE  ~r2[a].live
    BY DEF DeletesAllowed
  <2>1. h = {DestLock(t[i].name)} /\ ~r[a].live
    BY DEF StepsHeld, StepHeld, Allowed, DeletesAllowed
  <2> QED BY <2>1
<1> QED BY <1>1, <1>2, <1>3 DEF Allowed

LEMMA PresenceAssembled ==
    ASSUME PresenceInv, IndexInv', NEW c \in Client,
           NEW h, NEW w, NEW t, NEW u, Becomes(c, h, w, t, u),
           Allowed(h, w, t, u, rec', dest') \/ client'[c] \notin Runs,
           \A a \in Assoc : OthersLack(c, a) \/ rec'[a] = rec[a],
           \A a \in Assoc : rec'[a].live /\ ~rec[a].live =>
               OthersWithout(c, NameLock(a)) /\ OthersWithout(c, DestLock(DestOf[a])),
           \A e \in Dest : dest'[e] = dest[e] \/ OthersWithout(c, DestLock(e)),
           DestinationPresent', OwnNameOnce'
    PROVE  PresenceInv'
<1> SUFFICES ASSUME NEW c2 \in Client, client'[c2] \in Runs
             PROVE  Allowed(client'[c2].held, client'[c2].touched, client'[c2].todo,
                            client'[c2].undo, rec', dest')
  BY DEF PresenceInv
<1>1. CASE c2 = c
  BY <1>1 DEF Becomes
<1>2. CASE c2 # c
  <2>1. client'[c2] = client[c2] /\ client[c2] \in Runs
    BY <1>2 DEF Becomes
  <2>2. /\ client[c2].todo \in Seq(Steps) /\ client[c2].undo \in Seq(Steps)
        /\ StepsHeld(client[c2].held, client[c2].touched, client[c2].todo)
        /\ StepsHeld(client[c2].held, client[c2].touched, client[c2].undo)
    BY <2>1, RunningIsRun DEF PresenceInv, IndexInv, BaseInv, Planned
  <2>3. Allowed(client[c2].held, client[c2].touched, client[c2].todo,
                client[c2].undo, rec, dest)
    BY <2>1 DEF PresenceInv
  <2>4. \A a \in Assoc : HasPath(client[c2].held, a) => rec'[a] = rec[a]
    BY <1>2, <2>1 DEF OthersLack
  <2>5. \A a \in Assoc : rec'[a].live /\ ~rec[a].live =>
            /\ NameLock(a) \notin client[c2].held
            /\ DestLock(DestOf[a]) \notin client[c2].held
    BY <1>2, <2>1 DEF OthersWithout
  <2>6. \A e \in Dest : DestLock(e) \in client[c2].held => dest'[e] = dest[e]
    BY <1>2, <2>1 DEF OthersWithout
  <2>7. Allowed(client[c2].held, client[c2].touched, client[c2].todo,
                client[c2].undo, rec', dest')
    BY ONLY <2>2, <2>3, <2>4, <2>5, <2>6, AllowedElsewhere
  <2> QED BY <2>1, <2>7
<1> QED BY <1>1, <1>2

(* A step that changes neither associations nor destinations. *)
LEMMA PresenceSame ==
    ASSUME PresenceInv, IndexInv', NEW c \in Client, rec' = rec, dest' = dest,
           NEW h, NEW w, NEW t, NEW u, Becomes(c, h, w, t, u),
           Allowed(h, w, t, u, rec, dest) \/ client'[c] \notin Runs
    PROVE  PresenceInv'
<1>1. DestinationPresent' /\ OwnNameOnce'
  BY DEF PresenceInv, DestinationPresent, OwnNameOnce
<1> QED BY <1>1, PresenceAssembled

LEMMA PresenceStaysOut ==
    ASSUME PresenceInv, IndexInv', NEW c \in Client, UNCHANGED stored,
           StaysOut(c)
    PROVE  PresenceInv'
<1>1. Becomes(c, {}, {}, << >>, << >>)
  BY DEF StaysOut, Becomes
<1> QED BY <1>1, PresenceSame DEF StaysOut, stored

(* A request that puts a record of a where it may. *)
LEMMA AllowedPut ==
    ASSUME NEW h, NEW w, NEW t, NEW u, NEW j, NEW a, NEW old,
           NEW new, NEW r, NEW d,
           Putting(t, j, a, old, new), UndoesOne(u, a, new),
           \A i \in DOMAIN t : t[i].do # "refresh" /\ t[i].do # "destination",
           new.live => MayStore(h, w, a, r, d),
           u # << >> => MayStore(h, w, a, r, d)
    PROVE  Allowed(h, w, t, u, r, d)
<1>1. StoresAllowed(h, w, t, r, d)
  BY DEF StoresAllowed, Putting, StoreAt
<1>2. StoresAllowed(h, w, u, r, d)
  <2> SUFFICES ASSUME NEW i \in DOMAIN u, u[i].do = "store"
               PROVE  MayStore(h, w, u[i].id, r, d)
    BY DEF StoresAllowed
  <2>1. u # << >>
    OBVIOUS
  <2>2. PICK x \in AssocRecord : PutUndo(u, a, new, x)
    BY <2>1 DEF UndoesOne
  <2>3. PICK m \in DOMAIN u : Putting(u, m, a, new, x)
    BY <2>2 DEF PutUndo
  <2>4. u[i].id = a
    BY <2>3 DEF Putting, StoreAt
  <2> QED BY <2>1, <2>4
<1>3. RefreshAllowed(t, r) /\ DeletesAllowed(t, r)
  BY DEF RefreshAllowed, DeletesAllowed
<1> QED BY <1>1, <1>2, <1>3 DEF Allowed

(* The check of associationWritePreflight finds every association that has *)
(* the name, because they are all in the index.                            *)
LEMMA NoTwinStored ==
    ASSUME AssociationIndexed, NEW a \in Assoc, NEW new, new.live,
           NamesFree(a, Reserves(a, new))
    PROVE  \A b \in Assoc : Twin(a, b) => ~rec[b].live
<1> SUFFICES ASSUME NEW b \in Assoc, Twin(a, b), rec[b].live PROVE FALSE
  OBVIOUS
<1>1. OwnName[a] \in Reserves(a, new) /\ OwnName[b] \in Reserves(b, rec[b])
  BY DEF Reserves
<1>2. NameKey(b, OwnName[b]) \in index
  BY <1>1 DEF AssociationIndexed, IndexKeys, NameKeys
<1>3. b \in ReservedBy(DestOf[a], OwnName[a])
  BY <1>1, <1>2 DEF ReservedBy, Twin
<1> QED BY <1>1, <1>3 DEF NamesFree, Twin

LEMMA NoneAtDestination ==
    ASSUME AssociationIndexed, NEW d, NoAssociations(d)
    PROVE  \A a \in Assoc : DestOf[a] = d => ~rec[a].live
<1> SUFFICES ASSUME NEW a \in Assoc, DestOf[a] = d, rec[a].live PROVE FALSE
  OBVIOUS
<1>1. DestKey(a) \in index
  BY DEF AssociationIndexed, IndexKeys
<1> QED BY <1>1 DEF NoAssociations, AssociationsAt

LEMMA PresencePutBegins ==
    ASSUME PresenceInv, IndexInv', NEW c \in Client, UNCHANGED stored,
           NEW a \in Assoc, NEW new \in AssocRecord, NEW previous, NEW b,
           Restored(previous) \in AssocRecord,
           NEW h, NEW w, NEW t, NEW u,
           PutBegins(c, a, new, previous, b, h, w, t, u),
           MayStore(h, w, a, rec, dest)
    PROVE  PresenceInv'
<1>1. Becomes(c, h, w, t, u)
  BY BeginsBecomes DEF PutBegins
<1>2. Putting(t, 2, a, rec[a], new) /\ UndoesOne(u, a, new)
  BY DEF PutBegins, PutTodo, UndoesOne
<1>3. \A i \in DOMAIN t : t[i].do # "refresh" /\ t[i].do # "destination"
  BY DEF PutBegins, PutTodo
<1>4. Allowed(h, w, t, u, rec, dest)
  BY <1>2, <1>3, AllowedPut
<1> QED BY <1>1, <1>4, PresenceSame DEF stored

LEMMA PresenceCancelBegins ==
    ASSUME PresenceInv, IndexInv', NEW c \in Client, UNCHANGED stored,
           NEW a \in Assoc, NEW new \in AssocRecord,
           NEW h, NEW w, NEW t, NEW u,
           CancelBegins(c, a, new, h, w, t, u)
    PROVE  PresenceInv'
<1>1. Becomes(c, h, w, t, u)
  BY BeginsBecomes DEF CancelBegins
<1>2. PICK j \in DOMAIN t : Putting(t, j, a, rec[a], new)
  BY DEF CancelBegins
<1>3. UndoesOne(u, a, new) /\ u = << >>
  BY DEF CancelBegins, UndoesOne
<1>4. \A i \in DOMAIN t : t[i].do # "refresh" /\ t[i].do # "destination"
  BY DEF CancelBegins
<1>5. new.live => MayStore(h, w, a, rec, dest)
  BY DEF CancelBegins, MayStore
<1>6. Allowed(h, w, t, u, rec, dest)
  BY <1>2, <1>3, <1>4, <1>5, AllowedPut
<1> QED BY <1>1, <1>6, PresenceSame DEF stored

LEMMA PresenceOtherBegins ==
    ASSUME PresenceInv, IndexInv', NEW c \in Client, UNCHANGED stored,
           NEW h, NEW w, NEW t, NEW u, Begins(c, h, w, t, u),
           \A i \in DOMAIN t : t[i].do # "store",
           \A i \in DOMAIN u : u[i].do # "store",
           RefreshAllowed(t, rec), DeletesAllowed(t, rec)
    PROVE  PresenceInv'
<1>1. Becomes(c, h, w, t, u)
  BY BeginsBecomes
<1>2. Allowed(h, w, t, u, rec, dest)
  BY DEF Allowed, StoresAllowed
<1> QED BY <1>1, <1>2, PresenceSame DEF stored

LEMMA PresenceRequest ==
    ASSUME PresenceInv, IndexInv', NEW c \in Client,
           \/ \E a \in Assoc : AssociationRequest(c, a)
           \/ Write(c)
           \/ \E p \in Path, keys \in SUBSET Key \ {{}} : DataWrite(c, p, keys)
           \/ \E p \in Path, on \in BOOLEAN : SourceSync(c, p, on)
           \/ \E d \in Dest, off, sensitive \in BOOLEAN :
                 DestinationWrite(c, d, off, sensitive)
           \/ \E d \in Dest : DestinationDelete(c, d)
    PROVE  PresenceInv'
<1>b. BaseInv /\ AssociationIndexed
  BY DEF PresenceInv, IndexInv
<1>1. ASSUME NEW a \in Assoc, NEW e \in {"yes", "no", "keep"},
             NEW k \in Config \cup {0}, WriteDraft(c, a, e, k)
      PROVE  PresenceInv'
  <2>1. UNCHANGED stored /\ StaysOut(c)
    BY <1>1, <1>b, WriteDraftBase DEF StaysOut
  <2> QED BY <2>1, PresenceStaysOut
<1>2. ASSUME NEW a \in Assoc, Enable(c, a) PROVE PresenceInv'
  <2>1. UNCHANGED stored /\ rec[a].live
    BY <1>2, <1>b, EnableBase
  <2>2. PICK new \in AssocRecord, previous \in AssocRecord :
            \E h, w, t, u : PutBegins(c, a, new, previous, ~rec[a].enabled, h, w, t, u)
    BY <1>2, <1>b, EnableBase
  <2>3. PICK h, w, t, u : PutBegins(c, a, new, previous, ~rec[a].enabled, h, w, t, u)
    BY <2>2
  <2>4. MayStore(h, w, a, rec, dest)
    BY <2>1 DEF MayStore
  <2> QED BY <2>1, <2>3, <2>4, RestoredType, PresencePutBegins
<1>3. ASSUME NEW a \in Assoc, Disable(c, a) \/ Delete(c, a) PROVE PresenceInv'
  <2>1. /\ UNCHANGED stored
        /\ \E new \in AssocRecord : \E h, w, t, u : CancelBegins(c, a, new, h, w, t, u)
    BY <1>3, <1>b, DisableBase, DeleteBase
  <2> QED BY <2>1, PresenceCancelBegins
<1>4. ASSUME \/ \E a \in Assoc : Sync(c, a)
             \/ \E p \in Path, on \in BOOLEAN : SourceSync(c, p, on)
      PROVE  PresenceInv'
  <2>1. /\ UNCHANGED stored
        /\ \E h, w, t, u : EnqueueBegins(c, h, w, t, u)
    BY <1>4, <1>b, SyncBase, SourceSyncBase
  <2>2. PICK h, w, t, u : EnqueueBegins(c, h, w, t, u)
    BY <2>1
  <2>3. RefreshAllowed(t, rec) /\ DeletesAllowed(t, rec)
    BY <2>2 DEF EnqueueBegins, RefreshAllowed, DeletesAllowed
  <2> QED BY <2>1, <2>2, <2>3, PresenceOtherBegins DEF EnqueueBegins
<1>5. ASSUME Write(c) PROVE PresenceInv'
  <2>1. UNCHANGED stored
    BY <1>5, <1>b, WriteBase
  <2>2. \/ StaysOut(c)
        \/ \E a \in Assoc, new \in AssocRecord : \E h, w, t, u :
               /\ PutBegins(c, a, new, rec[a], ShouldEnqueue(rec[a], new), h, w, t, u)
               /\ h = WriteLocks(a)
               /\ WritePreflight(a, new)
    BY <1>5, <1>b, WriteBase
  <2>3. CASE StaysOut(c)
    BY <2>1, <2>3, PresenceStaysOut
  <2>4. ASSUME NEW a \in Assoc, NEW new \in AssocRecord, NEW h, NEW w, NEW t, NEW u,
               PutBegins(c, a, new, rec[a], ShouldEnqueue(rec[a], new), h, w, t, u),
               h = WriteLocks(a), WritePreflight(a, new)
        PROVE  PresenceInv'
    <3>1. Restored(rec[a]) \in AssocRecord
      BY <1>b, RestoredType DEF BaseInv, TypeOK
    <3>2. /\ new.live /\ w = {a}
          /\ NamesFree(a, Reserves(a, new)) /\ dest[DestOf[a]].live
      BY <2>4 DEF PutBegins, WritePreflight, DestActive
    <3>3. \A b \in Assoc : Twin(a, b) => ~rec[b].live
      BY <1>b, <3>2, NoTwinStored
    <3>4. MayStore(h, w, a, rec, dest)
      BY <2>4, <3>2, <3>3 DEF MayStore
    <3> QED BY <2>1, <2>4, <3>1, <3>4, PresencePutBegins
  <2> QED BY <2>2, <2>3, <2>4
<1>6. ASSUME NEW p \in Path, NEW keys \in SUBSET Key, DataWrite(c, p, keys)
      PROVE  PresenceInv'
  <2>1. /\ UNCHANGED stored
        /\ \E bs, cs, h, w, t, u : DataBegins(c, p, keys, bs, cs, h, w, t, u)
    BY <1>6, <1>b, DataWriteBase
  <2>2. PICK bs, cs, h, w, t, u : DataBegins(c, p, keys, bs, cs, h, w, t, u)
    BY <2>1
  <2>3. Begins(c, h, w, t, u)
    BY <2>2 DEF DataBegins
  <2>4. /\ \A i \in DOMAIN t : t[i].do \in {"refresh", "commit"}
        /\ \A i \in DOMAIN u : u[i].do # "store"
    BY <2>2, DataKinds
  <2>5. RefreshAllowed(t, rec)
    <3>1. \A i \in DOMAIN t : i = 1 \/ i = 2
      BY <2>2 DEF DataBegins
    <3>2. t[1].ids = cs /\ t[2].do = "commit"
      BY <2>2, KindsOfSteps DEF DataBegins
    <3> QED BY <2>2, <3>1, <3>2 DEF DataBegins, RefreshAllowed
  <2>6. DeletesAllowed(t, rec)
    BY <2>4 DEF DeletesAllowed
  <2> QED BY <2>1, <2>3, <2>4, <2>5, <2>6, PresenceOtherBegins
<1>7. ASSUME NEW d \in Dest, NEW off \in BOOLEAN, NEW sensitive \in BOOLEAN,
             DestinationWrite(c, d, off, sensitive)
      PROVE  PresenceInv'
  <2>1. /\ UNCHANGED stored
        /\ \E r \in DestRecord : \E h, w, t, u : DestBegins(c, d, r, h, w, t, u)
    BY <1>7, <1>b, DestinationWriteBase
  <2>2. PICK r, h, w, t, u : DestBegins(c, d, r, h, w, t, u)
    BY <2>1
  <2>3. Begins(c, h, w, t, u)
    BY <2>2 DEF DestBegins
  <2>4. /\ \A i \in DOMAIN t : t[i].do \in {"putSecret", "destination", "delSecret"}
        /\ \A i \in DOMAIN u : u[i].do # "store"
    BY <2>2, DestKinds
  <2>5. RefreshAllowed(t, rec)
    BY <2>4 DEF RefreshAllowed
  <2>6. DeletesAllowed(t, rec)
    <3>1. PICK j \in DOMAIN t : DestShape(t, j, d, r, dest[d].secret)
      BY <2>2 DEF DestBegins
    <3>2. DOMAIN t \subseteq Nat
      BY <2>3, BeginsBecomes, LenProperties
    <3>3. ASSUME NEW i \in DOMAIN t, t[i].do = "destination" PROVE t[i].to.live
      <4>1. i < j \/ i = j \/ i > j
        BY <3>2
      <4>2. i = j
        BY <3>1, <3>3, <4>1, KindsOfSteps DEF DestShape
      <4> QED BY <2>2, <3>1, <4>2, KindsOfSteps DEF DestShape, DestBegins
    <3> QED BY <3>3 DEF DeletesAllowed
  <2> QED BY <2>1, <2>3, <2>4, <2>5, <2>6, PresenceOtherBegins
<1>8. ASSUME NEW d \in Dest, DestinationDelete(c, d) PROVE PresenceInv'
  <2>1. /\ UNCHANGED stored
        /\ \E h, w, t, u : DestDeleteBegins(c, d, h, w, t, u)
    BY <1>8, <1>b, DestinationDeleteBase
  <2>2. PICK h, w, t, u : DestDeleteBegins(c, d, h, w, t, u)
    BY <2>1
  <2>3. Begins(c, h, w, t, u)
    BY <2>2 DEF DestDeleteBegins
  <2>4. /\ \A i \in DOMAIN t : t[i].do \in {"destination", "delSecrets"}
        /\ \A i \in DOMAIN u : u[i].do # "store"
    BY <2>2, DestDeleteKinds
  <2>5. RefreshAllowed(t, rec)
    BY <2>4 DEF RefreshAllowed
  <2>6. DeletesAllowed(t, rec)
    <3>1. \A i \in DOMAIN t : i = 1 \/ i = 2
      BY <2>2 DEF DestDeleteBegins
    <3>2. t[1].name = d /\ t[2].do = "delSecrets"
      BY <2>2, KindsOfSteps DEF DestDeleteBegins
    <3>3. \A a \in Assoc : DestOf[a] = d => ~rec[a].live
      BY <1>b, <2>2, NoneAtDestination DEF DestDeleteBegins
    <3> QED BY <3>1, <3>2, <3>3 DEF DeletesAllowed
  <2> QED BY <2>1, <2>3, <2>4, <2>5, <2>6, PresenceOtherBegins
<1> QED BY <1>1, <1>2, <1>3, <1>4, <1>5, <1>6, <1>7, <1>8 DEF AssociationRequest

(* The step that stores a record. *)
LEMMA PresenceStore ==
    ASSUME PresenceInv, IndexInv', NEW c \in Client, client[c] \in Runs,
           client[c].todo[1].do = "store",
           RecStored(client[c].todo[1]), dest' = dest,
           GoesOn(c, Tail(client[c].todo), client[c].undo)
    PROVE  PresenceInv'
<1> DEFINE h == client[c].held
           w == client[c].touched
           t == client[c].todo
           u == client[c].undo
           s == t[1]
           a == s.id
<1>1. /\ t \in Seq(Steps) /\ t # << >> /\ u \in Seq(Steps)
      /\ Tail(t) \in Seq(Steps) /\ s \in Steps /\ 1 \in DOMAIN t
      /\ \A i \in DOMAIN Tail(t) :
             i + 1 \in DOMAIN t /\ i + 1 # 1 /\ Tail(t)[i] = t[i + 1]
  <2>1. t \in Seq(Steps) /\ t # << >> /\ u \in Seq(Steps)
    BY RunningIsRun DEF PresenceInv, IndexInv, BaseInv
  <2> QED BY <2>1, TailFacts
<1>2. /\ Planned(h, w, t, u)
      /\ Allowed(h, w, t, u, rec, dest)
      /\ LocksApart /\ TypeOK
  BY DEF PresenceInv, IndexInv, BaseInv
<1>3. Becomes(c, h, w, Tail(t), u)
  BY <1>1, GoesOnBecomes DEF PresenceInv, IndexInv, BaseInv
<1>4. /\ a \in Assoc /\ rec'[a] = s.to
      /\ \A b \in Assoc : b # a => rec'[b] = rec[b]
  <2>1. \A b \in Assoc : rec'[b] = RecAfter(s, rec, b)
    BY <1>1, <1>2, RecStoredFacts
  <2> QED BY <1>1, <2>1, StepFields DEF RecAfter
<1>5. HasPath(h, a) /\ a \in w
  BY <1>1, <1>2 DEF Planned, StepsHeld, StepHeld
<1>6. s.to.live => MayStore(h, w, a, rec, dest)
  BY <1>1, <1>2 DEF Allowed, StoresAllowed
<1>o. OthersLack(c, a)
  BY <1>2, <1>5, PathIsOwn
<1>n. ASSUME s.to.live, ~rec[a].live
      PROVE  OthersWithout(c, NameLock(a)) /\ OthersWithout(c, DestLock(DestOf[a]))
  <2>1. NameLock(a) \in h /\ DestLock(DestOf[a]) \in h
    BY <1>6, <1>n DEF MayStore, WriteLocks
  <2> QED BY <1>2, <2>1, LockIsOwn
<1>z. s.do = "store"
  OBVIOUS
<1> HIDE DEF h, w, u, t, s, a
<1>7. ASSUME NEW x \in Assoc, x # a, MayStore(h, w, x, rec, dest)
      PROVE  MayStore(h, w, x, rec', dest')
  <2>1. rec[x].live
    BY <1>5, <1>7 DEF MayStore
  <2> QED BY <1>4, <1>7, <2>1 DEF MayStore
<1>8. StoresAllowed(h, w, Tail(t), rec', dest')
  <2> DEFINE v == Tail(t)
  <2>1. \A i \in DOMAIN v : i + 1 \in DOMAIN t /\ i + 1 # 1 /\ v[i] = t[i + 1]
    BY <1>1
  <2>2. v \in Seq(Steps)
    BY <1>1
  <2> HIDE DEF v
  <2>3. ASSUME NEW i \in DOMAIN v, v[i].do = "store", v[i].to.live
        PROVE  MayStore(h, w, v[i].id, rec', dest')
    <3>1. i + 1 \in DOMAIN t /\ i + 1 # 1 /\ v[i] = t[i + 1]
      BY <2>1
    <3>2. v[i].id # a
      BY <1>1, <1>2, <1>z, <2>3, <3>1 DEF Planned, Shape, StoresOnce, a, s
    <3>3. v[i].id \in Assoc
      BY <2>2, <2>3, StepFields
    <3>4. MayStore(h, w, v[i].id, rec, dest)
      BY <1>2, <2>3, <3>1 DEF Allowed, StoresAllowed
    <3> QED BY <1>7, <3>2, <3>3, <3>4
  <2> QED BY <2>3 DEF StoresAllowed, v
<1>9. StoresAllowed(h, w, u, rec', dest')
  <2> SUFFICES ASSUME NEW i \in DOMAIN u, u[i].do = "store", u[i].to.live
               PROVE  MayStore(h, w, u[i].id, rec', dest')
    BY DEF StoresAllowed
  <2>1. s.to.live
    BY <1>1, <1>2, <1>z DEF Planned, Shape, UndoShape, s
  <2>2. u[i].id \in Assoc
    BY <1>1, StepFields
  <2>3. MayStore(h, w, u[i].id, rec, dest)
    BY <1>2 DEF Allowed, StoresAllowed
  <2>4. CASE u[i].id = a
    BY <1>4, <2>1, <2>4 DEF MayStore
  <2> QED BY <1>7, <2>2, <2>3, <2>4
<1>10. RefreshAllowed(Tail(t), rec')
  <2> DEFINE v == Tail(t)
  <2>1. /\ \A i \in DOMAIN v : i + 1 \in DOMAIN t /\ v[i] = t[i + 1]
        /\ v \in Seq(Steps)
    BY <1>1
  <2> HIDE DEF v
  <2>2. ASSUME NEW i \in DOMAIN v, v[i].do = "refresh", NEW b \in v[i].ids
        PROVE  rec'[b].live
    <3>1. i + 1 \in DOMAIN t /\ v[i] = t[i + 1]
      BY <2>1
    <3>2. a \notin v[i].ids
      BY <1>1, <1>2, <1>z, <2>2, <3>1 DEF Planned, Shape, RefreshShape, a, s
    <3>3. rec[b].live
      BY <1>2, <2>2, <3>1 DEF Allowed, RefreshAllowed
    <3>4. b \in Assoc
      BY <2>1, <2>2, StepFields
    <3> QED BY <1>4, <2>2, <3>2, <3>3, <3>4
  <2> QED BY <2>2 DEF RefreshAllowed, v
<1>11. DeletesAllowed(Tail(t), rec')
  <2> DEFINE v == Tail(t)
  <2>1. \A i \in DOMAIN v : i + 1 \in DOMAIN t /\ v[i] = t[i + 1]
    BY <1>1
  <2> HIDE DEF v
  <2>2. ASSUME NEW i \in DOMAIN v, v[i].do = "destination" PROVE FALSE
    <3>1. h = {DestLock(v[i].name)}
      BY <1>2, <2>1, <2>2 DEF Planned, StepsHeld, StepHeld
    <3> QED BY <1>5, <3>1 DEF HasPath, SourceLock, DestLock
  <2> QED BY <2>2 DEF DeletesAllowed, v
<1>12. Allowed(h, w, Tail(t), u, rec', dest')
  BY <1>8, <1>9, <1>10, <1>11 DEF Allowed
<1>13. DestinationPresent'
  <2> SUFFICES ASSUME NEW b \in Assoc, rec'[b].live PROVE dest[DestOf[b]].live
    BY DEF DestinationPresent
  <2>1. CASE rec[b].live
    BY <2>1 DEF PresenceInv, DestinationPresent
  <2>2. CASE ~rec[b].live
    <3>1. b = a /\ s.to.live
      BY <1>4, <2>2
    <3> QED BY <1>6, <2>2, <3>1 DEF MayStore
  <2> QED BY <2>1, <2>2
<1>14. OwnNameOnce'
  <2>1. ASSUME NEW b \in Assoc, rec'[a].live, rec'[b].live PROVE ~Twin(a, b)
    <3> SUFFICES ASSUME Twin(a, b) PROVE FALSE
      OBVIOUS
    <3>1. b # a /\ rec[b].live
      BY <1>4, <2>1 DEF Twin
    <3>2. rec[a].live
      BY <1>4, <1>6, <2>1, <3>1 DEF MayStore
    <3> QED BY <1>4, <3>1, <3>2 DEF PresenceInv, OwnNameOnce, Twin
  <2> SUFFICES ASSUME NEW x \in Assoc, NEW y \in Assoc, x # y, DestOf[x] = DestOf[y],
                      rec'[x].live, rec'[y].live
               PROVE  OwnName[x] # OwnName[y]
    BY DEF OwnNameOnce
  <2>2. CASE x = a
    BY <2>1, <2>2 DEF Twin
  <2>3. CASE y = a
    BY <2>1, <2>3 DEF Twin
  <2>4. CASE x # a /\ y # a
    BY <1>4, <2>4 DEF PresenceInv, OwnNameOnce
  <2> QED BY <2>2, <2>3, <2>4
<1>15. \A b \in Assoc : OthersLack(c, b) \/ rec'[b] = rec[b]
  BY <1>4, <1>o
<1>16. \A b \in Assoc : rec'[b].live /\ ~rec[b].live =>
           OthersWithout(c, NameLock(b)) /\ OthersWithout(c, DestLock(DestOf[b]))
  BY <1>4, <1>n
<1> QED BY <1>3, <1>12, <1>13, <1>14, <1>15, <1>16, PresenceAssembled

(* The step that stores a destination. *)
LEMMA PresenceDestination ==
    ASSUME PresenceInv, IndexInv', NEW c \in Client, client[c] \in Runs,
           client[c].todo[1].do = "destination", rec' = rec,
           dest' = [dest EXCEPT ![client[c].todo[1].name] = client[c].todo[1].to],
           GoesOn(c, Tail(client[c].todo), client[c].undo)
    PROVE  PresenceInv'
<1> DEFINE h == client[c].held
           w == client[c].touched
           t == client[c].todo
           u == client[c].undo
           s == t[1]
           d == s.name
<1>1. /\ t \in Seq(Steps) /\ t # << >> /\ u \in Seq(Steps)
      /\ Tail(t) \in Seq(Steps) /\ s \in Steps /\ 1 \in DOMAIN t
      /\ \A i \in DOMAIN Tail(t) : i + 1 \in DOMAIN t /\ Tail(t)[i] = t[i + 1]
  <2>1. t \in Seq(Steps) /\ t # << >> /\ u \in Seq(Steps)
    BY RunningIsRun DEF PresenceInv, IndexInv, BaseInv
  <2> QED BY <2>1, TailFacts
<1>2. /\ Planned(h, w, t, u)
      /\ Allowed(h, w, t, u, rec, dest)
      /\ LocksApart /\ TypeOK
  BY DEF PresenceInv, IndexInv, BaseInv
<1>3. Becomes(c, h, w, Tail(t), u)
  BY <1>1, GoesOnBecomes DEF PresenceInv, IndexInv, BaseInv
<1>4. /\ d \in Dest /\ dest'[d] = s.to
      /\ \A e \in Dest : e # d => dest'[e] = dest[e]
  BY <1>1, <1>2, StepFields DEF TypeOK
<1>5. h = {DestLock(d)}
  BY <1>1, <1>2 DEF Planned, StepsHeld, StepHeld
<1>6. ~s.to.live => \A b \in Assoc : DestOf[b] = d => ~rec[b].live
  BY <1>1, <1>2 DEF Allowed, DeletesAllowed
<1>7. OthersWithout(c, DestLock(d))
  BY <1>2, <1>5, LockIsOwn
<1> HIDE DEF h, w, u, t, s, d
<1>8. ASSUME NEW x, StepsHeld(h, w, x) PROVE StoresAllowed(h, w, x, rec, dest')
  <2>1. \A i \in DOMAIN x : x[i].do # "store"
    BY <1>5, <1>8 DEF StepsHeld, StepHeld, HasPath, SourceLock, DestLock
  <2> QED BY <2>1 DEF StoresAllowed
<1>9. Allowed(h, w, Tail(t), u, rec', dest')
  <2> DEFINE v == Tail(t)
  <2>1. \A i \in DOMAIN v : i + 1 \in DOMAIN t /\ v[i] = t[i + 1]
    BY <1>1
  <2> HIDE DEF v
  <2>2. Allowed(h, w, v, u, rec, dest)
    BY <1>2, <2>1, AllowedPart
  <2>3. StepsHeld(h, w, v) /\ StepsHeld(h, w, u)
    BY <1>2, <2>1 DEF Planned, StepsHeld
  <2>4. StoresAllowed(h, w, v, rec, dest') /\ StoresAllowed(h, w, u, rec, dest')
    BY <1>8, <2>3
  <2> QED BY <2>2, <2>4 DEF Allowed, v
<1>10. DestinationPresent'
  <2> SUFFICES ASSUME NEW b \in Assoc, rec[b].live PROVE dest'[DestOf[b]].live
    BY DEF DestinationPresent
  <2>1. DestOf[b] \in Dest /\ dest[DestOf[b]].live
    BY AssociationsAssumption DEF PresenceInv, DestinationPresent
  <2> QED BY <1>4, <1>6, <2>1
<1>11. OwnNameOnce'
  BY DEF PresenceInv, OwnNameOnce
<1>12. \A e \in Dest : dest'[e] = dest[e] \/ OthersWithout(c, DestLock(e))
  BY <1>4, <1>7
<1> QED BY <1>3, <1>9, <1>10, <1>11, <1>12, PresenceAssembled

LEMMA PresenceOtherStep ==
    ASSUME PresenceInv, IndexInv', NEW c \in Client, client[c] \in Runs,
           rec' = rec, dest' = dest,
           GoesOn(c, Tail(client[c].todo), client[c].undo)
    PROVE  PresenceInv'
<1> DEFINE h == client[c].held
           w == client[c].touched
           t == client[c].todo
           u == client[c].undo
           v == Tail(t)
<1>1. /\ u \in Seq(Steps) /\ v \in Seq(Steps)
      /\ \A i \in DOMAIN v : i + 1 \in DOMAIN t /\ v[i] = t[i + 1]
  <2>1. t \in Seq(Steps) /\ t # << >> /\ u \in Seq(Steps)
    BY RunningIsRun DEF PresenceInv, IndexInv, BaseInv
  <2> QED BY <2>1, TailFacts
<1>2. Allowed(h, w, t, u, rec, dest)
  BY DEF PresenceInv
<1>3. Becomes(c, h, w, v, u)
  BY <1>1, GoesOnBecomes DEF PresenceInv, IndexInv, BaseInv
<1> HIDE DEF h, w, u, t, v
<1>4. Allowed(h, w, v, u, rec, dest)
  BY <1>1, <1>2, AllowedPart
<1> QED BY <1>3, <1>4, PresenceSame

LEMMA PresenceIndexStep ==
    ASSUME PresenceInv, IndexInv', NEW c \in Client, IndexStep(c)
    PROVE  PresenceInv'
<1> DEFINE h == client[c].held
           w == client[c].touched
           t == client[c].todo
           u == client[c].undo
<1>1. PICK k \in t[1].keys, v \in Seq(Steps) : RoundOf(t, k, v) /\ GoesOn(c, v, u)
  BY IndexStepBase DEF PresenceInv, IndexInv
<1>2. client[c] \in Runs /\ rec' = rec /\ dest' = dest
  BY IndexStepBase DEF PresenceInv, IndexInv
<1>3. u \in Seq(Steps) /\ Allowed(h, w, t, u, rec, dest)
  BY <1>2, RunningIsRun DEF PresenceInv, IndexInv, BaseInv
<1>4. Becomes(c, h, w, v, u)
  BY <1>1, <1>2, <1>3, GoesOnBecomes DEF PresenceInv, IndexInv, BaseInv
<1> HIDE DEF h, w, u, t
<1>5. \A i \in DOMAIN v : v[i].do \in {"store", "refresh", "destination"} =>
          i \in DOMAIN t /\ t[i] = v[i]
  BY <1>1 DEF RoundOf
<1>6. Allowed(h, w, v, u, rec, dest)
  BY <1>3, <1>5, AllowedPart
<1> QED BY <1>2, <1>4, <1>6, PresenceSame

LEMMA PresenceRefreshStep ==
    ASSUME PresenceInv, IndexInv', NEW c \in Client, RefreshStep(c)
    PROVE  PresenceInv'
<1> DEFINE s == client[c].todo[1]
           h == client[c].held
           w == client[c].touched
<1>1. /\ client[c] \in Runs /\ rec' = rec /\ dest' = dest
      /\ s \in Steps /\ s.do = "refresh"
  BY RefreshStepBase DEF PresenceInv, IndexInv
<1>2. PICK a \in s.ids, t \in Seq(Steps) :
          /\ Len(t) = 5 /\ DOMAIN t = 1..5
          /\ Putting(t, 2, a, rec[a], Renamed(a, s.keys))
          /\ \A i \in 1..3 : t[i].do \in {"put", "store", "del"}
          /\ t[4] = Refresh(s.ids \ {a}, s.keys)
          /\ t[5].do = "commit"
          /\ GoesOn(c, t, << >>)
  BY RefreshStepBase DEF PresenceInv, IndexInv
<1>3. << >> \in Seq(Steps)
  OBVIOUS
<1>4. Becomes(c, h, w, t, << >>)
  BY <1>1, <1>2, <1>3, GoesOnBecomes DEF PresenceInv, IndexInv, BaseInv
<1>5. \A b \in s.ids : rec[b].live
  <2>1. 1 \in DOMAIN client[c].todo
    BY <1>1, RunningIsRun, TailFacts DEF PresenceInv, IndexInv, BaseInv
  <2> QED BY <1>1, <2>1 DEF PresenceInv, Allowed, RefreshAllowed
<1> HIDE DEF s, h, w
<1>6. \A i \in DOMAIN t : i \in 1..3 \/ i = 4 \/ i = 5
  BY <1>2
<1>7. t[4].do = "refresh" /\ t[4].ids \subseteq s.ids
  BY <1>2, KindsOfSteps
<1>8. RefreshAllowed(t, rec)
  <2> SUFFICES ASSUME NEW i \in DOMAIN t, t[i].do = "refresh" PROVE i = 4
    BY <1>5, <1>7 DEF RefreshAllowed
  <2> QED BY <1>2, <1>6
<1>9. DeletesAllowed(t, rec)
  <2> SUFFICES ASSUME NEW i \in DOMAIN t, t[i].do = "destination" PROVE FALSE
    BY DEF DeletesAllowed
  <2> QED BY <1>2, <1>6, <1>7
<1>10. StoresAllowed(h, w, t, rec, dest)
  BY <1>2, <1>5 DEF StoresAllowed, Putting, StoreAt, MayStore
<1>11. StoresAllowed(h, w, << >>, rec, dest)
  BY DEF StoresAllowed
<1>12. Allowed(h, w, t, << >>, rec, dest)
  BY <1>8, <1>9, <1>10, <1>11 DEF Allowed
<1> QED BY <1>1, <1>4, <1>12, PresenceSame

LEMMA PresenceTurns ==
    ASSUME PresenceInv, IndexInv', NEW c \in Client, client[c] \in Runs,
           rec' = rec, dest' = dest,
           \/ GoesOn(c, << >>, << >>)
           \/ /\ client[c].todo[1].do \in {"enqueue", "destination"}
              /\ GoesOn(c, client[c].undo, << >>)
    PROVE  PresenceInv'
<1> DEFINE h == client[c].held
           w == client[c].touched
           t == client[c].todo
           u == client[c].undo
<1>1. << >> \in Seq(Steps)
  OBVIOUS
<1>2. /\ t \in Seq(Steps) /\ t # << >> /\ u \in Seq(Steps)
      /\ Planned(h, w, t, u) /\ Allowed(h, w, t, u, rec, dest)
  BY RunningIsRun DEF PresenceInv, IndexInv, BaseInv
<1>3. \A x : /\ StoresAllowed(h, w, << >>, rec, dest)
             /\ RefreshAllowed(<< >>, rec) /\ DeletesAllowed(<< >>, rec)
  BY DEF StoresAllowed, RefreshAllowed, DeletesAllowed
<1>4. CASE GoesOn(c, << >>, << >>)
  <2>1. Becomes(c, h, w, << >>, << >>)
    BY <1>1, <1>4, GoesOnBecomes DEF PresenceInv, IndexInv, BaseInv
  <2>2. Allowed(h, w, << >>, << >>, rec, dest)
    BY <1>3 DEF Allowed
  <2> QED BY <2>1, <2>2, PresenceSame
<1>5. CASE t[1].do \in {"enqueue", "destination"} /\ GoesOn(c, u, << >>)
  <2>1. Becomes(c, h, w, u, << >>)
    BY <1>1, <1>2, <1>5, GoesOnBecomes DEF PresenceInv, IndexInv, BaseInv
  <2> HIDE DEF t, h, w, u
  <2>2. \A i \in DOMAIN u :
            u[i].do \in {"put", "store", "del", "eligible", "delSecret"}
    BY <1>2 DEF Planned, Shape, UndoShape
  <2>3. RefreshAllowed(u, rec) /\ DeletesAllowed(u, rec)
    BY <2>2 DEF RefreshAllowed, DeletesAllowed
  <2>4. Allowed(h, w, u, << >>, rec, dest)
    BY <1>2, <1>3, <2>3 DEF Allowed
  <2> QED BY <2>1, <2>4, PresenceSame
<1> QED BY <1>4, <1>5

LEMMA PresenceNext ==
    ASSUME PresenceInv, [Next]_vars
    PROVE  PresenceInv'
<1>i. IndexInv /\ IndexInv'
  BY IndexNext DEF PresenceInv
<1>b. BaseInv
  BY <1>i DEF IndexInv
<1>1. CASE UNCHANGED vars
  BY <1>1, <1>i DEF vars, PresenceInv, DestinationPresent, OwnNameOnce
<1>2. CASE Crash
  <2>1. /\ rec' = rec /\ dest' = dest
        /\ \A c \in Client : client'[c] \notin Runs
    BY <1>2, <1>b, CrashBase
  <2> QED BY <1>i, <2>1 DEF PresenceInv, DestinationPresent, OwnNameOnce
<1>3. ASSUME NEW c \in Client, Step(c) PROVE PresenceInv'
  <2>1. /\ client[c] \in Runs
        /\ Apply(client[c].todo[1])
        /\ GoesOn(c, Tail(client[c].todo), client[c].undo)
    BY <1>3, <1>b, StepBase
  <2>2. CASE client[c].todo[1].do = "store"
    <3>1. RecStored(client[c].todo[1]) /\ dest' = dest
      BY <2>1, <2>2 DEF Apply, RecStored
    <3> QED BY <1>i, <2>1, <2>2, <3>1, PresenceStore
  <2>3. CASE client[c].todo[1].do = "destination"
    <3>1. /\ rec' = rec
          /\ dest' = [dest EXCEPT ![client[c].todo[1].name] = client[c].todo[1].to]
      BY <2>1, <2>3 DEF Apply
    <3> QED BY <1>i, <2>1, <2>3, <3>1, PresenceDestination
  <2>4. CASE client[c].todo[1].do \notin {"store", "destination"}
    <3>1. rec' = rec /\ dest' = dest
      BY <2>1, <2>4 DEF Apply
    <3> QED BY <1>i, <2>1, <3>1, PresenceOtherStep
  <2> QED BY <2>2, <2>3, <2>4
<1>4. ASSUME NEW c \in Client, LoopEnds(c) PROVE PresenceInv'
  <2>1. /\ client[c] \in Runs
        /\ GoesOn(c, Tail(client[c].todo), client[c].undo)
        /\ rec' = rec /\ dest' = dest
    BY <1>4, <1>b, LoopEndsBase
  <2> QED BY <1>i, <2>1, PresenceOtherStep
<1>5. ASSUME NEW c \in Client, Refused(c) \/ StorageFails(c) PROVE PresenceInv'
  <2>1. /\ client[c] \in Runs /\ rec' = rec /\ dest' = dest
        /\ \/ GoesOn(c, << >>, << >>)
           \/ /\ client[c].todo[1].do \in {"enqueue", "destination"}
              /\ GoesOn(c, client[c].undo, << >>)
    BY <1>5, <1>b, RefusedBase, StorageFailsBase
  <2> QED BY <1>i, <2>1, PresenceTurns
<1> QED BY <1>i, <1>1, <1>2, <1>3, <1>4, <1>5, PresenceRequest, PresenceIndexStep,
           PresenceRefreshStep DEF Next

LEMMA PresenceInit ==
    ASSUME Init
    PROVE  PresenceInv
<1>1. BaseInv /\ \A c \in Client : client[c] \notin Runs
  BY InitBase
<1>2. AssociationIndexed
  BY DEF Init, AssociationIndexed
<1>3. PICK bs \in InitialAssocs :
          /\ rec = [a \in Assoc |->
                IF a \in bs
                THEN [live |-> TRUE, enabled |-> TRUE, config |-> DefaultConfig,
                      names |-> ConcreteNames(a, data[PathOf[a]])]
                ELSE Gone]
          /\ \A a \in bs : dest[DestOf[a]].live
  BY DEF Init
<1>4. \A a \in Assoc : rec[a].live => a \in bs
  BY <1>3, GoneFacts
<1>5. DestinationPresent
  BY <1>3, <1>4 DEF DestinationPresent
<1>6. OwnNameOnce
  BY <1>4, AssociationsAssumption DEF OwnNameOnce
<1> QED BY <1>1, <1>2, <1>5, <1>6 DEF PresenceInv, IndexInv

(* The destination of a stored association exists.  The check of an asso-  *)
(* ciation write and the check of a destination delete are made under the  *)
(* destination's lock by two requests; an enable, a disable and a data     *)
(* write, which do not take that lock, only replace records that are there,*)
(* and the path lock keeps them there.                                     *)
THEOREM DestinationsStayForAssociations == Spec => []DestinationPresent
<1>1. Init => PresenceInv
  BY PresenceInit
<1>2. PresenceInv /\ [Next]_vars => PresenceInv'
  BY PresenceNext
<1>3. PresenceInv => DestinationPresent
  BY DEF PresenceInv
<1> QED BY <1>1, <1>2, <1>3, PTL DEF Spec

(* Two stored associations never have the same reservation name at one     *)
(* destination, for any number of requests that race for the name: the     *)
(* name lock of validateAssociationNameReservations and the index it       *)
(* searches are enough.                                                    *)
THEOREM ReservationNamesAreUnique == Spec => []OwnNameOnce
<1>1. Init => PresenceInv
  BY PresenceInit
<1>2. PresenceInv /\ [Next]_vars => PresenceInv'
  BY PresenceNext
<1>3. PresenceInv => OwnNameOnce
  BY DEF PresenceInv
<1> QED BY <1>1, <1>2, <1>3, PTL DEF Spec

-----------------------------------------------------------------------------
(* Sensitive configurations: SensitiveStored                               *)

SecretSteps == {"putSecret", "delSecret", "delSecrets", "destination"}

(* Before a destination is stored, its sensitive configuration is.  Here d *)
(* are the destinations, sc the sensitive configurations that are stored   *)
(* and f the number of those ever written.                                 *)
SecretsFirst(t, sc, f) ==
    \A i \in DOMAIN t : t[i].do = "destination" /\ t[i].to.secret # 0 =>
        /\ t[i].to.secret <= f
        /\ \/ Secret(t[i].name, t[i].to.secret) \in sc
           \/ \E j \in 1..(i - 1) :
                  /\ t[j].do = "putSecret"
                  /\ t[j].secret = Secret(t[i].name, t[i].to.secret)

(* A sensitive configuration is deleted once the record has another. *)
SecretsLast(t, d) ==
    \A i \in DOMAIN t :
        /\ t[i].do = "delSecret" =>
               /\ \A j \in DOMAIN t : t[j].do = "destination" =>
                      j < i /\ t[j].to.secret # t[i].secret.version
               /\ (\A j \in DOMAIN t : t[j].do # "destination") =>
                      d[t[i].secret.of].secret # t[i].secret.version
        /\ t[i].do = "delSecrets" =>
               /\ \A j \in DOMAIN t : t[j].do = "destination" =>
                      j < i /\ t[j].to.secret = 0
               /\ (\A j \in DOMAIN t : t[j].do # "destination") =>
                      d[t[i].of].secret = 0

(* An undo deletes the configuration that no record points to yet. *)
SecretsUndone(t, u, d) ==
    (\E j \in DOMAIN t : t[j].do = "destination") =>
        \A i \in DOMAIN u : u[i].do = "delSecret" =>
            d[u[i].secret.of].secret # u[i].secret.version

SecretsKept(t, u, d, sc, f) ==
    SecretsFirst(t, sc, f) /\ SecretsLast(t, d) /\ SecretsUndone(t, u, d)

SecretInv ==
    /\ IndexInv
    /\ SensitiveStored
    /\ \A d \in Dest : dest[d].secret <= fresh
    /\ \A c \in Client : client[c] \in Runs =>
           SecretsKept(client[c].todo, client[c].undo, dest, secrets, fresh)

(* What step s makes of destination e and of configuration x. *)
DestAfter(s, d, e) == IF s.do = "destination" /\ s.name = e THEN s.to ELSE d[e]

SecretAfter(s, sc, x) ==
    \/ x \in sc /\ ~(s.do = "delSecret" /\ s.secret = x)
                /\ ~(s.do = "delSecrets" /\ s.of = x.of)
    \/ s.do = "putSecret" /\ s.secret = x

LEMMA LockOfDestination ==
    ASSUME NEW d, NEW e, {DestLock(d)} = {DestLock(e)}
    PROVE  d = e
<1>1. DestLock(d) = DestLock(e)
  OBVIOUS
<1>2. DestLock(d).at = d /\ DestLock(e).at = e
  BY DEF DestLock
<1> QED BY <1>1, <1>2

(* A destination step and a deletion in one request are about one          *)
(* destination.                                                            *)
LEMMA OneDestination ==
    ASSUME NEW h, NEW w, NEW s, NEW x, StepHeld(h, w, s), StepHeld(h, w, x),
           s.do = "destination"
    PROVE  /\ x.do = "delSecret" => x.secret.of = s.name
           /\ x.do = "delSecrets" => x.of = s.name
BY LockOfDestination DEF StepHeld

LEMMA SecretTail ==
    ASSUME NEW h, NEW w, NEW t \in Seq(Steps), NEW u \in Seq(Steps), t # << >>,
           Planned(h, w, t, u), NEW d, NEW d2, NEW sc, NEW sc2, NEW f,
           SecretsKept(t, u, d, sc, f),
           \A e \in Dest : d2[e] = DestAfter(t[1], d, e),
           \A x : x \in sc2 <=> SecretAfter(t[1], sc, x)
    PROVE  SecretsKept(Tail(t), u, d2, sc2, f)
<1> DEFINE v == Tail(t)
<1>1. /\ Len(t) \in Nat \ {0} /\ DOMAIN t = 1..Len(t) /\ 1 \in DOMAIN t
      /\ v \in Seq(Steps)
      /\ Len(v) = Len(t) - 1 /\ DOMAIN v = 1..(Len(t) - 1)
      /\ \A i \in DOMAIN v : i + 1 \in DOMAIN t /\ i + 1 # 1 /\ v[i] = t[i + 1]
      /\ \A i \in DOMAIN t : i # 1 => i - 1 \in DOMAIN v /\ v[i - 1] = t[i]
  BY TailFacts
<1>2. /\ StepsHeld(h, w, t) /\ DestinationOnce(t)
      /\ SecretsFirst(t, sc, f) /\ SecretsLast(t, d) /\ SecretsUndone(t, u, d)
  BY DEF Planned, Shape, SecretsKept
<1> HIDE DEF v
<1>3. SecretsFirst(v, sc2, f)
  <2> SUFFICES ASSUME NEW i \in DOMAIN v, v[i].do = "destination", v[i].to.secret # 0
               PROVE  /\ v[i].to.secret <= f
                      /\ \/ Secret(v[i].name, v[i].to.secret) \in sc2
                         \/ \E j \in 1..(i - 1) :
                                /\ v[j].do = "putSecret"
                                /\ v[j].secret = Secret(v[i].name, v[i].to.secret)
    BY DEF SecretsFirst
  <2>1. i + 1 \in DOMAIN t /\ i + 1 # 1 /\ v[i] = t[i + 1]
    BY <1>1
  <2>2. PICK x : x = Secret(v[i].name, v[i].to.secret)
    OBVIOUS
  <2>3. /\ v[i].to.secret <= f
        /\ x \in sc \/ \E j \in 1..((i + 1) - 1) : t[j].do = "putSecret" /\ t[j].secret = x
    BY <1>2, <2>1, <2>2 DEF SecretsFirst
  <2>4. t[1].do # "delSecret" /\ t[1].do # "delSecrets"
    <3>1. ~(i + 1 < 1)
      BY <1>1
    <3> QED BY <1>1, <1>2, <2>1, <3>1 DEF SecretsLast
  <2>5. CASE x \in sc
    BY <2>2, <2>3, <2>4, <2>5 DEF SecretAfter
  <2>6. ASSUME NEW j \in 1..((i + 1) - 1), t[j].do = "putSecret", t[j].secret = x
        PROVE  x \in sc2 \/ \E n \in 1..(i - 1) : v[n].do = "putSecret" /\ v[n].secret = x
    <3>1. CASE j = 1
      BY <2>6, <3>1 DEF SecretAfter
    <3>2. CASE j # 1
      <4>1. j \in DOMAIN t /\ j - 1 \in 1..(i - 1)
        BY <1>1, <2>1, <3>2
      <4> QED BY <1>1, <2>6, <3>2, <4>1
    <3> QED BY <3>1, <3>2
  <2> QED BY <2>2, <2>3, <2>5, <2>6
<1>4. ASSUME \A j \in DOMAIN v : v[j].do # "destination", NEW x,
             NEW i \in DOMAIN v, x = v[i], x.do \in {"delSecret", "delSecrets"}
      PROVE  /\ x.do = "delSecret" => d2[x.secret.of].secret # x.secret.version
             /\ x.do = "delSecrets" => d2[x.of].secret = 0
  <2>1. i + 1 \in DOMAIN t /\ x = t[i + 1] /\ StepHeld(h, w, x)
    BY <1>1, <1>2, <1>4 DEF StepsHeld
  <2>2. /\ x.do = "delSecret" => x.secret.of \in Dest
        /\ x.do = "delSecrets" => x.of \in Dest
    BY <1>1, <1>4, StepFields
  <2>3. CASE t[1].do = "destination"
    <3>1. StepHeld(h, w, t[1])
      BY <1>1, <1>2 DEF StepsHeld
    <3>2. /\ x.do = "delSecret" => x.secret.of = t[1].name
          /\ x.do = "delSecrets" => x.of = t[1].name
      BY <2>1, <2>3, <3>1, OneDestination
    <3>3. /\ x.do = "delSecret" => d2[x.secret.of] = t[1].to
          /\ x.do = "delSecrets" => d2[x.of] = t[1].to
      BY <2>2, <2>3, <3>2 DEF DestAfter
    <3>4. /\ x.do = "delSecret" => t[1].to.secret # x.secret.version
          /\ x.do = "delSecrets" => t[1].to.secret = 0
      BY <1>1, <1>2, <2>1, <2>3 DEF SecretsLast
    <3> QED BY <3>3, <3>4
  <2>4. CASE t[1].do # "destination"
    <3>1. \A j \in DOMAIN t : t[j].do # "destination"
      BY <1>1, <1>4, <2>4
    <3>2. /\ x.do = "delSecret" => d[x.secret.of].secret # x.secret.version
          /\ x.do = "delSecrets" => d[x.of].secret = 0
      BY <1>2, <2>1, <3>1 DEF SecretsLast
    <3>3. \A e \in Dest : d2[e] = d[e]
      BY <2>4 DEF DestAfter
    <3> QED BY <2>2, <3>2, <3>3
  <2> QED BY <2>3, <2>4
<1>5. ASSUME NEW i \in DOMAIN v, NEW j \in DOMAIN v, v[j].do = "destination"
      PROVE  /\ v[i].do = "delSecret" => j < i /\ v[j].to.secret # v[i].secret.version
             /\ v[i].do = "delSecrets" => j < i /\ v[j].to.secret = 0
  <2>1. i + 1 \in DOMAIN t /\ v[i] = t[i + 1] /\ j + 1 \in DOMAIN t /\ v[j] = t[j + 1]
    BY <1>1
  <2>2. /\ v[i].do = "delSecret" =>
               j + 1 < i + 1 /\ v[j].to.secret # v[i].secret.version
        /\ v[i].do = "delSecrets" => j + 1 < i + 1 /\ v[j].to.secret = 0
    BY <1>2, <1>5, <2>1 DEF SecretsLast
  <2>3. i \in Nat /\ j \in Nat
    BY <1>1
  <2> QED BY <2>2, <2>3
<1>6. SecretsLast(v, d2)
  BY <1>4, <1>5 DEF SecretsLast
<1>7. SecretsUndone(v, u, d2)
  <2> SUFFICES ASSUME NEW j \in DOMAIN v, v[j].do = "destination",
                      NEW i \in DOMAIN u, u[i].do = "delSecret"
               PROVE  d2[u[i].secret.of].secret # u[i].secret.version
    BY DEF SecretsUndone
  <2>1. j + 1 \in DOMAIN t /\ j + 1 # 1 /\ v[j] = t[j + 1]
    BY <1>1
  <2>2. t[1].do # "destination"
    BY <1>1, <1>2, <2>1 DEF DestinationOnce
  <2>3. u[i].secret.of \in Dest
    BY StepFields
  <2>4. d[u[i].secret.of].secret # u[i].secret.version
    BY <1>2, <2>1 DEF SecretsUndone
  <2> QED BY <2>2, <2>3, <2>4 DEF DestAfter
<1> QED BY <1>3, <1>6, <1>7 DEF SecretsKept, v

(* A round of a loop touches none of these steps. *)
LEMMA SecretRound ==
    ASSUME NEW t, NEW v, NEW u, NEW d, NEW sc, NEW f, NEW k, RoundOf(t, k, v),
           t \in Seq(Steps), SecretsKept(t, u, d, sc, f)
    PROVE  SecretsKept(v, u, d, sc, f)
<1>1. /\ DOMAIN v = DOMAIN t
      /\ \A i \in DOMAIN t : v[i].do = t[i].do
      /\ \A i \in DOMAIN t : t[i].do \in SecretSteps => v[i] = t[i]
  BY DEF RoundOf, SecretSteps
<1>2. \A i \in DOMAIN t : \A j \in 1..(i - 1) : j \in DOMAIN t
  BY LenProperties
<1>3. SecretsFirst(v, sc, f)
  BY <1>1, <1>2 DEF SecretsKept, SecretsFirst, SecretSteps
<1>4. SecretsLast(v, d)
  BY <1>1 DEF SecretsKept, SecretsLast, SecretSteps
<1>5. SecretsUndone(v, u, d)
  BY <1>1 DEF SecretsKept, SecretsUndone
<1> QED BY <1>3, <1>4, <1>5 DEF SecretsKept

LEMMA NoSecretSteps ==
    ASSUME NEW t, NEW u, NEW d, NEW sc, NEW f,
           \A i \in DOMAIN t : t[i].do \notin SecretSteps
    PROVE  SecretsKept(t, u, d, sc, f)
BY DEF SecretsKept, SecretsFirst, SecretsLast, SecretsUndone, SecretSteps

(* What a request has to do once it turns to its undo. *)
LEMMA SecretUndo ==
    ASSUME NEW h, NEW w, NEW t \in Seq(Steps), NEW u \in Seq(Steps), t # << >>,
           Planned(h, w, t, u), t[1].do \in {"enqueue", "destination"},
           NEW d, NEW sc, NEW f, SecretsKept(t, u, d, sc, f)
    PROVE  SecretsKept(u, << >>, d, sc, f)
<1>1. 1 \in DOMAIN t
  BY TailFacts
<1>2. \A i \in DOMAIN u :
          /\ u[i].do \in {"put", "store", "del", "eligible", "delSecret"}
          /\ u[i].do = "delSecret" => t[1].do # "enqueue"
  BY <1>1 DEF Planned, Shape, UndoShape
<1>3. SecretsFirst(u, sc, f)
  BY <1>2 DEF SecretsFirst
<1>4. ASSUME NEW i \in DOMAIN u, u[i].do = "delSecret"
      PROVE  d[u[i].secret.of].secret # u[i].secret.version
  BY <1>1, <1>2, <1>4 DEF SecretsKept, SecretsUndone
<1>5. SecretsLast(u, d)
  BY <1>2, <1>4 DEF SecretsLast
<1>6. SecretsUndone(u, << >>, d)
  BY DEF SecretsUndone
<1> QED BY <1>3, <1>5, <1>6 DEF SecretsKept

(* Other requests see none of what happens at other destinations. *)
LEMMA SecretElsewhere ==
    ASSUME NEW h, NEW w, NEW t \in Seq(Steps), NEW u \in Seq(Steps),
           StepsHeld(h, w, t), StepsHeld(h, w, u),
           NEW d, NEW d2, NEW sc, NEW sc2, NEW f \in Nat, NEW f2 \in Nat, f <= f2,
           SecretsKept(t, u, d, sc, f),
           \A e \in Dest : DestLock(e) \in h =>
               /\ d2[e] = d[e]
               /\ \A v : Secret(e, v) \in sc => Secret(e, v) \in sc2
    PROVE  SecretsKept(t, u, d2, sc2, f2)
<1>1. SecretsFirst(t, sc2, f2)
  <2> SUFFICES ASSUME NEW i \in DOMAIN t, t[i].do = "destination", t[i].to.secret # 0
               PROVE  /\ t[i].to.secret <= f2
                      /\ \/ Secret(t[i].name, t[i].to.secret) \in sc2
                         \/ \E j \in 1..(i - 1) :
                                /\ t[j].do = "putSecret"
                                /\ t[j].secret = Secret(t[i].name, t[i].to.secret)
    BY DEF SecretsFirst
  <2>1. /\ t[i].name \in Dest /\ DestLock(t[i].name) \in h
        /\ t[i].to.secret \in Nat
    BY StepFields DEF StepsHeld, StepHeld, DestRecord
  <2> QED BY <2>1 DEF SecretsKept, SecretsFirst
<1>2. ASSUME NEW x \in Steps, StepHeld(h, w, x)
      PROVE  /\ x.do = "delSecret" => d2[x.secret.of] = d[x.secret.of]
             /\ x.do = "delSecrets" => d2[x.of] = d[x.of]
  BY <1>2, StepFields DEF StepHeld
<1>3. SecretsLast(t, d2)
  <2>1. \A i \in DOMAIN t :
            /\ t[i].do = "delSecret" => d2[t[i].secret.of] = d[t[i].secret.of]
            /\ t[i].do = "delSecrets" => d2[t[i].of] = d[t[i].of]
    BY <1>2 DEF StepsHeld
  <2> QED BY <2>1 DEF SecretsKept, SecretsLast
<1>4. SecretsUndone(t, u, d2)
  BY <1>2 DEF SecretsKept, SecretsUndone, StepsHeld
<1> QED BY <1>1, <1>3, <1>4 DEF SecretsKept

LEMMA SecretAssembled ==
    ASSUME SecretInv, IndexInv', NEW c \in Client, fresh <= fresh',
           NEW h, NEW w, NEW t, NEW u, Becomes(c, h, w, t, u),
           SecretsKept(t, u, dest', secrets', fresh') \/ client'[c] \notin Runs,
           \A e \in Dest :
               \/ OthersWithout(c, DestLock(e))
               \/ /\ dest'[e] = dest[e]
                  /\ \A v : Secret(e, v) \in secrets => Secret(e, v) \in secrets',
           \A d \in Dest : dest'[d].secret <= fresh',
           SensitiveStored'
    PROVE  SecretInv'
<1> SUFFICES ASSUME NEW c2 \in Client, client'[c2] \in Runs
             PROVE  SecretsKept(client'[c2].todo, client'[c2].undo, dest', secrets',
                                fresh')
  BY DEF SecretInv
<1>1. CASE c2 = c
  BY <1>1 DEF Becomes
<1>2. CASE c2 # c
  <2>1. client'[c2] = client[c2] /\ client[c2] \in Runs
    BY <1>2 DEF Becomes
  <2>2. /\ client[c2].todo \in Seq(Steps) /\ client[c2].undo \in Seq(Steps)
        /\ StepsHeld(client[c2].held, client[c2].touched, client[c2].todo)
        /\ StepsHeld(client[c2].held, client[c2].touched, client[c2].undo)
    BY <2>1, RunningIsRun DEF SecretInv, IndexInv, BaseInv, Planned
  <2>3. SecretsKept(client[c2].todo, client[c2].undo, dest, secrets, fresh)
    BY <2>1 DEF SecretInv
  <2>4. \A e \in Dest : DestLock(e) \in client[c2].held =>
            /\ dest'[e] = dest[e]
            /\ \A v : Secret(e, v) \in secrets => Secret(e, v) \in secrets'
    BY <1>2, <2>1 DEF OthersWithout
  <2>5. fresh \in Nat /\ fresh' \in Nat
    BY DEF SecretInv, IndexInv, BaseInv, TypeOK
  <2>6. SecretsKept(client[c2].todo, client[c2].undo, dest', secrets', fresh')
    BY ONLY fresh <= fresh', <2>2, <2>3, <2>4, <2>5, SecretElsewhere
  <2> QED BY <2>1, <2>6
<1> QED BY <1>1, <1>2

(* A step that changes neither destinations nor sensitive configurations. *)
LEMMA SecretSame ==
    ASSUME SecretInv, IndexInv', NEW c \in Client, dest' = dest, secrets' = secrets,
           fresh <= fresh',
           NEW h, NEW w, NEW t, NEW u, Becomes(c, h, w, t, u),
           SecretsKept(t, u, dest, secrets, fresh') \/ client'[c] \notin Runs
    PROVE  SecretInv'
<1>1. SensitiveStored'
  BY DEF SecretInv, SensitiveStored
<1>2. \A d \in Dest : dest'[d].secret <= fresh'
  <2>1. fresh \in Nat /\ fresh' \in Nat /\ \A d \in Dest : dest[d].secret \in Nat
    BY DEF SecretInv, IndexInv, BaseInv, TypeOK, DestRecord
  <2> QED BY <2>1 DEF SecretInv
<1> QED BY <1>1, <1>2, SecretAssembled

LEMMA SecretRequest ==
    ASSUME SecretInv, IndexInv', NEW c \in Client,
           \/ \E a \in Assoc : AssociationRequest(c, a)
           \/ Write(c)
           \/ \E p \in Path, keys \in SUBSET Key \ {{}} : DataWrite(c, p, keys)
           \/ \E p \in Path, on \in BOOLEAN : SourceSync(c, p, on)
           \/ \E d \in Dest, off, sensitive \in BOOLEAN :
                 DestinationWrite(c, d, off, sensitive)
           \/ \E d \in Dest : DestinationDelete(c, d)
    PROVE  SecretInv'
<1>b. /\ BaseInv /\ fresh \in Nat /\ fresh' \in Nat
      /\ \A d \in Dest : dest[d].secret \in Nat /\ dest[d].secret <= fresh
  BY DEF SecretInv, IndexInv, BaseInv, TypeOK, DestRecord
<1>o. ASSUME NEW h, NEW w, NEW t, NEW u, Becomes(c, h, w, t, u),
             UNCHANGED stored, fresh' = fresh,
             (\A i \in DOMAIN t : t[i].do \notin SecretSteps) \/ client'[c] \notin Runs
      PROVE  SecretInv'
  <2>1. SecretsKept(t, u, dest, secrets, fresh') \/ client'[c] \notin Runs
    BY <1>o, NoSecretSteps
  <2>2. dest' = dest /\ secrets' = secrets /\ fresh <= fresh'
    BY <1>b, <1>o DEF stored
  <2> QED BY <1>o, <2>1, <2>2, SecretSame
<1>s. ASSUME UNCHANGED stored, fresh' = fresh, StaysOut(c) PROVE SecretInv'
  <2>1. Becomes(c, {}, {}, << >>, << >>) /\ client'[c] \notin Runs
    BY <1>s DEF StaysOut, Becomes
  <2> QED BY <1>o, <1>s, <2>1
<1>p. ASSUME UNCHANGED stored, fresh' = fresh, NEW a, NEW new, NEW previous, NEW b,
             NEW h, NEW w, NEW t, NEW u, PutBegins(c, a, new, previous, b, h, w, t, u)
      PROVE  SecretInv'
  <2>1. Becomes(c, h, w, t, u)
    BY <1>p, BeginsBecomes DEF PutBegins
  <2>2. \A i \in DOMAIN t : t[i].do \notin SecretSteps
    BY <1>p DEF PutBegins, PutTodo, SecretSteps
  <2> QED BY <1>o, <1>p, <2>1, <2>2
<1>1. ASSUME NEW a \in Assoc, NEW e \in {"yes", "no", "keep"},
             NEW k \in Config \cup {0}, WriteDraft(c, a, e, k)
      PROVE  SecretInv'
  <2>1. UNCHANGED stored /\ fresh' = fresh /\ StaysOut(c)
    BY <1>1, <1>b, WriteDraftBase DEF StaysOut
  <2> QED BY <1>s, <2>1
<1>2. ASSUME NEW a \in Assoc, Enable(c, a) PROVE SecretInv'
  <2>1. UNCHANGED stored /\ fresh' = fresh
    BY <1>2, <1>b, EnableBase
  <2>2. PICK new \in AssocRecord, previous \in AssocRecord :
            \E h, w, t, u : PutBegins(c, a, new, previous, ~rec[a].enabled, h, w, t, u)
    BY <1>2, <1>b, EnableBase
  <2> QED BY <1>p, <2>1, <2>2
<1>3. ASSUME NEW a \in Assoc, Disable(c, a) \/ Delete(c, a) PROVE SecretInv'
  <2>1. /\ UNCHANGED stored /\ fresh' = fresh
        /\ \E new \in AssocRecord : \E h, w, t, u : CancelBegins(c, a, new, h, w, t, u)
    BY <1>3, <1>b, DisableBase, DeleteBase
  <2>2. PICK new, h, w, t, u : CancelBegins(c, a, new, h, w, t, u)
    BY <2>1
  <2>3. Becomes(c, h, w, t, u)
    BY <2>2, BeginsBecomes DEF CancelBegins
  <2>4. \A i \in DOMAIN t : t[i].do \notin SecretSteps
    BY <2>2 DEF CancelBegins, SecretSteps
  <2> QED BY <1>o, <2>1, <2>3, <2>4
<1>4. ASSUME \/ \E a \in Assoc : Sync(c, a)
             \/ \E p \in Path, on \in BOOLEAN : SourceSync(c, p, on)
      PROVE  SecretInv'
  <2>1. /\ UNCHANGED stored /\ fresh' = fresh
        /\ \E h, w, t, u : EnqueueBegins(c, h, w, t, u)
    BY <1>4, <1>b, SyncBase, SourceSyncBase
  <2>2. PICK h, w, t, u : EnqueueBegins(c, h, w, t, u)
    BY <2>1
  <2>3. Becomes(c, h, w, t, u)
    BY <2>2, BeginsBecomes DEF EnqueueBegins
  <2>4. \A i \in DOMAIN t : t[i].do \notin SecretSteps
    BY <2>2 DEF EnqueueBegins, SecretSteps
  <2> QED BY <1>o, <2>1, <2>3, <2>4
<1>5. ASSUME Write(c) PROVE SecretInv'
  <2>1. UNCHANGED stored /\ fresh' = fresh
    BY <1>5, <1>b, WriteBase
  <2>2. \/ StaysOut(c)
        \/ \E a \in Assoc, new \in AssocRecord : \E h, w, t, u :
               PutBegins(c, a, new, rec[a], ShouldEnqueue(rec[a], new), h, w, t, u)
    BY <1>5, <1>b, WriteBase
  <2> QED BY <1>p, <1>s, <2>1, <2>2
<1>6. ASSUME NEW p \in Path, NEW keys \in SUBSET Key, DataWrite(c, p, keys)
      PROVE  SecretInv'
  <2>1. /\ UNCHANGED stored /\ fresh' = fresh
        /\ \E bs, cs, h, w, t, u : DataBegins(c, p, keys, bs, cs, h, w, t, u)
    BY <1>6, <1>b, DataWriteBase
  <2>2. PICK bs, cs, h, w, t, u : DataBegins(c, p, keys, bs, cs, h, w, t, u)
    BY <2>1
  <2>3. Becomes(c, h, w, t, u)
    BY <2>2, BeginsBecomes DEF DataBegins
  <2>4. \A i \in DOMAIN t : t[i].do \notin SecretSteps
    BY <2>2, DataKinds DEF SecretSteps
  <2> QED BY <1>o, <2>1, <2>3, <2>4
<1>7. ASSUME NEW d \in Dest, NEW off \in BOOLEAN, NEW sensitive \in BOOLEAN,
             DestinationWrite(c, d, off, sensitive)
      PROVE  SecretInv'
  <2>1. /\ UNCHANGED stored
        /\ \E r \in DestRecord : \E h, w, t, u : DestBegins(c, d, r, h, w, t, u)
    BY <1>7, <1>b, DestinationWriteBase
  <2>2. PICK r \in DestRecord : \E h, w, t, u : DestBegins(c, d, r, h, w, t, u)
    BY <2>1
  <2>3. PICK h, w, t, u : DestBegins(c, d, r, h, w, t, u)
    BY <2>2
  <2>4. /\ Becomes(c, h, w, t, u)
        /\ t \in Seq(Steps) /\ u \in Seq(Steps)
    BY <2>3, BeginsBecomes DEF DestBegins
  <2>5. PICK old \in Nat : old = dest[d].secret /\ old <= fresh
    BY <1>b
  <2>6. PICK j \in DOMAIN t : DestShape(t, j, d, r, old)
    BY <2>3, <2>5 DEF DestBegins
  <2>7. /\ r.secret \in Nat
        /\ r.secret # 0 => r.secret = fresh' /\ r.secret # old
        /\ fresh <= fresh'
        /\ \A i \in DOMAIN u : u[i] = DelSecret(Secret(d, fresh + 1))
        /\ fresh + 1 # old
    BY <1>b, <2>3, <2>5 DEF DestBegins, DestRecord
  <2>8. \A i \in DOMAIN t : i \in Nat /\ (i < j \/ i = j \/ i > j)
    BY <2>4, LenProperties
  <2>9. /\ \A i \in DOMAIN t : i < j => t[i].do = "putSecret"
        /\ t[j].do = "destination" /\ t[j].name = d /\ t[j].to = r
        /\ \A i \in DOMAIN t : i > j =>
               /\ old # 0 /\ t[i].do = "delSecret"
               /\ t[i].secret = Secret(d, old)
    BY <2>6, KindsOfSteps DEF DestShape
  <2>10. r.secret # 0 => \E i \in 1..(j - 1) :
             t[i].do = "putSecret" /\ t[i].secret = Secret(d, r.secret)
    BY <2>6, KindsOfSteps DEF DestShape
  <2>11. \A v : Secret(d, v).of = d /\ Secret(d, v).version = v
    BY DEF Secret
  <2>12. \A i \in DOMAIN t : t[i].do = "destination" => i = j
    BY <2>8, <2>9
  <2>13. SecretsFirst(t, secrets, fresh')
    BY <1>b, <2>7, <2>9, <2>10, <2>12 DEF SecretsFirst
  <2>14. SecretsLast(t, dest)
    <3>1. \A i \in DOMAIN t : t[i].do # "delSecrets"
      BY <2>8, <2>9
    <3>2. ASSUME NEW i \in DOMAIN t, t[i].do = "delSecret"
          PROVE  j < i /\ t[j].to.secret # t[i].secret.version
      <4>1. i > j
        BY <2>8, <2>9, <3>2
      <4> QED BY <2>7, <2>8, <2>9, <2>11, <4>1
    <3> QED BY <2>9, <2>12, <3>1, <3>2 DEF SecretsLast
  <2>15. SecretsUndone(t, u, dest)
    BY <2>5, <2>7, <2>11, KindsOfSteps DEF SecretsUndone
  <2>16. SecretsKept(t, u, dest, secrets, fresh')
    BY <2>13, <2>14, <2>15 DEF SecretsKept
  <2> QED BY <2>1, <2>4, <2>7, <2>16, SecretSame DEF stored
<1>8. ASSUME NEW d \in Dest, DestinationDelete(c, d) PROVE SecretInv'
  <2>1. /\ UNCHANGED stored /\ fresh' = fresh
        /\ \E h, w, t, u : DestDeleteBegins(c, d, h, w, t, u)
    BY <1>8, <1>b, DestinationDeleteBase
  <2>2. PICK h, w, t, u : DestDeleteBegins(c, d, h, w, t, u)
    BY <2>1
  <2>3. Becomes(c, h, w, t, u)
    BY <2>2, BeginsBecomes DEF DestDeleteBegins
  <2>4. /\ \A i \in DOMAIN t : i = 1 \/ i = 2
        /\ 1 \in DOMAIN t
        /\ u = << >>
    BY <2>2 DEF DestDeleteBegins
  <2>5. /\ t[1].do = "destination" /\ t[1].to.secret = 0
        /\ t[2].do = "delSecrets"
    BY <2>2, KindsOfSteps DEF DestDeleteBegins, NoDest
  <2>6. SecretsFirst(t, secrets, fresh')
    BY <2>4, <2>5 DEF SecretsFirst
  <2>7. SecretsLast(t, dest)
    BY <2>4, <2>5 DEF SecretsLast
  <2>8. SecretsUndone(t, u, dest)
    BY <2>4 DEF SecretsUndone
  <2>9. SecretsKept(t, u, dest, secrets, fresh')
    BY <2>6, <2>7, <2>8 DEF SecretsKept
  <2>10. dest' = dest /\ secrets' = secrets /\ fresh <= fresh'
    BY <1>b, <2>1 DEF stored
  <2> QED BY <2>3, <2>9, <2>10, SecretSame
<1> QED BY <1>1, <1>2, <1>3, <1>4, <1>5, <1>6, <1>7, <1>8 DEF AssociationRequest

(* The steps of a request: what they make of the two. *)
LEMMA SecretStepDone ==
    ASSUME SecretInv, IndexInv', NEW c \in Client, client[c] \in Runs,
           NEW s, s = client[c].todo[1], fresh' = fresh,
           \A e \in Dest : dest'[e] = DestAfter(s, dest, e),
           \A x : x \in secrets' <=> SecretAfter(s, secrets, x),
           GoesOn(c, Tail(client[c].todo), client[c].undo)
    PROVE  SecretInv'
<1> DEFINE h == client[c].held
           w == client[c].touched
           t == client[c].todo
           u == client[c].undo
<1>1. /\ t \in Seq(Steps) /\ t # << >> /\ u \in Seq(Steps)
      /\ Tail(t) \in Seq(Steps) /\ s \in Steps /\ 1 \in DOMAIN t
      /\ DOMAIN t = 1..Len(t)
  <2>1. t \in Seq(Steps) /\ t # << >> /\ u \in Seq(Steps)
    BY RunningIsRun DEF SecretInv, IndexInv, BaseInv
  <2> QED BY <2>1, TailFacts
<1>2. /\ Planned(h, w, t, u)
      /\ SecretsKept(t, u, dest, secrets, fresh)
      /\ LocksApart
      /\ fresh \in Nat /\ \A d \in Dest : dest[d].secret \in Nat
  BY DEF SecretInv, IndexInv, BaseInv, TypeOK, DestRecord
<1>3. Becomes(c, h, w, Tail(t), u)
  BY <1>1, GoesOnBecomes DEF SecretInv, IndexInv, BaseInv
<1>4. StepHeld(h, w, s) /\ t[1] = s
  BY <1>1, <1>2 DEF Planned, StepsHeld
<1>o. \A x \in h : OthersWithout(c, x)
  BY <1>2, LockIsOwn
<1> HIDE DEF h, w, u, t
<1>5. SecretsKept(Tail(t), u, dest', secrets', fresh)
  BY <1>1, <1>2, <1>4, SecretTail
<1>6. ASSUME NEW e \in Dest
      PROVE  \/ OthersWithout(c, DestLock(e))
             \/ /\ dest'[e] = dest[e]
                /\ \A v : Secret(e, v) \in secrets => Secret(e, v) \in secrets'
  <2> SUFFICES ASSUME ~OthersWithout(c, DestLock(e))
               PROVE  /\ dest'[e] = dest[e]
                      /\ \A v : Secret(e, v) \in secrets => Secret(e, v) \in secrets'
    OBVIOUS
  <2>1. DestLock(e) \notin h
    BY <1>o
  <2>2. ~(s.do = "destination" /\ s.name = e)
    BY <1>4, <2>1 DEF StepHeld
  <2>3. ASSUME NEW v, Secret(e, v) \in secrets PROVE Secret(e, v) \in secrets'
    <3>1. Secret(e, v).of = e
      BY DEF Secret
    <3>2. ~(s.do = "delSecret" /\ s.secret = Secret(e, v))
      BY <1>4, <2>1, <3>1 DEF StepHeld
    <3>3. ~(s.do = "delSecrets" /\ s.of = e)
      BY <1>4, <2>1 DEF StepHeld
    <3> QED BY <2>3, <3>1, <3>2, <3>3 DEF SecretAfter
  <2> QED BY <2>2, <2>3 DEF DestAfter
<1>7. ASSUME NEW e \in Dest
      PROVE  /\ dest'[e].secret <= fresh'
             /\ dest'[e].secret # 0 => Secret(e, dest'[e].secret) \in secrets'
  <2>1. CASE s.do = "destination" /\ s.name = e
    <3>1. dest'[e] = s.to /\ s.to.secret \in Nat
      BY <1>1, <2>1, StepFields DEF DestAfter, DestRecord
    <3>2. \A j \in 1..(1 - 1) : FALSE
      OBVIOUS
    <3>3. s.to.secret # 0 => s.to.secret <= fresh /\ Secret(e, s.to.secret) \in secrets
      BY <1>1, <1>2, <1>4, <2>1, <3>2 DEF SecretsKept, SecretsFirst
    <3>4. s.to.secret # 0 => Secret(e, s.to.secret) \in secrets'
      BY <2>1, <3>3 DEF SecretAfter
    <3> QED BY <1>2, <3>1, <3>3, <3>4
  <2>2. CASE ~(s.do = "destination" /\ s.name = e)
    <3>1. dest'[e] = dest[e] /\ dest[e].secret <= fresh
      BY <2>2 DEF DestAfter, SecretInv
    <3>2. ASSUME dest[e].secret # 0 PROVE Secret(e, dest[e].secret) \in secrets'
      <4>1. Secret(e, dest[e].secret) \in secrets
        BY <3>2 DEF SecretInv, SensitiveStored
      <4>2. /\ Secret(e, dest[e].secret).of = e
            /\ Secret(e, dest[e].secret).version = dest[e].secret
        BY DEF Secret
      <4>3. s.do \in {"delSecret", "delSecrets"} =>
                \A j \in DOMAIN t : t[j].do # "destination"
        <5>1. \A j \in DOMAIN t : ~(j < 1)
          BY <1>1
        <5> QED BY <1>1, <1>2, <1>4, <5>1 DEF SecretsKept, SecretsLast
      <4>4. /\ s.do = "delSecret" => dest[s.secret.of].secret # s.secret.version
            /\ s.do = "delSecrets" => dest[s.of].secret = 0
        BY <1>1, <1>2, <1>4, <4>3 DEF SecretsKept, SecretsLast
      <4>5. ~(s.do = "delSecret" /\ s.secret = Secret(e, dest[e].secret))
        BY <4>2, <4>4
      <4>6. ~(s.do = "delSecrets" /\ s.of = e)
        BY <3>2, <4>4
      <4> QED BY <4>1, <4>2, <4>5, <4>6 DEF SecretAfter
    <3> QED BY <3>1, <3>2
  <2> QED BY <2>1, <2>2
<1>8. SensitiveStored' /\ \A d \in Dest : dest'[d].secret <= fresh'
  BY <1>7 DEF SensitiveStored
<1>9. fresh <= fresh' /\ SecretsKept(Tail(t), u, dest', secrets', fresh')
  BY <1>2, <1>5
<1> QED BY <1>3, <1>6, <1>8, <1>9, SecretAssembled

LEMMA SecretTurns ==
    ASSUME SecretInv, IndexInv', NEW c \in Client, client[c] \in Runs,
           dest' = dest, secrets' = secrets, fresh' = fresh,
           \/ GoesOn(c, << >>, << >>)
           \/ /\ client[c].todo[1].do \in {"enqueue", "destination"}
              /\ GoesOn(c, client[c].undo, << >>)
    PROVE  SecretInv'
<1> DEFINE h == client[c].held
           w == client[c].touched
           t == client[c].todo
           u == client[c].undo
<1>1. << >> \in Seq(Steps)
  OBVIOUS
<1>2. /\ t \in Seq(Steps) /\ t # << >> /\ u \in Seq(Steps)
      /\ Planned(h, w, t, u) /\ SecretsKept(t, u, dest, secrets, fresh)
      /\ fresh <= fresh'
  BY RunningIsRun DEF SecretInv, IndexInv, BaseInv, TypeOK
<1>3. CASE GoesOn(c, << >>, << >>)
  <2>1. Becomes(c, h, w, << >>, << >>)
    BY <1>1, <1>3, GoesOnBecomes DEF SecretInv, IndexInv, BaseInv
  <2>2. SecretsKept(<< >>, << >>, dest, secrets, fresh)
    BY NoSecretSteps
  <2> QED BY <1>2, <2>1, <2>2, SecretSame
<1>4. CASE t[1].do \in {"enqueue", "destination"} /\ GoesOn(c, u, << >>)
  <2>1. Becomes(c, h, w, u, << >>)
    BY <1>1, <1>2, <1>4, GoesOnBecomes DEF SecretInv, IndexInv, BaseInv
  <2> HIDE DEF t, h, w, u
  <2>2. SecretsKept(u, << >>, dest, secrets, fresh)
    BY <1>2, <1>4, SecretUndo
  <2> QED BY <1>2, <2>1, <2>2, SecretSame
<1> QED BY <1>3, <1>4

LEMMA SecretNext ==
    ASSUME SecretInv, [Next]_vars
    PROVE  SecretInv'
<1>i. IndexInv /\ IndexInv'
  BY IndexNext DEF SecretInv
<1>b. BaseInv /\ fresh <= fresh
  BY <1>i DEF IndexInv, BaseInv, TypeOK
<1>1. CASE UNCHANGED vars
  BY <1>1, <1>i DEF vars, SecretInv, SensitiveStored
<1>2. CASE Crash
  <2>1. /\ dest' = dest /\ secrets' = secrets /\ fresh' = fresh
        /\ \A c \in Client : client'[c] \notin Runs
    BY <1>2, <1>b, CrashBase
  <2> QED BY <1>i, <2>1 DEF SecretInv, SensitiveStored
<1>3. ASSUME NEW c \in Client, Step(c) PROVE SecretInv'
  <2>1. /\ client[c] \in Runs
        /\ Apply(client[c].todo[1]) /\ fresh' = fresh
        /\ GoesOn(c, Tail(client[c].todo), client[c].undo)
    BY <1>3, <1>b, StepBase
  <2>2. PICK s : s = client[c].todo[1]
    OBVIOUS
  <2>3. Apply(s)
    BY <2>1, <2>2
  <2>4. \A e \in Dest : dest'[e] = DestAfter(s, dest, e)
    <3>1. dest \in [Dest -> DestRecord]
      BY <1>b DEF BaseInv, TypeOK
    <3> QED BY <2>3, <3>1 DEF Apply, DestAfter
  <2>5. \A x : x \in secrets' <=> SecretAfter(s, secrets, x)
    <3>1. s.do = "putSecret" => secrets' = secrets \cup {s.secret}
      BY <2>3 DEF Apply
    <3>2. s.do = "delSecret" => secrets' = secrets \ {s.secret}
      BY <2>3 DEF Apply
    <3>3. s.do = "delSecrets" => secrets' = {x \in secrets : x.of # s.of}
      BY <2>3 DEF Apply
    <3>4. s.do \notin {"putSecret", "delSecret", "delSecrets"} => secrets' = secrets
      BY <2>3 DEF Apply
    <3> QED BY <3>1, <3>2, <3>3, <3>4 DEF SecretAfter
  <2> QED BY <1>i, <2>1, <2>2, <2>4, <2>5, SecretStepDone
<1>4. ASSUME NEW c \in Client, LoopEnds(c) PROVE SecretInv'
  <2>1. /\ client[c] \in Runs
        /\ LoopDone(client[c].todo[1])
        /\ GoesOn(c, Tail(client[c].todo), client[c].undo)
        /\ dest' = dest /\ secrets' = secrets /\ fresh' = fresh
    BY <1>4, <1>b, LoopEndsBase
  <2>2. PICK s : s = client[c].todo[1]
    OBVIOUS
  <2>3. s.do \notin SecretSteps
    BY <2>1, <2>2 DEF LoopDone, SecretSteps
  <2>4. /\ \A e \in Dest : dest'[e] = DestAfter(s, dest, e)
        /\ \A x : x \in secrets' <=> SecretAfter(s, secrets, x)
    BY <2>1, <2>3 DEF DestAfter, SecretAfter, SecretSteps
  <2> QED BY <1>i, <2>1, <2>2, <2>4, SecretStepDone
<1>5. ASSUME NEW c \in Client, Refused(c) \/ StorageFails(c) PROVE SecretInv'
  <2>1. /\ client[c] \in Runs
        /\ dest' = dest /\ secrets' = secrets /\ fresh' = fresh
        /\ \/ GoesOn(c, << >>, << >>)
           \/ /\ client[c].todo[1].do \in {"enqueue", "destination"}
              /\ GoesOn(c, client[c].undo, << >>)
    BY <1>5, <1>b, RefusedBase, StorageFailsBase
  <2> QED BY <1>i, <2>1, SecretTurns
<1>6. ASSUME NEW c \in Client, IndexStep(c) PROVE SecretInv'
  <2>1. /\ client[c] \in Runs
        /\ dest' = dest /\ secrets' = secrets /\ fresh' = fresh
    BY <1>6, <1>b, IndexStepBase
  <2>2. PICK k \in client[c].todo[1].keys, v \in Seq(Steps) :
            RoundOf(client[c].todo, k, v) /\ GoesOn(c, v, client[c].undo)
    BY <1>6, <1>b, IndexStepBase
  <2>3. /\ client[c].todo \in Seq(Steps) /\ client[c].undo \in Seq(Steps)
        /\ SecretsKept(client[c].todo, client[c].undo, dest, secrets, fresh)
    BY <1>b, <2>1, RunningIsRun DEF SecretInv, BaseInv
  <2>4. Becomes(c, client[c].held, client[c].touched, v, client[c].undo)
    BY <1>b, <2>1, <2>2, <2>3, GoesOnBecomes DEF BaseInv
  <2>5. SecretsKept(v, client[c].undo, dest, secrets, fresh)
    BY <2>2, <2>3, SecretRound
  <2> QED BY <1>b, <1>i, <2>1, <2>4, <2>5, SecretSame
<1>7. ASSUME NEW c \in Client, RefreshStep(c) PROVE SecretInv'
  <2>1. /\ client[c] \in Runs
        /\ dest' = dest /\ secrets' = secrets /\ fresh' = fresh
    BY <1>7, <1>b, RefreshStepBase
  <2>2. PICK a \in client[c].todo[1].ids, t \in Seq(Steps) :
            /\ DOMAIN t = 1..5
            /\ \A i \in 1..3 : t[i].do \in {"put", "store", "del"}
            /\ t[4] = Refresh(client[c].todo[1].ids \ {a}, client[c].todo[1].keys)
            /\ t[5].do = "commit"
            /\ GoesOn(c, t, << >>)
    BY <1>7, <1>b, RefreshStepBase
  <2>3. << >> \in Seq(Steps)
    OBVIOUS
  <2>4. Becomes(c, client[c].held, client[c].touched, t, << >>)
    BY <1>b, <2>1, <2>2, <2>3, GoesOnBecomes DEF BaseInv
  <2>5. \A i \in DOMAIN t : t[i].do \notin SecretSteps
    <3>1. \A i \in DOMAIN t : i \in 1..3 \/ i = 4 \/ i = 5
      BY <2>2
    <3>2. t[4].do = "refresh"
      BY <2>2, KindsOfSteps
    <3> QED BY <2>2, <3>1, <3>2 DEF SecretSteps
  <2>6. SecretsKept(t, << >>, dest, secrets, fresh)
    BY <2>5, NoSecretSteps
  <2> QED BY <1>b, <1>i, <2>1, <2>4, <2>6, SecretSame
<1> QED BY <1>i, <1>1, <1>2, <1>3, <1>4, <1>5, <1>6, <1>7, SecretRequest DEF Next

(* The sensitive configuration a destination record points to is stored,   *)
(* wherever a write or a delete of the destination was cut short:          *)
(* storeDestinationWrite stores it before the record and deletes the one   *)
(* before after it, and a failed write deletes only its own.               *)
THEOREM SensitiveConfigurationsStay == Spec => []SensitiveStored
<1>1. Init => SecretInv
  <2> SUFFICES ASSUME Init PROVE SecretInv
    OBVIOUS
  <2>1. BaseInv /\ \A c \in Client : client[c] \notin Runs
    BY InitBase
  <2>2. AssociationIndexed
    BY DEF Init, AssociationIndexed
  <2>3. \A d \in Dest : dest[d].secret = 0
    BY DEF Init, NoDest
  <2>4. fresh = 0
    BY DEF Init
  <2> QED BY <2>1, <2>2, <2>3, <2>4 DEF SecretInv, IndexInv, SensitiveStored
<1>2. SecretInv /\ [Next]_vars => SecretInv'
  BY SecretNext
<1>3. SecretInv => SensitiveStored
  BY DEF SecretInv
<1> QED BY <1>1, <1>2, <1>3, PTL DEF Spec

-----------------------------------------------------------------------------
(* Work: EnabledHasWork                                                    *)

Enabled(r) == r.live /\ r.enabled

(* The records of each association that owe it no work. *)
Settled ==
    [a \in Assoc |->
        {r \in AssocRecord :
            \/ ~Enabled(r)
            \/ a \in excused
            \/ work[a] = [names |-> Objects(a, data[PathOf[a]]),
                          config |-> r.config]}]

(* Something in t will enqueue for a, or store a record of it. *)
Pending(t, a) ==
    \E i \in DOMAIN t :
        \/ t[i].do = "store" /\ t[i].id = a
        \/ t[i].do = "enqueue" /\ a \in t[i].for

EnqueuedBy(t, a) == \E i \in DOMAIN t : t[i].do = "enqueue" /\ a \in t[i].for

Storing(t) == \E i \in DOMAIN t : t[i].do = "store"

(* A cancel comes first and before a record that is not enabled. *)
CancelShape(t, u) ==
    \A i \in DOMAIN t : t[i].do = "cancel" =>
        /\ i = 1 /\ u = << >>
        /\ \E j \in DOMAIN t : StoreAt(t, j, t[i].id)
        /\ \A j \in DOMAIN t : t[j].do = "store" => ~Enabled(t[j].to)
        /\ ~Enqueueing(t)

(* A record whose enqueue may be refused is put back. *)
EnqueueShape(t, u) ==
    \A j \in DOMAIN t : t[j].do = "enqueue" =>
        /\ Storing(t) => Storing(u)
        /\ Storing(u) => \A a \in t[j].for : \E m \in DOMAIN u : StoreAt(u, m, a)

(* A record that is stored owes no work, or is enqueued for afterwards. *)
StoresSettled(t, st) ==
    \A i \in DOMAIN t : t[i].do = "store" =>
        t[i].to \in st[t[i].id] \/ EnqueuedBy(t, t[i].id)

UndoSettled(t, u, st) ==
    Enqueueing(t) =>
        \A i \in DOMAIN u : u[i].do = "store" => u[i].to \in st[u[i].id]

(* While a request can still end without a trace, its associations are not *)
(* owed work.                                                              *)
Traceless(t, u) ==
    (\E i \in DOMAIN t : t[i].do = "cancel") \/ (Enqueueing(t) /\ ~Storing(u))

NothingOwed(h, t, u, r, st) ==
    Traceless(t, u) => \A a \in Assoc : HasPath(h, a) => r[a] \in st[a]

WorkKept(h, t, u, r, st) ==
    /\ CancelShape(t, u)
    /\ EnqueueShape(t, u)
    /\ StoresSettled(t, st)
    /\ UndoSettled(t, u, st)
    /\ NothingOwed(h, t, u, r, st)

(* Work that is owed is pending in a request. *)
OwedIsPending ==
    \A a \in Assoc : rec[a] \notin Settled[a] =>
        \E c \in Client : client[c] \in Runs /\ Pending(client[c].todo, a)

WorkInv ==
    /\ IndexInv
    /\ OwedIsPending
    /\ \A c \in Client : client[c] \in Runs =>
           WorkKept(client[c].held, client[c].todo, client[c].undo, rec, Settled)

(* What is pending in a request is about a path it has locked. *)
LEMMA PendingHasPath ==
    ASSUME NEW h, NEW w, NEW t, StepsHeld(h, w, t), NEW a, Pending(t, a)
    PROVE  HasPath(h, a)
BY DEF Pending, StepsHeld, StepHeld

(* An association that is owed work is touched by the request it is        *)
(* pending in.                                                             *)
LEMMA PendingIsTouched ==
    ASSUME NEW h, NEW w, NEW t, NEW u, Planned(h, w, t, u), NEW r, NEW st,
           WorkKept(h, t, u, r, st), NEW a \in Assoc, Pending(t, a),
           r[a] \notin st[a]
    PROVE  a \in w
<1>1. HasPath(h, a)
  BY PendingHasPath DEF Planned
<1>2. CASE \E i \in DOMAIN t : t[i].do = "store" /\ t[i].id = a
  BY <1>2 DEF Planned, StepsHeld, StepHeld
<1>3. ASSUME NEW i \in DOMAIN t, t[i].do = "enqueue", a \in t[i].for PROVE a \in w
  <2>1. Enqueueing(t)
    BY <1>3 DEF Enqueueing
  <2>2. Storing(u)
    BY <1>1, <2>1 DEF WorkKept, NothingOwed, Traceless
  <2>3. PICK m \in DOMAIN u : StoreAt(u, m, a)
    BY <1>3, <2>2 DEF WorkKept, EnqueueShape
  <2> QED BY <2>3 DEF StoreAt, Planned, StepsHeld, StepHeld
<1> QED BY <1>2, <1>3 DEF Pending

(* What is left of a request after a step that leaves what is owed alone,  *)
(* stores a record or cancels.                                             *)
LEMMA WorkTail ==
    ASSUME NEW h, NEW t \in Seq(Steps), NEW u \in Seq(Steps), t # << >>,
           NEW r, NEW st, NEW r2, NEW st2, WorkKept(h, t, u, r, st),
           \A a \in Assoc : \A x \in AssocRecord : ~Enabled(x) => x \in st2[a],
           \/ /\ t[1].do # "enqueue"
              /\ \A a \in Assoc : r2[a] = r[a] /\ st2[a] = st[a]
           \/ t[1].do = "store" /\ \A a \in Assoc : st2[a] = st[a]
           \/ t[1].do = "cancel"
    PROVE  WorkKept(h, Tail(t), u, r2, st2)
<1> DEFINE v == Tail(t)
<1>1. /\ Len(t) \in Nat \ {0} /\ DOMAIN t = 1..Len(t) /\ 1 \in DOMAIN t
      /\ v \in Seq(Steps)
      /\ \A i \in DOMAIN v : i + 1 \in DOMAIN t /\ i + 1 # 1 /\ v[i] = t[i + 1]
      /\ \A i \in DOMAIN t : i # 1 => i - 1 \in DOMAIN v /\ v[i - 1] = t[i]
  BY TailFacts
<1> HIDE DEF v
<1>2. \A i \in DOMAIN v : v[i].do # "cancel"
  BY <1>1 DEF WorkKept, CancelShape
<1>3. CancelShape(v, u)
  BY <1>2 DEF CancelShape
<1>4. Storing(v) => Storing(t)
  BY <1>1 DEF Storing
<1>5. Enqueueing(v) => Enqueueing(t)
  BY <1>1 DEF Enqueueing
<1>6. EnqueueShape(v, u)
  BY <1>1, <1>4 DEF WorkKept, EnqueueShape
<1>7. CASE t[1].do = "cancel"
  <2>0. /\ ~Enqueueing(t)
        /\ \A j \in DOMAIN t : t[j].do = "store" => ~Enabled(t[j].to)
    BY <1>1, <1>7 DEF WorkKept, CancelShape
  <2>1. ~Enqueueing(v) /\ \A i \in DOMAIN v : v[i].do = "store" => ~Enabled(v[i].to)
    BY <1>1, <1>5, <2>0
  <2>2. StoresSettled(v, st2)
    BY <1>1, <2>1, StepFields DEF StoresSettled
  <2>3. UndoSettled(v, u, st2) /\ NothingOwed(h, v, u, r2, st2)
    BY <1>2, <2>1 DEF UndoSettled, NothingOwed, Traceless
  <2> QED BY <1>3, <1>6, <2>2, <2>3 DEF WorkKept, v
<1>8. CASE t[1].do # "cancel"
  <2>1. t[1].do # "enqueue" /\ \A a \in Assoc : st2[a] = st[a]
    BY <1>8
  <2>2. ASSUME NEW a, EnqueuedBy(t, a) PROVE EnqueuedBy(v, a)
    <3>1. PICK i \in DOMAIN t : t[i].do = "enqueue" /\ a \in t[i].for
      BY <2>2 DEF EnqueuedBy
    <3>2. i # 1
      BY <2>1, <3>1
    <3> QED BY <1>1, <3>1, <3>2 DEF EnqueuedBy
  <2>3. StoresSettled(v, st2)
    <3> SUFFICES ASSUME NEW i \in DOMAIN v, v[i].do = "store"
                 PROVE  v[i].to \in st2[v[i].id] \/ EnqueuedBy(v, v[i].id)
      BY DEF StoresSettled
    <3>1. v[i].id \in Assoc
      BY <1>1, StepFields
    <3>2. v[i].to \in st[v[i].id] \/ EnqueuedBy(t, v[i].id)
      BY <1>1 DEF WorkKept, StoresSettled
    <3> QED BY <2>1, <2>2, <3>1, <3>2
  <2>4. UndoSettled(v, u, st2)
    BY <1>5, <2>1, StepFields DEF WorkKept, UndoSettled
  <2>5. NothingOwed(h, v, u, r2, st2)
    <3> SUFFICES ASSUME Traceless(v, u), NEW a \in Assoc, HasPath(h, a)
                 PROVE  r2[a] \in st2[a]
      BY DEF NothingOwed
    <3>1. Enqueueing(t) /\ ~Storing(u)
      BY <1>2, <1>5 DEF Traceless
    <3>2. t[1].do # "store"
      BY <1>1, <3>1 DEF WorkKept, EnqueueShape, Storing, Enqueueing
    <3>3. r[a] \in st[a]
      BY <3>1 DEF WorkKept, NothingOwed, Traceless
    <3> QED BY <1>8, <3>2, <3>3
  <2> QED BY <1>3, <1>6, <2>3, <2>4, <2>5 DEF WorkKept, v
<1> QED BY <1>7, <1>8

(* What was pending is pending still, unless the step did it. *)
LEMMA PendingTail ==
    ASSUME NEW t \in Seq(Steps), t # << >>, NEW a, Pending(t, a)
    PROVE  \/ Pending(Tail(t), a)
           \/ t[1].do = "store" /\ t[1].id = a
           \/ t[1].do = "enqueue" /\ a \in t[1].for
<1> DEFINE v == Tail(t)
<1>1. \A i \in DOMAIN t : i # 1 => i - 1 \in DOMAIN v /\ v[i - 1] = t[i]
  BY TailFacts
<1> HIDE DEF v
<1>2. PICK i \in DOMAIN t : \/ t[i].do = "store" /\ t[i].id = a
                            \/ t[i].do = "enqueue" /\ a \in t[i].for
  BY DEF Pending
<1>3. CASE i = 1
  BY <1>2, <1>3
<1>4. CASE i # 1
  <2>1. i - 1 \in DOMAIN v /\ v[i - 1] = t[i]
    BY <1>1, <1>4
  <2>2. Pending(v, a)
    BY <1>2, <2>1 DEF Pending
  <2> QED BY <2>2 DEF v
<1> QED BY <1>3, <1>4

(* A round of a loop changes none of this. *)
LEMMA WorkRound ==
    ASSUME NEW t, NEW v, NEW u, NEW h, NEW r, NEW st, NEW k, RoundOf(t, k, v),
           WorkKept(h, t, u, r, st)
    PROVE  /\ WorkKept(h, v, u, r, st)
           /\ \A a : Pending(t, a) => Pending(v, a)
<1>1. /\ DOMAIN v = DOMAIN t
      /\ \A i \in DOMAIN t : v[i].do = t[i].do
      /\ \A i \in DOMAIN t : t[i].do \in {"store", "enqueue", "cancel"} => v[i] = t[i]
  BY DEF RoundOf
<1>2. /\ Storing(v) <=> Storing(t)
      /\ Enqueueing(v) <=> Enqueueing(t)
      /\ Traceless(v, u) <=> Traceless(t, u)
  BY <1>1 DEF Storing, Enqueueing, Traceless
<1>3. \A a : EnqueuedBy(t, a) => EnqueuedBy(v, a)
  BY <1>1 DEF EnqueuedBy
<1>4. CancelShape(v, u)
  BY <1>1, <1>2 DEF WorkKept, CancelShape, StoreAt
<1>5. EnqueueShape(v, u)
  BY <1>1, <1>2 DEF WorkKept, EnqueueShape
<1>6. StoresSettled(v, st)
  BY <1>1, <1>3 DEF WorkKept, StoresSettled
<1>7. UndoSettled(v, u, st) /\ NothingOwed(h, v, u, r, st)
  BY <1>2 DEF WorkKept, UndoSettled, NothingOwed
<1>8. \A a : Pending(t, a) => Pending(v, a)
  BY <1>1 DEF Pending
<1> QED BY <1>4, <1>5, <1>6, <1>7, <1>8 DEF WorkKept

(* A request that turns to its undo owes nothing, or puts records back     *)
(* that owe nothing.                                                       *)
LEMMA WorkUndo ==
    ASSUME NEW h, NEW w, NEW t \in Seq(Steps), NEW u \in Seq(Steps), t # << >>,
           Planned(h, w, t, u), t[1].do \in {"enqueue", "destination"},
           NEW r, NEW st, WorkKept(h, t, u, r, st)
    PROVE  /\ WorkKept(h, u, << >>, r, st)
           /\ \A a \in Assoc : Pending(t, a) /\ r[a] \notin st[a] => Pending(u, a)
<1>1. /\ 1 \in DOMAIN t
      /\ StepHeld(h, w, t[1])
      /\ StepsHeld(h, w, t) /\ StepsHeld(h, w, u)
  BY TailFacts DEF Planned, StepsHeld
<1>2. /\ \A i \in DOMAIN t : t[i].do # "store"
      /\ t[1].do = "enqueue" => Len(t) = 1
      /\ \A i \in DOMAIN u :
             u[i].do \in {"put", "store", "del", "eligible", "delSecret"}
  BY PlannedUndo
<1>3. ASSUME t[1].do = "destination", NEW a PROVE ~HasPath(h, a)
  BY <1>1, <1>3 DEF StepHeld, HasPath, SourceLock, DestLock
<1>4. \A i \in DOMAIN u : u[i].do # "cancel" /\ u[i].do # "enqueue"
  BY <1>2
<1>5. ~Enqueueing(u)
  BY <1>4 DEF Enqueueing
<1>6. CancelShape(u, << >>) /\ EnqueueShape(u, << >>)
  BY <1>4 DEF CancelShape, EnqueueShape
<1>7. UndoSettled(u, << >>, st) /\ NothingOwed(h, u, << >>, r, st)
  BY <1>4, <1>5 DEF UndoSettled, NothingOwed, Traceless
<1>8. StoresSettled(u, st)
  <2> SUFFICES ASSUME NEW i \in DOMAIN u, u[i].do = "store"
               PROVE  u[i].to \in st[u[i].id]
    BY DEF StoresSettled
  <2>1. HasPath(h, u[i].id)
    BY <1>1 DEF StepsHeld, StepHeld
  <2>2. Enqueueing(t)
    BY <1>1, <1>3, <2>1 DEF Enqueueing
  <2> QED BY <2>2 DEF WorkKept, UndoSettled
<1>9. ASSUME NEW a \in Assoc, Pending(t, a), r[a] \notin st[a] PROVE Pending(u, a)
  <2>1. HasPath(h, a)
    BY <1>1, <1>9, PendingHasPath
  <2>2. PICK i \in DOMAIN t : t[i].do = "enqueue" /\ a \in t[i].for
    BY <1>2, <1>9 DEF Pending
  <2>3. Storing(u)
    BY <1>9, <2>1, <2>2 DEF WorkKept, NothingOwed, Traceless, Enqueueing
  <2>4. PICK m \in DOMAIN u : StoreAt(u, m, a)
    BY <2>2, <2>3 DEF WorkKept, EnqueueShape
  <2> QED BY <2>4 DEF Pending, StoreAt
<1> QED BY <1>6, <1>7, <1>8, <1>9 DEF WorkKept

(* Other requests see none of what happens at other paths. *)
LEMMA WorkElsewhere ==
    ASSUME NEW h, NEW w, NEW t \in Seq(Steps), NEW u \in Seq(Steps),
           StepsHeld(h, w, t), StepsHeld(h, w, u),
           NEW r, NEW st, NEW r2, NEW st2, WorkKept(h, t, u, r, st),
           \A a \in Assoc : HasPath(h, a) => r2[a] = r[a] /\ st[a] \subseteq st2[a]
    PROVE  WorkKept(h, t, u, r2, st2)
<1>1. ASSUME NEW x \in Seq(Steps), StepsHeld(h, w, x)
      PROVE  \A i \in DOMAIN x : x[i].do = "store" => st[x[i].id] \subseteq st2[x[i].id]
  BY <1>1, StepFields DEF StepsHeld, StepHeld
<1>2. StoresSettled(t, st2)
  BY <1>1 DEF WorkKept, StoresSettled
<1>3. UndoSettled(t, u, st2)
  BY <1>1 DEF WorkKept, UndoSettled
<1>4. NothingOwed(h, t, u, r2, st2)
  BY DEF WorkKept, NothingOwed
<1> QED BY <1>2, <1>3, <1>4 DEF WorkKept

LEMMA WorkAssembled ==
    ASSUME WorkInv, IndexInv', NEW c \in Client,
           NEW h, NEW w, NEW t, NEW u, Becomes(c, h, w, t, u),
           WorkKept(h, t, u, rec', Settled') \/ client'[c] \notin Runs,
           \A a \in Assoc : \/ OthersLack(c, a)
                            \/ rec'[a] = rec[a] /\ Settled[a] \subseteq Settled'[a],
           \A a \in Assoc :
               \/ rec'[a] \in Settled'[a]
               \/ client'[c] \in Runs /\ Pending(t, a)
               \/ /\ rec[a] \notin Settled[a]
                  /\ ~(client[c] \in Runs /\ Pending(client[c].todo, a))
    PROVE  WorkInv'
<1>1. ASSUME NEW c2 \in Client, client'[c2] \in Runs
      PROVE  WorkKept(client'[c2].held, client'[c2].todo, client'[c2].undo, rec',
                      Settled')
  <2>1. CASE c2 = c
    BY <1>1, <2>1 DEF Becomes
  <2>2. CASE c2 # c
    <3>1. client'[c2] = client[c2] /\ client[c2] \in Runs
      BY <1>1, <2>2 DEF Becomes
    <3>2. /\ client[c2].todo \in Seq(Steps) /\ client[c2].undo \in Seq(Steps)
          /\ StepsHeld(client[c2].held, client[c2].touched, client[c2].todo)
          /\ StepsHeld(client[c2].held, client[c2].touched, client[c2].undo)
      BY <3>1, RunningIsRun DEF WorkInv, IndexInv, BaseInv, Planned
    <3>3. WorkKept(client[c2].held, client[c2].todo, client[c2].undo, rec, Settled)
      BY <3>1 DEF WorkInv
    <3>4. \A a \in Assoc : HasPath(client[c2].held, a) =>
              rec'[a] = rec[a] /\ Settled[a] \subseteq Settled'[a]
      BY <2>2, <3>1 DEF OthersLack
    <3>5. WorkKept(client[c2].held, client[c2].todo, client[c2].undo, rec', Settled')
      BY ONLY <3>2, <3>3, <3>4, WorkElsewhere
    <3> QED BY <3>1, <3>5
  <2> QED BY <2>1, <2>2
<1>2. OwedIsPending'
  <2> SUFFICES ASSUME NEW a \in Assoc, rec'[a] \notin Settled'[a]
               PROVE  \E x \in Client : client'[x] \in Runs /\ Pending(client'[x].todo, a)
    BY DEF OwedIsPending
  <2>1. CASE client'[c] \in Runs /\ Pending(t, a)
    BY <2>1 DEF Becomes
  <2>2. CASE /\ rec[a] \notin Settled[a]
             /\ ~(client[c] \in Runs /\ Pending(client[c].todo, a))
    <3>1. PICK x \in Client : client[x] \in Runs /\ Pending(client[x].todo, a)
      BY <2>2 DEF WorkInv, OwedIsPending
    <3>2. x # c
      BY <2>2, <3>1
    <3> QED BY <3>1, <3>2 DEF Becomes
  <2> QED BY <2>1, <2>2
<1> QED BY <1>1, <1>2 DEF WorkInv

(* A step that stores no record and changes no work. *)
LEMMA WorkSame ==
    ASSUME WorkInv, IndexInv', NEW c \in Client, rec' = rec,
           \A a \in Assoc : Settled'[a] = Settled[a],
           NEW h, NEW w, NEW t, NEW u, Becomes(c, h, w, t, u),
           WorkKept(h, t, u, rec, Settled) \/ client'[c] \notin Runs,
           \A a \in Assoc :
               client[c] \in Runs /\ Pending(client[c].todo, a)
                   /\ rec[a] \notin Settled[a]
               => client'[c] \in Runs /\ Pending(t, a)
    PROVE  WorkInv'
<1>1. \A a \in Assoc : Settled'[a] \in SUBSET AssocRecord
  BY DEF Settled
<1>2. Settled' = Settled
  <2>1. /\ Settled = [a \in Assoc |-> Settled[a]]
        /\ Settled' = [a \in Assoc |-> Settled'[a]]
    BY DEF Settled
  <2>2. [a \in Assoc |-> Settled[a]] = [a \in Assoc |-> Settled'[a]]
    OBVIOUS
  <2> QED BY <2>1, <2>2
<1>3. WorkKept(h, t, u, rec', Settled') \/ client'[c] \notin Runs
  BY <1>2
<1>4. \A a \in Assoc : rec'[a] = rec[a] /\ Settled[a] \subseteq Settled'[a]
  BY <1>2
<1>5. \A a \in Assoc :
          \/ rec'[a] \in Settled'[a]
          \/ client'[c] \in Runs /\ Pending(t, a)
          \/ /\ rec[a] \notin Settled[a]
             /\ ~(client[c] \in Runs /\ Pending(client[c].todo, a))
  BY <1>2
<1> HIDE DEF Settled
<1> QED BY <1>3, <1>4, <1>5, WorkAssembled

LEMMA SettledSame ==
    ASSUME UNCHANGED <<data, work, excused>>
    PROVE  \A a \in Assoc : Settled'[a] = Settled[a]
BY DEF Settled

(* A record that owes nothing. *)
LEMMA SettledFacts ==
    ASSUME NEW a \in Assoc
    PROVE  /\ \A r \in AssocRecord : ~Enabled(r) => r \in Settled[a]
           /\ \A r, x \in AssocRecord :
                  r \in Settled[a] /\ Enabled(r) /\ x.config = r.config
                      => x \in Settled[a]
           /\ a \in excused => Settled[a] = AssocRecord
           /\ Settled[a] \subseteq AssocRecord
BY DEF Settled

(* Under the lock of its path an association is owed nothing at first. *)
LEMMA NothingOwedFirst ==
    ASSUME WorkInv, BaseInv', NEW c \in Client, client[c] \notin Runs,
           NEW h, NEW w, NEW t, NEW u, Begins(c, h, w, t, u),
           NEW a \in Assoc, HasPath(h, a)
    PROVE  rec[a] \in Settled[a]
<1> SUFFICES ASSUME rec[a] \notin Settled[a] PROVE FALSE
  OBVIOUS
<1>1. PICK x \in Client : client[x] \in Runs /\ Pending(client[x].todo, a)
  BY DEF WorkInv, OwedIsPending
<1>2. StepsHeld(client[x].held, client[x].touched, client[x].todo)
  BY <1>1 DEF WorkInv, IndexInv, BaseInv, Planned
<1>3. HasPath(client[x].held, a)
  BY <1>1, <1>2, PendingHasPath
<1>4. x # c
  BY <1>1
<1>5. /\ Becomes(c, h, w, t, u) /\ client'[c] \in Runs
      /\ client'[x] = client[x]
  BY <1>4, BeginsBecomes DEF Becomes
<1>6. client'[c].held = h /\ client'[x].held = client[x].held /\ client'[x] \in Runs
  BY <1>1, <1>5 DEF Becomes
<1>7. client'[c].held \cap client'[x].held = {}
  BY <1>4, <1>5, <1>6 DEF BaseInv, LocksApart
<1> QED BY <1>3, <1>6, <1>7 DEF HasPath

LEMMA WorkBegins ==
    ASSUME WorkInv, IndexInv', NEW c \in Client, client[c] \notin Runs,
           UNCHANGED stored,
           NEW h, NEW w, NEW t, NEW u, Begins(c, h, w, t, u),
           CancelShape(t, u), EnqueueShape(t, u),
           StoresSettled(t, Settled), UndoSettled(t, u, Settled)
    PROVE  WorkInv'
<1>1. Becomes(c, h, w, t, u)
  BY BeginsBecomes
<1>2. \A a \in Assoc : HasPath(h, a) => rec[a] \in Settled[a]
  BY NothingOwedFirst DEF IndexInv
<1>3. NothingOwed(h, t, u, rec, Settled)
  BY <1>2 DEF NothingOwed
<1>4. WorkKept(h, t, u, rec, Settled)
  BY <1>3 DEF WorkKept
<1>5. rec' = rec /\ \A a \in Assoc : Settled'[a] = Settled[a]
  BY SettledSame DEF stored
<1> QED BY <1>1, <1>4, <1>5, WorkSame

LEMMA WorkStaysOut ==
    ASSUME WorkInv, IndexInv', NEW c \in Client, client[c] \notin Runs,
           UNCHANGED stored, StaysOut(c)
    PROVE  WorkInv'
<1>1. Becomes(c, {}, {}, << >>, << >>) /\ client'[c] \notin Runs
  BY DEF StaysOut, Becomes
<1>2. rec' = rec /\ \A a \in Assoc : Settled'[a] = Settled[a]
  BY SettledSame DEF stored
<1> QED BY <1>1, <1>2, WorkSame

(* A request that puts a record. *)
LEMMA WorkPutBegins ==
    ASSUME WorkInv, IndexInv', NEW c \in Client, client[c] \notin Runs,
           UNCHANGED stored,
           NEW a \in Assoc, NEW new \in AssocRecord, NEW previous \in AssocRecord,
           NEW b, NEW h, NEW w, NEW t, NEW u,
           PutBegins(c, a, new, previous, b, h, w, t, u),
           ~b => ~Enabled(new) \/ (Enabled(rec[a]) /\ new.config = rec[a].config),
           ~Enabled(previous) \/ previous = rec[a] \/ ~b
    PROVE  WorkInv'
<1>1. /\ Begins(c, h, w, t, u) /\ HasPath(h, a)
      /\ PutTodo(t, a, rec[a], new) /\ PutUndo(u, a, new, Restored(previous))
      /\ Enqueueing(t) <=> b
  BY DEF PutBegins
<1>2. rec[a] \in Settled[a] /\ rec[a] \in AssocRecord
  BY <1>1, NothingOwedFirst DEF WorkInv, IndexInv, BaseInv, TypeOK
<1>3. PICK m \in DOMAIN u : Putting(u, m, a, new, Restored(previous))
  BY <1>1 DEF PutUndo
<1>4. CancelShape(t, u)
  BY <1>1 DEF CancelShape, PutTodo
<1>5. EnqueueShape(t, u)
  <2>1. StoreAt(u, m, a) /\ Storing(u)
    BY <1>3 DEF Putting, StoreAt, Storing
  <2>2. \A i \in DOMAIN t : t[i].do = "enqueue" => t[i].for = {a}
    BY <1>1 DEF PutTodo
  <2> QED BY <2>1, <2>2 DEF EnqueueShape
<1>6. StoresSettled(t, Settled)
  <2>1. ASSUME NEW i \in DOMAIN t, t[i].do = "store" PROVE t[i].id = a /\ t[i].to = new
    BY <1>1, <2>1 DEF PutTodo, Putting, StoreAt
  <2>2. CASE b
    <3>1. EnqueuedBy(t, a)
      BY <1>1, <2>2 DEF Enqueueing, EnqueuedBy, PutTodo
    <3> QED BY <2>1, <3>1 DEF StoresSettled
  <2>3. CASE ~b
    <3>1. new \in Settled[a]
      BY <1>2, <2>3, SettledFacts
    <3> QED BY <2>1, <3>1 DEF StoresSettled
  <2> QED BY <2>2, <2>3
<1>7. UndoSettled(t, u, Settled)
  <2> SUFFICES ASSUME b, NEW i \in DOMAIN u, u[i].do = "store"
               PROVE  u[i].to \in Settled[u[i].id]
    BY <1>1 DEF UndoSettled
  <2>1. u[i].id = a /\ u[i].to = Restored(previous)
    BY <1>3 DEF Putting, StoreAt
  <2>2. Restored(previous) \in AssocRecord
    BY RestoredType
  <2>3. ~Enabled(Restored(previous)) \/ Restored(previous) = rec[a]
    BY GoneFacts DEF Restored, Enabled
  <2>4. Restored(previous) \in Settled[a]
    BY <1>2, <2>2, <2>3, SettledFacts
  <2> QED BY <2>1, <2>4
<1> QED BY <1>1, <1>4, <1>5, <1>6, <1>7, WorkBegins

LEMMA WorkCancelBegins ==
    ASSUME WorkInv, IndexInv', NEW c \in Client, client[c] \notin Runs,
           UNCHANGED stored,
           NEW a \in Assoc, NEW new \in AssocRecord,
           NEW h, NEW w, NEW t, NEW u,
           CancelBegins(c, a, new, h, w, t, u)
    PROVE  WorkInv'
<1>1. /\ Begins(c, h, w, t, u) /\ u = << >>
      /\ ~Enabled(new)
      /\ \A i \in DOMAIN t : t[i].do \in {"cancel", "put", "store", "del"}
      /\ \A i \in DOMAIN t : t[i].do = "cancel" => i = 1 /\ t[i].id = a
  BY DEF CancelBegins, Enabled
<1>2. PICK j \in DOMAIN t : Putting(t, j, a, rec[a], new)
  BY DEF CancelBegins
<1>3. StoreAt(t, j, a)
  BY <1>2 DEF Putting
<1>4. \A i \in DOMAIN t : t[i].do = "store" => t[i].id = a /\ t[i].to = new
  BY <1>2 DEF Putting, StoreAt
<1>5. ~Enqueueing(t)
  BY <1>1 DEF Enqueueing
<1>6. CancelShape(t, u)
  BY <1>1, <1>3, <1>4, <1>5 DEF CancelShape
<1>7. EnqueueShape(t, u)
  BY <1>1 DEF EnqueueShape
<1>8. StoresSettled(t, Settled)
  BY <1>1, <1>4, SettledFacts DEF StoresSettled
<1>9. UndoSettled(t, u, Settled)
  BY <1>5 DEF UndoSettled
<1> QED BY <1>1, <1>6, <1>7, <1>8, <1>9, WorkBegins

LEMMA WorkOtherBegins ==
    ASSUME WorkInv, IndexInv', NEW c \in Client, client[c] \notin Runs,
           UNCHANGED stored,
           NEW h, NEW w, NEW t, NEW u, Begins(c, h, w, t, u),
           \A i \in DOMAIN t : t[i].do # "store" /\ t[i].do # "cancel",
           \A i \in DOMAIN u : u[i].do # "store"
    PROVE  WorkInv'
<1>1. CancelShape(t, u) /\ StoresSettled(t, Settled) /\ UndoSettled(t, u, Settled)
  BY DEF CancelShape, StoresSettled, UndoSettled
<1>2. ~Storing(t) /\ ~Storing(u)
  BY DEF Storing
<1>3. EnqueueShape(t, u)
  BY <1>2 DEF EnqueueShape
<1> QED BY <1>1, <1>3, WorkBegins

LEMMA WorkRequest ==
    ASSUME WorkInv, IndexInv', NEW c \in Client,
           \/ \E a \in Assoc : AssociationRequest(c, a)
           \/ Write(c)
           \/ \E p \in Path, keys \in SUBSET Key \ {{}} : DataWrite(c, p, keys)
           \/ \E p \in Path, on \in BOOLEAN : SourceSync(c, p, on)
           \/ \E d \in Dest, off, sensitive \in BOOLEAN :
                 DestinationWrite(c, d, off, sensitive)
           \/ \E d \in Dest : DestinationDelete(c, d)
    PROVE  WorkInv'
<1>b. BaseInv /\ rec \in [Assoc -> AssocRecord]
  BY DEF WorkInv, IndexInv, BaseInv, TypeOK
<1>1. ASSUME NEW a \in Assoc, NEW e \in {"yes", "no", "keep"},
             NEW k \in Config \cup {0}, WriteDraft(c, a, e, k)
      PROVE  WorkInv'
  <2>1. UNCHANGED stored /\ StaysOut(c) /\ client[c] \notin Runs
    BY <1>1, <1>b, WriteDraftBase DEF StaysOut
  <2> QED BY <2>1, WorkStaysOut
<1>2. ASSUME NEW a \in Assoc, Enable(c, a) PROVE WorkInv'
  <2>1. UNCHANGED stored /\ client[c] \notin Runs /\ rec[a].live
    BY <1>2, <1>b, EnableBase
  <2>2. PICK new \in AssocRecord, previous \in AssocRecord : \E h, w, t, u :
            /\ PutBegins(c, a, new, previous, ~rec[a].enabled, h, w, t, u)
            /\ previous.live /\ previous.enabled = rec[a].enabled
            /\ new.config = rec[a].config
    BY <1>2, <1>b, EnableBase
  <2>3. PICK h, w, t, u :
            /\ PutBegins(c, a, new, previous, ~rec[a].enabled, h, w, t, u)
            /\ previous.live /\ previous.enabled = rec[a].enabled
            /\ new.config = rec[a].config
    BY <2>2
  <2>4. /\ rec[a].enabled => Enabled(rec[a])
        /\ ~Enabled(previous) \/ rec[a].enabled
    BY <2>1, <2>3 DEF Enabled
  <2> QED BY <2>1, <2>3, <2>4, WorkPutBegins
<1>3. ASSUME NEW a \in Assoc, Disable(c, a) \/ Delete(c, a) PROVE WorkInv'
  <2>1. /\ UNCHANGED stored /\ client[c] \notin Runs
        /\ \E new \in AssocRecord : \E h, w, t, u : CancelBegins(c, a, new, h, w, t, u)
    BY <1>3, <1>b, DisableBase, DeleteBase
  <2> QED BY <2>1, WorkCancelBegins
<1>4. ASSUME \/ \E a \in Assoc : Sync(c, a)
             \/ \E p \in Path, on \in BOOLEAN : SourceSync(c, p, on)
      PROVE  WorkInv'
  <2>1. /\ UNCHANGED stored /\ client[c] \notin Runs
        /\ \E h, w, t, u : EnqueueBegins(c, h, w, t, u)
    BY <1>4, <1>b, SyncBase, SourceSyncBase
  <2>2. PICK h, w, t, u : EnqueueBegins(c, h, w, t, u)
    BY <2>1
  <2> QED BY <2>1, <2>2, WorkOtherBegins DEF EnqueueBegins
<1>5. ASSUME Write(c) PROVE WorkInv'
  <2>1. UNCHANGED stored /\ client[c] \notin Runs
    BY <1>5, <1>b, WriteBase
  <2>2. \/ StaysOut(c)
        \/ \E a \in Assoc, new \in AssocRecord : \E h, w, t, u :
               PutBegins(c, a, new, rec[a], ShouldEnqueue(rec[a], new), h, w, t, u)
    BY <1>5, <1>b, WriteBase
  <2>3. CASE StaysOut(c)
    BY <2>1, <2>3, WorkStaysOut
  <2>4. ASSUME NEW a \in Assoc, NEW new \in AssocRecord, NEW h, NEW w, NEW t, NEW u,
               PutBegins(c, a, new, rec[a], ShouldEnqueue(rec[a], new), h, w, t, u)
        PROVE  WorkInv'
    <3>1. ~ShouldEnqueue(rec[a], new) =>
              \/ ~Enabled(new)
              \/ Enabled(rec[a]) /\ new.config = rec[a].config
      BY DEF ShouldEnqueue, DesiredStateChanged, Enabled
    <3>2. rec[a] \in AssocRecord
      BY <1>b
    <3> QED BY <2>1, <2>4, <3>1, <3>2, WorkPutBegins
  <2> QED BY <2>2, <2>3, <2>4
<1>6. ASSUME NEW p \in Path, NEW keys \in SUBSET Key, DataWrite(c, p, keys)
      PROVE  WorkInv'
  <2>1. /\ UNCHANGED stored /\ client[c] \notin Runs
        /\ \E bs, cs, h, w, t, u : DataBegins(c, p, keys, bs, cs, h, w, t, u)
    BY <1>6, <1>b, DataWriteBase
  <2>2. PICK bs, cs, h, w, t, u : DataBegins(c, p, keys, bs, cs, h, w, t, u)
    BY <2>1
  <2>3. Begins(c, h, w, t, u)
    BY <2>2 DEF DataBegins
  <2>4. /\ \A i \in DOMAIN t : t[i].do # "store" /\ t[i].do # "cancel"
        /\ \A i \in DOMAIN u : u[i].do # "store"
    BY <2>2, DataKinds
  <2> QED BY <2>1, <2>3, <2>4, WorkOtherBegins
<1>7. ASSUME NEW d \in Dest, NEW off \in BOOLEAN, NEW sensitive \in BOOLEAN,
             DestinationWrite(c, d, off, sensitive)
      PROVE  WorkInv'
  <2>1. /\ UNCHANGED stored /\ client[c] \notin Runs
        /\ \E r \in DestRecord : \E h, w, t, u : DestBegins(c, d, r, h, w, t, u)
    BY <1>7, <1>b, DestinationWriteBase
  <2>2. PICK r, h, w, t, u : DestBegins(c, d, r, h, w, t, u)
    BY <2>1
  <2>3. Begins(c, h, w, t, u)
    BY <2>2 DEF DestBegins
  <2>4. /\ \A i \in DOMAIN t : t[i].do # "store" /\ t[i].do # "cancel"
        /\ \A i \in DOMAIN u : u[i].do # "store"
    BY <2>2, DestKinds
  <2> QED BY <2>1, <2>3, <2>4, WorkOtherBegins
<1>8. ASSUME NEW d \in Dest, DestinationDelete(c, d) PROVE WorkInv'
  <2>1. /\ UNCHANGED stored /\ client[c] \notin Runs
        /\ \E h, w, t, u : DestDeleteBegins(c, d, h, w, t, u)
    BY <1>8, <1>b, DestinationDeleteBase
  <2>2. PICK h, w, t, u : DestDeleteBegins(c, d, h, w, t, u)
    BY <2>1
  <2>3. Begins(c, h, w, t, u)
    BY <2>2 DEF DestDeleteBegins
  <2>4. /\ \A i \in DOMAIN t : t[i].do # "store" /\ t[i].do # "cancel"
        /\ \A i \in DOMAIN u : u[i].do # "store"
    BY <2>2, DestDeleteKinds
  <2> QED BY <2>1, <2>3, <2>4, WorkOtherBegins
<1> QED BY <1>1, <1>2, <1>3, <1>4, <1>5, <1>6, <1>7, <1>8 DEF AssociationRequest

(* What is known of a request in progress. *)
LEMMA WorkRuns ==
    ASSUME WorkInv, NEW c \in Client, client[c] \in Runs,
           NEW h, NEW w, NEW t, NEW u, h = client[c].held, w = client[c].touched,
           t = client[c].todo, u = client[c].undo
    PROVE  /\ t \in Seq(Steps) /\ t # << >> /\ u \in Seq(Steps)
           /\ Tail(t) \in Seq(Steps) /\ t[1] \in Steps /\ 1 \in DOMAIN t
           /\ DOMAIN t = 1..Len(t) /\ Len(t) \in Nat
           /\ Len(Tail(t)) = Len(t) - 1
           /\ Planned(h, w, t, u) /\ StepHeld(h, w, t[1])
           /\ WorkKept(h, t, u, rec, Settled)
           /\ \A a : HasPath(h, a) => OthersLack(c, a)
           /\ TypeOK
<1>1. t \in Seq(Steps) /\ t # << >> /\ u \in Seq(Steps) /\ TypeOK
  BY RunningIsRun DEF WorkInv, IndexInv, BaseInv
<1>2. /\ Tail(t) \in Seq(Steps) /\ t[1] \in Steps /\ 1 \in DOMAIN t
      /\ DOMAIN t = 1..Len(t) /\ Len(t) \in Nat
      /\ Len(Tail(t)) = Len(t) - 1
  BY <1>1, TailFacts
<1>3. Planned(h, w, t, u) /\ WorkKept(h, t, u, rec, Settled) /\ LocksApart
  BY DEF WorkInv, IndexInv, BaseInv
<1>4. StepHeld(h, w, t[1])
  BY <1>2, <1>3 DEF Planned, StepsHeld
<1>5. \A a : HasPath(h, a) => OthersLack(c, a)
  BY <1>3, PathIsOwn
<1> QED BY <1>1, <1>2, <1>3, <1>4, <1>5

LEMMA GoesOnRuns ==
    ASSUME TypeOK, NEW c \in Client, client[c] \in Runs,
           NEW t \in Seq(Steps), NEW u \in Seq(Steps), GoesOn(c, t, u)
    PROVE  /\ t # << >> => client'[c] \in Runs
           /\ t = << >> => client'[c] \notin Runs
           /\ \A a : Pending(t, a) => client'[c] \in Runs
<1>1. client[c].held \in SUBSET Locks /\ client[c].touched \in SUBSET Assoc
  BY RunningIsRun
<1>2. t # << >> => client'[c] \in Runs
  BY <1>1, RunFacts DEF GoesOn
<1>3. t = << >> => client'[c] \notin Runs
  BY RunFacts DEF GoesOn
<1>4. \A a : Pending(t, a) => t # << >>
  BY DEF Pending
<1> QED BY <1>2, <1>3, <1>4

(* A step of a request that is about no work. *)
LEMMA WorkOtherStep ==
    ASSUME WorkInv, IndexInv', NEW c \in Client, client[c] \in Runs, rec' = rec,
           \A a \in Assoc : Settled'[a] = Settled[a],
           client[c].todo[1].do \notin {"store", "enqueue", "cancel"},
           GoesOn(c, Tail(client[c].todo), client[c].undo)
    PROVE  WorkInv'
<1>1. PICK h, w, t, u : /\ h = client[c].held /\ w = client[c].touched
                        /\ t = client[c].todo /\ u = client[c].undo
  OBVIOUS
<1>2. /\ t \in Seq(Steps) /\ t # << >> /\ u \in Seq(Steps) /\ Tail(t) \in Seq(Steps)
      /\ WorkKept(h, t, u, rec, Settled) /\ TypeOK
  BY <1>1, WorkRuns
<1>3. GoesOn(c, Tail(t), u)
  BY <1>1
<1>4. Becomes(c, h, w, Tail(t), u) /\ \A a : Pending(Tail(t), a) => client'[c] \in Runs
  BY <1>1, <1>2, <1>3, GoesOnBecomes, GoesOnRuns
<1>5. \A a \in Assoc : \A x \in AssocRecord : ~Enabled(x) => x \in Settled[a]
  BY SettledFacts
<1>6. WorkKept(h, Tail(t), u, rec, Settled)
  BY <1>1, <1>2, <1>5, WorkTail
<1>7. \A a : Pending(t, a) => Pending(Tail(t), a)
  BY <1>1, <1>2, PendingTail
<1> QED BY <1>1, <1>4, <1>6, <1>7, WorkSame

LEMMA WorkStoreStep ==
    ASSUME WorkInv, IndexInv', NEW c \in Client, client[c] \in Runs,
           client[c].todo[1].do = "store", RecStored(client[c].todo[1]),
           \A a \in Assoc : Settled'[a] = Settled[a],
           GoesOn(c, Tail(client[c].todo), client[c].undo)
    PROVE  WorkInv'
<1>1. PICK h, w, t, u : /\ h = client[c].held /\ w = client[c].touched
                        /\ t = client[c].todo /\ u = client[c].undo
  OBVIOUS
<1>2. /\ t \in Seq(Steps) /\ t # << >> /\ u \in Seq(Steps) /\ Tail(t) \in Seq(Steps)
      /\ t[1] \in Steps /\ 1 \in DOMAIN t /\ StepHeld(h, w, t[1])
      /\ WorkKept(h, t, u, rec, Settled) /\ TypeOK
      /\ \A a : HasPath(h, a) => OthersLack(c, a)
  BY <1>1, WorkRuns
<1>3. GoesOn(c, Tail(t), u)
  BY <1>1
<1>4. Becomes(c, h, w, Tail(t), u) /\ \A a : Pending(Tail(t), a) => client'[c] \in Runs
  BY <1>1, <1>2, <1>3, GoesOnBecomes, GoesOnRuns
<1>5. /\ \A a \in Assoc : \A x \in AssocRecord : ~Enabled(x) => x \in Settled'[a]
      /\ \A a \in Assoc : Settled'[a] = Settled[a]
  BY DEF Settled
<1>6. t[1].id \in Assoc /\ OthersLack(c, t[1].id) /\ t[1].do = "store"
  BY <1>1, <1>2, StepFields DEF StepHeld
<1>7. /\ rec'[t[1].id] = t[1].to
      /\ \A a \in Assoc : a # t[1].id => rec'[a] = rec[a]
  <2>1. \A a \in Assoc : rec'[a] = RecAfter(t[1], rec, a)
    BY <1>1, <1>2, RecStoredFacts
  <2> QED BY <1>6, <2>1 DEF RecAfter
<1>8. WorkKept(h, Tail(t), u, rec', Settled')
  BY <1>2, <1>5, <1>6, WorkTail
<1>9. ASSUME NEW a \in Assoc
      PROVE  \/ rec'[a] \in Settled'[a]
             \/ client'[c] \in Runs /\ Pending(Tail(t), a)
             \/ rec[a] \notin Settled[a] /\ ~(client[c] \in Runs /\ Pending(client[c].todo, a))
  <2>1. CASE a = t[1].id
    <3>1. t[1].to \in Settled[a] \/ EnqueuedBy(t, a)
      BY <1>2, <1>6, <2>1 DEF WorkKept, StoresSettled
    <3>2. ASSUME EnqueuedBy(t, a) PROVE Pending(Tail(t), a)
      <4>1. PICK i \in DOMAIN t : t[i].do = "enqueue" /\ a \in t[i].for
        BY <3>2 DEF EnqueuedBy
      <4>2. i # 1
        BY <1>6, <4>1
      <4>3. i - 1 \in DOMAIN Tail(t) /\ Tail(t)[i - 1] = t[i]
        BY <1>2, <4>2, TailFacts
      <4> HIDE DEF Settled
      <4> QED BY <4>1, <4>3 DEF Pending
    <3> QED BY <1>4, <1>5, <1>7, <2>1, <3>1, <3>2
  <2>2. CASE a # t[1].id
    <3>1. Pending(t, a) => Pending(Tail(t), a)
      BY <1>2, <1>6, <2>2, PendingTail
    <3> QED BY <1>1, <1>4, <1>5, <1>7, <2>2, <3>1
  <2> QED BY <2>1, <2>2
<1>10. \A a \in Assoc : \/ OthersLack(c, a)
                        \/ rec'[a] = rec[a] /\ Settled[a] \subseteq Settled'[a]
  BY <1>5, <1>6, <1>7
<1> QED BY <1>4, <1>8, <1>9, <1>10, WorkAssembled

LEMMA WorkCancelStep ==
    ASSUME WorkInv, IndexInv', NEW c \in Client, client[c] \in Runs, rec' = rec,
           client[c].todo[1].do = "cancel",
           \A a \in Assoc : a # client[c].todo[1].id => Settled'[a] = Settled[a],
           GoesOn(c, Tail(client[c].todo), client[c].undo)
    PROVE  WorkInv'
<1>1. PICK h, w, t, u : /\ h = client[c].held /\ w = client[c].touched
                        /\ t = client[c].todo /\ u = client[c].undo
  OBVIOUS
<1>2. /\ t \in Seq(Steps) /\ t # << >> /\ u \in Seq(Steps) /\ Tail(t) \in Seq(Steps)
      /\ t[1] \in Steps /\ 1 \in DOMAIN t /\ StepHeld(h, w, t[1])
      /\ WorkKept(h, t, u, rec, Settled) /\ TypeOK
      /\ \A a : HasPath(h, a) => OthersLack(c, a)
  BY <1>1, WorkRuns
<1>3. GoesOn(c, Tail(t), u)
  BY <1>1
<1>4. Becomes(c, h, w, Tail(t), u) /\ \A a : Pending(Tail(t), a) => client'[c] \in Runs
  BY <1>1, <1>2, <1>3, GoesOnBecomes, GoesOnRuns
<1>5. \A a \in Assoc : \A x \in AssocRecord : ~Enabled(x) => x \in Settled'[a]
  BY DEF Settled
<1>6. t[1].id \in Assoc /\ OthersLack(c, t[1].id) /\ t[1].do = "cancel"
  BY <1>1, <1>2, StepFields DEF StepHeld
<1>7. WorkKept(h, Tail(t), u, rec', Settled')
  BY <1>2, <1>5, <1>6, WorkTail
<1>8. \A a : Pending(t, a) => Pending(Tail(t), a)
  BY <1>2, <1>6, PendingTail
<1>9. Pending(t, t[1].id)
  BY <1>2, <1>6 DEF WorkKept, CancelShape, StoreAt, Pending
<1>10. ASSUME NEW a \in Assoc
       PROVE  \/ rec'[a] \in Settled'[a]
              \/ client'[c] \in Runs /\ Pending(Tail(t), a)
              \/ rec[a] \notin Settled[a] /\ ~(client[c] \in Runs /\ Pending(client[c].todo, a))
  <2>1. CASE a = t[1].id
    BY <1>4, <1>8, <1>9, <2>1
  <2>2. CASE a # t[1].id
    BY <1>1, <1>4, <1>8, <2>2
  <2> QED BY <2>1, <2>2
<1>11. \A a \in Assoc : \/ OthersLack(c, a)
                        \/ rec'[a] = rec[a] /\ Settled[a] \subseteq Settled'[a]
  BY <1>1, <1>6
<1> QED BY <1>4, <1>7, <1>10, <1>11, WorkAssembled

(* The enqueue or the commit that a request ends with. *)
LEMMA WorkLastStep ==
    ASSUME WorkInv, IndexInv', NEW c \in Client, client[c] \in Runs, rec' = rec,
           client[c].todo[1].do \in {"enqueue", "commit"},
           \A a \in Assoc :
               \/ HasPath(client[c].held, a) /\ rec[a] \in Settled'[a]
               \/ /\ Settled'[a] = Settled[a]
                  /\ ~(client[c].todo[1].do = "enqueue" /\ a \in client[c].todo[1].for),
           GoesOn(c, Tail(client[c].todo), client[c].undo)
    PROVE  WorkInv'
<1>1. PICK h, w, t, u : /\ h = client[c].held /\ w = client[c].touched
                        /\ t = client[c].todo /\ u = client[c].undo
  OBVIOUS
<1>2. /\ t \in Seq(Steps) /\ t # << >> /\ u \in Seq(Steps) /\ Tail(t) \in Seq(Steps)
      /\ 1 \in DOMAIN t /\ DOMAIN t = 1..Len(t) /\ Len(Tail(t)) = Len(t) - 1
      /\ Planned(h, w, t, u) /\ TypeOK
      /\ \A a : HasPath(h, a) => OthersLack(c, a)
  BY <1>1, WorkRuns
<1>3. GoesOn(c, Tail(t), u)
  BY <1>1
<1>4. Len(t) = 1
  BY <1>1, <1>2 DEF Planned, Shape, EnqueuesLast
<1>5. Tail(t) = << >>
  <2> DEFINE v == Tail(t)
  <2>1. v \in Seq(Steps) /\ Len(v) = 0
    BY <1>2, <1>4
  <2> HIDE DEF v
  <2>2. v = << >>
    BY <2>1
  <2> QED BY <2>2 DEF v
<1>6. Becomes(c, h, w, Tail(t), u) /\ client'[c] \notin Runs
  BY <1>1, <1>2, <1>3, <1>5, GoesOnBecomes, GoesOnRuns
<1>7. \A i \in DOMAIN t : i = 1
  BY <1>2, <1>4
<1>8. \A a : Pending(t, a) => t[1].do = "enqueue" /\ a \in t[1].for
  BY <1>1, <1>7 DEF Pending
<1>9. \A a \in Assoc : \/ OthersLack(c, a)
                       \/ rec'[a] = rec[a] /\ Settled[a] \subseteq Settled'[a]
  BY <1>1, <1>2
<1>10. \A a \in Assoc :
           \/ rec'[a] \in Settled'[a]
           \/ client'[c] \in Runs /\ Pending(Tail(t), a)
           \/ rec[a] \notin Settled[a] /\ ~(client[c] \in Runs /\ Pending(client[c].todo, a))
  BY <1>1, <1>8
<1> QED BY <1>6, <1>9, <1>10, WorkAssembled

LEMMA WorkIndexStep ==
    ASSUME WorkInv, IndexInv', NEW c \in Client, IndexStep(c)
    PROVE  WorkInv'
<1>1. PICK h, w, t, u : /\ h = client[c].held /\ w = client[c].touched
                        /\ t = client[c].todo /\ u = client[c].undo
  OBVIOUS
<1>2. /\ client[c] \in Runs
      /\ rec' = rec /\ \A a \in Assoc : Settled'[a] = Settled[a]
  BY IndexStepBase, SettledSame DEF WorkInv, IndexInv
<1>3. PICK k \in t[1].keys, v \in Seq(Steps) : RoundOf(t, k, v) /\ GoesOn(c, v, u)
  BY <1>1, IndexStepBase DEF WorkInv, IndexInv
<1>4. u \in Seq(Steps) /\ WorkKept(h, t, u, rec, Settled) /\ TypeOK
  BY <1>1, <1>2, WorkRuns
<1>5. Becomes(c, h, w, v, u) /\ \A a : Pending(v, a) => client'[c] \in Runs
  BY <1>1, <1>2, <1>3, <1>4, GoesOnBecomes, GoesOnRuns
<1>6. WorkKept(h, v, u, rec, Settled) /\ \A a : Pending(t, a) => Pending(v, a)
  BY <1>3, <1>4, WorkRound
<1> QED BY <1>1, <1>2, <1>5, <1>6, WorkSame

LEMMA WorkRefreshStep ==
    ASSUME WorkInv, IndexInv', NEW c \in Client, RefreshStep(c)
    PROVE  WorkInv'
<1>1. PICK h, w, t, s : /\ h = client[c].held /\ w = client[c].touched
                        /\ t = client[c].todo /\ s = client[c].todo[1]
  OBVIOUS
<1>2. /\ client[c] \in Runs
      /\ rec' = rec /\ \A a \in Assoc : Settled'[a] = Settled[a]
      /\ s \in Steps /\ s.do = "refresh"
  BY <1>1, RefreshStepBase, SettledSame DEF WorkInv, IndexInv
<1>3. PICK a \in s.ids, v \in Seq(Steps) :
          /\ DOMAIN v = 1..5
          /\ Putting(v, 2, a, rec[a], Renamed(a, s.keys))
          /\ \A i \in 1..3 : v[i].do \in {"put", "store", "del"}
          /\ v[4] = Refresh(s.ids \ {a}, s.keys)
          /\ v[5].do = "commit" /\ v[5] = t[2]
          /\ Len(t) = 2
          /\ GoesOn(c, v, << >>)
  BY <1>1, RefreshStepBase DEF WorkInv, IndexInv
<1>4. /\ StepHeld(h, w, s) /\ TypeOK
      /\ DOMAIN t = 1..Len(t)
      /\ \A b : HasPath(h, b) => OthersLack(c, b)
  BY <1>1, <1>2, WorkRuns
<1>5. a \in Assoc /\ s.keys \in SUBSET Key /\ HasPath(h, a)
  BY <1>2, <1>4, StepFields DEF StepHeld
<1>6. \A b : ~Pending(t, b)
  <2>1. \A i \in DOMAIN t : i = 1 \/ i = 2
    BY <1>3, <1>4
  <2> QED BY <1>1, <1>2, <1>3, <2>1 DEF Pending
<1>7. rec[a] \in Settled[a]
  <2> SUFFICES ASSUME rec[a] \notin Settled[a] PROVE FALSE
    OBVIOUS
  <2>1. PICK x \in Client : client[x] \in Runs /\ Pending(client[x].todo, a)
    BY <1>5 DEF WorkInv, OwedIsPending
  <2>2. HasPath(client[x].held, a)
    BY <2>1, PendingHasPath DEF WorkInv, IndexInv, BaseInv, Planned
  <2>3. x = c
    BY <1>4, <1>5, <2>1, <2>2 DEF OthersLack
  <2> QED BY <1>1, <1>6, <2>1, <2>3
<1>8. Renamed(a, s.keys) \in Settled[a]
  <2>1. /\ Renamed(a, s.keys) \in AssocRecord /\ rec[a] \in AssocRecord
        /\ Enabled(Renamed(a, s.keys)) <=> Enabled(rec[a])
        /\ Renamed(a, s.keys).config = rec[a].config
    BY <1>4, <1>5, RenamedFacts DEF Enabled, TypeOK
  <2> QED BY <1>5, <1>7, <2>1, SettledFacts
<1>9. \A i \in DOMAIN v : v[i].do # "enqueue" /\ v[i].do # "cancel"
  <2>1. \A i \in DOMAIN v : i \in 1..3 \/ i = 4 \/ i = 5
    BY <1>3
  <2>2. v[4].do = "refresh"
    BY <1>3, KindsOfSteps
  <2> QED BY <1>3, <2>1, <2>2
<1>10. StoresSettled(v, Settled)
  BY <1>3, <1>8 DEF StoresSettled, Putting, StoreAt
<1>11. ~Enqueueing(v)
  BY <1>9 DEF Enqueueing
<1>12. WorkKept(h, v, << >>, rec, Settled)
  BY <1>9, <1>10, <1>11
     DEF WorkKept, CancelShape, EnqueueShape, UndoSettled, NothingOwed, Traceless
<1>13. << >> \in Seq(Steps)
  OBVIOUS
<1>14. Becomes(c, h, w, v, << >>)
  BY <1>1, <1>2, <1>3, <1>4, <1>13, GoesOnBecomes
<1> QED BY <1>1, <1>2, <1>6, <1>12, <1>14, WorkSame

(* A request that is refused, or that turns to its undo. *)
LEMMA WorkTurns ==
    ASSUME WorkInv, IndexInv', NEW c \in Client, client[c] \in Runs, rec' = rec,
           UNCHANGED <<data, work, excused>>,
           \/ /\ client[c].todo[1].do = "cancel"
              /\ GoesOn(c, << >>, << >>)
           \/ /\ client[c].todo[1].do \in {"enqueue", "destination"}
              /\ GoesOn(c, client[c].undo, << >>)
    PROVE  WorkInv'
<1>1. PICK h, w, t, u : /\ h = client[c].held /\ w = client[c].touched
                        /\ t = client[c].todo /\ u = client[c].undo
  OBVIOUS
<1>2. /\ t \in Seq(Steps) /\ t # << >> /\ u \in Seq(Steps) /\ 1 \in DOMAIN t
      /\ Planned(h, w, t, u) /\ TypeOK
      /\ WorkKept(h, t, u, rec, Settled)
      /\ << >> \in Seq(Steps)
  BY <1>1, WorkRuns
<1>3. \A a \in Assoc : Settled'[a] = Settled[a]
  BY SettledSame
<1>4. CASE t[1].do = "cancel" /\ GoesOn(c, << >>, << >>)
  <2>1. Becomes(c, h, w, << >>, << >>) /\ client'[c] \notin Runs
    BY <1>1, <1>2, <1>4, GoesOnBecomes, GoesOnRuns
  <2>2. Traceless(t, u)
    BY <1>2, <1>4 DEF Traceless
  <2>3. \A a \in Assoc : Pending(t, a) => rec[a] \in Settled[a]
    BY <1>2, <2>2, PendingHasPath DEF Planned, WorkKept, NothingOwed
  <2> QED BY <1>1, <1>3, <2>1, <2>3, WorkSame
<1>5. CASE t[1].do \in {"enqueue", "destination"} /\ GoesOn(c, u, << >>)
  <2>1. Becomes(c, h, w, u, << >>) /\ \A a : Pending(u, a) => client'[c] \in Runs
    BY <1>1, <1>2, <1>5, GoesOnBecomes, GoesOnRuns
  <2>2. /\ WorkKept(h, u, << >>, rec, Settled)
        /\ \A a \in Assoc : Pending(t, a) /\ rec[a] \notin Settled[a] => Pending(u, a)
    BY <1>2, <1>5, WorkUndo
  <2> QED BY <1>1, <1>3, <2>1, <2>2, WorkSame
<1> QED BY <1>1, <1>4, <1>5

(* What a failure or a crash excuses. *)
LEMMA SettledExcused ==
    ASSUME UNCHANGED <<data, work>>, excused \subseteq excused'
    PROVE  \A a \in Assoc : /\ Settled[a] \subseteq Settled'[a]
                            /\ a \in excused' => Settled'[a] = AssocRecord
BY DEF Settled

LEMMA WorkFails ==
    ASSUME WorkInv, IndexInv', NEW c \in Client, client[c] \in Runs, rec' = rec,
           UNCHANGED <<data, work>>, excused' = excused \cup client[c].touched,
           GoesOn(c, << >>, << >>)
    PROVE  WorkInv'
<1>1. PICK h, w, t, u : /\ h = client[c].held /\ w = client[c].touched
                        /\ t = client[c].todo /\ u = client[c].undo
  OBVIOUS
<1>2. Planned(h, w, t, u) /\ TypeOK /\ WorkKept(h, t, u, rec, Settled)
  BY <1>1, WorkRuns
<1>3. << >> \in Seq(Steps)
  OBVIOUS
<1>4. Becomes(c, h, w, << >>, << >>) /\ client'[c] \notin Runs
  BY <1>1, <1>2, <1>3, GoesOnBecomes, GoesOnRuns
<1>5. \A a \in Assoc : /\ Settled[a] \subseteq Settled'[a]
                       /\ a \in w => Settled'[a] = AssocRecord
  BY <1>1, SettledExcused
<1>6. \A a \in Assoc : rec[a] \in AssocRecord
  BY <1>2 DEF TypeOK
<1>7. ASSUME NEW a \in Assoc, rec'[a] \notin Settled'[a]
      PROVE  rec[a] \notin Settled[a] /\ ~Pending(t, a)
  <2>1. rec[a] \notin Settled[a] /\ a \notin w
    BY <1>5, <1>6, <1>7
  <2> QED BY <1>2, <2>1, PendingIsTouched
<1> QED BY <1>1, <1>4, <1>5, <1>7, WorkAssembled

LEMMA WorkCrash ==
    ASSUME WorkInv, IndexInv', rec' = rec, UNCHANGED <<data, work>>,
           excused \subseteq excused',
           \A c \in Client : client'[c] \notin Runs,
           \A c \in Client : client[c] \in Runs => client[c].touched \subseteq excused'
    PROVE  WorkInv'
<1>1. OwedIsPending'
  <2> SUFFICES ASSUME NEW a \in Assoc, rec[a] \notin Settled'[a] PROVE FALSE
    BY DEF OwedIsPending
  <2>1. rec[a] \in AssocRecord
    BY DEF WorkInv, IndexInv, BaseInv, TypeOK
  <2>2. rec[a] \notin Settled[a] /\ a \notin excused'
    BY <2>1, SettledExcused
  <2>3. PICK x \in Client : client[x] \in Runs /\ Pending(client[x].todo, a)
    BY <2>2 DEF WorkInv, OwedIsPending
  <2>4. PICK h, w, t, u : /\ h = client[x].held /\ w = client[x].touched
                          /\ t = client[x].todo /\ u = client[x].undo
    OBVIOUS
  <2>5. Planned(h, w, t, u) /\ WorkKept(h, t, u, rec, Settled)
    BY <2>3, <2>4, WorkRuns
  <2>6. a \in w
    BY <2>2, <2>3, <2>4, <2>5, PendingIsTouched
  <2> QED BY <2>2, <2>3, <2>4, <2>6
<1> QED BY <1>1 DEF WorkInv

LEMMA WorkNext ==
    ASSUME WorkInv, [Next]_vars
    PROVE  WorkInv'
<1>i. IndexInv /\ IndexInv'
  BY IndexNext DEF WorkInv
<1>b. BaseInv /\ TypeOK
  BY <1>i DEF IndexInv, BaseInv
<1>1. CASE UNCHANGED vars
  BY <1>1, <1>i DEF vars, WorkInv, OwedIsPending, Settled
<1>2. CASE Crash
  BY <1>2, <1>b, <1>i, CrashBase, WorkCrash
<1>3. ASSUME NEW c \in Client, Step(c) PROVE WorkInv'
  <2>1. /\ client[c] \in Runs
        /\ client[c].todo[1] \in Steps
        /\ Apply(client[c].todo[1])
        /\ GoesOn(c, Tail(client[c].todo), client[c].undo)
    BY <1>3, <1>b, StepBase
  <2>2. PICK s, h : s = client[c].todo[1] /\ h = client[c].held
    OBVIOUS
  <2>3. Apply(s) /\ s \in Steps
    BY <2>1, <2>2
  <2>4. StepHeld(h, client[c].touched, s)
    BY <2>1, <2>2, WorkRuns
  <2>5. \A a \in Assoc : work'[a] =
            CASE s.do = "enqueue" /\ a \in s.for -> EnqueuedFor(a, data[PathOf[a]])
              [] s.do = "commit" /\ a \in s.for  -> EnqueuedFor(a, s.keys)
              [] s.do = "cancel" /\ a = s.id     -> NoWork
              [] OTHER                           -> work[a]
    BY <2>3 DEF Apply
  <2>6. CASE s.do = "store"
    <3>1. RecStored(s) /\ data' = data /\ excused' = excused
      BY <2>3, <2>6 DEF Apply, RecStored
    <3>2. \A a \in Assoc : work'[a] = work[a]
      BY <2>5, <2>6
    <3>3. \A a \in Assoc : Settled'[a] = Settled[a]
      BY <3>1, <3>2 DEF Settled
    <3> QED BY <1>i, <2>1, <2>2, <2>6, <3>1, <3>3, WorkStoreStep
  <2>7. CASE s.do = "cancel"
    <3>1. rec' = rec /\ data' = data /\ excused' = excused
      BY <2>3, <2>7 DEF Apply
    <3>2. \A a \in Assoc : a # s.id => work'[a] = work[a]
      BY <2>5, <2>7
    <3>3. \A a \in Assoc : a # s.id => Settled'[a] = Settled[a]
      BY <3>1, <3>2 DEF Settled
    <3> QED BY <1>i, <2>1, <2>2, <2>7, <3>1, <3>3, WorkCancelStep
  <2>8. CASE s.do = "enqueue"
    <3>1. rec' = rec /\ data' = data /\ excused' = excused \ s.for
      BY <2>3, <2>8 DEF Apply
    <3>2. \A a \in Assoc : \/ a \in s.for /\ work'[a] = EnqueuedFor(a, data[PathOf[a]])
                           \/ a \notin s.for /\ work'[a] = work[a]
      BY <2>5, <2>8
    <3>3. ASSUME NEW a \in Assoc, a \in s.for
          PROVE  HasPath(h, a) /\ rec[a] \in Settled'[a]
      <4>1. rec[a] \in AssocRecord
        BY <1>b DEF TypeOK
      <4> QED BY <2>4, <2>8, <3>1, <3>2, <3>3, <4>1 DEF StepHeld, Settled, EnqueuedFor
    <3>4. \A a \in Assoc : a \notin s.for => Settled'[a] = Settled[a]
      BY <3>1, <3>2 DEF Settled
    <3> QED BY <1>i, <2>1, <2>2, <2>8, <3>1, <3>3, <3>4, WorkLastStep
  <2>9. CASE s.do = "commit"
    <3>1. /\ rec' = rec /\ data' = [data EXCEPT ![s.path] = s.keys]
          /\ excused' = (excused \ s.for) \cup {a \in Assoc \ s.for : PathOf[a] = s.path}
          /\ s.path \in Path /\ data \in [Path -> SUBSET Key]
      BY <1>b, <2>3, <2>9, StepFields DEF Apply, TypeOK
    <3>2. \A a \in Assoc : \/ a \in s.for /\ work'[a] = EnqueuedFor(a, s.keys)
                           \/ a \notin s.for /\ work'[a] = work[a]
      BY <2>5, <2>9
    <3>3. SourceLock(s.path) \in h /\ \A a \in s.for : PathOf[a] = s.path
      BY <2>4, <2>9 DEF StepHeld
    <3>4. ASSUME NEW a \in Assoc, PathOf[a] = s.path
          PROVE  HasPath(h, a) /\ rec[a] \in Settled'[a]
      <4>1. rec[a] \in AssocRecord /\ data'[PathOf[a]] = s.keys
        BY <1>b, <3>1, <3>4 DEF TypeOK
      <4>2. HasPath(h, a)
        BY <3>3, <3>4 DEF HasPath
      <4>3. \/ a \in excused'
            \/ work'[a] = EnqueuedFor(a, s.keys)
        BY <3>1, <3>2, <3>4
      <4>4. rec'[a] = rec[a]
        BY <3>1
      <4>5. rec[a] \in Settled'[a]
        BY <4>1, <4>3, <4>4 DEF Settled, EnqueuedFor
      <4> QED BY <4>2, <4>5
    <3>5. ASSUME NEW a \in Assoc, PathOf[a] # s.path PROVE Settled'[a] = Settled[a]
      <4>1. PathOf[a] \in Path
        BY AssociationsAssumption
      <4>2. /\ data'[PathOf[a]] = data[PathOf[a]] /\ a \notin s.for
            /\ a \in excused' <=> a \in excused
            /\ work'[a] = work[a]
        BY <3>1, <3>2, <3>3, <3>5, <4>1
      <4> QED BY <4>2 DEF Settled
    <3> QED BY <1>i, <2>1, <2>2, <2>9, <3>1, <3>4, <3>5, WorkLastStep
  <2>10. CASE s.do \notin {"store", "cancel", "enqueue", "commit"}
    <3>1. rec' = rec /\ data' = data /\ excused' = excused
      BY <2>3, <2>10 DEF Apply
    <3>2. \A a \in Assoc : work'[a] = work[a]
      BY <2>5, <2>10
    <3>3. \A a \in Assoc : Settled'[a] = Settled[a]
      BY <3>1, <3>2 DEF Settled
    <3> QED BY <1>i, <2>1, <2>2, <2>10, <3>1, <3>3, WorkOtherStep
  <2> QED BY <2>6, <2>7, <2>8, <2>9, <2>10
<1>4. ASSUME NEW c \in Client, LoopEnds(c) PROVE WorkInv'
  <2>1. /\ client[c] \in Runs
        /\ LoopDone(client[c].todo[1])
        /\ GoesOn(c, Tail(client[c].todo), client[c].undo)
        /\ rec' = rec /\ UNCHANGED <<data, work, excused>>
    BY <1>4, <1>b, LoopEndsBase
  <2>2. client[c].todo[1].do \notin {"store", "enqueue", "cancel"}
    BY <2>1 DEF LoopDone
  <2>3. \A a \in Assoc : Settled'[a] = Settled[a]
    BY <2>1, SettledSame
  <2> QED BY <1>i, <2>1, <2>2, <2>3, WorkOtherStep
<1>5. ASSUME NEW c \in Client, Refused(c) PROVE WorkInv'
  <2>1. /\ client[c] \in Runs /\ rec' = rec /\ UNCHANGED <<data, work, excused>>
        /\ \/ /\ client[c].todo[1].do = "cancel"
              /\ GoesOn(c, << >>, << >>)
           \/ /\ client[c].todo[1].do \in {"enqueue", "destination"}
              /\ GoesOn(c, client[c].undo, << >>)
    BY <1>5, <1>b, RefusedBase
  <2> QED BY <1>i, <2>1, WorkTurns
<1>6. ASSUME NEW c \in Client, StorageFails(c) PROVE WorkInv'
  <2>1. /\ client[c] \in Runs /\ rec' = rec /\ UNCHANGED <<data, work>>
        /\ \/ /\ client[c].todo[1].do \in {"enqueue", "destination"}
              /\ GoesOn(c, client[c].undo, << >>)
              /\ excused' = excused
           \/ /\ GoesOn(c, << >>, << >>)
              /\ excused' = excused \cup client[c].touched
    BY <1>6, <1>b, StorageFailsBase
  <2> QED BY <1>i, <2>1, WorkTurns, WorkFails
<1> QED BY <1>i, <1>1, <1>2, <1>3, <1>4, <1>5, <1>6, WorkRequest, WorkIndexStep,
           WorkRefreshStep DEF Next

LEMMA WorkInit ==
    ASSUME Init
    PROVE  WorkInv
<1>1. BaseInv /\ \A c \in Client : client[c] \notin Runs
  BY InitBase
<1>2. AssociationIndexed
  BY DEF Init, AssociationIndexed
<1>3. PICK bs \in InitialAssocs :
          /\ rec = [a \in Assoc |->
                IF a \in bs
                THEN [live |-> TRUE, enabled |-> TRUE, config |-> DefaultConfig,
                      names |-> ConcreteNames(a, data[PathOf[a]])]
                ELSE Gone]
          /\ work = [a \in Assoc |->
                IF a \in bs THEN EnqueuedFor(a, data[PathOf[a]]) ELSE NoWork]
  BY DEF Init
<1>4. ASSUME NEW a \in Assoc PROVE rec[a] \in Settled[a]
  <2>1. rec[a] \in AssocRecord
    BY <1>1 DEF BaseInv, TypeOK
  <2>2. CASE a \in bs
    BY <1>3, <2>1, <2>2 DEF Settled, EnqueuedFor
  <2>3. CASE a \notin bs
    BY <1>3, <2>1, <2>3, GoneFacts DEF Settled, Enabled
  <2> QED BY <2>2, <2>3
<1>5. OwedIsPending
  BY <1>4 DEF OwedIsPending
<1> QED BY <1>1, <1>2, <1>5 DEF WorkInv, IndexInv

(* An enabled association has been enqueued for the current version in its *)
(* present configuration once no request has its path: whichever request   *)
(* was refused, rolled back or raced, what it left undone is put back or   *)
(* enqueued.  The exceptions are those `excused` names: a request about it *)
(* that died or failed in storage, and a version committed while its       *)
(* destination was disabled or the source not eligible.                    *)
THEOREM EnabledAssociationsHaveWork == Spec => []EnabledHasWork
<1>1. Init => WorkInv
  BY WorkInit
<1>2. WorkInv /\ [Next]_vars => WorkInv'
  BY WorkNext
<1>3. WorkInv => EnabledHasWork
  <2> SUFFICES ASSUME WorkInv, NEW a \in Assoc, rec[a].live, rec[a].enabled,
                      a \notin excused, ~Locked(PathOf[a])
               PROVE  work[a] = EnqueuedFor(a, data[PathOf[a]])
    BY DEF EnabledHasWork
  <2>1. CASE rec[a] \in Settled[a]
    BY <2>1 DEF Settled, Enabled, EnqueuedFor
  <2>2. CASE rec[a] \notin Settled[a]
    <3>1. PICK x \in Client : client[x] \in Runs /\ Pending(client[x].todo, a)
      BY <2>2 DEF WorkInv, OwedIsPending
    <3>2. HasPath(client[x].held, a)
      BY <3>1, PendingHasPath DEF WorkInv, IndexInv, BaseInv, Planned
    <3>3. Running(x)
      BY <3>1, RunningIsRun DEF WorkInv, IndexInv, BaseInv
    <3> QED BY <3>2, <3>3 DEF Locked, Held, HasPath
  <2> QED BY <2>1, <2>2
<1> QED BY <1>1, <1>2, <1>3, PTL DEF Spec
=============================================================================
