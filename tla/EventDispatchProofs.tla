------------------------- MODULE EventDispatchProofs -------------------------
(***************************************************************************)
(* Proofs, for any number of operations, goroutines and passes and any     *)
(* limits, that a signal is not lost and that goroutines do not overlap    *)
(* unless Initialize gave up waiting (SignalNotLost and OneLoop of         *)
(* EventDispatch).                                                         *)
(*                                                                         *)
(* OneLoop follows from GoroutinesOK: every goroutine that is not current  *)
(* is cancelled, and before a new one starts the cancelled ones have       *)
(* exited or overlap says that they may not have.  SignalNotLost needs     *)
(* ToldOK: an operation a signal was sent for stays due and unclaimed      *)
(* while the gates are open, so the next list of due operations has it;    *)
(* and a pass that runs holds at most one operation, so a list it cuts off *)
(* at its limit is followed by another pass.                               *)
(***************************************************************************)
EXTENDS EventDispatch, FiniteSetTheorems, TLAPS

-----------------------------------------------------------------------------
(* The inductive invariant *)

OpRecord == [queued : BOOLEAN, due : Int,
             by : Runner \cup {Nobody, Abandoned}]

Pcs == {"none", "rest", "pass", "work", "exit"}

(* The timer is left out: when a pass starts makes no difference here. *)
TypesOK ==
    /\ op \in [Op -> OpRecord]
    /\ run \in [Runner -> [pc : Pcs, ids : Seq(Op), done : Nat]]
    /\ signal \subseteq Loop
    /\ cancelled \subseteq Loop
    /\ current \in Runner
    /\ init \in {"no", "wait", "start"}
    /\ starts \in Loop
    /\ cfg \in [events : BOOLEAN, stopped : BOOLEAN]
    /\ primary \in BOOLEAN
    /\ told \subseteq Op
    /\ overlap \in BOOLEAN
    /\ bound \in Bounds

Active(w) == run[w].pc \in {"rest", "pass", "work"}

(* Goroutines are numbered as they start.  One that runs is current or     *)
(* cancelled; the current one is neither cancelled nor gone.               *)
GoroutinesOK ==
    /\ \A w \in Loop : w > starts => run[w].pc = "none" /\ w \notin cancelled
    /\ \A w \in Loop : Active(w) => w = current \/ w \in cancelled
    /\ current # 0 => init = "no" /\ Active(current) /\ current \notin cancelled
    /\ init # "no" => starts < bound.starts

(* Goroutines that are not gone at the same time: after the wait all that  *)
(* were cancelled are gone.                                                *)
OverlapOK ==
    /\ init # "wait" => overlap \/ \A w \in cancelled : ~Active(w)
    /\ \A v, w \in Loop : v # w /\ Active(v) /\ Active(w) => overlap

(* A claim is held on a queued operation, and each pass holds one at most. *)
ClaimsOK ==
    /\ \A o \in Op : op[o].by # Nobody => op[o].queued
    /\ \A r \in Runner : \A o, p \in Holding(r) : o = p

(* What a signal was sent for is due and unclaimed, the gates are open and *)
(* there is a goroutine.                                                   *)
ToldOK ==
    /\ told \subseteq Waiting
    /\ told # {} => EventOpen /\ current # 0

LoopInv == TypesOK /\ GoroutinesOK /\ OverlapOK
SignalInv == ClaimsOK /\ ToldOK /\ SignalNotLost
DispatchInv == LoopInv /\ SignalInv

RunRecord == [pc : Pcs, ids : Seq(Op), done : Nat]

(* One operation of SignalNotLost. *)
Seen(o) ==
    \/ current \in signal
    \/ run[current].pc = "pass"
    \/ /\ run[current].pc = "work"
       /\ \/ o \in Range(run[current].ids)
          \/ run[current].done + Cardinality(Holding(current)) = MaxOperations

-----------------------------------------------------------------------------
(* Lists and numbers *)

LEMMA DueBeforeOrders ==
    ASSUME TypesOK, NEW S \in SUBSET Op
    PROVE  /\ \A o \in S : ~DueBefore(o, o)
           /\ \A o, p, q \in S :
                  DueBefore(o, p) /\ DueBefore(p, q) => DueBefore(o, q)
           /\ \A o, p \in S : o # p => DueBefore(o, p) \/ DueBefore(p, o)
<1>1. \A o \in S : op[o].due \in Int /\ o \in Nat
  BY EventDispatchAssumption DEF TypesOK, OpRecord
<1> QED
  BY <1>1 DEF DueBefore

(* Numbering the due operations by how many are before them. *)
Rank(o) == Cardinality({p \in DueOps : DueBefore(p, o)})

LEMMA RankFacts ==
    ASSUME TypesOK
    PROVE  /\ IsFiniteSet(DueOps) /\ Cardinality(DueOps) \in Nat
           /\ \A o \in DueOps : /\ Rank(o) \in Nat
                                /\ Rank(o) + 1 \in 1..Cardinality(DueOps)
           /\ \A o, p \in DueOps : DueBefore(o, p) => Rank(o) < Rank(p)
<1> DEFINE B(o) == {p \in DueOps : DueBefore(p, o)}
           n == Cardinality(DueOps)
<1>1. DueOps \subseteq Op
  BY DEF DueOps
<1>2. IsFiniteSet(DueOps) /\ n \in Nat
  BY <1>1, EventDispatchAssumption, FS_Subset, FS_CardinalityType
<1>3. \A o \in DueOps : IsFiniteSet(B(o)) /\ Rank(o) \in Nat
  BY <1>2, FS_Subset, FS_CardinalityType DEF Rank
<1>4. ASSUME NEW o \in DueOps PROVE Rank(o) + 1 \in 1..n
  <2>1. B(o) \in SUBSET DueOps /\ o \notin B(o)
    BY <1>1, DueBeforeOrders
  <2>2. Rank(o) <= n /\ n # Rank(o)
    BY <1>2, <2>1, FS_Subset DEF Rank
  <2>3. Rank(o) \in Nat
    BY <1>3
  <2> QED
    BY <1>2, <2>2, <2>3
<1>5. ASSUME NEW o \in DueOps, NEW p \in DueOps, DueBefore(o, p)
      PROVE  Rank(o) < Rank(p)
  <2>1. B(o) \in SUBSET B(p) /\ o \in B(p) /\ o \notin B(o)
    BY <1>1, <1>5, DueBeforeOrders
  <2>2. Rank(o) <= Rank(p) /\ Rank(p) # Rank(o)
    BY <1>3, <2>1, FS_Subset DEF Rank
  <2>3. Rank(o) \in Nat /\ Rank(p) \in Nat
    BY <1>3
  <2> QED
    BY <2>2, <2>3
<1> QED
  BY <1>2, <1>3, <1>4, <1>5

(* listDueOutboxIDs lists every due operation and nothing else. *)
LEMMA DueListFacts ==
    ASSUME TypesOK
    PROVE  DueList \in Seq(Op) /\ Range(DueList) = DueOps
<1> DEFINE n == Cardinality(DueOps)
           Sorted(s) == \A i, j \in 1..n : i < j => DueBefore(s[i], s[j])
           g == [o \in DueOps |-> Rank(o) + 1]
           t == [i \in 1..n |-> CHOOSE o \in DueOps : g[o] = i]
<1>1. DueOps \subseteq Op /\ IsFiniteSet(DueOps) /\ n \in Nat
  BY RankFacts DEF DueOps
<1>2. IsFiniteSet(1..n) /\ Cardinality(1..n) = n
  BY <1>1, FS_Interval
<1>3. \A o, p \in DueOps : o # p => DueBefore(o, p) \/ DueBefore(p, o)
  BY <1>1, DueBeforeOrders
<1>4. g \in [DueOps -> 1..n]
  BY RankFacts
<1>5. \A o, p \in DueOps : DueBefore(o, p) => g[o] < g[p]
  <2>1. \A o \in DueOps : Rank(o) \in Nat
    BY RankFacts
  <2>2. \A o, p \in DueOps : DueBefore(o, p) => Rank(o) < Rank(p)
    BY RankFacts
  <2> QED
    BY <2>1, <2>2
<1>6. g \in Surjection(DueOps, 1..n)
  <2>1. \A o, p \in DueOps : g[o] = g[p] => o = p
    BY <1>3, <1>4, <1>5
  <2>2. g \in Injection(DueOps, 1..n)
    BY <1>4, <2>1 DEF Injection, IsInjective
  <2> QED
    BY <1>2, <2>2, FS_Injection
<1>7. \A i \in 1..n : t[i] \in DueOps /\ g[t[i]] = i
  BY <1>6 DEF Surjection
<1>8. t \in [1..n -> DueOps] /\ Sorted(t)
  <2>1. t \in [1..n -> DueOps]
    BY <1>7
  <2>2. ASSUME NEW i \in 1..n, NEW j \in 1..n, i < j
        PROVE  DueBefore(t[i], t[j])
    <3>1. g[t[i]] < g[t[j]] /\ g[t[i]] \in Int /\ g[t[j]] \in Int
      BY <1>1, <1>7, <2>2
    <3> QED
      BY <1>3, <1>5, <1>7, <3>1
  <2> QED
    BY <2>1, <2>2
<1> HIDE DEF t, g
<1>9. DueList \in [1..n -> DueOps] /\ Sorted(DueList)
  BY <1>8 DEF DueList
<1>10. DueList \in Surjection(1..n, DueOps)
  <2>1. \A i, j \in 1..n : i # j => i < j \/ j < i
    BY <1>1
  <2>2. \A i, j \in 1..n : DueList[i] = DueList[j] => i = j
    BY <1>1, <1>9, <2>1, DueBeforeOrders
  <2>3. DueList \in Injection(1..n, DueOps)
    BY <1>9, <2>2 DEF Injection, IsInjective
  <2> QED
    BY <1>1, <1>2, <2>3, FS_Injection
<1>11. Range(DueList) = DueOps
  BY <1>9, <1>10 DEF Range, Surjection
<1>12. DueList \in Seq(Op)
  BY <1>1, <1>9
<1> QED
  BY <1>11, <1>12

(* What is left of a list once its first element is taken. *)
LEMMA TailRange ==
    ASSUME NEW s \in Seq(Op), s # << >>
    PROVE  /\ Head(s) \in Op /\ Tail(s) \in Seq(Op)
           /\ \A o \in Range(s) : o = Head(s) \/ o \in Range(Tail(s))
<1>1. Head(s) \in Op /\ Tail(s) \in Seq(Op) /\ Head(s) = s[1]
  OBVIOUS
<1>2. Len(s) \in Nat \ {0} /\ DOMAIN s = 1..Len(s)
  OBVIOUS
<1>3. DOMAIN Tail(s) = 1..(Len(s) - 1)
      /\ \A i \in 1..(Len(s) - 1) : Tail(s)[i] = s[i + 1]
  BY <1>2
<1>4. ASSUME NEW i \in 1..Len(s), i # 1 PROVE s[i] \in Range(Tail(s))
  <2>1. i - 1 \in 1..(Len(s) - 1) /\ i - 1 + 1 = i
    BY <1>2, <1>4
  <2>2. Tail(s)[i - 1] = s[i]
    BY <1>3, <2>1
  <2> QED
    BY <1>3, <2>1, <2>2 DEF Range
<1> QED
  BY <1>1, <1>2, <1>4 DEF Range

(* The passes and the two who are not one. *)
LEMMA Parties ==
    /\ MaxStarts \in Nat \ {0}
    /\ Loop \subseteq Runner /\ Periodic \in Runner /\ Periodic \notin Loop
    /\ 0 \in Runner /\ Runner \subseteq Nat
    /\ \A r \in Runner : r # 0 => r \in Loop
    /\ Nobody \notin Runner /\ Abandoned \notin Runner /\ Nobody # Abandoned
  BY EventDispatchAssumption
     DEF Loop, Runner, Periodic, Nobody, Abandoned

(* Holding at most one operation, a pass holds as many as a number. *)
LEMMA HoldingCount ==
    ASSUME TypesOK, ClaimsOK, NEW r \in Runner
    PROVE  /\ Cardinality(Holding(r)) \in Nat
           /\ Holding(r) = {} => Cardinality(Holding(r)) = 0
           /\ Holding(r) # {} => Cardinality(Holding(r)) = 1
<1>1. CASE Holding(r) = {}
  BY <1>1, FS_EmptySet
<1>2. CASE Holding(r) # {}
  <2>1. PICK o \in Holding(r) : TRUE
    BY <1>2
  <2>2. Holding(r) = {o}
    BY <2>1 DEF ClaimsOK
  <2>3. Cardinality({o}) = 1
    BY FS_Singleton
  <2> QED
    BY <1>2, <2>2, <2>3
<1> QED
  BY <1>1, <1>2

-----------------------------------------------------------------------------
(* What keeps each part of the invariant *)

(* No goroutine starts, stops or moves. *)
LEMMA LoopsStay ==
    ASSUME LoopInv,
           UNCHANGED <<run, cancelled, current, init, starts, overlap, bound>>,
           op' \in [Op -> OpRecord], signal' \subseteq Loop, told' \subseteq Op,
           cfg' \in [events : BOOLEAN, stopped : BOOLEAN], primary' \in BOOLEAN
    PROVE  LoopInv'
<1>1. TypesOK'
  BY DEF LoopInv, TypesOK
<1>2. \A w : Active(w)' = Active(w)
  BY DEF Active
<1>3. GoroutinesOK' /\ OverlapOK'
  BY <1>2 DEF LoopInv, GoroutinesOK, OverlapOK, Active
<1> QED
  BY <1>1, <1>3 DEF LoopInv

(* One pass moves on; only a cancelled goroutine exits. *)
LEMMA PassMoves ==
    ASSUME LoopInv, NEW r \in Runner, Active(r), NEW x \in RunRecord,
           run' = [run EXCEPT ![r] = x],
           \/ x.pc \in {"rest", "pass", "work"}
           \/ x.pc = "exit" /\ r \in cancelled,
           UNCHANGED <<cancelled, current, init, starts, overlap, bound, cfg,
                       primary>>,
           op' \in [Op -> OpRecord], signal' \subseteq Loop, told' \subseteq Op
    PROVE  LoopInv'
<1>1. run' \in [Runner -> RunRecord]
  BY DEF LoopInv, TypesOK, RunRecord
<1>2. TypesOK'
  BY <1>1 DEF LoopInv, TypesOK, RunRecord
<1>3. run'[r] = x /\ \A w \in Runner : w # r => run'[w] = run[w]
  BY DEF LoopInv, TypesOK
<1>4. /\ \A w \in Loop : w \in Runner
      /\ current \in Runner /\ cancelled \subseteq Loop /\ starts \in Nat
  BY Parties DEF LoopInv, TypesOK
<1>5. r \in Loop => ~(r > starts)
  BY DEF LoopInv, GoroutinesOK, Active
<1>6. GoroutinesOK'
  <2>1. \A w \in Loop : w > starts => run'[w].pc = "none" /\ w \notin cancelled
    BY <1>3, <1>4, <1>5 DEF LoopInv, GoroutinesOK
  <2>2. \A w \in Loop : run'[w].pc \in {"rest", "pass", "work"} =>
                            w = current \/ w \in cancelled
    BY <1>3, <1>4 DEF LoopInv, GoroutinesOK, Active
  <2>3. current # 0 => /\ init = "no" /\ current \notin cancelled
                       /\ run'[current].pc \in {"rest", "pass", "work"}
    BY <1>3, <1>4 DEF LoopInv, GoroutinesOK, Active
  <2> QED
    BY <2>1, <2>2, <2>3 DEF LoopInv, GoroutinesOK, Active
<1>7. OverlapOK'
  <2>1. \A w \in Loop : run'[w].pc \in {"rest", "pass", "work"} => Active(w)
    BY <1>3, <1>4 DEF Active
  <2>2. OverlapOK
    BY DEF LoopInv
  <2> QED
    BY <1>4, <2>1, <2>2 DEF OverlapOK, Active
<1> QED
  BY <1>2, <1>6, <1>7 DEF LoopInv

(* Nothing that SignalNotLost looks at changes for the current goroutine. *)
LEMMA SeenStays ==
    ASSUME NEW o, Seen(o), current' = current,
           run'[current] = run[current],
           current \in signal => current \in signal',
           Holding(current)' = Holding(current)
    PROVE  Seen(o)'
<1>1. Cardinality(Holding(current))' = Cardinality(Holding(current))
  OBVIOUS
<1> QED
  BY <1>1 DEF Seen

LEMMA SignalNotLostSeen == SignalNotLost <=> \A o \in told : Seen(o)
  BY DEF SignalNotLost, Seen

(* The outbox and what was told stay, the current goroutine has the        *)
(* signal or is where it was, or in front of a pass.                       *)
LEMMA SignalStays ==
    ASSUME LoopInv, SignalInv, UNCHANGED <<op, told, cfg, primary, current>>,
           \/ /\ run'[current] = run[current]
              /\ current \in signal => current \in signal'
           \/ run'[current].pc = "pass"
           \/ told = {}
    PROVE  SignalInv'
<1>1. /\ \A r : Holding(r)' = Holding(r)
      /\ Waiting' = Waiting
  BY DEF Holding, Waiting, Due
<1>2. ClaimsOK'
  BY <1>1 DEF SignalInv, ClaimsOK
<1>3. ToldOK'
  BY <1>1 DEF SignalInv, ToldOK, EventOpen, Open
<1>4. ASSUME NEW o \in told PROVE Seen(o)'
  <2>1. Seen(o)
    BY SignalNotLostSeen DEF SignalInv
  <2>2. CASE run'[current] = run[current]
             /\ (current \in signal => current \in signal')
    BY <1>1, <2>1, <2>2, SeenStays
  <2>3. CASE run'[current].pc = "pass"
    BY <2>3 DEF Seen
  <2> QED
    BY <1>4, <2>2, <2>3
<1>5. SignalNotLost'
  BY <1>4 DEF SignalNotLost, Seen
<1> QED
  BY <1>2, <1>3, <1>5 DEF SignalInv

-----------------------------------------------------------------------------
(* Requests *)

LEMMA EnqueueKeeps ==
    ASSUME DispatchInv, NEW o \in Op, Enqueue(o)
    PROVE  DispatchInv'
<1> DEFINE new == [queued |-> TRUE, due |-> 0, by |-> Nobody]
<1>1. /\ ~op[o].queued
      /\ op' = [op EXCEPT ![o] = new]
      /\ signal' = IF current # 0 THEN signal \cup {current} ELSE signal
      /\ told' = IF current # 0 /\ EventOpen THEN told \cup {o} ELSE told
      /\ UNCHANGED <<run, cancelled, timer, current, init, starts, overlap,
                     cfg, primary, bound>>
  BY DEF Enqueue, SignalEventDispatch, gateVars
<1>2. LoopInv /\ TypesOK /\ ClaimsOK /\ ToldOK /\ SignalNotLost
  BY DEF DispatchInv, LoopInv, SignalInv
<1>3. /\ op \in [Op -> OpRecord] /\ current \in Runner /\ signal \subseteq Loop
      /\ told \subseteq Op
  BY <1>2 DEF TypesOK
<1>4. op' \in [Op -> OpRecord] /\ signal' \subseteq Loop /\ told' \subseteq Op
  BY <1>1, <1>3, Parties DEF OpRecord
<1>5. LoopInv'
  BY <1>1, <1>2, <1>4, LoopsStay DEF TypesOK
<1>6. op'[o] = new /\ \A p \in Op : p # o => op'[p] = op[p]
  BY <1>1, <1>3
<1>7. op[o].by = Nobody
  BY <1>1, <1>2 DEF ClaimsOK
<1>8. \A r \in Runner : Holding(r)' = Holding(r)
  BY <1>6, <1>7, Parties DEF Holding
<1>9. ClaimsOK'
  <2>1. \A p \in Op : op'[p].by # Nobody => op'[p].queued
    BY <1>2, <1>6 DEF ClaimsOK
  <2> QED
    BY <1>2, <1>8, <2>1 DEF ClaimsOK
<1>10. ToldOK'
  <2>1. o \in Waiting'
    BY <1>6 DEF Waiting, Due
  <2>2. Waiting \ {o} \subseteq Waiting'
    BY <1>6 DEF Waiting, Due
  <2>3. EventOpen' = EventOpen
    BY <1>1 DEF EventOpen, Open
  <2> QED
    BY <1>1, <1>2, <2>1, <2>2, <2>3 DEF ToldOK
<1>11. SignalNotLost'
  <2>1. ASSUME NEW p \in told' PROVE current' \in signal'
    BY <1>1, <1>2, <2>1 DEF ToldOK
  <2> QED
    BY <2>1 DEF SignalNotLost
<1> QED
  BY <1>5, <1>9, <1>10, <1>11 DEF DispatchInv, SignalInv

LEMMA ConfigWriteKeeps ==
    ASSUME DispatchInv, NEW new \in [events : BOOLEAN, stopped : BOOLEAN],
           ConfigWrite(new)
    PROVE  DispatchInv'
<1>1. /\ cfg' = new
      /\ UNCHANGED <<op, run, cancelled, current, init, starts, overlap,
                     primary, bound>>
      /\ signal' = IF Resumes(cfg, new) /\ current # 0
                   THEN signal \cup {current} ELSE signal
      /\ told' = IF ~EventOpen' THEN {}
                 ELSE IF Resumes(cfg, new) /\ current # 0 THEN Waiting
                 ELSE told
  BY DEF ConfigWrite, SignalEventDispatch
<1>2. LoopInv /\ TypesOK /\ ClaimsOK /\ ToldOK /\ SignalNotLost
  BY DEF DispatchInv, LoopInv, SignalInv
<1>3. op \in [Op -> OpRecord] /\ current \in Runner /\ signal \subseteq Loop
      /\ told \subseteq Op /\ primary \in BOOLEAN
  BY <1>2 DEF TypesOK
<1>4. signal' \subseteq Loop /\ told' \subseteq Op /\ Waiting \subseteq Op
  BY <1>1, <1>3, Parties DEF Waiting
<1>5. LoopInv'
  BY <1>1, <1>2, <1>3, <1>4, LoopsStay
<1>6. (\A r : Holding(r)' = Holding(r)) /\ Waiting' = Waiting
  BY <1>1 DEF Holding, Waiting, Due
<1>7. ClaimsOK'
  BY <1>1, <1>2, <1>6 DEF ClaimsOK
<1>8. ToldOK'
  BY <1>1, <1>2, <1>6 DEF ToldOK
<1>9. ASSUME NEW o \in told' PROVE Seen(o)'
  <2>1. CASE Resumes(cfg, new) /\ current # 0
    BY <1>1, <2>1 DEF Seen
  <2>2. CASE ~(Resumes(cfg, new) /\ current # 0)
    <3>1. o \in told /\ Seen(o)
      BY <1>1, <1>2, <1>9, <2>2, SignalNotLostSeen
    <3> QED
      BY <1>1, <1>6, <3>1, SeenStays
  <2> QED
    BY <2>1, <2>2
<1>10. SignalNotLost'
  BY <1>9 DEF SignalNotLost, Seen
<1> QED
  BY <1>5, <1>7, <1>8, <1>10 DEF DispatchInv, SignalInv

LEMMA ReplicationChangeKeeps ==
    ASSUME DispatchInv, ReplicationChange
    PROVE  DispatchInv'
<1>1. /\ primary' = ~primary
      /\ told' = IF primary THEN {} ELSE told
      /\ UNCHANGED <<op, run, signal, cancelled, current, init, starts,
                     overlap, cfg, bound>>
  BY DEF ReplicationChange, loopVars
<1>2. LoopInv /\ TypesOK /\ ClaimsOK /\ ToldOK /\ SignalNotLost
  BY DEF DispatchInv, LoopInv, SignalInv
<1>3. told' = {}
  BY <1>1, <1>2 DEF ToldOK, EventOpen, Open
<1>4. LoopInv'
  BY <1>1, <1>2, <1>3, LoopsStay DEF TypesOK
<1>5. \A r : Holding(r)' = Holding(r)
  BY <1>1 DEF Holding
<1>6. ClaimsOK'
  BY <1>1, <1>2, <1>5 DEF ClaimsOK
<1>7. ToldOK' /\ SignalNotLost'
  BY <1>3 DEF ToldOK, SignalNotLost
<1> QED
  BY <1>4, <1>6, <1>7 DEF DispatchInv, SignalInv

-----------------------------------------------------------------------------
(* Initialize and cleanup *)

LEMMA StopKeeps ==
    ASSUME DispatchInv, Stop
    PROVE  DispatchInv'
<1>1. /\ init = "no" /\ init' = "wait" /\ starts < bound.starts
      /\ cancelled' = IF current # 0 THEN cancelled \cup {current}
                      ELSE cancelled
      /\ current' = 0 /\ told' = {}
      /\ UNCHANGED <<op, run, signal, starts, overlap, cfg, primary, bound>>
  BY DEF Stop, gateVars
<1>2. TypesOK /\ GoroutinesOK /\ OverlapOK /\ ClaimsOK
  BY DEF DispatchInv, LoopInv, SignalInv
<1>3. current \in Runner /\ cancelled \subseteq Loop
  BY <1>2 DEF TypesOK
<1>4. TypesOK'
  BY <1>1, <1>2, <1>3, Parties DEF TypesOK
<1>5. current # 0 => current \in Loop /\ ~(current > starts)
  BY <1>2, <1>3, Parties DEF GoroutinesOK, Active
<1>6. GoroutinesOK'
  <2>1. \A w \in Loop : w > starts => run[w].pc = "none" /\ w \notin cancelled'
    BY <1>1, <1>2, <1>5 DEF GoroutinesOK
  <2>2. \A w \in Loop : Active(w) => w \in cancelled'
    BY <1>1, <1>2, Parties DEF GoroutinesOK, Loop
  <2> QED
    BY <1>1, <2>1, <2>2 DEF GoroutinesOK, Active
<1>7. OverlapOK'
  BY <1>1, <1>2 DEF OverlapOK, Active
<1>8. ClaimsOK'
  BY <1>1, <1>2 DEF ClaimsOK, Holding
<1>9. ToldOK' /\ SignalNotLost'
  BY <1>1 DEF ToldOK, SignalNotLost
<1> QED
  BY <1>4, <1>6, <1>7, <1>8, <1>9 DEF DispatchInv, LoopInv, SignalInv

(* The wait is over: the cancelled goroutines are gone, or overlap. *)
LEMMA StopDoneKeeps ==
    ASSUME DispatchInv, StopDone
    PROVE  DispatchInv'
<1>1. /\ init = "wait" /\ init' = "start"
      /\ overlap' = (overlap \/ \E w \in cancelled : run[w].pc # "exit")
      /\ UNCHANGED <<op, run, signal, cancelled, current, starts, told, cfg,
                     primary, bound>>
  BY DEF StopDone, StopReturns, gateVars
<1>2. TypesOK /\ GoroutinesOK /\ OverlapOK /\ SignalInv /\ LoopInv
  BY DEF DispatchInv, LoopInv
<1>3. overlap' \in BOOLEAN /\ (overlap => overlap')
  BY <1>1, <1>2 DEF TypesOK
<1>4. TypesOK'
  BY <1>1, <1>2, <1>3 DEF TypesOK
<1>5. GoroutinesOK'
  BY <1>1, <1>2 DEF GoroutinesOK, Active
<1>6. overlap' \/ \A w \in cancelled : run[w].pc = "exit"
  BY <1>1
<1>7. OverlapOK'
  BY <1>1, <1>2, <1>3, <1>6 DEF OverlapOK, Active
<1>8. SignalInv'
  BY <1>1, <1>2, SignalStays
<1> QED
  BY <1>4, <1>5, <1>7, <1>8 DEF DispatchInv, LoopInv

LEMMA StartKeeps ==
    ASSUME DispatchInv, Start
    PROVE  DispatchInv'
<1>1. /\ init = "start" /\ init' = "no"
      /\ starts' = starts + 1 /\ current' = starts + 1
      /\ run' = [run EXCEPT ![starts + 1] = Resting]
      /\ UNCHANGED <<op, signal, cancelled, overlap, told, cfg, primary, bound>>
  BY DEF Start, gateVars
<1>2. TypesOK /\ GoroutinesOK /\ OverlapOK /\ ClaimsOK /\ ToldOK
  BY DEF DispatchInv, LoopInv, SignalInv
<1>3. starts + 1 \in Loop /\ starts \in Nat /\ starts + 1 \in Runner
  <2>1. starts < bound.starts /\ bound \in Bounds
    BY <1>1, <1>2 DEF GoroutinesOK, TypesOK
  <2>2. bound.starts \in 1..MaxStarts /\ starts \in 1..MaxStarts
    BY <1>2, <2>1, EventDispatchAssumption DEF TypesOK, Loop
  <2> QED
    BY <2>1, <2>2, Parties DEF Loop
<1>4. /\ run'[starts + 1].pc = "rest" /\ run' \in [Runner -> RunRecord]
      /\ \A w \in Runner : w # starts + 1 => run'[w] = run[w]
  BY <1>1, <1>2, <1>3 DEF TypesOK, Resting, RunRecord, Pcs
<1>5. TypesOK'
  BY <1>1, <1>2, <1>3, <1>4 DEF TypesOK, RunRecord
<1>6. current = 0 /\ told = {}
  BY <1>1, <1>2 DEF GoroutinesOK, ToldOK
<1>7. /\ starts + 1 \notin cancelled
      /\ \A w \in Loop : w > starts + 1 => w > starts /\ w # starts + 1
      /\ Loop \subseteq Runner /\ 0 \notin Loop
  BY <1>2, <1>3, Parties DEF GoroutinesOK, Loop, TypesOK
<1>8. GoroutinesOK'
  <2>1. \A w \in Loop : w > starts + 1 =>
                            run'[w].pc = "none" /\ w \notin cancelled
    BY <1>2, <1>4, <1>7 DEF GoroutinesOK
  <2>2. \A w \in Loop : run'[w].pc \in {"rest", "pass", "work"} =>
                            w = starts + 1 \/ w \in cancelled
    BY <1>2, <1>4, <1>6, <1>7 DEF GoroutinesOK, Active
  <2> QED
    BY <1>1, <1>4, <1>7, <2>1, <2>2 DEF GoroutinesOK, Active
<1>9. OverlapOK'
  <2>1. overlap \/ \A w \in cancelled : ~Active(w)
    BY <1>1, <1>2 DEF OverlapOK
  <2>2. \A w \in Loop : w # starts + 1 /\ Active(w) => w \in cancelled
    BY <1>2, <1>6, <1>7 DEF GoroutinesOK
  <2>3. \A w \in Loop : w # starts + 1 =>
                            (run'[w].pc \in {"rest", "pass", "work"} <=> Active(w))
    BY <1>4, <1>7 DEF Active
  <2>4. cancelled \subseteq Loop
    BY <1>2 DEF TypesOK
  <2>5. overlap \/ \A w \in cancelled : run'[w].pc \notin {"rest", "pass", "work"}
    BY <1>7, <2>1, <2>3, <2>4
  <2>6. \A v, w \in Loop : v # w /\ run'[v].pc \in {"rest", "pass", "work"}
                               /\ run'[w].pc \in {"rest", "pass", "work"}
                            => overlap
    BY <2>1, <2>2, <2>3
  <2> QED
    BY <1>1, <2>5, <2>6 DEF OverlapOK, Active
<1>10. ClaimsOK'
  BY <1>1, <1>2 DEF ClaimsOK, Holding
<1>11. ToldOK' /\ SignalNotLost'
  BY <1>1, <1>6 DEF ToldOK, SignalNotLost
<1> QED
  BY <1>5, <1>8, <1>9, <1>10, <1>11 DEF DispatchInv, LoopInv, SignalInv

LEMMA NotStartedKeeps ==
    ASSUME DispatchInv, NotStarted
    PROVE  DispatchInv'
<1>1. /\ init = "start" /\ init' = "no"
      /\ UNCHANGED <<op, run, signal, cancelled, current, starts, overlap,
                     told, cfg, primary, bound>>
  BY DEF NotStarted, gateVars
<1>2. TypesOK /\ GoroutinesOK /\ OverlapOK /\ SignalInv /\ LoopInv
  BY DEF DispatchInv, LoopInv
<1>3. TypesOK'
  BY <1>1, <1>2 DEF TypesOK
<1>4. GoroutinesOK' /\ OverlapOK'
  BY <1>1, <1>2 DEF GoroutinesOK, OverlapOK, Active
<1>5. SignalInv'
  BY <1>1, <1>2, SignalStays
<1> QED
  BY <1>3, <1>4, <1>5 DEF DispatchInv, LoopInv

-----------------------------------------------------------------------------
(* The goroutine and the passes *)

(* A pass that comes to be in front of a pass, with the outbox as it was:  *)
(* Receive, TimerFires, Tick, PassRepeats.                                 *)
LEMMA NextPassKeeps ==
    ASSUME DispatchInv, NEW r \in Runner, Active(r), NEW x \in RunRecord,
           x.pc = "pass", run' = [run EXCEPT ![r] = x],
           signal' \subseteq signal, signal \ {r} \subseteq signal',
           UNCHANGED <<op, cancelled, current, init, starts, overlap, cfg,
                       primary, told, bound>>
    PROVE  DispatchInv'
<1>1. LoopInv /\ SignalInv /\ TypesOK
  BY DEF DispatchInv, LoopInv
<1>2. LoopInv'
  BY <1>1, PassMoves DEF TypesOK
<1>3. /\ current \in Runner
      /\ run'[r].pc = "pass" /\ \A w \in Runner : w # r => run'[w] = run[w]
  BY <1>1 DEF TypesOK
<1>4. SignalInv'
  BY <1>1, <1>3, SignalStays
<1> QED
  BY <1>2, <1>4 DEF DispatchInv

(* A pass that ends or begins while nothing was told, or one of another    *)
(* goroutine: Exit, Blocked, PassEnd, PeriodicEnd, Begin.                  *)
LEMMA OtherPassKeeps ==
    ASSUME DispatchInv, NEW r \in Runner, Active(r), NEW x \in RunRecord,
           run' = [run EXCEPT ![r] = x],
           \/ x.pc \in {"rest", "pass", "work"}
           \/ x.pc = "exit" /\ r \in cancelled,
           signal' \subseteq signal, signal \ {r} \subseteq signal',
           r # current \/ told = {},
           UNCHANGED <<op, cancelled, current, init, starts, overlap, cfg,
                       primary, told, bound>>
    PROVE  DispatchInv'
<1>1. LoopInv /\ SignalInv /\ TypesOK
  BY DEF DispatchInv, LoopInv
<1>2. LoopInv'
  BY <1>1, PassMoves DEF TypesOK
<1>3. current \in Runner /\ \A w \in Runner : w # r => run'[w] = run[w]
  BY <1>1 DEF TypesOK
<1>4. SignalInv'
  BY <1>1, <1>3, SignalStays
<1> QED
  BY <1>2, <1>4 DEF DispatchInv

(* What a change of the pc alone leaves. *)
LEMMA PhaseFacts ==
    ASSUME TypesOK, NEW r \in Runner, NEW pc \in Pcs, Phase(r, pc)
    PROVE  \E x \in RunRecord :
               x = [run[r] EXCEPT !.pc = pc] /\ x.pc = pc
                   /\ run' = [run EXCEPT ![r] = x]
<1> DEFINE x == [run[r] EXCEPT !.pc = pc]
<1>1. x \in RunRecord /\ x.pc = pc
  BY DEF TypesOK, RunRecord
<1>2. run' = [run EXCEPT ![r] = x]
  BY DEF Phase
<1> QED
  BY <1>1, <1>2

LEMMA RestingFacts ==
    /\ Resting \in RunRecord /\ Resting.pc = "rest"
    /\ [Resting EXCEPT !.pc = "pass"] \in RunRecord
    /\ [Resting EXCEPT !.pc = "pass"].pc = "pass"
<1>1. Resting \in RunRecord /\ Resting.pc = "rest"
  BY DEF Resting, RunRecord, Pcs
<1> QED
  BY <1>1 DEF RunRecord, Pcs

LEMMA SelectKeeps ==
    ASSUME DispatchInv, NEW w \in Loop, Select(w)
    PROVE  DispatchInv'
<1>1. TypesOK /\ GoroutinesOK /\ w \in Runner /\ Active(w)
  BY Parties DEF DispatchInv, LoopInv, Select, Receive, TimerFires, Exit, Active
<1>2. CASE Receive(w)
  <2>1. /\ signal' = signal \ {w} /\ Phase(w, "pass")
        /\ UNCHANGED <<op, cancelled, current, init, starts, overlap, cfg,
                       primary, told, bound>>
    BY <1>2 DEF Receive, gateVars
  <2>2. PICK x \in RunRecord : x.pc = "pass" /\ run' = [run EXCEPT ![w] = x]
    BY <1>1, <2>1, PhaseFacts DEF Pcs
  <2> QED
    BY <1>1, <2>1, <2>2, NextPassKeeps
<1>3. CASE TimerFires(w)
  <2>1. /\ signal' = signal /\ Phase(w, "pass")
        /\ UNCHANGED <<op, cancelled, current, init, starts, overlap, cfg,
                       primary, told, bound>>
    BY <1>3 DEF TimerFires, gateVars
  <2>2. PICK x \in RunRecord : x.pc = "pass" /\ run' = [run EXCEPT ![w] = x]
    BY <1>1, <2>1, PhaseFacts DEF Pcs
  <2> QED
    BY <1>1, <2>1, <2>2, NextPassKeeps
<1>4. CASE Exit(w)
  <2>1. /\ signal' = signal \ {w} /\ Phase(w, "exit") /\ w \in cancelled
        /\ UNCHANGED <<op, cancelled, current, init, starts, overlap, cfg,
                       primary, told, bound>>
    BY <1>4 DEF Exit, gateVars
  <2>2. PICK x \in RunRecord : x.pc = "exit" /\ run' = [run EXCEPT ![w] = x]
    BY <1>1, <2>1, PhaseFacts DEF Pcs
  <2>3. w # current
    BY <1>1, <2>1, Parties DEF GoroutinesOK, Loop
  <2> QED
    BY <1>1, <2>1, <2>2, <2>3, OtherPassKeeps
<1> QED
  BY <1>2, <1>3, <1>4 DEF Select

LEMMA TickKeeps ==
    ASSUME DispatchInv, Tick
    PROVE  DispatchInv'
<1>1. TypesOK /\ Periodic \in Runner /\ Active(Periodic)
  BY Parties DEF DispatchInv, LoopInv, Tick, Active
<1>2. /\ Phase(Periodic, "pass")
      /\ UNCHANGED <<op, signal, cancelled, current, init, starts, overlap,
                     cfg, primary, told, bound>>
  BY DEF Tick, gateVars, loopVars
<1>3. PICK x \in RunRecord :
          x.pc = "pass" /\ run' = [run EXCEPT ![Periodic] = x]
  BY <1>1, <1>2, PhaseFacts DEF Pcs
<1> QED
  BY <1>1, <1>2, <1>3, NextPassKeeps

(* The list of due operations has everything that was told. *)
LEMMA BeginKeeps ==
    ASSUME DispatchInv, NEW r \in Runner, Begin(r)
    PROVE  DispatchInv'
<1> DEFINE x == [pc |-> "work", done |-> 0, ids |-> DueList]
<1>1. LoopInv /\ TypesOK /\ ClaimsOK /\ ToldOK /\ SignalNotLost /\ Active(r)
  BY DEF DispatchInv, LoopInv, SignalInv, Begin, Active
<1>2. /\ run' = [run EXCEPT ![r] = x]
      /\ UNCHANGED <<op, signal, cancelled, current, init, starts, overlap,
                     cfg, primary, told, bound>>
  BY DEF Begin, gateVars, loopVars
<1>3. x \in RunRecord /\ x.pc = "work" /\ x.ids = DueList
  BY <1>1, DueListFacts DEF RunRecord, Pcs
<1>4. CASE r # current
  BY <1>1, <1>2, <1>3, <1>4, OtherPassKeeps
<1>5. CASE r = current
  <2> HIDE DEF x
  <2>1. LoopInv'
    BY <1>1, <1>2, <1>3, PassMoves DEF TypesOK
  <2>2. Waiting' = Waiting /\ \A q : Holding(q)' = Holding(q)
    BY <1>2 DEF Waiting, Due, Holding
  <2>3. ClaimsOK'
    BY <1>1, <1>2, <2>2 DEF ClaimsOK
  <2>4. ToldOK'
    BY <1>1, <1>2, <2>2 DEF ToldOK, EventOpen, Open
  <2>5. told \subseteq Range(DueList)
    BY <1>1, DueListFacts DEF ToldOK, Waiting, DueOps
  <2>6. run'[current'] = x
    BY <1>1, <1>2, <1>5 DEF TypesOK
  <2>7. SignalNotLost'
    BY <1>2, <1>3, <2>5, <2>6 DEF SignalNotLost
  <2> QED
    BY <2>1, <2>3, <2>4, <2>7 DEF DispatchInv, SignalInv
<1> QED
  BY <1>4, <1>5

(* The current goroutine is blocked only by a closed gate. *)
LEMMA BlockedKeeps ==
    ASSUME DispatchInv, NEW r \in Runner, Blocked(r)
    PROVE  DispatchInv'
<1>1. TypesOK /\ GoroutinesOK /\ ToldOK /\ Active(r)
  BY DEF DispatchInv, LoopInv, SignalInv, Blocked, Active
<1>2. /\ Phase(r, "rest") /\ ~Allowed(r)
      /\ UNCHANGED <<op, signal, cancelled, current, init, starts, overlap,
                     cfg, primary, told, bound>>
  BY DEF Blocked, gateVars
<1>3. PICK x \in RunRecord : x.pc = "rest" /\ run' = [run EXCEPT ![r] = x]
  BY <1>1, <1>2, PhaseFacts DEF Pcs
<1>4. r # current \/ told = {}
  BY <1>1, <1>2 DEF GoroutinesOK, ToldOK, Allowed, Periodic
<1> QED
  BY <1>1, <1>2, <1>3, <1>4, OtherPassKeeps

(* Passes that end. *)
LEMMA PassRepeatsKeeps ==
    ASSUME DispatchInv, NEW w \in Loop, PassRepeats(w)
    PROVE  DispatchInv'
<1>1. w \in Runner /\ Active(w)
  BY Parties DEF PassRepeats, Active
<1>2. /\ run' = [run EXCEPT ![w] = [Resting EXCEPT !.pc = "pass"]]
      /\ UNCHANGED <<op, signal, cancelled, current, init, starts, overlap,
                     cfg, primary, told, bound>>
  BY DEF PassRepeats, gateVars, loopVars
<1> QED
  BY <1>1, <1>2, RestingFacts, NextPassKeeps

LEMMA PassEndKeeps ==
    ASSUME DispatchInv, NEW w \in Loop, PassEnd(w)
    PROVE  DispatchInv'
<1>1. w \in Runner /\ Active(w) /\ TypesOK /\ ClaimsOK /\ SignalNotLost
  BY Parties DEF PassEnd, Active, DispatchInv, LoopInv, SignalInv
<1>2. /\ run' = [run EXCEPT ![w] = Resting]
      /\ UNCHANGED <<op, signal, cancelled, current, init, starts, overlap,
                     cfg, primary, told, bound>>
  BY DEF PassEnd, gateVars
<1>3. CASE w # current \/ told = {}
  BY <1>1, <1>2, <1>3, RestingFacts, OtherPassKeeps
<1>4. CASE w = current /\ told # {}
  <2>1. PICK o \in told : Seen(o)
    BY <1>1, <1>4, SignalNotLostSeen
  <2>2. /\ run[w].pc = "work" /\ run[w].ids = << >> /\ Holding(w) = {}
        /\ run[w].done < MaxOperations
    BY DEF PassEnd
  <2>3. run[w].done + Cardinality(Holding(w)) # MaxOperations
    <3>1. run[w].done \in Nat /\ Cardinality(Holding(w)) = 0
      BY <1>1, <2>2, FS_EmptySet DEF TypesOK
    <3> QED
      BY <2>2, <3>1, EventDispatchAssumption
  <2>4. o \notin Range(run[w].ids)
    BY <2>2 DEF Range
  <2>5. current \in signal
    BY <1>4, <2>1, <2>2, <2>3, <2>4 DEF Seen
  <2>6. LoopInv /\ SignalInv
    BY DEF DispatchInv
  <2>7. LoopInv'
    BY <1>1, <1>2, <2>6, RestingFacts, PassMoves DEF TypesOK
  <2>8. Waiting' = Waiting /\ \A q : Holding(q)' = Holding(q)
    BY <1>2 DEF Waiting, Due, Holding
  <2>9. ClaimsOK' /\ ToldOK'
    BY <1>2, <2>6, <2>8 DEF SignalInv, ClaimsOK, ToldOK, EventOpen, Open
  <2>10. SignalNotLost'
    BY <1>2, <2>5 DEF SignalNotLost
  <2> QED
    BY <2>7, <2>9, <2>10 DEF DispatchInv, SignalInv
<1> QED
  BY <1>3, <1>4

LEMMA PeriodicEndKeeps ==
    ASSUME DispatchInv, PeriodicEnd
    PROVE  DispatchInv'
<1>1. Periodic \in Runner /\ Active(Periodic) /\ ToldOK
  BY Parties DEF PeriodicEnd, Active, DispatchInv, SignalInv
<1>2. /\ run' = [run EXCEPT ![Periodic] = Resting]
      /\ UNCHANGED <<op, signal, cancelled, current, init, starts, overlap,
                     cfg, primary, told, bound>>
  BY DEF PeriodicEnd, gateVars, loopVars
<1>3. Periodic # current \/ told = {}
  BY <1>1 DEF ToldOK, Periodic
<1> QED
  BY <1>1, <1>2, <1>3, RestingFacts, OtherPassKeeps

-----------------------------------------------------------------------------
(* Claims *)

(* A pass takes the first operation of its list, if it is still free. *)
LEMMA ClaimKeeps ==
    ASSUME DispatchInv, NEW r \in Runner, Claim(r)
    PROVE  DispatchInv'
<1> DEFINE c == Head(run[r].ids)
           x == [run[r] EXCEPT !.ids = Tail(run[r].ids)]
           taken == c \in Waiting /\ Open
<1>1. LoopInv /\ TypesOK /\ ClaimsOK /\ ToldOK /\ SignalNotLost /\ Active(r)
  BY DEF DispatchInv, LoopInv, SignalInv, Claim, Active
<1>2. /\ run[r].pc = "work" /\ Holding(r) = {}
      /\ run[r].done < Limit(r) /\ run[r].ids # << >>
      /\ run' = [run EXCEPT ![r] = x]
      /\ IF taken THEN op' = [op EXCEPT ![c].by = r] /\ told' = told \ {c}
         ELSE UNCHANGED <<op, told>>
      /\ UNCHANGED <<signal, cancelled, current, init, starts, overlap, cfg,
                     primary, bound>>
  BY DEF Claim, gateVars, loopVars
<1>3. /\ run[r] \in RunRecord /\ run[r].ids \in Seq(Op) /\ run[r].done \in Nat
      /\ op \in [Op -> OpRecord] /\ told \subseteq Op /\ current \in Runner
  BY <1>1 DEF TypesOK, RunRecord
<1>4. /\ c \in Op /\ Tail(run[r].ids) \in Seq(Op)
      /\ \A o \in Range(run[r].ids) : o = c \/ o \in Range(Tail(run[r].ids))
  BY <1>2, <1>3, TailRange
<1> HIDE DEF c
<1>5. /\ x \in RunRecord /\ x.pc = "work" /\ x.done = run[r].done
      /\ x.ids = Tail(run[r].ids)
  BY <1>2, <1>3, <1>4 DEF RunRecord
<1> HIDE DEF x
<1>6. op' \in [Op -> OpRecord] /\ told' \subseteq Op
  BY <1>2, <1>3, <1>4 DEF OpRecord
<1>7. LoopInv'
  BY <1>1, <1>2, <1>5, <1>6, PassMoves DEF TypesOK
<1>8. ASSUME NEW o \in Op, ~taken \/ o # c PROVE op'[o] = op[o]
  BY <1>2, <1>3, <1>8
<1>9. taken => /\ (op'[c].queued <=> op[c].queued) /\ op'[c].due = op[c].due
               /\ op'[c].by = r /\ op[c].by = Nobody /\ op[c].queued
  BY <1>2, <1>3, <1>4 DEF OpRecord, Waiting, Due
<1>10. ASSUME NEW q \in Runner, q # r PROVE Holding(q)' = Holding(q)
  <2>1. \A o \in Op : op'[o].by = q <=> op[o].by = q
    BY <1>4, <1>8, <1>9, <1>10, Parties
  <2> QED
    BY <2>1 DEF Holding
<1>11. ClaimsOK'
  <2>1. \A o \in Op : op'[o].by # Nobody => op'[o].queued
    BY <1>1, <1>8, <1>9 DEF ClaimsOK
  <2>2. \A o \in Op : op'[o].by = r => o = c
    BY <1>2, <1>8 DEF Holding
  <2>3. \A o, p \in Holding(r)' : o = p
    BY <2>2 DEF Holding
  <2>4. \A q \in Runner : \A o, p \in Holding(q)' : o = p
    BY <1>1, <1>10, <2>3 DEF ClaimsOK
  <2> QED
    BY <2>1, <2>4 DEF ClaimsOK
<1>12. told' \subseteq told /\ \A o \in told' : op'[o] = op[o] /\ o # c
  <2>1. ~taken => c \notin told
    BY <1>1 DEF ToldOK, EventOpen
  <2> QED
    BY <1>2, <1>3, <1>8, <2>1
<1>13. ToldOK'
  <2>1. \A o \in told' : o \in Waiting'
    BY <1>1, <1>12 DEF ToldOK, Waiting, Due
  <2>2. told' # {} => EventOpen' /\ current' # 0
    BY <1>1, <1>2, <1>12 DEF ToldOK, EventOpen, Open
  <2> QED
    BY <2>1, <2>2 DEF ToldOK
<1>14. ASSUME NEW o \in told' PROVE Seen(o)'
  <2>1. Seen(o) /\ current # 0
    BY <1>1, <1>12, <1>14, SignalNotLostSeen DEF ToldOK
  <2>2. CASE current # r
    <3>1. run'[current] = run[current] /\ Holding(current)' = Holding(current)
      BY <1>1, <1>2, <1>3, <1>10, <2>2 DEF TypesOK
    <3> QED
      BY <1>2, <2>1, <3>1, SeenStays
  <2>3. CASE current = r
    <3>1. run[r].done + Cardinality(Holding(r)) # MaxOperations
      <4>1. Cardinality(Holding(r)) = 0
        BY <1>2, FS_EmptySet
      <4>2. Limit(r) = MaxOperations
        BY <2>1, <2>3 DEF Limit, Periodic
      <4> QED
        BY <1>2, <1>3, <4>1, <4>2, EventDispatchAssumption
    <3>2. current \in signal \/ o \in Range(run[r].ids)
      BY <1>2, <2>1, <2>3, <3>1 DEF Seen
    <3>3. current \in signal \/ o \in Range(x.ids)
      BY <1>4, <1>5, <1>12, <3>2
    <3>4. run'[current'] = x /\ current' = current /\ signal' = signal
      BY <1>1, <1>2, <2>3 DEF TypesOK
    <3> QED
      BY <1>5, <3>3, <3>4 DEF Seen
  <2> QED
    BY <2>2, <2>3
<1>15. SignalNotLost'
  BY <1>14 DEF SignalNotLost, Seen
<1> QED
  BY <1>7, <1>11, <1>13, <1>15 DEF DispatchInv, SignalInv

(* A pass is done with the operation it holds: one more done, one fewer    *)
(* held, and at the limit nothing is held and another pass follows.        *)
LEMMA FinishKeeps ==
    ASSUME DispatchInv, NEW r \in Runner, NEW o \in Op, NEW ok \in BOOLEAN,
           Finish(r, o, ok)
    PROVE  DispatchInv'
<1> DEFINE new == IF ok THEN NotQueued
                  ELSE [queued |-> TRUE, due |-> RetryDelay, by |-> Nobody]
           cut == run[r].done + 1 = Limit(r)
           x == [run[r] EXCEPT !.done = run[r].done + 1,
                               !.ids = IF cut THEN << >> ELSE run[r].ids]
<1>1. LoopInv /\ TypesOK /\ ClaimsOK /\ ToldOK /\ SignalNotLost /\ Active(r)
  BY DEF DispatchInv, LoopInv, SignalInv, Finish, Active
<1>2. /\ run[r].pc = "work" /\ op[o].by = r
      /\ op' = [op EXCEPT ![o] = new]
      /\ UNCHANGED <<signal, cancelled, current, init, starts, overlap, cfg,
                     primary, bound, told>>
  BY DEF Finish, gateVars, loopVars
<1>3. /\ run \in [Runner -> RunRecord]
      /\ run[r] \in RunRecord /\ run[r].ids \in Seq(Op) /\ run[r].done \in Nat
      /\ op \in [Op -> OpRecord] /\ told \subseteq Op /\ current \in Runner
  BY <1>1 DEF TypesOK, RunRecord
<1>4. run' = [run EXCEPT ![r] = x]
  BY <1>3 DEF Finish, RunRecord
<1>5. new \in OpRecord /\ new.by = Nobody
  BY EventDispatchAssumption DEF NotQueued, OpRecord
<1> HIDE DEF new
<1>6. /\ x \in RunRecord /\ x.pc = "work" /\ x.done = run[r].done + 1
      /\ x.ids = IF cut THEN << >> ELSE run[r].ids
  <2> DEFINE ids == IF cut THEN << >> ELSE run[r].ids
  <2>1. ids \in Seq(Op)
    BY <1>3
  <2>2. run[r].done + 1 \in Nat
    BY <1>3
  <2>3. x = [run[r] EXCEPT !.done = run[r].done + 1, !.ids = ids]
    OBVIOUS
  <2> HIDE DEF ids, x
  <2>4. /\ x \in RunRecord /\ x.pc = "work" /\ x.done = run[r].done + 1
        /\ x.ids = ids
    BY <1>2, <1>3, <2>1, <2>2, <2>3 DEF RunRecord
  <2> QED
    BY <2>4 DEF ids
<1> HIDE DEF x
<1>7. op' \in [Op -> OpRecord]
  BY <1>2, <1>3, <1>5
<1>8. LoopInv'
  BY <1>1, <1>2, <1>3, <1>4, <1>6, <1>7, PassMoves DEF TypesOK
<1>9. op'[o] = new /\ \A p \in Op : p # o => op'[p] = op[p]
  BY <1>2, <1>3
<1>10. \A q \in Runner : Holding(q)' = Holding(q) \ {o}
  BY <1>5, <1>9, Parties DEF Holding
<1>11. Holding(r) = {o} /\ Holding(r)' = {}
  BY <1>1, <1>2, <1>10 DEF ClaimsOK, Holding
<1>12. \A q \in Runner : q # r => Holding(q)' = Holding(q)
  BY <1>2, <1>10 DEF Holding
<1>13. ClaimsOK'
  <2>1. \A p \in Op : op'[p].by # Nobody => op'[p].queued
    BY <1>1, <1>5, <1>9 DEF ClaimsOK
  <2> QED
    BY <1>1, <1>10, <2>1 DEF ClaimsOK
<1>14. ToldOK'
  <2>1. o \notin told
    BY <1>1, <1>2, Parties DEF ToldOK, Waiting
  <2>2. \A p \in told : p \in Waiting'
    BY <1>1, <1>3, <1>9, <2>1 DEF ToldOK, Waiting, Due
  <2> QED
    BY <1>1, <1>2, <2>2 DEF ToldOK, EventOpen, Open
<1>15. ASSUME NEW p \in told PROVE Seen(p)'
  <2>1. Seen(p) /\ current # 0
    BY <1>1, <1>15, SignalNotLostSeen DEF ToldOK
  <2>2. CASE current # r
    <3>1. run'[current] = run[current] /\ Holding(current)' = Holding(current)
      BY <1>2, <1>3, <1>4, <1>12, <2>2
    <3> QED
      BY <1>2, <2>1, <3>1, SeenStays
  <2>3. CASE current = r
    <3>1. Limit(r) = MaxOperations
      BY <2>1, <2>3 DEF Limit, Periodic
    <3>2. Cardinality(Holding(r)) = 1 /\ Cardinality(Holding(r))' = 0
      BY <1>11, FS_EmptySet, FS_Singleton
    <3>3. run'[current'] = x /\ current' = current /\ signal' = signal
      BY <1>2, <1>3, <1>4, <2>3
    <3>4. cut => x.done + Cardinality(Holding(r))' = MaxOperations
      BY <1>3, <1>6, <3>1, <3>2
    <3>5. run[r].done + Cardinality(Holding(r)) = MaxOperations => cut
      BY <3>1, <3>2
    <3>6. current \in signal \/ cut \/ p \in Range(run[r].ids)
      BY <1>2, <2>1, <2>3, <3>5 DEF Seen
    <3>7. Holding(current)' = Holding(r)'
      BY <1>2, <2>3 DEF Holding
    <3> HIDE DEF cut
    <3> QED
      BY <1>6, <3>3, <3>4, <3>6, <3>7 DEF Seen
  <2> QED
    BY <2>2, <2>3
<1>16. SignalNotLost'
  BY <1>2, <1>15 DEF SignalNotLost, Seen
<1> QED
  BY <1>8, <1>13, <1>14, <1>16 DEF DispatchInv, SignalInv

LEMMA ErrorKeeps ==
    ASSUME DispatchInv, NEW r \in Runner, Error(r)
    PROVE  DispatchInv'
<1>1. LoopInv /\ TypesOK /\ ClaimsOK /\ Active(r)
  BY DEF DispatchInv, LoopInv, SignalInv, Error, Active
<1>2. /\ run' = [run EXCEPT ![r] = Resting] /\ told' = {}
      /\ op' = [o \in Op |-> IF op[o].by = r
                              THEN [op[o] EXCEPT !.by = Abandoned] ELSE op[o]]
      /\ UNCHANGED <<signal, cancelled, current, init, starts, overlap, cfg,
                     primary, bound>>
  BY DEF Error, gateVars
<1>3. op' \in [Op -> OpRecord]
  BY <1>1, <1>2 DEF TypesOK, OpRecord
<1>4. LoopInv'
  BY <1>1, <1>2, <1>3, RestingFacts, PassMoves DEF TypesOK
<1>5. ASSUME NEW o \in Op
      PROVE  /\ op'[o].queued <=> op[o].queued
             /\ \A q \in Runner : op'[o].by = q => op[o].by = q
             /\ op'[o].by # Nobody => op[o].by # Nobody
  BY <1>1, <1>2, Parties DEF TypesOK, OpRecord
<1>6. ClaimsOK'
  <2>1. \A q \in Runner : Holding(q)' \subseteq Holding(q)
    BY <1>5 DEF Holding
  <2> QED
    BY <1>1, <1>5, <2>1 DEF ClaimsOK
<1>7. ToldOK' /\ SignalNotLost'
  BY <1>2 DEF ToldOK, SignalNotLost
<1> QED
  BY <1>4, <1>6, <1>7 DEF DispatchInv, SignalInv

(* Neither a lease that runs out nor the clock takes an operation away     *)
(* from a pass or makes one that was told wait.                            *)
LEMMA OutboxAges ==
    ASSUME DispatchInv, op' \in [Op -> OpRecord],
           \A o \in Op : /\ op'[o].queued <=> op[o].queued
                         /\ \/ op'[o].by = op[o].by
                            \/ op[o].by = Abandoned /\ op'[o].by = Nobody
                         /\ Due(o) => op'[o].due <= 0,
           UNCHANGED <<run, signal, cancelled, current, init, starts, overlap,
                       cfg, primary, told, bound>>
    PROVE  DispatchInv'
<1>1. LoopInv /\ TypesOK /\ ClaimsOK /\ ToldOK /\ SignalNotLost
  BY DEF DispatchInv, LoopInv, SignalInv
<1>2. LoopInv'
  BY <1>1, LoopsStay DEF TypesOK
<1>3. \A q \in Runner : Holding(q)' = Holding(q)
  BY Parties DEF Holding
<1>4. ClaimsOK'
  BY <1>1, <1>3 DEF ClaimsOK
<1>5. ToldOK'
  <2>1. \A o \in told : o \in Waiting'
    BY <1>1, Parties DEF ToldOK, Waiting, Due
  <2> QED
    BY <1>1, <2>1 DEF ToldOK, EventOpen, Open
<1>6. ASSUME NEW o \in told PROVE Seen(o)'
  <2>1. Seen(o) /\ current \in Runner
    BY <1>1, SignalNotLostSeen DEF TypesOK
  <2> QED
    BY <1>3, <2>1, SeenStays
<1>7. SignalNotLost'
  BY <1>6 DEF SignalNotLost, Seen
<1> QED
  BY <1>2, <1>4, <1>5, <1>7 DEF DispatchInv, SignalInv

LEMMA LeaseOverKeeps ==
    ASSUME DispatchInv, NEW o \in Op, LeaseOver(o)
    PROVE  DispatchInv'
<1>1. /\ op[o].by = Abandoned /\ op' = [op EXCEPT ![o].by = Nobody]
      /\ UNCHANGED <<run, signal, cancelled, current, init, starts, overlap,
                     cfg, primary, told, bound>>
  BY DEF LeaseOver, gateVars, loopVars
<1>2. op \in [Op -> OpRecord]
  BY DEF DispatchInv, LoopInv, TypesOK
<1>3. op' \in [Op -> OpRecord]
  BY <1>1, <1>2 DEF OpRecord
<1>4. ASSUME NEW p \in Op
      PROVE  /\ (op'[p].queued <=> op[p].queued) /\ op'[p].due = op[p].due
             /\ \/ op'[p].by = op[p].by
                \/ op[p].by = Abandoned /\ op'[p].by = Nobody
  <2>1. CASE p # o
    <3>1. op'[p] = op[p]
      BY <1>1, <1>2, <2>1
    <3> QED
      BY <3>1
  <2>2. CASE p = o
    <3>1. op'[o] = [op[o] EXCEPT !.by = Nobody] /\ op[o] \in OpRecord
      BY <1>1, <1>2
    <3> QED
      BY <1>1, <2>2, <3>1 DEF OpRecord
  <2> QED
    BY <2>1, <2>2
<1> QED
  BY <1>1, <1>3, <1>4, OutboxAges DEF Due

LEMMA ClockKeeps ==
    ASSUME DispatchInv, Clock
    PROVE  DispatchInv'
<1> DEFINE D == {y \in Op : Due(y)}
           past == {op[o].due : o \in D}
           aged(t) == IF t > 0 THEN t - 1
                      ELSE -1 - Cardinality({u \in past : u > t})
<1>1. /\ op' = [o \in Op |-> IF op[o].queued
                              THEN [op[o] EXCEPT !.due = aged(op[o].due)]
                              ELSE op[o]]
      /\ UNCHANGED <<run, signal, cancelled, current, init, starts, overlap,
                     cfg, primary, told, bound>>
  BY DEF Clock, gateVars
<1>2. op \in [Op -> OpRecord]
  BY DEF DispatchInv, LoopInv, TypesOK
<1>3. IsFiniteSet(past)
  <2> DEFINE f == [o \in D |-> op[o].due]
  <2>1. IsFiniteSet(D)
    BY EventDispatchAssumption, FS_Subset
  <2>2. f \in Surjection(D, past)
    BY DEF Surjection
  <2> QED
    BY <2>1, <2>2, FS_Surjection
<1> HIDE DEF past
<1>4. ASSUME NEW t \in Int
      PROVE  aged(t) \in Int /\ (t <= 0 => aged(t) <= 0)
  <2>1. Cardinality({u \in past : u > t}) \in Nat
    BY <1>3, FS_Subset, FS_CardinalityType
  <2> QED
    BY <1>4, <2>1
<1> HIDE DEF aged
<1>5. op' \in [Op -> OpRecord]
  BY <1>1, <1>2, <1>4 DEF OpRecord
<1>6. ASSUME NEW p \in Op
      PROVE  /\ (op'[p].queued <=> op[p].queued) /\ op'[p].by = op[p].by
             /\ Due(p) => op'[p].due <= 0
  <2>1. op[p] \in OpRecord /\ op[p].due \in Int
    BY <1>2 DEF OpRecord
  <2> QED
    BY <1>1, <1>4, <2>1 DEF OpRecord, Due
<1>7. UNCHANGED <<run, signal, cancelled, current, init, starts, overlap,
                  cfg, primary, told, bound>>
  BY <1>1
<1>8. \A o \in Op : /\ op'[o].queued <=> op[o].queued
                    /\ \/ op'[o].by = op[o].by
                       \/ op[o].by = Abandoned /\ op'[o].by = Nobody
                    /\ Due(o) => op'[o].due <= 0
  BY <1>6
<1> QED
  BY <1>5, <1>7, <1>8, OutboxAges

-----------------------------------------------------------------------------
LEMMA DispatchInit == Init => DispatchInv
<1> SUFFICES ASSUME Init PROVE DispatchInv
  OBVIOUS
<1>1. /\ op = [o \in Op |-> NotQueued] /\ signal = {} /\ cancelled = {}
      /\ run = [r \in Runner |-> IF r \in {Periodic, 1} THEN Resting
                                 ELSE [Resting EXCEPT !.pc = "none"]]
      /\ current = 1 /\ init = "no" /\ starts = 1 /\ overlap = FALSE
      /\ cfg = [events |-> TRUE, stopped |-> FALSE] /\ primary = TRUE
      /\ told = {} /\ bound \in Bounds
  BY DEF Init
<1>2. NotQueued \in OpRecord /\ NotQueued.by = Nobody
  BY DEF NotQueued, OpRecord
<1>3. [Resting EXCEPT !.pc = "none"] \in RunRecord
      /\ [Resting EXCEPT !.pc = "none"].pc = "none"
  BY RestingFacts DEF RunRecord, Pcs
<1>4. run \in [Runner -> RunRecord]
  BY <1>1, <1>3, RestingFacts
<1>5. 1 \in Loop /\ 1 \in Runner
  BY Parties DEF Loop
<1>6. \A w \in Loop : w \in Runner /\ run[w].pc = IF w = 1 THEN "rest" ELSE "none"
  BY <1>1, <1>3, RestingFacts, Parties DEF Periodic
<1>7. TypesOK
  BY <1>1, <1>2, <1>4, <1>5 DEF TypesOK, RunRecord
<1>8. GoroutinesOK /\ OverlapOK
  BY <1>1, <1>5, <1>6 DEF GoroutinesOK, OverlapOK, Active, Loop
<1>9. ClaimsOK
  BY <1>1, <1>2, Parties DEF ClaimsOK, Holding
<1>10. ToldOK /\ SignalNotLost
  BY <1>1 DEF ToldOK, SignalNotLost
<1> QED
  BY <1>7, <1>8, <1>9, <1>10 DEF DispatchInv, LoopInv, SignalInv

LEMMA DispatchStep == DispatchInv /\ [Next]_vars => DispatchInv'
<1> SUFFICES ASSUME DispatchInv, [Next]_vars PROVE DispatchInv'
  OBVIOUS
<1>1. CASE \E o \in Op : Enqueue(o) \/ LeaseOver(o)
  BY <1>1, EnqueueKeeps, LeaseOverKeeps
<1>2. CASE \E new \in [events : BOOLEAN, stopped : BOOLEAN] : ConfigWrite(new)
  BY <1>2, ConfigWriteKeeps
<1>3. CASE ReplicationChange \/ Stop \/ StopDone \/ Start \/ NotStarted
  BY <1>3, ReplicationChangeKeeps, StopKeeps, StopDoneKeeps, StartKeeps,
     NotStartedKeeps
<1>4. CASE \E w \in Loop : Select(w)
  BY <1>4, SelectKeeps
<1>5. CASE Tick \/ Clock
  BY <1>5, TickKeeps, ClockKeeps
<1>6. ASSUME NEW r \in Runner, Pass(r) \/ Error(r) PROVE DispatchInv'
  <2>1. CASE Begin(r) \/ Blocked(r) \/ Error(r)
    BY <2>1, BeginKeeps, BlockedKeeps, ErrorKeeps
  <2>2. CASE Work(r)
    BY <2>2, ClaimKeeps, FinishKeeps, PassRepeatsKeeps, PassEndKeeps,
       PeriodicEndKeeps DEF Work
  <2> QED
    BY <1>6, <2>1, <2>2 DEF Pass
<1>7. CASE UNCHANGED vars
  <2>1. UNCHANGED <<op, run, signal, cancelled, current, init, starts, overlap,
                    cfg, primary, told, bound>>
    BY <1>7 DEF vars
  <2>2. LoopInv /\ SignalInv
    BY DEF DispatchInv
  <2>3. LoopInv'
    BY <2>1, <2>2, LoopsStay DEF LoopInv, TypesOK
  <2>4. SignalInv'
    BY <2>1, <2>2, SignalStays
  <2> QED
    BY <2>3, <2>4 DEF DispatchInv
<1> QED
  BY <1>1, <1>2, <1>3, <1>4, <1>5, <1>6, <1>7 DEF Next

LEMMA DispatchInvariant == Spec => []DispatchInv
  BY DispatchInit, DispatchStep, PTL DEF Spec

(* An operation committed before its signal was sent is in front of the    *)
(* current goroutine until it is claimed: the signal is in the channel, a  *)
(* pass is about to list the due operations, or the running pass has it in *)
(* its list or will be followed by another (signalEventDispatch,           *)
(* eventDispatchLoop).  For any number of operations, goroutines and       *)
(* faults and any event_dispatch_max_operations.                           *)
THEOREM SignalsNotLost == Spec => []SignalNotLost
<1>1. DispatchInv => SignalNotLost
  BY DEF DispatchInv, SignalInv
<1> QED
  BY <1>1, DispatchInvariant, PTL

(* Two goroutines are in a pass at the same time only if Initialize gave   *)
(* up waiting for the old one (stopEventDispatcher), however often it is   *)
(* called.                                                                 *)
THEOREM LoopsDoNotOverlap == Spec => []OneLoop
<1>1. DispatchInv => OneLoop
  BY DEF DispatchInv, LoopInv, OverlapOK, OneLoop, Active
<1> QED
  BY <1>1, DispatchInvariant, PTL
=============================================================================
