--------------------------- MODULE EventDispatch ---------------------------
(***************************************************************************)
(* What makes the dispatcher run: the event dispatch goroutine with its    *)
(* channel of one signal and its retry timer, the periodic callback beside *)
(* it, and the switches that stop both.  Initialize may replace the        *)
(* goroutine while the old one is still in a pass.                         *)
(*                                                                         *)
(* Claims are reduced to who holds an operation: SecretSync has their      *)
(* leases and commits, OutboxIndex the scan for due operations.            *)
(*                                                                         *)
(* Times are relative to the clock: 0 is now.  Of times in the past only   *)
(* the order is kept, so that time goes on forever in finitely many        *)
(* states.                                                                 *)
(***************************************************************************)
EXTENDS Integers, Sequences, FiniteSets, FiniteSetsExt

CONSTANTS
    Op,           \* operation ids: numbers, in the order of their strings
    MaxOperations, \* event_dispatch_max_operations
    PeriodicMax,  \* defaultPeriodicMaxOperations
    RetryDelay,   \* retryDelay of a failed operation, in clock ticks
    MaxStarts,    \* bound: goroutines ever started
    Bounds        \* bounds, one of which an initial state picks: goroutines
                  \* started, restarts, switched gates and failed passes
                  \* together, and the operation ids that are used

ASSUME EventDispatchAssumption ==
    /\ Op \subseteq Nat /\ IsFiniteSet(Op)
    /\ MaxOperations \in Nat \ {0}
    /\ PeriodicMax \in Nat \ {0}
    /\ RetryDelay \in Nat
    /\ MaxStarts \in Nat \ {0}
    /\ Bounds \subseteq [starts : 1..MaxStarts, faults : Nat, ops : SUBSET Op]

VARIABLES
    op,         \* the outbox: whether queued, when due, who holds the claim
    run,        \* the passes: one per goroutine, and Periodic
    signal,     \* the goroutines whose channel holds a signal
    cancelled,  \* the goroutines whose context is cancelled
    timer,      \* time left on the retry timer of each goroutine, or NoTimer
    current,    \* the goroutine signalEventDispatch reaches, 0 if none
    init,       \* how far an Initialize has come
    starts,     \* goroutines started so far
    cfg,        \* event_dispatch_enabled; disabled or restore_guard
    primary,    \* remoteMutationAllowed
    told,       \* unclaimed operations a signal was sent for, the gates open since
    overlap,    \* Initialize gave up waiting for the old goroutine
    faults,     \* restarts, switched gates and failed passes so far
    bound       \* the bounds in force

vars == <<op, run, signal, cancelled, timer, current, init, starts, cfg,
          primary, told, overlap, faults, bound>>

gateVars == <<cfg, primary, bound>>
loopVars == <<signal, cancelled, timer, current, init, starts, overlap>>

Loop     == 1..MaxStarts
Periodic == 0
Runner   == Loop \cup {Periodic}

-----------------------------------------------------------------------------
(* Operations and gates *)

Nobody    == MaxStarts + 1
Abandoned == MaxStarts + 2  \* a pass ended without finishing its operation

NotQueued == [queued |-> FALSE, due |-> 0, by |-> Nobody]

Due(o) == op[o].queued /\ op[o].due <= 0

(* Mutant of DueBefore: the order of the ids alone. *)
DueBeforeById(o, p) == o < p

(* The order of the keys of the due index. *)
DueBefore(o, p) == op[o].due < op[p].due \/ (op[o].due = op[p].due /\ o < p)

(* listDueOutboxIDs: the due operations in that order. *)
DueOps == {o \in Op : Due(o)}

DueList ==
    CHOOSE s \in [1..Cardinality(DueOps) -> DueOps] :
        \A i, j \in 1..Cardinality(DueOps) : i < j => DueBefore(s[i], s[j])

Waiting == {o \in Op : Due(o) /\ op[o].by = Nobody}

NoTimer == -1

(* The gates of the periodic callback, and of an event dispatch pass. *)
Open      == primary /\ ~cfg.stopped
EventOpen == Open /\ cfg.events

Limit(r) == IF r = Periodic THEN PeriodicMax ELSE MaxOperations

Fault == faults < bound.faults /\ faults' = faults + 1

Resting == [pc |-> "rest", ids |-> << >>, done |-> 0]

Phase(r, pc) == run' = [run EXCEPT ![r].pc = pc]

-----------------------------------------------------------------------------
(* Requests: the work is committed, and then the signal is sent.  Nothing *)
(* depends on what happens between the two.                               *)

(* Mutant of SignalEventDispatch: dropped unless the goroutine is waiting. *)
SignalToWaiting ==
    signal' = IF current # 0 /\ run[current].pc = "rest"
              THEN signal \cup {current} ELSE signal

(* signalEventDispatch: a send that does not block. *)
SignalEventDispatch ==
    signal' = IF current # 0 THEN signal \cup {current} ELSE signal

Enqueue(o) ==
    /\ o \in bound.ops
    /\ ~op[o].queued
    /\ op' = [op EXCEPT ![o] = [queued |-> TRUE, due |-> 0, by |-> Nobody]]
    /\ SignalEventDispatch
    /\ told' = IF current # 0 /\ EventOpen THEN told \cup {o} ELSE told
    /\ UNCHANGED <<run, cancelled, timer, current, init, starts, overlap,
                   gateVars, faults>>

(* configWriteResumesEventDispatch *)
Resumes(old, new) ==
    /\ new.events /\ ~new.stopped
    /\ old.stopped \/ ~old.events

(* pathConfigWrite, and the acknowledgement of the restore guard. *)
ConfigWrite(new) ==
    /\ Fault
    /\ cfg' = new
    /\ UNCHANGED <<op, run, cancelled, timer, current, init, starts, overlap,
                   primary, bound>>
    /\ IF Resumes(cfg, new) THEN SignalEventDispatch ELSE UNCHANGED signal
    /\ told' = IF ~EventOpen' THEN {}
               ELSE IF Resumes(cfg, new) /\ current # 0 THEN Waiting
               ELSE told

ReplicationChange ==
    /\ Fault
    /\ primary' = ~primary
    /\ told' = IF primary THEN {} ELSE told
    /\ UNCHANGED <<op, run, loopVars, cfg, bound>>

-----------------------------------------------------------------------------
(* Initialize and cleanup *)

(* stopEventDispatcher detaches the goroutine and cancels its context. *)
Stop ==
    /\ init = "no"
    /\ Fault
    /\ starts < bound.starts
    /\ init' = "wait"
    /\ cancelled' = IF current # 0 THEN cancelled \cup {current} ELSE cancelled
    /\ current' = 0
    /\ told' = {}
    /\ UNCHANGED <<op, run, signal, timer, starts, overlap, gateVars>>

(* Mutant of StopReturns: it does not wait. *)
StopReturnsAtOnce ==
    /\ init = "wait"
    /\ init' = "start"
    /\ UNCHANGED overlap

(* ... and waits until it has returned, or its own context is done. *)
StopReturns ==
    /\ init = "wait"
    /\ init' = "start"
    /\ overlap' = (overlap \/ \E w \in cancelled : run[w].pc # "exit")

StopDone ==
    /\ StopReturns
    /\ UNCHANGED <<op, run, signal, cancelled, timer, current, starts, gateVars,
                   told, faults>>

(* startEventDispatcher *)
Start ==
    /\ init = "start"
    /\ init' = "no"
    /\ starts' = starts + 1
    /\ current' = starts + 1
    /\ run' = [run EXCEPT ![starts + 1] = Resting]
    /\ UNCHANGED <<op, signal, cancelled, timer, overlap, gateVars,
                   told, faults>>

(* cleanup, or an Initialize whose runtime state check fails: no goroutine *)
NotStarted ==
    /\ init = "start"
    /\ init' = "no"
    /\ UNCHANGED <<op, run, signal, cancelled, timer, current, starts, overlap,
                   gateVars, told, faults>>

-----------------------------------------------------------------------------
(* The select of eventDispatchLoop *)

Receive(w) ==
    /\ run[w].pc = "rest"
    /\ w \in signal
    /\ signal' = signal \ {w}
    /\ Phase(w, "pass")
    /\ UNCHANGED <<op, cancelled, timer, current, init, starts, overlap,
                   gateVars, told, faults>>

TimerFires(w) ==
    /\ run[w].pc = "rest"
    /\ timer[w] = 0
    /\ timer' = [timer EXCEPT ![w] = NoTimer]
    /\ Phase(w, "pass")
    /\ UNCHANGED <<op, signal, cancelled, current, init, starts, overlap,
                   gateVars, told, faults>>

(* Nobody reads the channel any more. *)
Exit(w) ==
    /\ run[w].pc = "rest"
    /\ w \in cancelled
    /\ Phase(w, "exit")
    /\ timer' = [timer EXCEPT ![w] = NoTimer]
    /\ signal' = signal \ {w}
    /\ UNCHANGED <<op, cancelled, current, init, starts, overlap,
                   gateVars, told, faults>>

(* The periodic callback is called. *)
Tick ==
    /\ run[Periodic].pc = "rest"
    /\ Phase(Periodic, "pass")
    /\ UNCHANGED <<op, loopVars, gateVars, told, faults>>

-----------------------------------------------------------------------------
(* A pass: runEventDispatchPass, or the end of periodic *)

(* remoteMutationAllowed and the switches, and for the goroutine its       *)
(* context and event_dispatch_enabled.                                     *)
Allowed(r) == IF r = Periodic THEN Open ELSE EventOpen /\ r \notin cancelled

(* The gates are open: recovery (EnqueueRecovery) and listDueOutboxIDs. *)
Begin(r) ==
    /\ run[r].pc = "pass"
    /\ Allowed(r)
    /\ run' = [run EXCEPT ![r] = [pc |-> "work", done |-> 0,
                                  ids |-> DueList]]
    /\ UNCHANGED <<op, loopVars, gateVars, told, faults>>

(* A gate is closed, or the context is cancelled: no retry timer either. *)
Blocked(r) ==
    /\ run[r].pc = "pass"
    /\ ~Allowed(r)
    /\ Phase(r, "rest")
    /\ timer' = [timer EXCEPT ![r] = NoTimer]
    /\ UNCHANGED <<op, signal, cancelled, current, init, starts, overlap,
                   gateVars, told, faults>>

(* Storage or recovery fails: the pass ends where it is, without a timer,  *)
(* and an operation it holds stays claimed until the lease is over.        *)
Error(r) ==
    /\ Fault
    /\ run[r].pc = "work"
    /\ run' = [run EXCEPT ![r] = Resting]
    /\ timer' = [timer EXCEPT ![r] = NoTimer]
    /\ told' = {}
    /\ op' = [o \in Op |-> IF op[o].by = r
                           THEN [op[o] EXCEPT !.by = Abandoned] ELSE op[o]]
    /\ UNCHANGED <<signal, cancelled, current, init, starts, overlap, gateVars>>

Holding(r) == {o \in Op : op[o].by = r}

(* claimDispatchableOutboxRecord, with claimBlockedByGlobalSwitch *)
Claim(r) ==
    /\ run[r].pc = "work"
    /\ Holding(r) = {}
    /\ run[r].done < Limit(r)
    /\ run[r].ids # << >>
    /\ run' = [run EXCEPT ![r].ids = Tail(@)]
    /\ LET o == Head(run[r].ids)
       IN  IF o \in Waiting /\ Open
           THEN op' = [op EXCEPT ![o].by = r] /\ told' = told \ {o}
           ELSE UNCHANGED <<op, told>>
    /\ UNCHANGED <<loopVars, gateVars, faults>>

(* processOutboxRecord: the operation is done, or is due again later. *)
Finish(r, o, ok) ==
    /\ run[r].pc = "work"
    /\ op[o].by = r
    /\ op' = [op EXCEPT ![o] =
           IF ok THEN NotQueued
           ELSE [queued |-> TRUE, due |-> RetryDelay, by |-> Nobody]]
    /\ run' = [run EXCEPT ![r].done = @ + 1,
                          ![r].ids = IF run[r].done + 1 = Limit(r) THEN << >>
                                     ELSE @]
    /\ UNCHANGED <<loopVars, gateVars, told, faults>>

(* A pass that reached its limit is followed by another, of the goroutine. *)
PassRepeats(w) ==
    /\ run[w].pc = "work"
    /\ Holding(w) = {}
    /\ run[w].done = MaxOperations
    /\ run' = [run EXCEPT ![w] = [Resting EXCEPT !.pc = "pass"]]
    /\ UNCHANGED <<op, loopVars, gateVars, told, faults>>

(* nextFutureOutboxDueTime and armRetryTimer: what became due while the    *)
(* pass ran is not in the future any more.                                 *)
PassEnd(w) ==
    /\ run[w].pc = "work"
    /\ Holding(w) = {}
    /\ run[w].ids = << >>
    /\ run[w].done < MaxOperations
    /\ LET future == {op[o].due : o \in {x \in Op : op[x].queued /\ op[x].due > 0}}
       IN  timer' = [timer EXCEPT ![w] = IF future = {} THEN NoTimer
                                         ELSE Min(future)]
    /\ run' = [run EXCEPT ![w] = Resting]
    /\ UNCHANGED <<op, signal, cancelled, current, init, starts, overlap,
                   gateVars, told, faults>>

PeriodicEnd ==
    /\ run[Periodic].pc = "work"
    /\ Holding(Periodic) = {}
    /\ run[Periodic].ids = << >> \/ run[Periodic].done = PeriodicMax
    /\ run' = [run EXCEPT ![Periodic] = Resting]
    /\ UNCHANGED <<op, loopVars, gateVars, told, faults>>

(* The lease of an abandoned claim runs out. *)
LeaseOver(o) ==
    /\ op[o].by = Abandoned
    /\ op' = [op EXCEPT ![o].by = Nobody]
    /\ UNCHANGED <<run, loopVars, gateVars, told, faults>>

(* Time goes on by one tick; past times keep their order. *)
Clock ==
    LET past == {op[o].due : o \in {x \in Op : Due(x)}}
        aged(t) == IF t > 0 THEN t - 1
                   ELSE -1 - Cardinality({u \in past : u > t})
    IN  /\ op' = [o \in Op |-> IF op[o].queued
                               THEN [op[o] EXCEPT !.due = aged(@)] ELSE op[o]]
        /\ timer' = [r \in Runner |-> IF timer[r] > 0 THEN timer[r] - 1
                                      ELSE timer[r]]
        /\ UNCHANGED <<run, signal, cancelled, current, init, starts, overlap,
                       gateVars, told, faults>>

-----------------------------------------------------------------------------
Init ==
    /\ op = [o \in Op |-> NotQueued]
    /\ run = [r \in Runner |->
           IF r \in {Periodic, 1} THEN Resting ELSE [Resting EXCEPT !.pc = "none"]]
    /\ signal = {} /\ cancelled = {}
    /\ timer = [r \in Runner |-> NoTimer]
    /\ current = 1 /\ init = "no" /\ starts = 1 /\ overlap = FALSE
    /\ cfg = [events |-> TRUE, stopped |-> FALSE]
    /\ primary = TRUE
    /\ told = {}
    /\ faults = 0
    /\ bound \in Bounds

Select(w) == Receive(w) \/ TimerFires(w) \/ Exit(w)

Work(r) ==
    \/ Claim(r)
    \/ \E o \in Op, ok \in BOOLEAN : Finish(r, o, ok)
    \/ r \in Loop /\ (PassRepeats(r) \/ PassEnd(r))
    \/ r = Periodic /\ PeriodicEnd

Pass(r) == Begin(r) \/ Blocked(r) \/ Work(r)

Next ==
    \/ \E o \in Op : Enqueue(o) \/ LeaseOver(o)
    \/ \E new \in [events : BOOLEAN, stopped : BOOLEAN] :
          ConfigWrite(new)
    \/ ReplicationChange
    \/ Stop \/ StopDone \/ Start \/ NotStarted
    \/ \E w \in Loop : Select(w)
    \/ Tick
    \/ \E r \in Runner : Pass(r) \/ Error(r)
    \/ Clock

(* OpenBao calls the periodic callback again and again, and lets it, the   *)
(* goroutines, the leases and the clock go on.  Nothing is assumed of      *)
(* requests.                                                               *)
Fairness ==
    /\ WF_vars(Tick)
    /\ \A r \in Runner : WF_vars(Pass(r))
    /\ \A w \in Loop : WF_vars(Select(w))
    /\ \A o \in Op : WF_vars(LeaseOver(o))
    /\ WF_vars(Clock)

Spec == Init /\ [][Next]_vars

FairSpec == Spec /\ Fairness

-----------------------------------------------------------------------------
(* Properties *)

(* A signal is not lost: work that was committed before a signal is seen   *)
(* by a pass that starts after it, also when the signal came while a pass  *)
(* was ending or met one already in the channel.                           *)
SignalNotLost ==
    \A o \in told :
        \/ current \in signal
        \/ run[current].pc = "pass"
        \/ /\ run[current].pc = "work"
           /\ \/ o \in Range(run[current].ids)
              \/ run[current].done + Cardinality(Holding(current)) = MaxOperations

(* Two goroutines are in a pass at the same time only if Initialize gave   *)
(* up waiting for the old one to return.                                   *)
OneLoop ==
    \A v, w \in Loop :
        /\ v # w
        /\ run[v].pc \in {"pass", "work"}
        /\ run[w].pc \in {"pass", "work"}
        => overlap

(* An operation that is due is dispatched, deferred, or found with a gate  *)
(* closed: the periodic callback catches what the goroutine misses (a      *)
(* signal with no goroutine, a failed pass, an operation that became due   *)
(* while a pass was ending).                                               *)
DueDispatched ==
    \A o \in Op : Due(o) ~> (~Due(o) \/ ~Open)
=============================================================================
