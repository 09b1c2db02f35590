---------------------------- MODULE CommandQueue ----------------------------
(***************************************************************************)
(* CommandQueue (src/lib_util/command_queue.h): producer threads hand      *)
(* functions to one worker thread.  A function travels as the index of a   *)
(* FuncContext (SIZE of them, reference counted) through one of two        *)
(* thread-safe FIFO queues of capacity SIZE: m_commands (run now) and      *)
(* m_commands_later (run at scheduled_ms, read against nowMs()).           *)
(*                                                                         *)
(* A function is a ghost call id (cid).  The producers' calls are split    *)
(* where another thread can act in between: finding a free context,        *)
(* filling it and taking the reference, putting it on a queue, waiting;    *)
(* cancel finds its context and then sets the flag.  The worker's process  *)
(* is split into its loop iterations.  nowMs() is a wrapping counter.      *)
(***************************************************************************)
EXTENDS Integers, Sequences, FiniteSets, FiniteSetsExt

CONSTANTS
  Producers,       \* threads calling execute_async*, cancel
  Size,            \* SIZE: number of contexts and capacity of each queue
  Delays,          \* delay_ms passed to execute_async_later
  Intervals,       \* interval_ms passed to execute_async_interval
  Ids,             \* ids passed to execute_async_later/interval and cancel
  ClockMod,        \* nowMs() wraps to 0 here (2^32 in the code)
  ClockStart,      \* values nowMs() may have when the model starts
  ClockWraps,      \* FALSE: bound, the clock stops at ClockMod - 1
  MaxCalls,        \* bound: number of functions submitted
  StatusTypes      \* STATUS arguments: "IntStatus" (wait_for spins until set,
                   \* the unit tests) or "EventFlagStatus" (wait_for gives up
                   \* after 2000 ms, the HTTP server's queue)

ASSUME Size \in Nat \ {0} /\ ClockMod \in Nat \ {0}
ASSUME StatusTypes \subseteq {"IntStatus", "EventFlagStatus"}
ASSUME -1 \notin Ids /\ ClockStart \subseteq 0..ClockMod-1

VARIABLES
  ctx,       \* m_func_contexts
  cmds,      \* m_commands
  later,     \* m_commands_later
  clock,     \* nowMs()
  pc,        \* producer thread -> the call it is in
  w,         \* the worker: where it is in process() and its locals
  calls,     \* ghost: cids handed out
  oneShot,   \* ghost: cids submitted with execute_async or execute_async_later
  accepted,  \* ghost: cids whose execute_async* returned 0
  runs,      \* ghost: cid -> times its function ran (counted up to 2)
  dropped,   \* ghost: cids the worker discarded without running
  revoked,   \* ghost: cid -> runs when a cancel flagged it (-1: never)
  lastRun,   \* ghost: the last function run and its ticks left to its time
  status_t   \* the queue's STATUS type, fixed for a behaviour

vars == <<ctx, cmds, later, clock, pc, w, calls, oneShot, accepted, runs,
          dropped, revoked, lastRun, status_t>>

Ctx == 0..Size-1
Cid == 1..MaxCalls
NoId == -1
Idle == [op |-> "idle"]

\* FuncContextT() and reset(): no function, no reference, no flags.
FreshCtx == [ref |-> 0, func |-> 0, cancelled |-> 0, sched |-> 0, cmd |-> NoId,
             interval |-> NoId, status |-> 0, left |-> 0]

\* Bounded FIFO put: QueueT::put fails once its timeout passes on a full queue.
Fits(q) == Len(q) < Size
Occ(i, q) == Quantify(DOMAIN q, LAMBDA k : q[k] = i)

\* Mutant: scheduled_ms computed without the 32-bit wrap.
SchedNoWrap(now, t) == now + t

\* nowMs() + delay_ms in uint32_t arithmetic.
Sched(now, t) == (now + t) % ClockMod

EventFlagStatus == status_t = "EventFlagStatus"

Init ==
  /\ status_t \in StatusTypes
  /\ ctx = [i \in Ctx |-> FreshCtx]
  /\ cmds = <<>> /\ later = <<>>
  /\ clock \in ClockStart
  /\ pc = [p \in Producers |-> Idle]
  /\ w = [pc |-> "begin", now |-> 0, start |-> NoId, idx |-> 0]
  /\ calls = 0 /\ oneShot = {} /\ accepted = {} /\ dropped = {}
  /\ runs = [c \in Cid |-> 0]
  /\ revoked = [c \in Cid |-> -1]
  /\ lastRun = [cid |-> 0, left |-> 0]

-----------------------------------------------------------------------------
(* Producer threads *)

\* Mutant: a context counts as free whatever its reference count.
FreeAny(c) == TRUE

\* find_available_func_context: ref_count == 0.
Free(c) == c.ref = 0

\* The call begins with find_available_func_context (first free index); with
\* no free context it returns -1 and nothing changes, which is not a step.
Call(p, kind, wait, t, id) ==
  /\ pc[p] = Idle
  /\ calls < MaxCalls
  /\ \E i \in Ctx : Free(ctx[i])
  /\ pc' = [pc EXCEPT ![p] = [op |-> "setup", kind |-> kind, wait |-> wait,
                              t |-> t, id |-> id, cid |-> calls + 1,
                              idx |-> Min({i \in Ctx : Free(ctx[i])})]]
  /\ calls' = calls + 1
  /\ UNCHANGED <<status_t, ctx, cmds, later, clock, w, oneShot, accepted, runs,
                 dropped, revoked, lastRun, status_t>>

\* reset(), the function stored, scheduled_ms = nowMs() + t (0 for
\* execute_async), status cleared, cmd_id and interval_ms set, and the
\* reference taken.  The context may meanwhile have been taken by another
\* producer that found it free too.
Setup(p) ==
  LET r == pc[p]
      cid == r.cid
  IN /\ r.op = "setup"
     /\ ctx' = [ctx EXCEPT ![r.idx] =
                  [FreshCtx EXCEPT !.ref = ctx[r.idx].ref + 1, !.func = cid,
                     !.sched = IF r.kind = "async" THEN 0 ELSE Sched(clock, r.t),
                     !.cmd = r.id,
                     !.interval = IF r.kind = "interval" THEN r.t ELSE NoId,
                     !.left = r.t]]
     /\ oneShot' = IF r.kind # "interval" THEN oneShot \cup {cid} ELSE oneShot
     /\ pc' = [pc EXCEPT ![p] = [r EXCEPT !.op = "put"]]
     /\ UNCHANGED <<status_t, cmds, later, clock, w, calls, accepted, runs, dropped, revoked, lastRun>>

\* put on m_commands (execute_async) or m_commands_later; on failure the
\* reference is given back and -1 returned.  execute_async(f, true) then
\* waits on the context's status.
Put(p) ==
  LET r == pc[p]
      now == r.kind = "async"
      q == IF now THEN cmds ELSE later
  IN /\ r.op = "put"
     /\ \/ /\ Fits(q)
           /\ IF now THEN cmds' = Append(cmds, r.idx) /\ UNCHANGED later
                     ELSE later' = Append(later, r.idx) /\ UNCHANGED cmds
           /\ accepted' = accepted \cup {r.cid}
           /\ pc' = [pc EXCEPT ![p] = IF r.wait THEN [r EXCEPT !.op = "wait"] ELSE Idle]
           /\ UNCHANGED ctx
        \/ /\ ~Fits(q)
           /\ ctx' = [ctx EXCEPT ![r.idx].ref = @ - 1]
           /\ pc' = [pc EXCEPT ![p] = Idle]
           /\ UNCHANGED <<status_t, cmds, later, accepted>>
     /\ UNCHANGED <<status_t, clock, w, calls, oneShot, runs, dropped, revoked, lastRun>>

\* Mutant: the wait returns without the status being set.
WokenAlways(c) == TRUE

\* status.wait_for returns once status is set.
Woken(c) == c.status = 1

\* IntStatus::wait_for spins until the status is set; EventFlagStatus's
\* wait consumes the flag.  execute_async returns 0 either way.
WaitWoken(p) ==
  /\ pc[p].op = "wait"
  /\ Woken(ctx[pc[p].idx])
  /\ ctx' = IF EventFlagStatus THEN [ctx EXCEPT ![pc[p].idx].status = 0] ELSE ctx
  /\ pc' = [pc EXCEPT ![p] = Idle]
  /\ UNCHANGED <<status_t, cmds, later, clock, w, calls, oneShot, accepted, runs, dropped,
                 revoked, lastRun>>

\* EventFlagStatus::wait_for gives up after 2000 ms and returns -1, which
\* execute_async ignores: it returns 0.
WaitTimeout(p) ==
  /\ EventFlagStatus
  /\ pc[p].op = "wait"
  /\ pc' = [pc EXCEPT ![p] = Idle]
  /\ UNCHANGED <<status_t, ctx, cmds, later, clock, w, calls, oneShot, accepted, runs,
                 dropped, revoked, lastRun, status_t>>

\* cancel(id): the first context with cmd_id == id and ref_count > 0; if
\* there is none it returns and nothing changes, which is not a step.
CancelFind(p, id) ==
  /\ pc[p] = Idle
  /\ \E i \in Ctx : ctx[i].cmd = id /\ ctx[i].ref > 0
  /\ LET i == Min({j \in Ctx : ctx[j].cmd = id /\ ctx[j].ref > 0}) IN
     pc' = [pc EXCEPT ![p] = [op |-> "cancel", idx |-> i, cid |-> ctx[i].func]]
  /\ UNCHANGED <<status_t, ctx, cmds, later, clock, w, calls, oneShot, accepted, runs,
                 dropped, revoked, lastRun, status_t>>

\* ... then sets cancelled on that context, whatever it holds by now.
CancelSet(p) ==
  LET i == pc[p].idx
      c == pc[p].cid
  IN /\ pc[p].op = "cancel"
     /\ ctx' = [ctx EXCEPT ![i].cancelled = 1]
     /\ revoked' = IF ctx[i].func = c /\ ctx[i].ref > 0 /\ ~(w.pc = "exec" /\ w.idx = i)
                      /\ revoked[c] = -1
                   THEN [revoked EXCEPT ![c] = runs[c]] ELSE revoked
     /\ pc' = [pc EXCEPT ![p] = Idle]
     /\ UNCHANGED <<status_t, cmds, later, clock, w, calls, oneShot, accepted, runs, dropped,
                    lastRun>>

-----------------------------------------------------------------------------
(* The worker thread: process() called in a loop *)

\* Mutant: a comparison that is strict.
DueStrict(now, s) == now > s

\* enqueue_delayed_commands: now >= (uint32_t)scheduled_ms.
Due(now, s) == now >= s

\* process() begins with enqueue_delayed_commands, which reads nowMs() once.
Begin ==
  /\ w.pc = "begin"
  /\ w' = [w EXCEPT !.pc = "enq", !.now = clock, !.start = NoId]
  /\ UNCHANGED <<status_t, ctx, cmds, later, clock, pc, calls, oneShot, accepted, runs,
                 dropped, revoked, lastRun, status_t>>

\* One iteration of its loop.  A due context moves to m_commands (its
\* reference dropped if that queue is full) and the loop ends; one not due
\* goes to the back of m_commands_later and the loop ends when it comes back
\* to the first one it re-queued.  That put's result is ignored; the pop and
\* the put are one step here, so the place just freed takes it.
EnqueueStep ==
  /\ w.pc = "enq"
  /\ \/ /\ later = <<>>
        /\ w' = [w EXCEPT !.pc = "pop"]
        /\ UNCHANGED <<status_t, ctx, cmds, later, dropped>>
     \/ /\ later # <<>>
        /\ LET i == Head(later) IN
           \/ /\ Due(w.now, ctx[i].sched)
              /\ later' = Tail(later)
              /\ IF Fits(cmds)
                   THEN cmds' = Append(cmds, i) /\ UNCHANGED <<status_t, ctx, dropped>>
                   ELSE /\ ctx' = [ctx EXCEPT ![i].ref = @ - 1]
                        /\ dropped' = dropped \cup {ctx[i].func}
                        /\ UNCHANGED cmds
              /\ w' = [w EXCEPT !.pc = "pop"]
           \/ /\ ~Due(w.now, ctx[i].sched)
              /\ later' = Append(Tail(later), i)
              /\ w' = IF i = w.start THEN [w EXCEPT !.pc = "pop"]
                      ELSE IF w.start = NoId THEN [w EXCEPT !.start = i] ELSE w
              /\ UNCHANGED <<status_t, ctx, cmds, dropped>>
  /\ UNCHANGED <<status_t, clock, pc, calls, oneShot, accepted, runs, revoked, lastRun>>

\* Mutant: pop that leaves the head in the queue.
PopHeadKeep(q) == q

PopHead(q) == Tail(q)

\* Mutant: the cancelled flag ignored.
IsCancelledNever(c) == FALSE

IsCancelled(c) == c.cancelled = 1

\* Mutant: the cancelled path that keeps the reference.
DropCancelledLeak(i) == UNCHANGED ctx

\* A cancelled context: dec_ref_count and return.
DropCancelled(i) == ctx' = [ctx EXCEPT ![i].ref = @ - 1]

\* m_commands.pop: nothing there (after the timeout) ends process(); a
\* cancelled context is released; otherwise its function runs next.
Pop ==
  /\ w.pc = "pop"
  /\ \/ /\ cmds = <<>>
        /\ w' = [w EXCEPT !.pc = "begin"]
        /\ UNCHANGED <<status_t, ctx, cmds, dropped>>
     \/ /\ cmds # <<>>
        /\ LET i == Head(cmds) IN
           /\ cmds' = PopHead(cmds)
           /\ \/ /\ IsCancelled(ctx[i])
                 /\ DropCancelled(i)
                 /\ dropped' = dropped \cup {ctx[i].func}
                 /\ w' = [w EXCEPT !.pc = "begin"]
              \/ /\ ~IsCancelled(ctx[i])
                 /\ w' = [w EXCEPT !.pc = "exec", !.idx = i]
                 /\ UNCHANGED <<status_t, ctx, dropped>>
  /\ UNCHANGED <<status_t, later, clock, pc, calls, oneShot, accepted, runs, revoked, lastRun>>

\* Mutant: completion that does not set the status.
DoneNoSignal(c) == [c EXCEPT !.ref = @ - 1]

\* status.set() then dec_ref_count().
Done(c) == [c EXCEPT !.status = 1, !.ref = @ - 1]

\* func() runs.  An interval function is scheduled again at nowMs() +
\* interval_ms on m_commands_later (its reference dropped if that fails);
\* any other sets its status and gives its reference back.
Execute ==
  LET i == w.idx
      c == ctx[i]
  IN /\ w.pc = "exec"
     /\ runs' = [runs EXCEPT ![c.func] = IF @ < 2 THEN @ + 1 ELSE @]
     /\ lastRun' = [cid |-> c.func, left |-> c.left]
     /\ \/ /\ c.interval > 0
           /\ IF Fits(later)
                THEN /\ later' = Append(later, i)
                     /\ ctx' = [ctx EXCEPT ![i].sched = Sched(clock, c.interval),
                                           ![i].left = c.interval]
                     /\ UNCHANGED dropped
                ELSE /\ ctx' = [ctx EXCEPT ![i].sched = Sched(clock, c.interval),
                                           ![i].ref = @ - 1]
                     /\ dropped' = dropped \cup {c.func}
                     /\ UNCHANGED later
        \/ /\ c.interval <= 0
           /\ ctx' = [ctx EXCEPT ![i] = Done(c)]
           /\ UNCHANGED <<status_t, later, dropped>>
     /\ w' = [w EXCEPT !.pc = "begin"]
     /\ UNCHANGED <<status_t, cmds, clock, pc, calls, oneShot, accepted, revoked>>

\* nowMs() advances; the ghost ticks left to each context's time count down.
Tick ==
  /\ ClockWraps \/ clock < ClockMod - 1
  /\ clock' = (clock + 1) % ClockMod
  /\ ctx' = [i \in Ctx |-> [ctx[i] EXCEPT !.left = IF @ > 0 THEN @ - 1 ELSE 0]]
  /\ UNCHANGED <<status_t, cmds, later, pc, w, calls, oneShot, accepted, runs, dropped,
                 revoked, lastRun>>

-----------------------------------------------------------------------------

\* The steps of a producer's call in progress.
ProducerStep(p) == Setup(p) \/ Put(p) \/ WaitWoken(p) \/ WaitTimeout(p) \/ CancelSet(p)

WorkerStep == Begin \/ EnqueueStep \/ Pop \/ Execute

Next ==
  \/ \E p \in Producers :
       \/ \E wait \in BOOLEAN : Call(p, "async", wait, 0, NoId)
       \/ \E t \in Delays, id \in Ids \cup {NoId} : Call(p, "later", FALSE, t, id)
       \/ \E t \in Intervals, id \in Ids \cup {NoId} : Call(p, "interval", FALSE, t, id)
       \/ \E id \in Ids : CancelFind(p, id)
       \/ ProducerStep(p)
  \/ WorkerStep
  \/ Tick

\* The worker thread runs process() in a loop and the clock runs; a thread
\* in a call keeps running it.  Nothing obliges a producer to call.
Spec == Init /\ [][Next]_vars /\ WF_vars(WorkerStep) /\ WF_vars(Tick)
        /\ \A p \in Producers : WF_vars(ProducerStep(p))

-----------------------------------------------------------------------------
(* Properties *)

TypeOK ==
  /\ \A i \in Ctx : ctx[i].ref \in 0..(2 * Size + 1 + Cardinality(Producers))
                   /\ ctx[i].cancelled \in 0..1
                   /\ ctx[i].status \in 0..1 /\ ctx[i].sched \in 0..ClockMod-1
  /\ cmds \in Seq(Ctx) /\ Len(cmds) <= Size
  /\ later \in Seq(Ctx) /\ Len(later) <= Size
  /\ clock \in 0..ClockMod-1
  /\ calls \in 0..MaxCalls

\* A context's reference count is the number of places that hold it: its
\* entries in the two queues, the worker about to run it, and a producer
\* between taking the reference and the put.  (execute_async*, process,
\* enqueue_delayed_commands and the cancel path each move or drop one.)
RefCountMatches ==
  \A i \in Ctx :
    ctx[i].ref = Occ(i, cmds) + Occ(i, later)
                 + (IF w.pc = "exec" /\ w.idx = i THEN 1 ELSE 0)
                 + Quantify(Producers, LAMBDA p : pc[p].op = "put" /\ pc[p].idx = i)

\* A function handed to execute_async or execute_async_later runs at most
\* once.
OneShotRunsAtMostOnce ==
  \A c \in oneShot : runs[c] <= 1

\* A function whose context cancel() flagged before the worker took it
\* never runs again (the flag is honoured on m_commands, also after a trip
\* through m_commands_later).
CancelHonoured ==
  \A c \in Cid : revoked[c] >= 0 => runs[c] = revoked[c]

ReturnsAfterRun ==
  \A p \in Producers : pc[p].op = "wait" /\ pc'[p] = Idle => runs'[pc[p].cid] >= 1

\* execute_async(f, true) returns only after f has run, whatever STATUS.
WaitedCommandHasRunAny == [][ReturnsAfterRun]_vars

\* execute_async(f, true) returns only after f has run, with IntStatus,
\* whose wait_for the unit tests use (EventFlagStatus's times out).
WaitedCommandHasRun == [][~EventFlagStatus => ReturnsAfterRun]_vars

\* A function accepted by execute_async or execute_async_later is run or
\* discarded (cancelled) eventually.
AcceptedRuns ==
  \A c \in Cid : (c \in accepted /\ c \in oneShot) ~> (runs[c] >= 1 \/ c \in dropped)

\* A thread in execute_async(f, true) returns.
WaiterReturns ==
  \A p \in Producers : pc[p].op = "wait" ~> pc[p] = Idle

\* A delayed or interval function never runs before its time has come.
NotEarly == lastRun.left = 0
====
