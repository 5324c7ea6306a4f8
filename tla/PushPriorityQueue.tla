-------------------------- MODULE PushPriorityQueue --------------------------
(***************************************************************************)
(* The push facade PushPriorityQueue of src/src/dmclock_server.h composed *)
(* with the scheduler core of DmClockServer.                               *)
(*                                                                         *)
(* add_request and request_completed hold data_mtx for their whole body   *)
(* and end in schedule_request: next_request returns None when            *)
(* can_handle_f() is false, else do_next_request; a Future(t) goes to      *)
(* sched_at(t), a Returning(heap) to submit_request, which pops the top    *)
(* and calls handle_f under data_mtx.  At most one request is dispatched   *)
(* per schedule_request.                                                   *)
(*                                                                         *)
(* The sched_ahead thread (run_sched_ahead) is a loop under              *)
(* sched_ahead_mtx, modelled by its position thPc: at the loop test of     *)
(* finishing ("loop"), at the test of sched_ahead_when ("check"), in the   *)
(* untimed sched_ahead_cv.wait ("sleep"), in the timed wait for the clock  *)
(* to reach sched_ahead_when ("timed"), after it has reset it and released *)
(* the mutex ("run"), past its finishing test and taking data_mtx          *)
(* ("sched"), and returned ("done").  The thread holds sched_ahead_mtx at  *)
(* "loop" and "check", so a sched_at waits for it to leave them; only the  *)
(* destructor, which sets the atomic finishing and notifies without the    *)
(* mutex, runs in between.  add_request is two steps, do_add_request and   *)
(* schedule_request, with data_mtx held in between: no other call that     *)
(* takes data_mtx runs between them, but the clock advances and the        *)
(* thread, which only takes sched_ahead_mtx, may wake.                     *)
(*                                                                         *)
(* can_handle_f and handle_f are the caller's: the caller is modelled as   *)
(* a server that handles at most Capacity requests at a time, so           *)
(* can_handle_f() is inflight < Capacity, handle_f starts one, and when   *)
(* one finishes the caller counts it down (CallerComplete) and then calls  *)
(* request_completed (RequestCompleted).                                   *)
(***************************************************************************)
EXTENDS Integers, FiniteSets

CONSTANTS
  Clients, InfoChoices, Scale, SystemCapacity, WinSize, AllowLimitBreak,
  AnticipationTimeout, IdleAge, EraseAge, CheckTime, DistValues, MaxTag,
  MaxTime, MaxTick, CallerOps,
  Capacity,            \* the requests the caller handles at once
  Shutdown             \* whether the owner destroys the queue

ASSUME Capacity \in Nat \ {0}
ASSUME Shutdown \in BOOLEAN

VARIABLES
  now, tick, winStart, totalWgt, active, cl, marks, lastClean,
  result,    \* the NextReq of the last schedule_request
  inflight,  \* requests handed to handle_f and not yet completed
  schedWhen, \* sched_ahead_when; 0 is TimeZero
  thPc,      \* the position of the sched_ahead thread in its loop
  handled,   \* the ids of the requests handed to handle_f
  addPc,     \* "sched" while add_request holds data_mtx between
             \* do_add_request and schedule_request, else "idle"
  donePc,    \* "call" when the caller has finished a request and is
             \* about to call request_completed, else "idle"
  dtorPc     \* the destructor: "none" before it runs, "join" once it has
             \* set finishing and notified, "done" when the join returned

coreVars == <<now, tick, winStart, totalWgt, active, cl, marks, lastClean, result>>
pushVars == <<inflight, schedWhen, thPc, handled, addPc, donePc, dtorPc>>
vars == <<coreVars, pushVars>>

TimeZero == 0

\* the atomic finishing flag: set by the destructor
finishing == dtorPc # "none"

\* the thread's positions at which it holds sched_ahead_mtx
LockHeld == {"loop", "check"}

Core == INSTANCE DmClockServer

\* mutant: can_handle_f() is not consulted
NextRequestNoCheck(inf) == Core!DoNextRequest

\* next_request: None unless can_handle_f(), else do_next_request (which,
\* for Returning, includes the pop of submit_request); the outcomes are
\* records [cs, total, win, res] as in DmClockServer
NextRequest(inf) ==
  IF inf < Capacity THEN Core!DoNextRequest
  ELSE {[cs |-> cl, total |-> totalWgt, win |-> winStart, res |-> Core!NoneResult]}

\* sched_at(when) under sched_ahead_mtx: unless finishing, keep the
\* earlier of the pending wake-up and when, and notify the thread
SchedAtFires(sw, when) == ~finishing /\ (sw = TimeZero \/ when < sw)
SchedAt(sw, when) == IF SchedAtFires(sw, when) THEN when ELSE sw

\* the thread at pc after a notify_one of sched_ahead_cv: woken if asleep
Notify(pc) == IF pc = "sleep" THEN "loop" ELSE pc

\* mutant: submit_request hands the top request to handle_f but leaves it
\* queued
ScheduleRequestNoPop(o, inf, pc) ==
  /\ o.res.type = "future" => thPc \notin LockHeld
  /\ cl' = IF o.res.type = "returning" THEN cl ELSE o.cs
  /\ totalWgt' = o.total /\ winStart' = o.win /\ result' = o.res
  /\ inflight' = IF o.res.type = "returning" THEN inf + 1 ELSE inf
  /\ handled' = IF o.res.type = "returning" THEN handled \cup {o.res.id} ELSE handled
  /\ schedWhen' = IF o.res.type = "future" THEN SchedAt(schedWhen, o.res.when)
                  ELSE schedWhen
  /\ thPc' = IF o.res.type = "future" /\ SchedAtFires(schedWhen, o.res.when)
             THEN Notify(pc) ELSE pc

\* schedule_request with in-flight count inf, given the outcome o of
\* next_request, the thread at pc: Future goes to sched_at, which waits
\* for sched_ahead_mtx; Returning calls handle_f
ScheduleRequest(o, inf, pc) ==
  /\ o.res.type = "future" => thPc \notin LockHeld
  /\ cl' = o.cs /\ totalWgt' = o.total /\ winStart' = o.win /\ result' = o.res
  /\ inflight' = IF o.res.type = "returning" THEN inf + 1 ELSE inf
  /\ handled' = IF o.res.type = "returning" THEN handled \cup {o.res.id} ELSE handled
  /\ schedWhen' = IF o.res.type = "future" THEN SchedAt(schedWhen, o.res.when)
                  ELSE schedWhen
  /\ thPc' = IF o.res.type = "future" /\ SchedAtFires(schedWhen, o.res.when)
             THEN Notify(pc) ELSE pc

\* add_request, first step: data_mtx taken, do_add_request
PushAddRequest(c, info, rho, delta) ==
  /\ ~finishing
  /\ addPc = "idle"
  /\ Core!AddRequest(c, info, rho, delta)
  /\ addPc' = "sched"
  /\ UNCHANGED <<inflight, schedWhen, thPc, handled, donePc, dtorPc>>

\* add_request, second step: schedule_request, then data_mtx released
AddSchedule ==
  /\ addPc = "sched"
  /\ addPc' = "idle"
  /\ \E o \in NextRequest(inflight) : ScheduleRequest(o, inflight, thPc)
  /\ UNCHANGED <<now, tick, active, marks, lastClean, donePc, dtorPc>>

\* a handled request finishes: the caller counts it down, so that
\* can_handle_f() holds again, and goes on to call request_completed
CallerComplete ==
  /\ donePc = "idle"
  /\ inflight > 0
  /\ inflight' = inflight - 1
  /\ donePc' = "call"
  /\ UNCHANGED <<coreVars, schedWhen, thPc, handled, addPc, dtorPc>>

\* mutant: request_completed does not schedule
RequestCompletedNoSchedule ==
  /\ ~finishing
  /\ addPc = "idle"
  /\ donePc = "call"
  /\ donePc' = "idle"
  /\ UNCHANGED <<coreVars, inflight, schedWhen, thPc, handled, addPc, dtorPc>>

\* request_completed: schedule_request under data_mtx
RequestCompleted ==
  /\ ~finishing
  /\ addPc = "idle"
  /\ donePc = "call"
  /\ donePc' = "idle"
  /\ \E o \in NextRequest(inflight) : ScheduleRequest(o, inflight, thPc)
  /\ UNCHANGED <<now, tick, active, marks, lastClean, addPc, dtorPc>>

\* run_sched_ahead, the loop test: return once finishing
ThreadLoop ==
  /\ thPc = "loop"
  /\ thPc' = IF finishing THEN "done" ELSE "check"
  /\ UNCHANGED <<coreVars, inflight, schedWhen, handled, addPc, donePc, dtorPc>>

\* run_sched_ahead: with no wake-up pending, wait on the cv until a
\* notify_one; otherwise wait for the clock
ThreadCheck ==
  /\ thPc = "check"
  /\ thPc' = IF schedWhen = TimeZero THEN "sleep" ELSE "timed"
  /\ UNCHANGED <<coreVars, inflight, schedWhen, handled, addPc, donePc, dtorPc>>

\* run_sched_ahead: the timed waits end when finishing is set or the clock
\* reaches sched_ahead_when (which sched_at may lower meanwhile); the
\* thread resets it, returns if finishing, else releases sched_ahead_mtx
ThreadWake ==
  /\ thPc = "timed"
  /\ finishing \/ now >= schedWhen
  /\ schedWhen' = TimeZero
  /\ thPc' = IF finishing THEN "done" ELSE "run"
  /\ UNCHANGED <<coreVars, inflight, handled, addPc, donePc, dtorPc>>

\* run_sched_ahead: with sched_ahead_mtx released, test finishing again;
\* if set, lock the mutex and go back to the loop test
ThreadRun ==
  /\ thPc = "run"
  /\ thPc' = IF finishing THEN "loop" ELSE "sched"
  /\ UNCHANGED <<coreVars, inflight, schedWhen, handled, addPc, donePc, dtorPc>>

\* run_sched_ahead: under data_mtx, schedule_request; then lock
\* sched_ahead_mtx and go back to the loop test
ThreadSchedule ==
  /\ addPc = "idle"
  /\ thPc = "sched"
  /\ \E o \in NextRequest(inflight) : ScheduleRequest(o, inflight, "loop")
  /\ UNCHANGED <<now, tick, active, marks, lastClean, addPc, donePc, dtorPc>>

\* ~PushPriorityQueue: finishing = true and notify_one, neither under
\* sched_ahead_mtx.  The owner destroys the queue when no call of it is
\* in progress, and makes none afterwards.
DtorNotify ==
  /\ Shutdown
  /\ dtorPc = "none"
  /\ addPc = "idle" /\ donePc = "idle"
  /\ dtorPc' = "join"
  /\ thPc' = Notify(thPc)
  /\ UNCHANGED <<coreVars, inflight, schedWhen, handled, addPc, donePc>>

\* ~PushPriorityQueue: sched_ahead_thd.join() returns once the thread has
\* returned from run_sched_ahead
DtorJoin ==
  /\ dtorPc = "join"
  /\ thPc = "done"
  /\ dtorPc' = "done"
  /\ UNCHANGED <<coreVars, inflight, schedWhen, thPc, handled, addPc, donePc>>

\* the janitor of PriorityQueueBase runs in the push facade too
Clean == addPc = "idle" /\ Core!DoClean /\ UNCHANGED pushVars

Tick == Core!Tick /\ UNCHANGED pushVars

Init ==
  /\ Core!Init
  /\ inflight = 0
  /\ schedWhen = TimeZero
  /\ thPc = "loop"
  /\ handled = {}
  /\ addPc = "idle"
  /\ donePc = "idle"
  /\ dtorPc = "none"

Next ==
  \/ \E c \in Clients, rho, delta \in DistValues :
       \E info \in InfoChoices[c] : PushAddRequest(c, info, rho, delta)
  \/ AddSchedule
  \/ CallerComplete
  \/ RequestCompleted
  \/ ThreadLoop
  \/ ThreadCheck
  \/ ThreadWake
  \/ ThreadRun
  \/ ThreadSchedule
  \/ DtorNotify
  \/ DtorJoin
  \/ Clean
  \/ Tick

\* The steps of AddSchedule, RequestCompleted and ThreadSchedule, told
\* apart by the control variable each one alone changes.  They are enabled
\* when those actions are (next_request always has an outcome) and the
\* thread does not hold sched_ahead_mtx, which it releases within two of
\* its own steps.
AddScheduleStep ==
  addPc = "sched" /\ thPc \notin LockHeld /\ addPc' = "idle"
RequestCompletedStep ==
  ~finishing /\ addPc = "idle" /\ donePc = "call" /\ thPc \notin LockHeld
  /\ donePc' = "idle"
ThreadScheduleStep == addPc = "idle" /\ thPc = "sched" /\ thPc' = "loop"

\* A call that holds data_mtx finishes it; the caller finishes and reports
\* every request it handles; the sched_ahead thread runs whenever it can
\* (an untimed wait ends only by a notify_one: spurious wake-ups are not
\* assumed); the destructor's join returns once the thread has; the clock
\* advances.  Weak fairness of the three data_mtx steps is stated on their
\* step predicates above.
Spec ==
  /\ Init /\ [][Next]_vars
  /\ WF_addPc(AddScheduleStep)
  /\ WF_vars(CallerComplete)
  /\ WF_donePc(RequestCompletedStep)
  /\ WF_vars(ThreadLoop)
  /\ WF_vars(ThreadCheck)
  /\ WF_vars(ThreadWake)
  /\ WF_vars(ThreadRun)
  /\ WF_thPc(ThreadScheduleStep)
  /\ WF_vars(DtorJoin)
  /\ WF_vars(Tick)

(***************************************************************************)
(* Properties                                                              *)
(***************************************************************************)

TypeOK ==
  /\ Core!TypeOK
  /\ inflight \in 0..Capacity
  /\ schedWhen \in Int
  /\ thPc \in {"loop", "check", "sleep", "timed", "run", "sched", "done"}
  /\ handled \subseteq 1..MaxTick
  /\ addPc \in {"idle", "sched"}
  /\ donePc \in {"idle", "call"}
  /\ dtorPc \in {"none", "join", "done"}

\* No request is stranded: while a request is queued something is bound to
\* call schedule_request again: a handled request that will complete, a
\* request_completed about to be called, a pending sched_ahead_when, or
\* the thread between its wake-up and its schedule_request.  A None from
\* do_next_request while requests are queued and nothing is in flight
\* leaves them queued until the next add_request.  Checked when no
\* add_request is half done and the queue is not being destroyed.
NoStrandedRequest ==
  addPc = "idle" /\ ~finishing /\ Core!QueuedIds # {} =>
     \/ inflight > 0 \/ donePc = "call"
     \/ schedWhen # TimeZero \/ thPc \in {"run", "sched"}

\* Every admitted request is eventually handed to handle_f, provided the
\* caller completes what it handles.
AllHandled == \A i \in 1..MaxTick : (i <= tick) ~> (i \in handled)

\* ~PushPriorityQueue returns: once it has set finishing and notified the
\* sched_ahead thread, the thread leaves run_sched_ahead and the join in
\* the destructor returns.
DestructorReturns == dtorPc = "join" ~> dtorPc = "done"
\* The push facade, with the sched_ahead thread, add_request and
\* request_completed interleaving their schedule_request calls, implements
\* the per-client FIFO contract RequestFifo: handle_f receives each
\* client's requests in the order add_request queued them, each once, and
\* none is dropped.  The mapping is the core's: the queues of client_map and
\* the request the last schedule_request handed to handle_f.
PushFifoRefinement == Core!FifoRefinement
=============================================================================
