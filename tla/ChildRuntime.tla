----------------------------- MODULE ChildRuntime -----------------------------
(***************************************************************************)
(* The runtime of one fleet child: arbora/fleet/child_resilience.py.  The   *)
(* supervisor task owns the connection generations, the callers share the   *)
(* slots, the sessions and the circuit breaker, and every forwarded request *)
(* runs in a task of its own that outlives a caller that gives up.          *)
(*                                                                          *)
(* All of this is one asyncio event loop, so a task keeps the loop until it *)
(* waits: loop is the call that runs now, and None between two tasks.  The  *)
(* clock is left out: whatever has a timeout may time out, an open breaker  *)
(* may have cooled down, a restart may have left the restart window.  What  *)
(* the child answers, and when, is open too.                                *)
(***************************************************************************)
EXTENDS Integers, FiniteSets

CONSTANTS
  Calls,         \* calls of call_tool and call_request
  Shape,         \* Shape[c]: how the multiplexer makes call c (see ShapeTypes)
  MaxConc,       \* max_concurrency
  Threshold,     \* breaker_threshold; 0 disables the breaker
  MaxRestarts,   \* max_restarts
  Ages,          \* the sessions have a session_max_age
  MaxGen,        \* bound: how many generations ever connect
  None           \* Python's None

\* tool: call_tool rather than call_request; retry: retry_on_transient;
\* marked: with a generation_marker; factory: with a request_factory;
\* preflight: with a schema preflight.
ShapeTypes ==
  [tool : BOOLEAN, retry : BOOLEAN, marked : BOOLEAN, factory : BOOLEAN,
   preflight : BOOLEAN]

ASSUME ChildRuntimeAssumption ==
  /\ Shape \in [Calls -> ShapeTypes]
  /\ \A c \in Calls : /\ Shape[c].preflight => Shape[c].tool
                      /\ Shape[c].factory => ~Shape[c].tool
  /\ MaxConc \in Nat \ {0}
  /\ Threshold \in Nat
  /\ MaxRestarts \in Nat
  /\ Ages \in BOOLEAN
  /\ MaxGen \in Nat \ {0}
  /\ None \notin Calls

VARIABLES
  breaker,    \* the circuit breaker
  child,      \* the lifecycle fields of the runtime
  sv,         \* where the supervisor task is
  first,      \* _supervise still holds the future that start() waits for
  permits,    \* free slots of the semaphore
  call,       \* call[c]: where the caller is
  try,        \* try[c][i]: the i-th forwarding attempt of c and its inner task
  loop,       \* the call that holds the event loop, or None
  published   \* the generations announced as ready so far (history)

vars == <<breaker, child, sv, first, permits, call, try, loop, published>>

\* Inner tasks that have not finished, and so keep their slot.
Open  == {"created", "preflight", "sent"}
\* How an inner task ended.  "dead" is a transport failure or a terminated
\* session, "group" the same inside an exception group, "app" any other error.
Ended == {"ok", "app", "dead", "group", "expired", "cancelled"}

Waits == {"renew", "gated", "queued", "await", "recover"}
Runs  == {"begin", "gate", "reserve", "select", "again"}

Generations == 0..MaxGen   \* 0 before the first one, and for "no session"

TypeOK ==
  /\ breaker \in [state : {"closed", "open", "half_open"},
                  failures : 0..Threshold, probe : BOOLEAN]
  /\ child \in [state : {"starting", "up", "restarting", "failed", "closed"},
                ready : BOOLEAN, sessions : Generations,
                generation : Generations, stop : BOOLEAN, recycle : BOOLEAN,
                restarts : 0..(MaxRestarts + 1), closed : BOOLEAN]
  /\ sv \in {"none", "connecting", "notifying", "serving", "backoff", "ended",
             "crashed", "cancelled"}
  /\ first \in BOOLEAN
  /\ permits \in 0..MaxConc
  /\ call \in [Calls -> [pc : {"idle", "done"} \cup Waits \cup Runs,
                         attempt : {0, 1}, marker : Generations,
                         snapshot : Generations, woken : BOOLEAN]]
  /\ try \in [Calls -> [{0, 1} -> [stage : {"none"} \cup Open \cup Ended,
                                   session : Generations, probe : BOOLEAN,
                                   abandoned : BOOLEAN, sent : BOOLEAN]]]
  /\ loop \in Calls \cup {None}
  /\ published \subseteq Generations

Init ==
  /\ breaker = [state |-> "closed", failures |-> 0, probe |-> FALSE]
  /\ child = [state |-> "starting", ready |-> FALSE, sessions |-> 0,
              generation |-> 0, stop |-> FALSE, recycle |-> FALSE,
              restarts |-> 0, closed |-> FALSE]
  /\ sv = "none"
  /\ first = FALSE
  /\ permits = MaxConc
  /\ call = [c \in Calls |-> [pc |-> "idle", attempt |-> 0, marker |-> 0,
                              snapshot |-> 0, woken |-> FALSE]]
  /\ try = [c \in Calls |->
              [i \in {0, 1} |-> [stage |-> "none", session |-> 0,
                                 probe |-> FALSE, abandoned |-> FALSE,
                                 sent |-> FALSE]]]
  /\ loop = None
  /\ published = {}

-----------------------------------------------------------------------------
(* The circuit breaker.  Past the threshold its failure count is not kept.  *)

BeforeCallRefuses(b, cooled) ==
  /\ Threshold > 0
  /\ \/ b.state = "open" /\ ~cooled
     \/ b.state = "half_open" /\ b.probe

BeforeCall(b) ==
  IF Threshold = 0 \/ b.state = "closed"
    THEN b
    ELSE [b EXCEPT !.state = "half_open", !.probe = TRUE]

RecordSuccess(b) ==
  IF Threshold = 0
    THEN b
    ELSE [state |-> "closed", failures |-> 0, probe |-> FALSE]

RecordFailure(b) ==
  IF Threshold = 0
    THEN b
    ELSE LET n == IF b.failures < Threshold THEN b.failures + 1 ELSE Threshold
         IN [state |-> IF b.probe \/ n >= Threshold THEN "open" ELSE b.state,
             failures |-> n, probe |-> FALSE]

-----------------------------------------------------------------------------
(* The supervisor task and the lifecycle of the generations.               *)

\* request_restart, when the runtime has a supervisor.
RequestRestart(ch) ==
  IF ch.closed \/ sv = "none" \/ ch.state # "up"
    THEN ch
    ELSE [ch EXCEPT !.state = "restarting", !.ready = FALSE, !.stop = TRUE]

\* request_recycle: the same for a planned renewal.
RequestRecycle(ch) ==
  IF ch.closed \/ sv = "none" \/ ch.state # "up"
    THEN ch
    ELSE [ch EXCEPT !.state = "restarting", !.ready = FALSE, !.stop = TRUE,
                    !.recycle = TRUE]

\* Setting the ready event releases every call that waits for it now, even if
\* the event is cleared again before that call runs.
Wake == [c \in Calls |-> [call[c] EXCEPT !.woken = @ \/ call[c].pc = "gated"]]

\* The loop runs what is ready to run before it polls a connection.
Drained == \A c \in Calls : ~call[c].woken

adopt_sessions ==
  /\ sv = "none" /\ child.state = "starting"
  /\ child' = [child EXCEPT !.sessions = 1, !.generation = 1, !.state = "up",
                            !.ready = TRUE]
  /\ published' = {1}
  /\ UNCHANGED <<breaker, sv, first, permits, call, try, loop>>

start ==
  /\ sv = "none" /\ child.state = "starting"
  /\ sv' = "connecting"
  /\ first' = TRUE
  /\ UNCHANGED <<breaker, child, permits, call, try, loop, published>>

\* Mutant: every generation is ready as soon as it is connected.
ConnectedReady ==
  /\ loop = None /\ sv = "connecting" /\ Drained
  /\ child.generation < MaxGen
  /\ LET g == child.generation + 1
     IN /\ child' = [child EXCEPT !.sessions = g, !.generation = g,
                                  !.state = "up", !.stop = FALSE,
                                  !.ready = TRUE]
        /\ published' = IF first THEN published \cup {g} ELSE published
  /\ breaker' = RecordSuccess(breaker)
  /\ sv' = IF first THEN "serving" ELSE "notifying"
  /\ UNCHANGED <<first, permits, call, try, loop>>

\* _run_generation, up to the notification or, for the first generation, up to
\* the wait for the end.
Connected ==
  /\ loop = None /\ sv = "connecting" /\ Drained
  /\ child.generation < MaxGen
  /\ LET g == child.generation + 1
     IN /\ child' = [child EXCEPT !.sessions = g, !.generation = g,
                                  !.state = "up", !.stop = FALSE,
                                  !.ready = first]
        /\ published' = IF first THEN published \cup {g} ELSE published
  /\ breaker' = RecordSuccess(breaker)
  /\ sv' = IF first THEN "serving" ELSE "notifying"
  /\ UNCHANGED <<first, permits, call, try, loop>>

\* The observer has refreshed its schemas, or failed to: calls may come.
Notified ==
  /\ loop = None /\ sv = "notifying"
  /\ child' = [child EXCEPT !.ready = TRUE]
  /\ published' = published \cup {child.generation}
  /\ call' = Wake
  /\ sv' = "serving"
  /\ UNCHANGED <<breaker, first, permits, try, loop>>

\* What _supervise does after a generation, and whether it goes on.
Down(ch) == [ch EXCEPT !.ready = FALSE, !.sessions = 0]

RestartPlan ==
  IF child.recycle
    THEN /\ child' = [Down(child) EXCEPT !.recycle = FALSE,
                                         !.state = "restarting"]
         /\ sv' = "connecting"
    ELSE \E n \in 1..(child.restarts + 1) :
           IF n > MaxRestarts
             THEN /\ child' = [Down(child) EXCEPT !.restarts = n,
                                                  !.state = "failed"]
                  /\ sv' = "ended"
             ELSE /\ child' = [Down(child) EXCEPT !.restarts = n,
                                                  !.state = "restarting"]
                  /\ sv' = "backoff"

\* The first connection failed: start() raises, there is no restart.
BootFails ==
  /\ loop = None /\ sv = "connecting" /\ first
  /\ child' = [Down(child) EXCEPT !.state = "failed"]
  /\ sv' = "ended"
  /\ UNCHANGED <<breaker, first, permits, call, try, loop, published>>

ReconnectFails ==
  /\ loop = None /\ sv = "connecting" /\ ~first
  /\ RestartPlan
  /\ UNCHANGED <<breaker, first, permits, call, try, loop, published>>

\* The generation was stopped and its transports are closed.
GenerationEnds ==
  /\ loop = None /\ sv = "serving" /\ child.stop
  /\ RestartPlan
  /\ first' = FALSE
  /\ UNCHANGED <<breaker, permits, call, try, loop, published>>

\* Closing the transports raised.  The first generation's future is still in
\* hand and already has its result, so reporting the failure to it raises too
\* and ends the supervisor task.
GenerationEndsBadly ==
  /\ loop = None /\ sv = "serving" /\ child.stop
  /\ IF first
       THEN /\ child' = [Down(child) EXCEPT !.state = "failed"]
            /\ sv' = "crashed"
       ELSE RestartPlan
  /\ UNCHANGED <<breaker, first, permits, call, try, loop, published>>

BackoffOver ==
  /\ loop = None /\ sv = "backoff"
  /\ sv' = "connecting"
  /\ UNCHANGED <<breaker, child, first, permits, call, try, loop, published>>

Closing == [child EXCEPT !.closed = TRUE, !.ready = FALSE, !.stop = TRUE]

\* aclose up to its wait for the cancelled supervisor; without a running one
\* it does not wait, and a crashed one makes it raise.
aclose ==
  /\ loop = None /\ ~child.closed /\ (sv # "none" \/ child.generation > 0)
  /\ IF sv \in {"none", "ended"}
       THEN /\ child' = [Closing EXCEPT !.sessions = 0, !.state = "closed"]
            /\ sv' = "none"
       ELSE /\ child' = Closing
            /\ sv' = IF sv = "crashed" THEN sv ELSE "cancelled"
  /\ UNCHANGED <<breaker, first, permits, call, try, loop, published>>

\* The supervisor has closed its transports, badly in the second case.
SupervisorCancelled ==
  /\ loop = None /\ sv = "cancelled"
  /\ \/ /\ child' = [Down(child) EXCEPT !.state = "closed"]
        /\ sv' = "none"
     \/ /\ first /\ child.sessions # 0
        /\ child' = [Down(child) EXCEPT !.state = "failed"]
        /\ sv' = "crashed"
  /\ UNCHANGED <<breaker, first, permits, call, try, loop, published>>

Supervisor ==
  \/ adopt_sessions \/ start \/ Connected \/ Notified \/ BootFails
  \/ ReconnectFails \/ GenerationEnds \/ GenerationEndsBadly \/ BackoffOver
  \/ aclose \/ SupervisorCancelled

-----------------------------------------------------------------------------
(* The caller.                                                              *)

at(c)   == call[c].attempt
Try(c)  == try[c][at(c)]

\* The task of c moves to pc: it keeps the loop unless it waits or is over.
Goto(c, pc) ==
  /\ call' = [call EXCEPT ![c].pc = pc, ![c].woken = FALSE]
  /\ loop' = IF pc \in Runs THEN c ELSE None

Running(c, pc) == loop = c /\ call[c].pc = pc
Waiting(c, pc) == loop = None /\ call[c].pc = pc

\* The caller asks.  A tool call carries the generation that serves now, a
\* task request the one that its route was made for.
Ask(c, m) ==
  /\ Waiting(c, "idle")
  /\ child.generation > 0
  /\ m \in 1..child.generation
  /\ Shape[c].tool => m = child.generation
  /\ call' = [call EXCEPT ![c].pc = "begin", ![c].marker = m]
  /\ loop' = c
  /\ UNCHANGED <<breaker, child, sv, first, permits, try, published>>

\* The same, but the session has outlived its bearer: _recycle_if_stale.
AskStale(c, m) ==
  /\ Ages /\ sv # "none" /\ child.state = "up"
  /\ Waiting(c, "idle")
  /\ child.generation > 0
  /\ m \in 1..child.generation
  /\ Shape[c].tool => m = child.generation
  /\ child' = RequestRecycle(child)
  /\ call' = [call EXCEPT ![c].pc = "renew", ![c].marker = m]
  /\ UNCHANGED <<breaker, sv, first, permits, try, loop, published>>

\* It waits for the new generation, but goes on without one as well.
Renewed(c) ==
  /\ Waiting(c, "renew")
  /\ Goto(c, "begin")
  /\ UNCHANGED <<breaker, child, sv, first, permits, try, published>>

ShortCircuit(c) ==
  /\ Running(c, "begin")
  /\ BeforeCallRefuses(breaker, FALSE)
  /\ Goto(c, "done")
  /\ UNCHANGED <<breaker, child, sv, first, permits, try, published>>

\* _begin_request
BeginRequest(c) ==
  /\ Running(c, "begin")
  /\ ~BeforeCallRefuses(breaker, TRUE)
  /\ breaker' = BeforeCall(breaker)
  /\ try' = [try EXCEPT ![c][at(c)].probe = breaker'.state = "half_open"]
  /\ Goto(c, "gate")
  /\ UNCHANGED <<child, sv, first, permits, published>>

\* Mutant: the probe of an attempt that gives up stays claimed.
AbortSilently(c) ==
  /\ Goto(c, "done")
  /\ UNCHANGED <<breaker, child, sv, first, permits, try, published>>

\* An attempt that ends before it has a slot settles the probe it claimed.
Abort(c) ==
  /\ breaker' = IF Try(c).probe THEN RecordFailure(breaker) ELSE breaker
  /\ Goto(c, "done")
  /\ UNCHANGED <<child, sv, first, permits, try, published>>

\* The generation an attempt is bound to once it got past the ready gate.
Snapshot(c) ==
  /\ call' = [call EXCEPT ![c].pc = "reserve", ![c].woken = FALSE,
                          ![c].snapshot = child.generation]
  /\ loop' = c
  /\ UNCHANGED <<breaker, child, sv, first, permits, try, published>>

\* _await_ready, without a wait.
AwaitReady(c) ==
  /\ Running(c, "gate")
  /\ IF child.state = "failed" THEN Abort(c)
     ELSE IF child.ready THEN Snapshot(c)
     ELSE /\ Goto(c, "gated")
          /\ UNCHANGED <<breaker, child, sv, first, permits, try, published>>

ReadyReached(c) ==
  /\ Waiting(c, "gated")
  /\ call[c].woken
  /\ IF child.state = "failed" THEN Abort(c) ELSE Snapshot(c)

\* Mutant: the wait for the ready event has no timeout, only a parked child
\* ends it.
ReadyWaitsOn(c) ==
  /\ Waiting(c, "gated")
  /\ child.state = "failed"
  /\ Abort(c)

ReadyTimeout(c) ==
  /\ Waiting(c, "gated")
  /\ Abort(c)

\* asyncio.Semaphore.locked: a newcomer does not overtake the queue.
Locked == permits = 0 \/ \E d \in Calls : call[d].pc = "queued"

\* _acquire_slot
AcquireSlot(c) ==
  /\ Running(c, "reserve")
  /\ permits' = IF Locked THEN permits ELSE permits - 1
  /\ Goto(c, IF Locked THEN "queued" ELSE "select")
  /\ UNCHANGED <<breaker, child, sv, first, try, published>>

SlotGranted(c) ==
  /\ Waiting(c, "queued")
  /\ permits > 0
  /\ permits' = permits - 1
  /\ Goto(c, "select")
  /\ UNCHANGED <<breaker, child, sv, first, try, published>>

SlotTimeout(c) ==
  /\ Waiting(c, "queued")
  /\ Abort(c)

\* before_send comes with every request and with every marked tool call.
Fenced(c)   == Shape[c].marked \/ ~Shape[c].tool
Expected(c) == IF Shape[c].marked THEN call[c].marker ELSE call[c].snapshot

\* Mutant: the slot of a refused attempt is not released.
GiveBackProbeOnly(c) ==
  /\ breaker' = IF Try(c).probe THEN RecordFailure(breaker) ELSE breaker
  /\ UNCHANGED <<child, sv, first, permits, try, published>>

\* An attempt that ends with a slot in hand.
GiveBack(c) ==
  /\ permits' = permits + 1
  /\ breaker' = IF Try(c).probe THEN RecordFailure(breaker) ELSE breaker
  /\ UNCHANGED <<child, sv, first, try, published>>

\* _GenerationChanged: only a request with a factory is built once more.
Outdated(c) ==
  /\ Running(c, "select")
  /\ Fenced(c) /\ child.generation # Expected(c)
  /\ GiveBack(c)
  /\ IF Shape[c].factory /\ at(c) = 0
       THEN /\ call' = [call EXCEPT ![c].attempt = 1, ![c].pc = "begin"]
            /\ loop' = c
       ELSE Goto(c, "done")

\* before_send refused, or no session is left.
Refused(c) ==
  /\ Running(c, "select")
  /\ \/ Fenced(c) /\ child.generation = Expected(c)
     \/ child.sessions = 0 /\ ~Fenced(c)
  /\ GiveBack(c)
  /\ Goto(c, "done")

\* Mutant: the session is picked without the generation check.
SendUnfenced(c) ==
  /\ Running(c, "select")
  /\ child.sessions # 0
  /\ try' = [try EXCEPT ![c][at(c)].session = child.sessions,
                        ![c][at(c)].stage =
                           IF Shape[c].preflight THEN "preflight"
                                                 ELSE "created"]
  /\ Goto(c, "await")
  /\ UNCHANGED <<breaker, child, sv, first, permits, published>>

\* The inner task is created on the chosen session.
Send(c) ==
  /\ Running(c, "select")
  /\ Fenced(c) => child.generation = Expected(c)
  /\ child.sessions # 0
  /\ try' = [try EXCEPT ![c][at(c)].session = child.sessions,
                        ![c][at(c)].stage =
                           IF Shape[c].preflight THEN "preflight"
                                                 ELSE "created"]
  /\ Goto(c, "await")
  /\ UNCHANGED <<breaker, child, sv, first, permits, published>>

-----------------------------------------------------------------------------
(* The inner task.  Its end and _finish_call are one step.                  *)

\* call_tool or send_request hands the request to the child.
Dispatch(c, i) ==
  /\ loop = None
  /\ try[c][i].stage = "created"
  /\ try' = [try EXCEPT ![c][i].stage = "sent", ![c][i].sent = TRUE]
  /\ UNCHANGED <<breaker, child, sv, first, permits, call, loop, published>>

\* The preflight is done, the caller still waits and the generation is the
\* one the attempt is bound to.
PreflightPasses(c, i) ==
  /\ loop = None
  /\ try[c][i].stage = "preflight"
  /\ ~try[c][i].abandoned
  /\ child.generation = Expected(c)
  /\ try' = [try EXCEPT ![c][i].stage = "sent", ![c][i].sent = TRUE]
  /\ UNCHANGED <<breaker, child, sv, first, permits, call, loop, published>>

\* What _finish_call makes of the end of an inner task.
Settled(b, end) ==
  IF end = "ok" THEN RecordSuccess(b)
  ELSE IF end = "dead" THEN RecordFailure(b) ELSE b

FinishCall(c, i, b, end) ==
  /\ permits' = permits + 1
  /\ breaker' = Settled(b, end)
  /\ child' = IF end = "dead" THEN RequestRestart(child) ELSE child
  /\ try' = [try EXCEPT ![c][i].stage = end]
  /\ UNCHANGED <<sv, first, call, loop, published>>

\* _settle_preflight_failure
SettledPreflight(b, end, probe) ==
  IF end = "expired" \/ (probe /\ b.state = "half_open")
    THEN RecordFailure(b) ELSE b

\* The preflight raised, the caller is gone or going, the deadline is over, or
\* the generation has changed ("app").
PreflightFails(c, i, end) ==
  /\ loop = None
  /\ try[c][i].stage = "preflight"
  /\ end \in {"app", "dead", "group", "expired", "cancelled"}
  /\ end = "expired" => ~try[c][i].abandoned
  /\ FinishCall(c, i, SettledPreflight(breaker, end, try[c][i].probe), end)

\* The child answered, or its transport died.
Answer(c, i, end) ==
  /\ loop = None
  /\ try[c][i].stage = "sent"
  /\ end \in {"ok", "app", "dead", "group"}
  /\ FinishCall(c, i, breaker, end)

-----------------------------------------------------------------------------
(* The caller again, waiting for its inner task.                            *)

\* is_transient_child_death
Transient(end) == end \in {"dead", "group"}

\* The retry loops of call_tool and call_request.
Returns(c) ==
  /\ Waiting(c, "await")
  /\ Try(c).stage \in Ended \ {"cancelled"}
  /\ LET again == Transient(Try(c).stage) /\ Shape[c].retry /\ at(c) = 0
     IN /\ child' = IF Transient(Try(c).stage) /\ (Shape[c].tool \/ again)
                      THEN RequestRestart(child) ELSE child
        /\ Goto(c, IF ~again THEN "done"
                   ELSE IF child'.ready THEN "again" ELSE "recover")
  /\ UNCHANGED <<breaker, sv, first, permits, try, published>>

\* The retry waits for the next generation, for a bounded time; a marked tool
\* call is bound to the generation it finds then.
Recovered(c) ==
  /\ Waiting(c, "recover") \/ Running(c, "again")
  /\ call' = [call EXCEPT ![c].attempt = 1, ![c].pc = "begin",
                          ![c].marker = IF Shape[c].tool THEN child.generation
                                                         ELSE @]
  /\ loop' = c
  /\ UNCHANGED <<breaker, child, sv, first, permits, try, published>>

\* Mutant: the timeout error is an OSError, as TimeoutError is, and so counts
\* as a death of the child.
TimeoutRetries(c) ==
  /\ Waiting(c, "await")
  /\ breaker' = RecordFailure(breaker)
  /\ child' = RequestRestart(child)
  /\ try' = [try EXCEPT ![c][at(c)].abandoned = TRUE]
  /\ Goto(c, IF Shape[c].retry /\ at(c) = 0 THEN "recover" ELSE "done")
  /\ UNCHANGED <<sv, first, permits, published>>

\* The call timeout.  It can also fire when the inner task has just finished.
Timeout(c) ==
  /\ Waiting(c, "await")
  /\ breaker' = IF Shape[c].tool /\ Try(c).stage = "expired"
                  THEN breaker ELSE RecordFailure(breaker)
  /\ try' = [try EXCEPT ![c][at(c)].abandoned = TRUE]
  /\ Goto(c, "done")
  /\ UNCHANGED <<child, sv, first, permits, published>>

\* The caller's own task is cancelled while it waits for the child.
CancelAwait(c) ==
  /\ Waiting(c, "await")
  /\ try' = [try EXCEPT ![c][at(c)].abandoned = TRUE]
  /\ Goto(c, "done")
  /\ UNCHANGED <<breaker, child, sv, first, permits, published>>

\* The same in one of the other waits.
CancelWait(c) ==
  \/ /\ Waiting(c, "gated") \/ Waiting(c, "queued")
     /\ Abort(c)
  \/ /\ Waiting(c, "renew") \/ Waiting(c, "recover")
     /\ Goto(c, "done")
     /\ UNCHANGED <<breaker, child, sv, first, permits, try, published>>

Caller(c) ==
  \/ \E m \in Generations : Ask(c, m) \/ AskStale(c, m)
  \/ Renewed(c) \/ ShortCircuit(c) \/ BeginRequest(c) \/ AwaitReady(c)
  \/ ReadyReached(c) \/ ReadyTimeout(c) \/ AcquireSlot(c) \/ SlotGranted(c)
  \/ SlotTimeout(c) \/ Outdated(c) \/ Refused(c) \/ Send(c) \/ Returns(c)
  \/ Recovered(c) \/ Timeout(c) \/ CancelAwait(c) \/ CancelWait(c)

Inner(c, i) ==
  \/ Dispatch(c, i) \/ PreflightPasses(c, i)
  \/ \E end \in Ended : PreflightFails(c, i, end) \/ Answer(c, i, end)

Next ==
  \/ Supervisor
  \/ \E c \in Calls : Caller(c) \/ \E i \in {0, 1} : Inner(c, i)

Spec == Init /\ [][Next]_vars

\* Every wait of a caller has a timeout (the settings that could disable one
\* are refused by the constructor), so a caller that asked goes on.
Proceeds(c) ==
  \/ Renewed(c) \/ ShortCircuit(c) \/ BeginRequest(c) \/ AwaitReady(c)
  \/ ReadyTimeout(c) \/ AcquireSlot(c) \/ SlotTimeout(c) \/ Outdated(c)
  \/ Refused(c) \/ Send(c) \/ Recovered(c) \/ Timeout(c)

FairSpec == Spec /\ \A c \in Calls : WF_vars(Proceeds(c))

-----------------------------------------------------------------------------

Attempts == Calls \X {0, 1}

\* No slot is lost and none is counted twice, whatever mixture of timeouts,
\* cancellations, refusals and late answers ends the attempts: the free slots,
\* the slots of unfinished inner tasks and the slots in the hands of callers
\* that are choosing a session add up to max_concurrency.
SlotsConserved ==
  permits + Cardinality({a \in Attempts : try[a[1]][a[2]].stage \in Open})
          + Cardinality({c \in Calls : call[c].pc = "select"}) = MaxConc

\* A request reaches the child a second time only if its caller allowed the
\* retry, and only after the first transmission ended with the death of the
\* child: never because of a timeout, while the first may still be running.
ReplayOnlyAfterDeath ==
  \A c \in Calls :
    try[c][0].sent /\ try[c][1].sent =>
      Shape[c].retry /\ try[c][0].stage \in {"dead", "group"}

\* A marked call is sent on a session of its marked generation, whatever
\* happened to the child while the call waited for a slot or in a preflight.
SentOnMarkedGeneration ==
  \A c \in Calls :
    Shape[c].marked /\ Try(c).sent => Try(c).session = call[c].marker

\* No fenced request is routed through a generation before the multiplexer has
\* refreshed its schemas for it, not even one that passed the ready gate of an
\* older generation and then waited for a slot.
SentAfterRefresh ==
  \A c \in Calls, i \in {0, 1} :
    Fenced(c) /\ try[c][i].sent => try[c][i].session \in published

\* A probe in flight belongs to an attempt that is still under way, or to one
\* that the child answered with an error: an attempt that is refused, times
\* out, is cancelled or finds another generation never leaves its probe behind.
ProbeHasOwner ==
  breaker.probe =>
    \E c \in Calls, i \in {0, 1} :
      /\ try[c][i].probe
      /\ \/ at(c) = i /\ call[c].pc # "done"
         \/ try[c][i].stage \in Open \cup {"app", "group"}

\* Every call that was made is answered, with a result or with an error, even
\* if the child never comes back.
EveryCallAnswers ==
  \A c \in Calls : call[c].pc # "idle" ~> call[c].pc = "done"

\* core/settings.py says of the half-open probe that its "outcome closes or
\* re-opens the circuit": with no attempt under way, no probe is in flight.
ProbeOutcomeSettles ==
  breaker.probe =>
    \E c \in Calls, i \in {0, 1} :
      /\ try[c][i].probe
      /\ (at(c) = i /\ call[c].pc # "done") \/ try[c][i].stage \in Open

\* The module says that "more than MCP_CHILD_MAX_RESTARTS restarts" park the
\* child as failed: a child that came up once and is not being closed is
\* failed only when its restart budget is used up.
FailedOnlyWhenExhausted ==
  child.state = "failed" /\ child.generation > 0 /\ ~child.closed =>
    child.restarts > MaxRestarts
===============================================================================
