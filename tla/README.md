# Arbora: a TLA+ verification project

Arbora (the `graph-os` repository, package `arbora/`) is an operating layer
around a knowledge-graph engine, epistemic-graph (EG).  It gives agents, chat
platforms and web clients one governed way to run operations, it multiplexes a
fleet of MCP child servers behind one server, and it runs messaging intake,
browser control, A2A tasks and a control plane beside it.

This directory holds TLA+ models of the parts of Arbora in which the order of
events decides about correctness, TLC runs that check them on small instances,
and TLAPS proofs about all of them.  `PROJECT.json` maps every
definition to the source lines it models and lists the runs, the hazards, the
findings and the theorems.

1. [What the system consists of](#1-what-the-system-consists-of)
2. [The modules](#2-the-modules)
3. [The runs](#3-the-runs)
4. [Fairness](#4-fairness)
5. [What is proved](#5-what-is-proved)
6. [Findings](#6-findings)
7. [What is not modelled](#7-what-is-not-modelled)
8. [Plan](#8-plan)

## 1. What the system consists of

### Inventory

| Component | State | Operations | Hard behaviour | What makes it correct |
|---|---|---|---|---|
| **Invocation pipeline** `api/invoke/pipeline.py` | per call: request, effective operation, request id, outcome | resolve, gates, reserve, confirm, dispatch, record | every await is a place where policy, catalog or another caller changes things; retries from other processes | an effect is made at most once, as it was reserved and confirmed, and told as it is stored |
| **Confirmation plans** `api/invoke/plan.py` | plan leases in EG | issue, validate, consume, expire | the same plan brought twice, with and without a key; EG replays a transition | a plan is spent on one effect |
| **Effect journal, audit** `mcp_server/effect_journal.py`, `api/invoke/eg_audit.py` | work items, audit log in EG | submit, claim, look up, store, commit | each call can fail before or after it took effect | the audit leads, outcomes are durable before they are told |
| **Fleet child runtime** `fleet/child_resilience.py` | generations, ready and stop events, slots, breaker | start, supervise, call_tool, call_request, recycle, aclose | callers, inner tasks and the supervisor share one loop; inner tasks outlive their callers | slots are conserved, no replay of a call that may still run, requests meet the generation they were made for |
| **Fleet multiplexer** `fleet/multiplexer.py`, `onboarding.py` | children, published tools, mounts and probes in flight, probe cache, catalog epoch | mount, probe, publish, refresh the catalog, route | calls that race to mount one server; generation changes while schemas are refreshed; a catalog refresh on another thread | one runtime per server; what is published is what the child serves |
| **Session loads** `fleet/session_loads.py` | per session: items, generations, one-shot claims | load, unload, acquire, dispatch, revoke, release | grants that outlive reloads, evictions, expiry | a one-shot is used once; a grant never touches a later load |
| **Scale intents** `fleet/scaling/` | intents, executions, leases, observations | reconcile | crash between effect and record, two controllers | one observation per execution, of what really happened |
| **Messaging intake** `messaging/lease.py`, `polling.py`, `router.py` | leases in EG, stop events, listeners | acquire, renew, release, watch, drop | leases expire, processes crash, the renewal thread and the loop race | one poller per platform |
| **Co-service supervisor** `mcp_server/composition.py` | services, restart history | start, stop, restart | a stop beside a restart | bounded restarts, a stopped service stays stopped |
| **Inbox** `messaging/inbox.py` | message rows in EG | record, answer, scan, retry, dead-letter | reaper against a running turn, redelivery, lost writes | every message answered or reported as not; rows that are true |
| **Turns** `messaging/router.py`, `planner_handler.py`, `coalescer.py`, `service.py` | listeners, buffers, timers, awaited replies | receive, submit, flush, ask, reply, stop | a message that comes in during a turn; replies handed from one loop to another | no message lost, repeated or cut off; a question hears its reply |
| **Browser control** `browser_control/` | channels, leases, active calls, fences | lease, execute, cancel, reconcile | result, timeout, cancellation and disconnection race | one receipt per call that does not deny an effect |
| **A2A tool tasks** `a2a/tool_task.py` | work items | precheck, claim, resolve, execute, settle, commit | a lease lost between the effect and the commit, redelivery, lost answers | acknowledged only when decided; one verdict, and a proven one |
| **Runs** `control_plane/runs/` | capacity, held units, run records, audit chain | acquire, release, admit_once | long sequences of legal calls | units are conserved |
| **Migrations** `control_plane/migrations/` | plan phase, proofs, fences | snapshot ... retire, rollback | order of phases, replays | no cut-over without a clean reconciliation |
| **Host start admission** `agent_host/start_admission.py` | none | admit | facts read twice around awaits | admitted on one consistent set of facts |
| Records of the control plane, gateway, identity, access, deployment, observability | versioned records | single-step CRUD, I/O | little | validation of single requests |

### How they interact

Every surface (MCP tools, HTTP gateway, messaging, A2A) calls `invoke`.  For
the operation `fleet.call` the pipeline asks the live catalog of the
multiplexer for effect and confirmation of the tool, and dispatches through it;
the multiplexer forwards through the child's runtime, with the generation that
the tool's schema was published for as `generation_marker`.  Plans, work items,
audit entries, intake leases and inbox rows are records of EG, shared by all
processes: the code's only coordination between processes are EG's
compare-and-set transitions, leases and fencing tokens.  Within a process the
fleet and the pipeline are asyncio tasks on one loop; the lease renewal and the
co-services are threads.

EG is not in the repository.  The models take from the way the code uses it:
a submit creates a work item once per id; a claim gives a lease to one worker;
renew, defer and commit are fenced by worker, epoch and token; a repeated
transition under one idempotency key is answered again; every call may fail
without effect, or take effect and lose its answer.

## 2. The modules

| Module | Role |
|---|---|
| `Invoke` | the pipeline with plans, effect journal and audit |
| `EffectOnce` | abstract: what the effect-owner port promises |
| `InvokeProofs` | theorems about `Invoke`, and that it implements `EffectOnce` |
| `ChildRuntime` | one child of the fleet: supervisor, callers, inner tasks |
| `ChildRuntimeProofs` | theorems about `ChildRuntime` |
| `Mounts` | one server of the multiplexer: mounting, publishing, probing, catalog refresh |
| `MountsProofs` | theorems about `Mounts` |
| `SessionLoads` | the loaded tools of one MCP session and its native calls |
| `SessionLoadsProofs` | theorems about `SessionLoads` |
| `ScaleIntent` | one scale intent and the deliveries that reconcile it |
| `ScaleIntentProofs` | theorems about `ScaleIntent` |
| `BrowserCall` | one browser call from its fence to its receipt |
| `BrowserCallProofs` | theorems about `BrowserCall` |
| `IntakeLease` | messaging intake: leases, poll loop, listeners, supervisor |
| `Turns` | an inbound message from its listener to the agent, and awaited replies |
| `Inbox` | the durable inbox and its reaper |
| `SoleOwner` | abstract: a register that grants a platform to one poller at a time |
| `MessagingProofs` | theorems about `IntakeLease`, `Turns` and `Inbox`, and that the leases implement `SoleOwner` |
| `Migration` | the plans and the evidence of one staged cutover |
| `ToolTask` | the deliveries of one A2A tool task |
| `ControlProofs` | theorems about `Migration` and `ToolTask` |
| `MCInvoke`, `MCChildRuntime` | instances for TLC |
| `MCControl`, `MCFleet`, `MCMessaging` | instances of several components for one run |

The components of `MCControl`, of `MCFleet` and of `MCMessaging` share no
state in the code.  A product of their state spaces would only repeat each one's
behaviours, so the variable `focus`, chosen in the initial state, says which
component moves; the others keep their initial state.  A property of a
component that does not move holds trivially in those behaviours and is checked
in its own.  `MCControl` gives the mount calls, the intake processes and the
deliveries of a tool task the same model values, and probes and platforms too:
only one of the components moves, and a permutation then acts on all of them, so
the symmetry is that of the component that moves.

Definitions marked `Mutant` or `Mutation` are plausible bugs.  Each property
has one that makes TLC report it; no specification uses them.

### Invoke

`pc[i]` is the await at which invocation `i` is suspended, so invocations
interleave where the code yields and nowhere else.  One action is the code from
one await to the next: `Start` and `Resolve` (request validation, policy,
catalog decision), `ConfirmationGate` (may answer CONFIRMATION_REQUIRED),
`IssuePlan`, `BindCaller` (the request id from plan, key, natural key or
request), `AuditPreflight`, `Submit`, `Acquire`, `Existing` and
`ReplayCompleted` (the journal), `ValidatePlan`, `ConsumePlan`, `Dispatch`,
`DispatchOutcome`, `Record`, `StoreOutcome`, `CommitOutcome`.  `Vanish` removes
an invocation at any await: the task was cancelled or the process died.

`plans`, `items` and `audit` are EG's records and survive `Vanish`.  `rev` and
`meta` are the facts that `verify_current` and the catalog compare; the
environment changes them at any time.  `sent` is a history variable: the facts
under which each dispatch was made.

Abstractions: a digest is the value it digests; one revision stands for policy
revision, scopes and registry digest; codes that every step treats alike share
a name; argument validation is a nondeterministic refusal.

`EffectOnce` is the promise the pipeline needs from its journal: a key is bound
once, sent at most once and only when bound, settled at most once, and settled
as a success only if it was sent.  `Invoke` implements it under the mapping in
`Invoke!Effect` (`ImplementsEffectOnce`).

### ChildRuntime

Everything in `child_resilience.py` runs on one loop: `loop` is the caller that
runs now, so the steps of a caller between two waits are not interleaved with
anybody else's although they are separate actions.  The supervisor (`start` ...
`aclose`) owns `child`, the life-cycle fields; `call[c]` is where a caller is;
`try[c][i]` is its i-th attempt and the inner task that forwards the request
and that goes on when the caller has given up.  `breaker` and `permits` are
shared.  A step that a timeout ends may be taken at any time, an open breaker
may have cooled down, a restart may have left the window: the clock is
nondeterminism.  What a child answers, and how it dies, is nondeterminism too
(`Ended`).  `published` records the generations announced as ready.

`Shape[c]` is the way a call is made: tool or request, retry allowed or not,
with a marker, a factory or a preflight.  The MC module lists the combinations
that the multiplexer uses.

### Mounts

`mount[m]` is a call of `mount_child`: it is answered at once, follows the call
in `inflight` and waits for its future, or leads, starts `runtime[m]` and
registers, retires or abandons it.  `child` is the runtime in `children`, `tools`
the version of the tool list that is published.  A runtime reconnects at any
time, lists what the server offers then (`offered`) and publishes it before it is
ready (`RefreshChildTools`).  `probe[p]`, `slot` and `cache` are the probes, the
shared task per server and what they cached; `refresh` is where the onboarding
thread is in `refresh_engine_catalog`, which reads `children` and writes the
catalog in separate steps, without the loop's knowledge.  Where a mount looks at
the catalog twice without an await, that thread can come between but no other
task can: the call holds the loop (`HoldsLoop`) from its look at the catalog to
its note of the epoch, and from the comparison of the epoch to the registration.

The runtime is the one of `ChildRuntime`, seen from outside: its calls, breaker
and budget do not matter for what is published.  Two history variables name the
two situations in which the code does not keep what is published in step (see
section 6): `swapped`, the catalog was exchanged under a mounted child or as it
was being registered, and `late` in the cache entry, a probe with its own connection ended when a child
had been mounted meanwhile.

### SessionLoads

`session` is the `_Session` of one MCP session.  `request[r]` is a request at its
await: a native call with its `LoadGrant` (`item`, `gen`, `binding`, `claimed`,
`dispatched`), a listing, a load or an unload.  Operators on a session
(`Without`, `Unload`, `Current`, `Consumed`, `Revoked`, `Released`, `Loaded`)
are the methods of `SessionLoads`; actions chain those that the code calls
between two awaits, so that `Return`, for example, releases the grant, revokes
it after a refusal, and goes on to redeliver a pending notice.

History: `onceOnly`, `consumed` and `again` count the dispatches of a one-shot
load; `told` and `fresh` say whether a notice that was sent after the last
change of the list has arrived; `lost` says what took the pending mark of that
change off without a notice, the two exceptions of section 6.
The order of last use is left out: every choice of victims is allowed.

### ScaleIntent

`delivery[d]` is a `reconcile` call between two calls of the ledger; the row, the
lease, the observation and the break-glass audit are durable.  A delivery reads
the clock once, as the code does, and compares leases with that reading.  The
actuator is external: it remembers what it did with the key and may lose its
answer with or without the replicas changed (`ActuatorSteps`).  `Crash` ends a
delivery between any two steps.  `called` and `verified` are history; `serial`
says that no two deliveries have overlapped.

### BrowserCall

`task[t]` is where each task of the call is: the caller, the abort that outlives
it, clients that cancel or reconcile, the disconnection, the late result and
the reaper.  `entry` is the `_ActiveCall` with its futures, `work` the WorkItem
that fences the call, `page` what the extension got and did.  The calls of the
engine run in threads: a task that is cut off leaves behind an engine call that
took effect or did not (`Unanswered`).  A timeout, of the page, of the engine, of
an audit or of a send, leads the caller to `_cancel_active` (`TimesOut`); any other
exception finalizes the call (`DispatchRaises`).  An `execute_call` that finds its
fence submitted already returns what it reads of it and is not modelled.  The locks are derived from the places of
the tasks (`FinalizeFree`, `Sending`).  `torn` records that the page got the call
from a send that raised, timed out or was cut off.

### IntakeLease

`lease[p]` is the work item of platform `p`, `proc[i]` the co-service of process
`i`, `chan[i][p]` what the process knows of and does for the platform: the epoch
it holds, whether a renewal is due, the platform's stop event (`lost`), whether
the watcher has handled it (`dropped`), whether a listener polls.  The actions
are the claim loop, the renewal thread (`Renew`, `RenewFails` with
`_handle_lease_loss`), the poll loop (`StartRouter`, `WatchIntake`,
`StopServing`), the release and the supervisor.  A process that is restarted is
another member of `Processes`.

Time passes in ticks of a renewal interval, a third of the TTL.  `Prompt` says
what is finished within a tick: calls to EG, the watcher's 250 ms round, the
end of listeners.  Whether connections are is the constant `SlowConnect`.

`SoleOwner` is what a platform that allows one poller needs of the leases: a post
is granted to nobody else and not taken back while its owner polls, and only its
owner starts to poll.  Under the mapping of `IntakeLease!Sole` an expired lease is
nobody's, a claim is `Grant`, a tick on which leases expire and a release are
`EndGrants`, the start of the router is `StartPolling`, the end of a listener, by
the watcher, by itself, by a stop or by a crash, is `StopPolling`.

### Turns

`listener[b]` is the listener task of a backend, `burst[c]` the coalescer's
buffer, timer and age of the burst of a channel, `turns[c]` the turns that were
started, by the timer's task or by the listener itself.  `waiter[w]` is a call of
`reach_user_and_wait` on a loop of its own: a reply is scheduled on that loop
(`handoff`) and set there (`SafeSet`), while more messages come in.  A call whose
question could not be sent is taken out of `_pending` (`AskFails`), one whose send
raised is not (`AskRaises`), and the next message is lost on it.  `inbound`
is the history of messages and of whom each was given to.

Time is counted per channel in whole units; `Pause` lets one pass only when no
timer is due, that is, an event loop that is not blocked serves its timers.  A
message that was buffered when the loop ended is still in the buffer: nobody
answers it from there, its inbox row does (`Inbox`).

### Inbox

`row[m]` is the message's node in EG, `turn[m]` the turn that answers it, `reaper`
the reaper loop with the rows of its scan.  Every write replaces the row, as in
the code: what a scan found is put back after a failed attempt (`Tried`) over
whatever the row has become.  Each write can be lost, the process can restart,
and the platform can deliver a message again.  `replied` and `tried` are history.
The turn handler is not in the repository; that it records, replies and marks is
taken from the functions offered to it.

### Migration

Every operation of the authority runs under one lock and is one step.  Plans
share the migration's evidence, which is stored under its reference together
with the plan it was accepted for.  A request that is refused changes nothing
and is no step.  A fence carries the state it was requested in (`asked`), which
may be `rolled_back`: `fence_writes` does not look at it, and such a plan cannot be
checkpointed (`ActiveFence`), only rolled back.  A request under a stored
reference is a replay, and
`EvidenceReplays` says that its conditions still hold when it comes.

### ToolTask

`task[d]` is a call of `run_tool_task` between two calls that leave the worker: to
EG (`get`, `claim`, `require_current`, `commit`) or to the dispatcher (`resolve`,
`execute`).  `item` is the work item that all deliveries of the job share;
`item.claim` the delivery whose claim is current, `item.by` and `item.ref` are what
was committed by whom.  A lease lapses at any moment, so a worker that has checked
it may be late with what comes next; EG refuses what is not done under the current
claim.  Each call can fail, or take effect and lose its answer, and `Dies` ends a
worker anywhere.

The dispatcher is a protocol in the source, without an implementation.  `journal`
is what its docstring promises: it keeps one record per job (the idempotency key),
stores the result before it returns, checks the lease immediately before the
effect, and answers a repeated job from its record.  A record without a result is
an effect that may have been made, and `execute` is then indeterminate.

## 3. The runs

| Run | Instance | Shows |
|---|---|---|
| `invoke_effects` | three situations of a fleet call, chosen in the initial state: 3 keyed callers with two argument values; 3 callers with and without one plan and a key; 2 callers, keyed and planned, while the tool's catalog entry and the authority change | `AtMostOneDispatch`, `SuccessIsDurable`, `PlanSpentOnce`, `DispatchedAsReserved`, `DispatchedAsConfirmed`, `ImplementsEffectOnce` |
| `control_safety` | *invoke*: 2 invocations over every kind of operation and replay owner, which takes the branches of the gates that fleet calls do not; *mounts*: 2 mounts, 2 probes, one catalog refresh; *migration*: 2 plans; *intake*: 2 processes, 2 platforms, 2 claims per platform, failing calls, crashes; *tasks*: 2 deliveries of one job | `AuditLeads`; `OneRuntime`, `FollowersHaveALeader`, `OneSharedProbe`, `PublishedIsServed`; `FenceFollowsPlan`, `EvidenceReplays`; `OnePoller`, `ImplementsSoleOwner`; `AcknowledgedIsDecided`, `OneProvenVerdict` |
| `fleet_control` | *child*: a task read with factory and retry and a tool call with preflight, 1 slot, 3 generations; *scale*: 2 overlapping deliveries of 3; *loads*: 2 requests, 2 items, cap 1; *browser*: a call and a client | `SlotsConserved`, `ReplayOnlyAfterDeath`, `SentAfterRefresh`, `ProbeHasOwner`; `VerifiedAnswersAgree`, `ActuationIsOnRecord`; `LoadsTypeOK` (the cap), `OneShotOnce`, `QuietSessionIsClean`, `NoticeOwed`, `StaleGrantIsHarmless`; `ReceiptIsBacked`, `EffectAsReported` |
| `fleet_live` | *child*: a marked tool call with retry and a call without marker, 2 generations; *browser*: a call | `SentOnMarkedGeneration`, `EveryCallAnswers` (liveness), `CallEnds` (liveness) |
| `messaging_live` | *intake*: 1 process, 2 platforms, failing calls, a restart; *turns*: 3 messages, one question; *inbox*: 2 messages, 3 deliveries | `LossEndsPolling` (liveness); `ConversationIntact`, `TurnsRunToTheirEnd`, `WaitIsBounded`, `HearsFirstReply`; `RowTellsTheTruth`, `EveryMessageSettles` (liveness) |
| `child_probe` | two calls without retry | violates `ProbeOutcomeSettles`, see findings |
| `child_park` | the same | violates `FailedOnlyWhenExhausted`, see findings |
| `intake_drop` | 1 process, slow connections | violates `LossStopsPolling`, see findings |
| `intake_failover` | 2 processes, 1 platform, no failing calls | violates `FailsOver`, see findings |
| `messaging_wait` | two questions on one channel | violates `NextMessageResolves`, see findings |
| `scale_budget` | one delivery at a time | violates `WithinRetryBudget`, see findings |
| `tool_refusal` | 2 deliveries of one job | violates `UncertainStaysOpen`, see findings |

### Bounds and why they are enough

* `Invocations`: a duplicate effect needs two invocations; a third one lets a
  retry meet both a reservation that is being made and an outcome that is being
  stored.  Identities never interact, so one principal, one key and one plan are
  enough; two argument values make a reused key with another binding.  The
  theorems of section 5 hold for any number.
* `MaxRev`: one change at any await is what a recheck has to notice; a second
  one cannot restore the first, revisions only grow.
* `Calls`, `MaxConc`: two calls on one slot make one wait while the other holds,
  abandons or returns the slot.  The retry doubles them: four attempts.
* `MaxGen`: a call can be admitted in one generation, wait through the next and
  be refused or retried in a third.  A child that reached the bound can still
  fail to reconnect, be parked and be closed.
* `Threshold` 1 opens the breaker at the first failure, so probes are frequent.
* `MaxRestarts` 1 of the child: both a restart and the exhaustion of the budget
  happen.
* `MountCalls`, `Probes` 2: a leader and a follower, or one call after the other;
  a shared probe beside a forced or a direct one.  `MaxTools` 2: the list that
  was published and another one.  `MaxCatalog` 1: one refresh at any moment; the
  epoch is only compared with the one noted before.
* `Plans` 2 share evidence; `Refs` 2 give each its own reference or let them
  collide; `Records` 1 with both verdicts makes clean and blocked comparisons;
  `Cohorts` 2 make a second cutover.  `MaxPlanVersion` 9 is every stage once, the
  second cohort and a rollback.
* `Deliveries` 2 of `MaxDeliveries` 3: two overlap and one comes after both.
  `MaxAttempts` 2: a retry and the end of the budget.  `LeaseTtl` 1 before
  `FenceEnd` 2: a lease that lapses and a fence that does.  Two intents are the
  one asked for and one altered under its key.
* `LoadRequests` 2, `LoadItems` 2, `LoadCap` 1: a load evicts what the other
  request has a grant on.  `MaxLoads` 2: a grant on the first load meets the
  second.  `MaxEdits` 1: an item disappears at any await.
* `Clients` 1: somebody who cancels or reconciles beside the caller, the abort,
  the disconnection, the late result and the reaper; the finalizers of the call
  are symmetric beyond that.  `CallEnds` is checked without a client: it adds
  no wait that the others do not have.
* `Processes`, `MaxEpoch` 2: a former owner that is late with its release meets
  the lease of the next one.  That a third process could then claim it is not
  needed to see the harm: `ImplementsSoleOwner` refuses the end of a grant whose
  owner polls.  Two platforms, since a process with one platform stops as soon as
  it loses it.  A restart of the supervisor is in `messaging_live`, a restarted
  process is a second one.
* `Deliveries` 2 of a tool task: one that is late with its commit, or has left an
  effect without its result, and one that runs beside it or after it.
* `Ttl` 3: the code renews at a third of the TTL.
* `MaxMessages` 3, `Window` 1, `MaxWait` 2: a burst that is flushed by its timer,
  one that gets too old, and a message during a turn.  Channels do not interact
  but through the listener of their backend, which one channel shows.
* `Messages` 2, `Limit` 1: a scan that leaves a pending row out.  `MaxRecords` 3:
  both messages, and one of them again.

Symmetry is used in the safety runs only.  Deadlock is not checked where the
system may really stop: all calls answered and the child closed, all intake
processes stopped, all plans at their end, every message settled.

## 4. Fairness

* `MCChildFair` (`ChildRuntime!FairSpec`): weak fairness of what a caller that
  has asked does next, including its timeouts.  The loop runs every ready task,
  and every wait of a caller has a timeout (the constructor refuses settings
  that would disable one).  No fairness is assumed of the child, of the
  supervisor, or of inner tasks: callers must be answered although the child
  hangs.
* `MCCallFair` (`BrowserCall!CallFair`): weak fairness of the loop, which runs
  some task that can go on (every wait for the page has a time limit, or the
  reaper), and of EG's expiry of a lease; strong fairness of the reaper's close:
  it is tried again after every failure, and EG does not fail it for ever.
  Nothing makes the page act, or anybody cancel or disconnect.
* `MCIntakeFair` (`IntakeLease!IntakeFairSpec`): weak fairness of time, of the
  renewal thread, of the claim loop, the watcher and the shutdown path, which
  are threads and tasks that are scheduled.  Nothing makes a process start,
  stop, crash, raise or give up listening.
* `MCInboxFair` (`Inbox!InboxFair`): weak fairness of the reaper loop, which
  sleeps a fixed time between passes, and of the grace window; strong fairness
  of a retry and of a write for each message: a scan that keeps missing a row,
  passes that all end in a crash and writes that all fail are excluded.  EG's
  scan has no order, so with more pending rows than its limit the code relies on
  this.
* `Invoke`, `ScaleIntent`, `SessionLoads`, `Mounts`, `Turns`, `Migration` and
  `ToolTask` have no liveness property: EG may stay away for ever, and an intent,
  a plan or a job goes on when somebody delivers the next request.

## 5. What is proved

The theorems hold for every value of the constants that the named assumptions
allow: any number of invocations, calls, requests, deliveries, mounts, probes,
clients, plans, processes, platforms and messages, and any bound.

| Module | Theorem | States |
|---|---|---|
| `InvokeProofs` | `TypeCorrect` | `Spec => []TypeOK` |
| | `AtMostOnce` | `Spec => []AtMostOneDispatch` |
| | `DispatchIsReserved` | `Spec => []DispatchedAsReserved` |
| | `DispatchIsConfirmed` | `Spec => []DispatchedAsConfirmed` |
| | `PlanIsSpentOnce` | `Spec => []PlanSpentOnce` |
| | `SuccessIsStored` | `Spec => []SuccessIsDurable` |
| | `AuditComesFirst` | `Spec => []AuditLeads` |
| | `PipelineImplementsPort` | `Spec => ImplementsEffectOnce` (refinement) |
| `ChildRuntimeProofs` | `TypeCorrect` | `Spec => []TypeOK` |
| | `NoSlotIsLost` | `Spec => []SlotsConserved` |
| | `NoReplayOfALiveCall` | `Spec => []ReplayOnlyAfterDeath` |
| | `MarkerIsKept` | `Spec => []SentOnMarkedGeneration` |
| | `RefreshComesFirst` | `Spec => []SentAfterRefresh` |
| | `NoOrphanProbe` | `Spec => []ProbeHasOwner` |
| `MountsProofs` | `TypeCorrect` | `MountsSpec => []MountsTypeOK` |
| | `NoDuplicateRuntime` | `MountsSpec => []OneRuntime` |
| | `NoFollowerIsForgotten` | `MountsSpec => []FollowersHaveALeader` |
| | `ProbesAreShared` | `MountsSpec => []OneSharedProbe` |
| | `PublishedToolsAreServed` | `MountsSpec => []PublishedIsServed` |
| `SessionLoadsProofs` | `CapHolds` | `LoadsSpec => []LoadsTypeOK` |
| | `OneDispatchPerLoad` | `LoadsSpec => []OneShotOnce` |
| | `NothingIsLeftBehind` | `LoadsSpec => []QuietSessionIsClean` |
| | `NoticeStaysOwed` | `LoadsSpec => []NoticeOwed` |
| | `StaleGrantsDoNothing` | `LoadsSpec => StaleGrantIsHarmless` (action property) |
| `ScaleIntentProofs` | `OneVerifiedOutcome` | `ScaleSpec => []VerifiedAnswersAgree` |
| | `ActuationLeavesARecord` | `ScaleSpec => []ActuationIsOnRecord` |
| | `AttemptsAreLeased` | `ScaleSpec => []ScaleTypeOK` |
| `BrowserCallProofs` | `TypeCorrect` | `CallSpec => []CallTypeOK` |
| | `ReceiptHasItsFence` | `CallSpec => []ReceiptIsBacked` |
| | `ReceiptTellsTheEffect` | `CallSpec => []EffectAsReported` |
| `ControlProofs` | `MigrationTypesHold` | `MigrationSpec => []MigrationTypeOK` |
| | `FenceIsThePlans` | `MigrationSpec => []FenceFollowsPlan` |
| | `EvidenceIsKept` | `MigrationSpec => []EvidenceReplays` |
| | `TaskTypesHold` | `TaskSpec => []ToolTaskTypeOK` |
| | `NoJobIsForgotten` | `TaskSpec => []AcknowledgedIsDecided` |
| | `VerdictsAreProven` | `TaskSpec => []OneProvenVerdict` |
| `MessagingProofs` | `IntakeTypesHold` | `~SlowConnect` implies `IntakeSpec => []IntakeTypeOK` |
| | `OneOwnerPolls` | `~SlowConnect` implies `IntakeSpec => []OnePoller` |
| | `LeasesImplementOwnership` | `~SlowConnect` implies `IntakeSpec => ImplementsSoleOwner` (refinement) |
| | `TurnTypesHold` | `TurnsSpec => []TurnsTypeOK` |
| | `NothingIsLostOnTheWay` | `TurnsSpec => []ConversationIntact` |
| | `NoTurnIsCut` | `TurnsSpec => []TurnsRunToTheirEnd` |
| | `NoBurstWaitsForever` | `TurnsSpec => []WaitIsBounded` |
| | `FirstReplyIsHeard` | `TurnsSpec => []HearsFirstReply` |
| | `AttemptsAreBounded` | `InboxSpec => []InboxTypeOK` |
| | `RowsAreTrue` | `InboxSpec => []RowTellsTheTruth` |

Each module also has `InvariantHolds`, which states its inductive invariant
`IInv`.  Components that share a proof module share no variable; the invariants of
`MessagingProofs` are `IntakeInv`, `TurnsInv` and `InboxInv`, that of the tool task
is `TaskInv`.  TLC has found every one of them to hold on small instances before it
was proved.

### Assumptions

Each is a named `ASSUME` of the module that declares the constants, and TLC
evaluates it in every run of that component.

* `InvokeAssumption`, `RecordsAssumption`: the constants have their types, and
  `None` (the code's `None`) is no key, plan, invocation, argument, code, request
  id, binding or outcome.
* `ChildRuntimeAssumption`: `max_concurrency` is positive, a preflight belongs to
  tool calls and a session factory to requests, the other limits are natural
  numbers.  The set of calls may be infinite.
* `MountsAssumption`, `MigrationAssumption`, `InboxAssumption`, `ScaleAssumption`:
  bounds are natural numbers, `"none"` is not the name of a call, a reference or
  a target, the writer is one of the controllers.
* `LoadsAssumption`: the cap is positive, the items that can be loaded are
  finitely many, there is some binding, and `"free"` is no request.
* `IntakeLeaseAssumption`: the TTL of a lease is at least two renewal intervals
  (the code has three), and `"none"` is no process.  The three theorems about
  `IntakeLease` also have the hypothesis `~SlowConnect`, that connecting the backends
  does not outlast a renewal interval.  Without it `OneOwnerPolls` and the refinement are false:
  that is finding 3.
* `TurnsAssumption`: each channel has a backend, the debounce window is not longer
  than the longest wait (the coalescer's constructor sees to that), and no call
  of `reach_user_and_wait` is named `"none"`, `"turn"` or `"command"`.
* `ToolTaskAssumption`: `"none"` and `"owner"` are no deliveries.
* `ClientsAssumption`: the clients of a browser call are other tasks than the
  caller, the abort, the disconnection, the late result and the reaper.

### The arguments

**Invoke.**  None of the properties is inductive: they speak about dispatches,
while the reasons lie in the awaits before.  `IInv` adds

* `Shape`: at each await the local state is complete; in particular who has a
  request id has the one computed from its request, and whoever is past the
  reservation needed one;
* `Holds`: whoever is between reservation and record is the holder of its work
  item and the item is bound to its request.  That is what makes dispatches
  unique: two invocations with one request id would both be the holder;
* `Confirmed`: whoever is past the validation of its plan finds the plan bound
  to its request, and consumed from `dispatch` on.  Plans are not reused, and
  the request id of a planned call is the plan, so a plan spent twice would
  again be an item with two holders, even though EG may answer a repeated
  consume as applied.

`Frame` shows that a step of one invocation cannot harm the conjuncts of
another one, provided items and plans only grow (`ItemsGrow`, `PlansGrow`);
`Combine` puts an action's own conjuncts and `Frame` together; there is one
lemma per action, `InvariantHolds` combines them.

A second invariant on top of it, `JInv` (`OutcomesHold`), follows an outcome
through the record phase: who stores it has written its audit entry, who commits
it has stored it, who replays it has read it from an item at its end.  Audit
entries are final once they have a status and outcomes are stored once, by the
holder (`AuditGrows`, `OutcomesGrow`).

The refinement uses both.  Under the mapping of `Invoke!Effect` a submission that
creates an item is `Bind`, a dispatch is `Send`, the storing of an outcome is
`Settle`, and every other step is a stutter.  `Holds` supplies the guard of
`Send` (bound, and not sent by somebody else), `JInv` that of `Settle`.

**ChildRuntime.**  `SlotsConserved` counts attempts, so the proof needs the
cardinality of one changed attempt or caller, and that both sets are finite: that
is part of the invariant, since it follows from the slots and not from the number
of calls.  `CallOK` says which attempt is under way at each place of the caller,
and that a second attempt starts only when the first one is dead; `RouteOK` that
the generation a call goes to was announced, is not ahead of the child and, for
a marked call, is its marker; `ProbeOwed` names the attempt that has to settle a
probe, which is stronger than `ProbeHasOwner` (an attempt that waits for its turn
has to give the probe back); `Lifecycle` ties sessions, ready event and restart
counter to the supervisor.

**Mounts.**  A mount in flight is the only one that leads, and nothing is mounted
while it is (`LeaderIsAlone`); what is open is mounted or being started
(`OpenIsOwned`); the child belongs to the catalog of this epoch unless the catalog
was swapped under it or at its registration (`ChildIsCurrent`); a shared probe that runs occupies the slot
(`SlotHoldsShared`), which is why the end of a forced one cannot free it.

**SessionLoads.**  A claim is held by exactly the request that it names, on just
this generation, and the item is gone if and only if that request was dispatched
(`ClaimsAreHeld`).  Lemmas about the methods (`Without`, `Unload`, `Current`,
`Consumed`, `Revoked`, `Released`, `Loaded`) say what each leaves of a session; an
action is a chain of them, and `Good` composes.  The action property follows from
the same facts: generations are not reused, so a grant that compares its
generation finds its own load or nothing.

**ScaleIntent.**  `Backed` holds however deliveries overlap; `InTurn` holds while
none has overlapped, and says what a delivery at each place knows of the row.
`ScaleTypeOK` bounds the attempts and the leases by the deliveries, and that is not
inductive: a delivery that is going to acquire a lease has been counted, the lease
has not.  `Counts` adds those deliveries (`Due`) to the number of the last lease:
the sum never passes the deliveries made, because a delivery leaves `Due` when it
gets its lease and enters it only when it is made.

**BrowserCall.**  A verdict that a task carries to `finalize_lock` must stay true
while it waits.  `Honest` says what it needs: the page has stopped, or it never
gets the call because the caller is past its send or will find the call cancelled
(`NeverActs`), and no step but a torn send makes that false.  `LockOK` (one
holder of the lock, none after the receipt) makes the first receipt the only one,
`WorkOK` has the item at its end from `store` on, and `OthersOK` says that only
the caller submits, claims and sends.

**IntakeLease.**  `OnePoller` speaks about listeners, the lease about owners.
`KeepsLease` joins them: from its claim until the watcher has dropped it a process
owns the lease under the epoch it holds, with at most one tick gone, and that only
while its renewal is due or has failed.  Two listeners of a platform would
therefore both be its owner.  `ChannelOK` says when that is so: in particular no
renewal is due or lost before a process listens, which is where `~SlowConnect` is
used.  `WithinBudget` bounds the restarts, for the type.

The refinement of `SoleOwner` follows the same invariant.  A tick could end a
grant while its owner polls, but for `KeepsLease`: a listener's lease has a tick
left.  A release could, but for the fence: it ends a lease only under the epoch and
by the process that holds it, and that process has stopped listening
(`ChannelOK`).  A claim needs a lease that has expired, and then nobody polls.
Every other action starts or stops listeners, or is a stutter.

**Turns.**  A turn that a listener runs itself is the only one of its kind on the
backend, and the listener is flushing that channel (`ListenersOK`); a burst that
waits has its timer registered, and its age and the time left stay below
`MaxWait + Window` (`BurstOK`); what `_pending` names for a channel has asked on
it (`PendingOK`); and the first message that was handed to a call is the one it
returns (`RepliesOK`).  `ConversationIntact` says that the batches of a channel,
the finished and running turns and then the buffer, hold each message for the
agent once and in order.  `IntactGrows` and `IntactNext` are the lemmas about
that: a message later than all others joins the last batch, and a turn that takes
the buffer only adds an empty batch behind it.

**ToolTask.**  `TaskInv` says what a worker at each place can rely on although its
lease may be gone: a result that it carries is the one of the journal, which is
written once and only by the execution that began it, so a second delivery carries
the same one; whoever has reported a verdict is the one who closed the item, and an
item is closed once.  The claim need not be current for any of this: a worker that
is late finds the commit refused.

**Migration, Inbox.**  What a plan refers to is what its stage has produced
(`Stages`); a retired plan stays retired (`RetiredForGood`).  A row, and the copy
of it that a scan found, never counts more attempts than were made
(`AttemptsAreReal`), and whoever is about to mark a row has replied
(`RepliesAreReal`): the copies matter because a failed attempt puts them back.

### Only model-checked

* All liveness properties (`EveryCallAnswers`, `CallEnds`, `LossEndsPolling`,
  `EveryMessageSettles`): liveness under fairness is out of the prover's reach.
* That `OnePoller` fails with slow connections, and the other six findings: a
  counterexample needs an instance, not a proof.

Every invariant, action property and refinement that a passing run checks is stated
by a theorem.  The type invariant of each component is a theorem as well, and is
therefore left out of the runs; only `LoadsTypeOK`, which holds the cap of a session,
is checked by TLC too.

## 6. Findings

1. `child_probe`.  A half-open probe that the child answers with an application
   error settles nothing: `_finish_call_failure` records neither success nor
   failure, the breaker keeps its probe in flight and refuses every call until
   another generation connects.  `core/settings.py` says that "the probe's
   outcome closes or re-opens the circuit".
2. `child_park`.  If closing the transports of the *first* generation raises,
   `_supervise` reports the failure to the future that `start()` was answered
   with long ago, `set_exception` raises `InvalidStateError`, and the supervisor
   ends without one restart.  The module says that a child is parked after more
   than `MCP_CHILD_MAX_RESTARTS` restarts.
3. `intake_drop`.  A lease lost while the backends are still connecting is marked
   as handled by the watcher, which finds no listener; `router.start()` starts
   the listener afterwards, and nothing stops it any more.  `lease.py` says that
   "losing a lease must stop that platform's polling".  `OnePoller` therefore
   holds only while connections take less than a renewal interval
   (`SlowConnect = FALSE` in `control_safety`).
4. `intake_failover`.  A process that finds every lease held sets its own stop
   event and never tries again, so the crash of the owner, or a restart within
   the TTL of a crashed predecessor, leaves the platform without a poller.
   `lease.py` says that the lease is short "to make a crashed poller fail over
   in bounded time".
5. `messaging_wait`.  `_pending` holds one future per channel.  A second
   `reach_user_and_wait` on the channel replaces the first one's future, and
   whichever call ends first removes the entry of the other; the reply then goes
   to the planner as a chat message and the call waits until its timeout.
   `service.py` says that it "resolves when the inbound router delivers the next
   message on that channel".
6. `scale_budget`.  `_reject_exhausted_retry_budget` refuses a started row only
   if it holds no result, but `mark_started` keeps the retryable failure of the
   attempt before.  When the last attempt dies after its start, a redelivery gets
   a lease numbered past `max_attempts` and calls the actuator again.  The method
   says "Do not exceed the declared retry budget".
7. `tool_refusal`.  A delivery that ends with an uncertain effect leaves the item
   open, and the job is delivered again.  If that delivery is refused before it
   executes (a worker without a dispatcher, or a request it cannot resolve),
   `_settle` commits the job as failed and the delivery is acknowledged.
   `tool_task.py` says that an uncertain effect leaves the item open "so that only
   the owner can reconcile it", and of a refusal that "it proves that no effect
   happened": it proves that of its own attempt only.

The first two can be reproduced with stub sessions against the class itself.

Some properties hold only with an exception, which their definitions state:

* `EffectAsReported` excepts a torn send.  If the send of a call raises, times out
  or is cut off, the entry is not marked as dispatched although the page may have got the
  call; a client that cancels it is then told that there was no effect.
* `NoticeOwed` excepts, until the next change, two ways in which the last change
  goes unannounced although `redeliver_pending` says "Resend on the next request
  for clients that missed list_changed".  A change that is made while a redelivery
  is being sent: its success clears the pending mark that the change has just set.
  And an idle expiry: `_session` puts an empty session in the place of the old one,
  so that the loaded items, and a notice that was pending, are dropped and the
  client is told of neither.
* `PublishedIsServed` excepts a swapped catalog.  `refresh_engine_catalog` looks
  at `children` on its own thread before it swaps; a mount that registers in
  between, or compares the epoch just before it changes, keeps its child under a
  new epoch, and its later generations are not
  published.  The docstring says that "it swaps the catalog only while no child
  session exists".  It excepts a late probe as well, which puts an older list
  into the cache of a mounted server until the entry expires.
* `ActuationIsOnRecord` says "not simulated" of deliveries that do not overlap: a
  dry run that was admitted before a live delivery started can be recorded
  beside the effect.
* `FenceFollowsPlan` says of a plan that is write-fenced only that its fence is as
  it was requested.  A request may carry the state `rolled_back`
  (`WriteCutoverFence.state`), and `fence_writes` stores it and moves the plan on,
  although it says "Install one target-authority fence and deny legacy writes";
  the check of `checkpoint_projection` is what stops the plan there.
* `RowTellsTheTruth` lets a row that was answered be pending again: a failed retry
  puts back the row that its scan had read (`Tried`), and the message may be
  answered twice.
* `EveryMessageSettles` is checked for a bounded number of deliveries: with pending
  rows arriving for ever a scan of a limited size could leave one out for ever.
* `EvidenceReplays` leaves out fences and rollbacks.  What is stored of a rollback
  is its applied form, and a fence that was rolled back is stored as such, so a
  repeated request differs from the record and is refused as drift.

## 7. What is not modelled

`PROJECT.json` lists every component with the reason.

Within the modelled ones: the sealed console preview of a plan (a read); the
choice among the pooled sessions of a generation, back-off lengths and metrics of
a child; names, filters, discovery, routing and shutdown of the multiplexer; the
gates and digests of a migration request, which are verdicts on a single
request; supervision states that only report what a listener does; the
co-service joins with a deadline; the issuing and renewal of browser leases.

Not modelled although events interleave: the bridge of the shared multiplexer
between event loops and host start admission (next in the plan).  The bulk of the repository is tools, gateways,
deployment commands and settings that serve one request at a time: what they do
is validation, formatting and I/O, with nothing for a model checker to
interleave.  EG, the identity provider, the children, the actuator, the agent and
the chat platforms are environment.

## 8. Plan

Done: the effect path (`Invoke`, `EffectOnce`); the fleet path
(`ChildRuntime`, `Mounts`, `SessionLoads`, `ScaleIntent`); messaging (`IntakeLease`,
`SoleOwner`, `Turns`, `Inbox`); `BrowserCall`; `Migration`; `ToolTask`; proofs about
all of them.

Next modules, in this order:

1. The shared multiplexer: a caller that is cancelled while its operation runs
   on the owner loop.
2. Host start admission: facts that are read twice around the awaits of `admit`.
3. Run capacity: conservation of units over any sequence of acquire and release,
   including a run that acquires twice.  Each operation is one locked step.

A new component joins the run of its neighbours as another `focus`.

Next proofs: an abstract inbox (a message is accepted, and later answered or given
up, once) that `Inbox` refines, in the manner of `EffectOnce` and `SoleOwner`.
