------------------------------ MODULE ScaleIntent ------------------------------
(***************************************************************************)
(* One scale intent and the deliveries that reconcile it.                   *)
(*                                                                         *)
(* ScaleIntentReconciler.reconcile reads the clock once and then makes its  *)
(* calls to the ledger one after the other; each ledger call holds the      *)
(* ledger's lock and is a step here.  Deliveries of one intent may overlap, *)
(* a delivery may crash between any two of its steps, and the actuator may  *)
(* have done its work although its answer was an exception.                 *)
(*                                                                         *)
(* All deliveries bear one execution key; Intents are the identities (the   *)
(* digests) that arrive under it.  A result is one of Outcomes: what else   *)
(* it holds decides nothing.                                                *)
(***************************************************************************)
EXTENDS Integers, FiniteSets

CONSTANTS
  Deliveries,     \* reconcile calls that can be under way at once
  MaxDeliveries,  \* bound: how often the intent is delivered
  Intents,        \* identities that arrive under the execution key
  Controllers,    \* controller ids; the intent names one as its writer
  Writer,         \* replica_writer_id
  Glasses,        \* break-glass authorizations, all with one authorization id
  MaxAttempts,    \* retry_policy.max_attempts
  LeaseTtl,       \* MAX_LEASE_TTL_S
  FenceEnd        \* intent.fence.expires_at, and the bound of the clock

ASSUME ScaleAssumption ==
  /\ MaxDeliveries \in Nat
  /\ MaxAttempts \in Nat \ {0}
  /\ LeaseTtl \in Nat \ {0}
  /\ FenceEnd \in Nat \ {0}
  /\ Writer \in Controllers

VARIABLES
  time,         \* the clock
  execution,    \* the durable execution row, or NoRow
  lease,        \* the durable controller lease, or NoLease
  observation,  \* the durable observation: the outcome it records, or "none"
  audit,        \* the durable break-glass audit: what was authorized, or "none"
  delivery,     \* the deliveries under way
  delivered,    \* how many deliveries there have been
  actuated,     \* the actuator's own memory of the execution key
  called,       \* history: has the actuator been called
  verified,     \* history: the outcomes answered as verified
  serial        \* history: no two deliveries have overlapped

scaleVars == <<time, execution, lease, observation, audit, delivery, delivered,
               actuated, called, verified, serial>>

Outcomes == {"simulated", "succeeded", "failed", "failed_retryable"}
Retryable(result) == result = "failed_retryable"
Failed(result) == result \in {"failed", "failed_retryable"}

\* The execution state a result puts the row in (result.state).
StateOf(result) == IF Failed(result) THEN "failed" ELSE result

NoRow == [state |-> "none", intent |-> "none", attempt |-> 0, result |-> "none",
          resultAttempt |-> 0]
NoLease == [id |-> 0, attempt |-> 0, expires |-> 0]

\* A new ScaleExecutionRecord.
NewRow(intent) == [NoRow EXCEPT !.state = "persisted", !.intent = intent]

Idle == [pc |-> "idle", now |-> 0, dry |-> FALSE, glass |-> "none",
         lease |-> NoLease, result |-> "none"]

ScaleInit ==
  /\ time = 0
  /\ execution = NoRow
  /\ lease = NoLease
  /\ observation = "none"
  /\ audit = "none"
  /\ delivery = [d \in Deliveries |-> Idle]
  /\ delivered = 0
  /\ actuated = "none"
  /\ called = FALSE
  /\ verified = {}
  /\ serial = TRUE

StepTo(d, pc) == delivery' = [delivery EXCEPT ![d].pc = pc]

\* reconcile returns or raises.
Over(d) == delivery' = [delivery EXCEPT ![d] = Idle]

-------------------------------------------------------------------------------
(* reconcile *)

\* reconcile is called: the clock is read, once, and _reconcile_preflight run.
Deliver(d) ==
  /\ delivery[d].pc = "idle"
  /\ delivered < MaxDeliveries
  /\ delivered' = delivered + 1
  /\ \E c \in Controllers, dry \in BOOLEAN :
       delivery' = IF c = Writer /\ time < FenceEnd
                   THEN [delivery EXCEPT ![d] =
                           [Idle EXCEPT !.pc = "persist", !.now = time,
                                        !.dry = dry]]
                   ELSE delivery
  /\ serial' = (serial /\ \A e \in Deliveries : delivery[e].pc = "idle")
  /\ UNCHANGED <<time, execution, lease, observation, audit, actuated, called,
                 verified>>

\* Mutant: a dry run may reuse any key that has not been verified.
DryRunReusesStarted(row, dry) ==
  dry => (row.state = "verified" => observation = "simulated")

\* _validate_dry_run_reuse
DryRunMayReuse(row, dry) ==
  dry => \/ row.state = "verified" /\ observation = "simulated"
         \/ row.state \in {"persisted", "simulated"}

\* _replay_durable_success, _replay_terminal_failure: the row's result is final
\* and only its observation may be missing.
ResultIsFinal(row) ==
  \/ row.state \in {"simulated", "succeeded"} /\ row.result # "none"
  \/ /\ row.state = "failed" /\ row.result # "none"
     /\ ~(Retryable(row.result) /\ row.attempt < MaxAttempts)

\* _reject_exhausted_retry_budget
BudgetExhausted(row) ==
  row.state = "started" /\ row.result = "none" /\ row.attempt >= MaxAttempts

\* _decide_policy_and_break_glass, up to the ledger's audit: the policy, which
\* is injected, allows the intent, or denies it, and then only an active
\* authorization lets the delivery go on.
Decide(d) ==
  \/ StepTo(d, "lease")
  \/ \E glass \in Glasses :
       delivery' = [delivery EXCEPT ![d].pc = "audit", ![d].glass = glass]
  \/ Over(d)

\* persist_intent, and what reconcile does with the row it returns before it
\* calls the ledger again.
Persist(d) ==
  \E intent \in Intents :
    LET row == IF execution = NoRow THEN NewRow(intent) ELSE execution
        usable == row.intent = intent /\ DryRunMayReuse(row, delivery[d].dry)
    IN /\ delivery[d].pc = "persist"
       /\ execution' = row
       /\ \/ /\ ~usable                                 \* ScaleIntentConflict
             /\ Over(d)
             /\ UNCHANGED verified
          \/ /\ usable /\ row.state = "verified"
             /\ verified' = verified \cup {observation}
             /\ Over(d)
          \/ /\ usable /\ ResultIsFinal(row)
             /\ delivery' = [delivery EXCEPT ![d].pc = "observe",
                                             ![d].result = row.result]
             /\ UNCHANGED verified
          \/ /\ usable /\ row.state # "verified" /\ ~ResultIsFinal(row)
             /\ IF BudgetExhausted(row) THEN Over(d) ELSE Decide(d)
             /\ UNCHANGED verified
       /\ UNCHANGED <<time, lease, observation, audit, delivered, actuated,
                      called, serial>>

\* record_break_glass: the audit is durable before the denial is bypassed.
RecordBreakGlass(d) ==
  /\ delivery[d].pc = "audit"
  /\ IF audit \in {"none", delivery[d].glass}
     THEN /\ audit' = delivery[d].glass
          /\ delivery' = [delivery EXCEPT ![d].pc = "lease", ![d].glass = "none"]
     ELSE audit' = audit /\ Over(d)          \* the authorization has changed
  /\ UNCHANGED <<time, execution, lease, observation, delivered, actuated,
                 called, verified, serial>>

\* _resolve_existing_lease, for the one controller that passes the preflight.
LeaseReplayed(now) ==
  /\ lease # NoLease
  /\ lease.expires > now
  /\ ~(execution.state = "failed" /\ Retryable(execution.result))

\* acquire_controller_lease
AcquireLease(d) ==
  LET t == delivery[d]
      end == IF t.now + LeaseTtl < FenceEnd THEN t.now + LeaseTtl ELSE FenceEnd
      new == [id |-> lease.id + 1, attempt |-> execution.attempt + 1,
              expires |-> end]
      held == IF LeaseReplayed(t.now) THEN lease ELSE new
  IN /\ t.pc = "lease"
     /\ lease' = held
     /\ delivery' = [delivery EXCEPT
                       ![d].lease = held,
                       ![d].pc = IF t.dry THEN "record" ELSE "start",
                       ![d].result = IF t.dry THEN "simulated" ELSE "none"]
     /\ UNCHANGED <<time, execution, observation, audit, delivered, actuated,
                    called, verified, serial>>

\* _check_lease
LeaseHeld(d) ==
  /\ lease.id = delivery[d].lease.id
  /\ delivery[d].now < delivery[d].lease.expires

\* A row that mark_started leaves as it is.
Concluded(row) == row.state \in {"simulated", "succeeded", "verified"}

\* mark_started: a failed attempt is only followed by one under a newer lease.
MayStart(row, attempt) ==
  row.state = "failed" => Retryable(row.result) /\ attempt > row.attempt

MarkStarted(d) ==
  /\ delivery[d].pc = "start"
  /\ \/ /\ LeaseHeld(d) /\ Concluded(execution)
        /\ StepTo(d, "apply")
        /\ UNCHANGED execution
     \/ /\ LeaseHeld(d) /\ ~Concluded(execution)
        /\ MayStart(execution, delivery[d].lease.attempt)
        /\ execution' = [execution EXCEPT !.state = "started",
                                          !.attempt = delivery[d].lease.attempt]
        /\ StepTo(d, "apply")
     \/ /\ LeaseHeld(d) => ~MayStart(execution, delivery[d].lease.attempt)
        /\ Over(d)
        /\ UNCHANGED execution
  /\ UNCHANGED <<time, lease, observation, audit, delivered, actuated, called,
                 verified, serial>>

\* What the actuator may do with a key it remembers as m: it replays what it
\* has decided; its answer may be lost (an exception, a retryable failure) with
\* or without the replicas changed.
ActuatorSteps(m) ==
  {[answer |-> r, memory |-> r] :
     r \in IF m = "none" THEN {"succeeded", "failed"} ELSE {m}}
  \cup {[answer |-> "failed_retryable", memory |-> n] :
          n \in IF m = "none" THEN {"none", "succeeded"} ELSE {m}}

\* _invoke_actuator.  An answer that is not a live, typed result raises.
Apply(d) ==
  /\ delivery[d].pc = "apply"
  /\ called' = TRUE
  /\ \/ \E s \in ActuatorSteps(actuated) :
          /\ actuated' = s.memory
          /\ delivery' = [delivery EXCEPT ![d].pc = "record",
                                          ![d].result = s.answer]
     \/ Over(d) /\ UNCHANGED actuated
  /\ UNCHANGED <<time, execution, lease, observation, audit, delivered, verified,
                 serial>>

\* _is_result_replay: a result other than the durable one is accepted only from
\* a newer attempt after a retryable failure.
ResultAccepted(row, d) ==
  \/ row.result = "none"
  \/ row.result = delivery[d].result
  \/ /\ Retryable(row.result)
     /\ delivery[d].lease.attempt > row.resultAttempt
     /\ row.state = "started"

\* The row after an accepted result: unchanged when it holds just this result.
WithResult(row, d) ==
  IF row.result = delivery[d].result /\ row.resultAttempt = delivery[d].lease.attempt
  THEN row
  ELSE [row EXCEPT !.state = StateOf(delivery[d].result),
                   !.result = delivery[d].result,
                   !.resultAttempt = delivery[d].lease.attempt]

\* record_result; a retryable failure with attempts left ends the delivery.
RecordResult(d) ==
  /\ delivery[d].pc = "record"
  /\ IF LeaseHeld(d) /\ ResultAccepted(execution, d)
     THEN /\ execution' = WithResult(execution, d)
          /\ IF /\ Retryable(delivery[d].result)
                /\ delivery[d].lease.attempt < MaxAttempts
             THEN Over(d)
             ELSE StepTo(d, "observe")
     ELSE Over(d) /\ UNCHANGED execution
  /\ UNCHANGED <<time, lease, observation, audit, delivered, actuated, called,
                 verified, serial>>

\* Mutant: a delivery's own result is observed, whatever is durable.
AnyObservation(d) == TRUE

\* record_observation: the first must match the durable result, a later one
\* the first.
ObservationFits(d) ==
  delivery[d].result = IF observation = "none" THEN execution.result
                                               ELSE observation

\* _observe_result and record_observation; reconcile answers verified.
Observe(d) ==
  /\ delivery[d].pc = "observe"
  /\ IF ObservationFits(d)
     THEN /\ observation' = delivery[d].result
          /\ execution' = IF observation = "none"
                          THEN [execution EXCEPT !.state = "verified"]
                          ELSE execution
          /\ verified' = verified \cup {delivery[d].result}
     ELSE UNCHANGED <<observation, execution, verified>>
  /\ Over(d)
  /\ UNCHANGED <<time, lease, audit, delivered, actuated, called, serial>>

\* The process of the delivery dies.
Crash(d) ==
  /\ delivery[d].pc # "idle"
  /\ Over(d)
  /\ UNCHANGED <<time, execution, lease, observation, audit, delivered, actuated,
                 called, verified, serial>>

ScaleTick ==
  /\ time < FenceEnd
  /\ time' = time + 1
  /\ UNCHANGED <<execution, lease, observation, audit, delivery, delivered,
                 actuated, called, verified, serial>>

ScaleNext ==
  \/ ScaleTick
  \/ \E d \in Deliveries :
       \/ Deliver(d) \/ Persist(d) \/ RecordBreakGlass(d) \/ AcquireLease(d)
       \/ MarkStarted(d) \/ Apply(d) \/ RecordResult(d) \/ Observe(d) \/ Crash(d)

ScaleSpec == ScaleInit /\ [][ScaleNext]_scaleVars
-------------------------------------------------------------------------------
(* Properties *)

\* The variables have their types, and no attempt is numbered past the leases
\* that were issued.
ScaleTypeOK ==
  /\ time \in 0..FenceEnd
  /\ execution \in [state : {"none", "persisted", "started", "simulated",
                             "succeeded", "failed", "verified"},
                    intent : Intents \cup {"none"}, attempt : 0..lease.id,
                    result : Outcomes \cup {"none"}, resultAttempt : 0..lease.id]
  /\ lease \in [id : 0..MaxDeliveries, attempt : 0..MaxDeliveries,
                expires : 0..FenceEnd]
  /\ observation \in Outcomes \cup {"none"}
  /\ audit \in Glasses \cup {"none"}
  /\ delivery \in [Deliveries ->
       [pc : {"idle", "persist", "audit", "lease", "start", "apply", "record",
              "observe"},
        now : 0..FenceEnd, dry : BOOLEAN, glass : Glasses \cup {"none"},
        lease : [id : 0..lease.id, attempt : 0..MaxDeliveries,
                 expires : 0..FenceEnd],
        result : Outcomes \cup {"none"}]]
  /\ delivered \in 0..MaxDeliveries
  /\ actuated \in {"none", "succeeded", "failed"}
  /\ called \in BOOLEAN
  /\ verified \subseteq Outcomes \cup {"none"}
  /\ serial \in BOOLEAN

\* Every delivery that answers "verified" (reconcile, step 5 of the module's
\* ordering) answers the outcome of the one durable observation, whichever
\* deliveries raced or crashed before it.
VerifiedAnswersAgree == verified \subseteq {observation} \ {"none"}

\* A crash never hides that the actuator was called: the row has left
\* "persisted" by then, so a redelivery cannot take the intent for untouched.
\* And when deliveries come one at a time, mark_started has counted the attempt
\* and nothing is recorded as simulated ("no replicas changed").
ActuationIsOnRecord ==
  called =>
    /\ execution.state # "persisted"
    /\ serial => execution.attempt > 0 /\ execution.result # "simulated"

\* _reject_exhausted_retry_budget: "Do not exceed the declared retry budget".
WithinRetryBudget == execution.attempt <= MaxAttempts
===============================================================================
