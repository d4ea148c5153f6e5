--------------------------- MODULE ScaleIntentProofs ---------------------------
(***************************************************************************)
(* Proofs about the reconciliation of a scale intent, for any number of     *)
(* deliveries, attempts and identities, and any lease and fence times.      *)
(***************************************************************************)
EXTENDS ScaleIntent, FiniteSetTheorems, TLAPS

States == {"none", "persisted", "started", "simulated", "succeeded", "failed",
           "verified"}
Places == {"idle", "persist", "audit", "lease", "start", "apply", "record",
           "observe"}
LeaseTypes == [id : Nat, attempt : Nat, expires : Int]
Results == Outcomes \cup {"none"}
DeliveryTypes ==
  [pc : Places, now : Int, dry : BOOLEAN, glass : Glasses \cup {"none"},
   lease : LeaseTypes, result : Results]

\* The types the proof needs: counters are not bounded by the instance.
Typed ==
  /\ execution \in [state : States, intent : Intents \cup {"none"}, attempt : Nat,
                    result : Results, resultAttempt : Nat]
  /\ lease \in LeaseTypes
  /\ observation \in Results
  /\ delivery \in [Deliveries -> DeliveryTypes]
  /\ time \in Int
  /\ actuated \in {"none", "succeeded", "failed"}
  /\ called \in BOOLEAN /\ serial \in BOOLEAN

\* Whatever overlaps: a row is verified by an observation, a delivery records
\* and observes a result, attempts are numbered from one, and the actuator is
\* called for rows that have been started.
RowOf(d) ==
  /\ delivery[d].pc \in {"record", "observe"} => delivery[d].result # "none"
  /\ delivery[d].pc \in {"start", "apply", "record"} => delivery[d].lease.attempt > 0
  /\ delivery[d].pc = "apply" => execution.state \notin {"none", "persisted"}

Backed ==
  /\ execution.state = "none" => execution = NoRow
  /\ execution.state = "verified" => observation # "none"
  /\ lease # NoLease => lease.attempt > 0
  /\ called => execution.state \notin {"none", "persisted"}
  /\ \A d \in Deliveries : RowOf(d)

\* One delivery at a time: a delivery that goes on past persist_intent works on
\* a row that is not concluded, and a dry run on one that nobody has started.
OneAtATime ==
  \A d, e \in Deliveries : delivery[d].pc # "idle" /\ delivery[e].pc # "idle" => d = e

TurnOf(d) ==
  /\ delivery[d].pc \in {"audit", "lease", "start"} =>
       /\ execution.state \in {"persisted", "started", "failed"}
       /\ delivery[d].dry => /\ delivery[d].pc # "start"
                             /\ execution.state = "persisted"
  /\ delivery[d].pc = "apply" =>
       ~delivery[d].dry /\ execution.state = "started" /\ execution.attempt > 0
  /\ delivery[d].pc = "record" =>
       IF delivery[d].dry THEN execution.state = "persisted"
       ELSE /\ execution.state = "started" /\ execution.attempt > 0
            /\ delivery[d].result # "simulated"

RowInTurn ==
  /\ execution.state = "persisted" => execution.result = "none"
  /\ execution.state = "started" => execution.result \in {"none", "failed_retryable"}
  /\ execution.state = "failed" => Failed(execution.result)
  /\ execution.state \in {"simulated", "succeeded"} => execution.result # "none"
  /\ called => execution.attempt > 0 /\ execution.result # "simulated"

InTurn == serial => OneAtATime /\ RowInTurn /\ \A d \in Deliveries : TurnOf(d)

IInv == Typed /\ Backed /\ InTurn /\ VerifiedAnswersAgree

--------------------------------------------------------------------------------
(* A step of one delivery.                                                    *)

\* What a delivery at its new place has to show; the others have not moved.
LEMMA Combine ==
  ASSUME IInv, NEW d \in Deliveries, Typed', VerifiedAnswersAgree',
         \A e \in Deliveries : e # d => delivery'[e] = delivery[e],
         (execution.state = "verified" => observation # "none")',
         (execution.state = "none" => execution = NoRow)',
         (lease # NoLease => lease.attempt > 0)',
         (called => execution.state \notin {"none", "persisted"})',
         execution.state \notin {"none", "persisted"} =>
           execution'.state \notin {"none", "persisted"},
         RowOf(d)',
         serial' => serial,
         serial' => RowInTurn' /\ TurnOf(d)' /\ delivery[d].pc # "idle"
  PROVE  IInv'
<1>1. Backed'
  BY DEF IInv, Backed, RowOf
<1>2. InTurn'
  <2> SUFFICES ASSUME serial' PROVE OneAtATime' /\ \A e \in Deliveries : TurnOf(e)'
    BY DEF InTurn
  <2>1. \A e \in Deliveries : e # d => delivery[e].pc = "idle" /\ delivery'[e].pc = "idle"
    BY DEF IInv, InTurn, OneAtATime
  <2> QED
    BY <2>1 DEF OneAtATime, TurnOf
<1> QED
  BY <1>1, <1>2 DEF IInv

\* What a delivery is when reconcile is not called.
LEMMA IdleMeaning == Idle \in DeliveryTypes /\ Idle.pc = "idle"
BY DEF Idle, NoLease, DeliveryTypes, LeaseTypes, Places, Results

\* reconcile returns or raises: the delivery is idle and nothing is asked of it.
LEMMA OverMeaning ==
  ASSUME Typed, NEW d \in Deliveries, Over(d)
  PROVE  /\ delivery' \in [Deliveries -> DeliveryTypes]
         /\ \A e \in Deliveries : e # d => delivery'[e] = delivery[e]
         /\ RowOf(d)' /\ TurnOf(d)'
<1>1. /\ delivery' \in [Deliveries -> DeliveryTypes] /\ delivery'[d] = Idle
      /\ \A e \in Deliveries : e # d => delivery'[e] = delivery[e]
  BY IdleMeaning DEF Typed, Over
<1> QED
  BY <1>1, IdleMeaning DEF RowOf, TurnOf

\* A delivery goes on to its next place.
LEMMA StepToMeaning ==
  ASSUME Typed, NEW d \in Deliveries, NEW pc \in Places, StepTo(d, pc)
  PROVE  /\ delivery' \in [Deliveries -> DeliveryTypes]
         /\ \A e \in Deliveries : e # d => delivery'[e] = delivery[e]
         /\ delivery'[d].pc = pc /\ delivery'[d].dry = delivery[d].dry
         /\ delivery'[d].lease = delivery[d].lease
         /\ delivery'[d].result = delivery[d].result
BY DEF Typed, StepTo, DeliveryTypes

\* An answer that ends a delivery and leaves the row, the observation and the
\* lease alone keeps the invariant.
LEMMA OverKeeps ==
  ASSUME IInv, NEW d \in Deliveries, delivery[d].pc # "idle", Over(d),
         UNCHANGED <<time, execution, lease, observation, actuated, called,
                     verified, serial>>
  PROVE  IInv'
<1>1. Typed' /\ VerifiedAnswersAgree'
  BY OverMeaning DEF IInv, Typed, VerifiedAnswersAgree
<1> QED
  BY <1>1, OverMeaning, Combine DEF IInv, Backed, InTurn, RowInTurn

--------------------------------------------------------------------------------
(* The steps of reconcile                                                     *)

\* A delivery arrives: when another one is under way, the run is no longer
\* one of deliveries in turn.
LEMMA DeliverKeeps ==
  ASSUME IInv, NEW d \in Deliveries, Deliver(d)
  PROVE  IInv'
<1>1. PICK c \in Controllers, dry \in BOOLEAN :
        delivery' = IF c = Writer /\ time < FenceEnd
                    THEN [delivery EXCEPT ![d] =
                            [Idle EXCEPT !.pc = "persist", !.now = time,
                                         !.dry = dry]]
                    ELSE delivery
  BY DEF Deliver
<1>2. /\ delivery' \in [Deliveries -> DeliveryTypes]
      /\ \A e \in Deliveries : e # d => delivery'[e] = delivery[e]
      /\ delivery'[d].pc \in {"idle", "persist"}
  <2> DEFINE new == [Idle EXCEPT !.pc = "persist", !.now = time, !.dry = dry]
  <2>1. new \in DeliveryTypes /\ new.pc = "persist"
    <3>1. Idle \in DeliveryTypes
      BY IdleMeaning
    <3> QED
      BY <3>1 DEF IInv, Typed, DeliveryTypes, Places
  <2>2. delivery' = delivery \/ delivery' = [delivery EXCEPT ![d] = new]
    BY <1>1
  <2> HIDE DEF new
  <2> QED
    BY <2>1, <2>2 DEF IInv, Typed, Deliver
<1>3. Typed' /\ VerifiedAnswersAgree'
  BY <1>2 DEF Deliver, IInv, Typed, VerifiedAnswersAgree
<1>4. Backed'
  BY <1>2 DEF Deliver, IInv, Backed, RowOf
<1>5. InTurn'
  <2> SUFFICES ASSUME serial'
               PROVE  OneAtATime' /\ RowInTurn' /\ \A e \in Deliveries : TurnOf(e)'
    BY DEF InTurn
  <2>1. serial /\ \A e \in Deliveries : e # d => delivery'[e].pc = "idle"
    BY <1>2 DEF Deliver, IInv, Typed
  <2>2. RowInTurn'
    BY <2>1 DEF Deliver, IInv, InTurn, RowInTurn
  <2> QED
    BY <1>2, <2>1, <2>2 DEF OneAtATime, TurnOf
<1> QED
  BY <1>3, <1>4, <1>5 DEF IInv

\* persist_intent and what reconcile makes of the row.
LEMMA PersistKeeps ==
  ASSUME IInv, NEW d \in Deliveries, Persist(d)
  PROVE  IInv'
<1>1. PICK intent \in Intents :
        LET row == IF execution = NoRow THEN NewRow(intent) ELSE execution
            usable == row.intent = intent /\ DryRunMayReuse(row, delivery[d].dry)
        IN /\ delivery[d].pc = "persist"
           /\ execution' = row
           /\ \/ ~usable /\ Over(d) /\ UNCHANGED verified
              \/ /\ usable /\ row.state = "verified"
                 /\ verified' = verified \cup {observation}
                 /\ Over(d)
              \/ /\ usable /\ ResultIsFinal(row)
                 /\ delivery' = [delivery EXCEPT ![d].pc = "observe",
                                                 ![d].result = row.result]
                 /\ UNCHANGED verified
              \/ /\ usable /\ row.state # "verified" /\ ~ResultIsFinal(row)
                 /\ IF BudgetExhausted(row) THEN Over(d) ELSE Decide(d)
                 /\ UNCHANGED verified
           /\ UNCHANGED <<time, lease, observation, audit, delivered, actuated,
                          called, serial>>
  BY DEF Persist
<1>2. \/ execution' = execution /\ execution # NoRow
      \/ /\ execution = NoRow /\ execution' = NewRow(intent)
         /\ execution'.state = "persisted" /\ execution'.result = "none"
         /\ execution.state = "none" /\ ~called
  BY <1>1 DEF NewRow, NoRow, IInv, Typed, Backed
<1>3. execution' \in [state : States, intent : Intents \cup {"none"}, attempt : Nat,
                      result : Results, resultAttempt : Nat]
  BY <1>2 DEF NewRow, NoRow, IInv, Typed, States, Results
<1>4. execution.state \notin {"none", "persisted"} =>
        execution'.state \notin {"none", "persisted"}
  BY <1>2
<1>5. /\ (execution.state = "none" => execution = NoRow)'
      /\ (execution.state = "verified" => observation # "none")'
      /\ (lease # NoLease => lease.attempt > 0)'
      /\ (called => execution.state \notin {"none", "persisted"})'
  BY <1>1, <1>2 DEF IInv, Backed
<1>6. serial' => serial /\ RowInTurn' /\ delivery[d].pc # "idle"
  BY <1>1, <1>2 DEF IInv, InTurn, RowInTurn, Failed
<1>7. VerifiedAnswersAgree'
  <2>1. observation' = observation
    BY <1>1
  <2>2. \/ verified' = verified
        \/ verified' = verified \cup {observation} /\ observation # "none"
    BY <1>1, <1>5, <2>1
  <2> QED
    BY <2>1, <2>2 DEF IInv, VerifiedAnswersAgree
<1>8. /\ delivery' \in [Deliveries -> DeliveryTypes]
      /\ \A e \in Deliveries : e # d => delivery'[e] = delivery[e]
      /\ RowOf(d)' /\ (serial' => TurnOf(d)')
  <2> DEFINE usable == /\ execution'.intent = intent
                       /\ DryRunMayReuse(execution', delivery[d].dry)
  <2>1. CASE Over(d)
    BY <2>1, OverMeaning DEF IInv
  <2>2. CASE /\ usable /\ ResultIsFinal(execution')
             /\ delivery' = [delivery EXCEPT ![d].pc = "observe",
                                             ![d].result = execution'.result]
    <3>1. execution'.result \in Results \ {"none"}
      BY <1>3, <2>2 DEF ResultIsFinal
    <3>2. /\ delivery' \in [Deliveries -> DeliveryTypes]
          /\ \A e \in Deliveries : e # d => delivery'[e] = delivery[e]
          /\ delivery'[d].pc = "observe" /\ delivery'[d].result = execution'.result
      BY ZenonT(60), <2>2, <3>1 DEF IInv, Typed, DeliveryTypes, Places
    <3> QED
      BY <3>1, <3>2 DEF RowOf, TurnOf
  <2>3. CASE /\ usable /\ execution'.state # "verified"
             /\ ~ResultIsFinal(execution') /\ Decide(d) /\ ~Over(d)
    <3>1. /\ delivery' \in [Deliveries -> DeliveryTypes]
          /\ \A e \in Deliveries : e # d => delivery'[e] = delivery[e]
          /\ delivery'[d].pc \in {"audit", "lease"}
          /\ delivery'[d].dry = delivery[d].dry
      BY <2>3 DEF Decide, StepTo, IInv, Typed, DeliveryTypes, Places
    <3>2. execution'.state # "none"
      BY <1>1, <1>2 DEF IInv, Backed
    <3>3. serial' => /\ execution'.state \in {"persisted", "started", "failed"}
                     /\ delivery[d].dry => execution'.state = "persisted"
      BY <1>3, <1>6, <2>3, <3>2 DEF States, ResultIsFinal, DryRunMayReuse, RowInTurn
    <3> QED
      BY <3>1, <3>3 DEF RowOf, TurnOf
  <2> QED
    BY <1>1, <2>1, <2>2, <2>3
<1>9. Typed'
  BY <1>1, <1>3, <1>8 DEF IInv, Typed
<1> QED
  BY <1>1, <1>4, <1>5, <1>6, <1>7, <1>8, <1>9, Combine

\* record_break_glass writes the audit, which nothing else depends on.
LEMMA RecordBreakGlassKeeps ==
  ASSUME IInv, NEW d \in Deliveries, RecordBreakGlass(d)
  PROVE  IInv'
<1>1. CASE Over(d)
  BY <1>1, OverKeeps DEF RecordBreakGlass
<1>2. CASE ~Over(d)
  <2>1. /\ delivery' \in [Deliveries -> DeliveryTypes]
        /\ \A e \in Deliveries : e # d => delivery'[e] = delivery[e]
        /\ delivery[d].pc = "audit" /\ delivery'[d].pc = "lease"
        /\ delivery'[d].dry = delivery[d].dry
    BY <1>2 DEF RecordBreakGlass, IInv, Typed, DeliveryTypes, Places
  <2>2. Typed' /\ VerifiedAnswersAgree'
    BY <2>1 DEF RecordBreakGlass, IInv, Typed, VerifiedAnswersAgree
  <2>3. RowOf(d)' /\ (serial' => RowInTurn' /\ TurnOf(d)')
    BY <2>1 DEF RecordBreakGlass, IInv, RowOf, InTurn, RowInTurn, TurnOf
  <2> QED
    BY <2>1, <2>2, <2>3, Combine DEF RecordBreakGlass, IInv, Backed
<1> QED
  BY <1>1, <1>2

\* acquire_controller_lease: the lease replayed or issued numbers an attempt.
LEMMA AcquireLeaseKeeps ==
  ASSUME IInv, NEW d \in Deliveries, AcquireLease(d)
  PROVE  IInv'
<1> USE ScaleAssumption
<1>1. lease' \in LeaseTypes /\ lease'.attempt > 0
  <2>1. CASE LeaseReplayed(delivery[d].now)
    BY <2>1 DEF AcquireLease, LeaseReplayed, IInv, Typed, Backed
  <2>2. CASE ~LeaseReplayed(delivery[d].now)
    <3> DEFINE now == delivery[d].now
               until == IF now + LeaseTtl < FenceEnd THEN now + LeaseTtl
                                                     ELSE FenceEnd
    <3>1. now \in Int /\ lease.id \in Nat /\ execution.attempt \in Nat
      BY DEF IInv, Typed, DeliveryTypes, LeaseTypes
    <3>2. until \in Int
      BY <3>1
    <3>3. lease' = [id |-> lease.id + 1, attempt |-> execution.attempt + 1,
                    expires |-> until]
      BY <2>2 DEF AcquireLease
    <3> HIDE DEF until
    <3> QED
      BY <3>1, <3>2, <3>3 DEF LeaseTypes
  <2> QED
    BY <2>1, <2>2
<1>2. /\ delivery' \in [Deliveries -> DeliveryTypes]
      /\ \A e \in Deliveries : e # d => delivery'[e] = delivery[e]
      /\ delivery[d].pc = "lease"
      /\ delivery'[d].lease = lease'
      /\ delivery'[d].dry = delivery[d].dry
      /\ delivery'[d].pc = IF delivery[d].dry THEN "record" ELSE "start"
      /\ delivery'[d].result = IF delivery[d].dry THEN "simulated" ELSE "none"
  <2> DEFINE pc == IF delivery[d].dry THEN "record" ELSE "start"
             result == IF delivery[d].dry THEN "simulated" ELSE "none"
  <2>1. pc \in Places /\ result \in Results
    BY DEF Places, Results, Outcomes
  <2>2. delivery' = [delivery EXCEPT ![d].lease = lease', ![d].pc = pc,
                                     ![d].result = result]
    BY DEF AcquireLease
  <2>3. delivery[d].pc = "lease"
    BY DEF AcquireLease
  <2> HIDE DEF pc, result
  <2>4. /\ delivery' \in [Deliveries -> DeliveryTypes]
        /\ \A e \in Deliveries : e # d => delivery'[e] = delivery[e]
        /\ delivery'[d].lease = lease' /\ delivery'[d].dry = delivery[d].dry
        /\ delivery'[d].pc = pc /\ delivery'[d].result = result
    BY ZenonT(60), <1>1, <2>1, <2>2 DEF IInv, Typed, DeliveryTypes
  <2> QED
    BY <2>3, <2>4 DEF pc, result
<1>3. Typed' /\ VerifiedAnswersAgree'
  BY <1>1, <1>2 DEF AcquireLease, IInv, Typed, VerifiedAnswersAgree
<1>4. RowOf(d)' /\ (serial' => RowInTurn' /\ TurnOf(d)')
  <2>1. UNCHANGED <<execution, serial, called>>
    BY DEF AcquireLease
  <2>2. delivery[d].dry \in BOOLEAN
    BY DEF IInv, Typed, DeliveryTypes
  <2>3. RowOf(d)'
    BY <1>1, <1>2, <2>2 DEF RowOf
  <2>4. serial' => RowInTurn'
    BY <2>1 DEF IInv, InTurn, RowInTurn
  <2>5. serial' => TurnOf(d)'
    BY <1>2, <2>1, <2>2 DEF IInv, InTurn, TurnOf
  <2> QED
    BY <2>3, <2>4, <2>5
<1>5. /\ UNCHANGED <<execution, observation, called, serial>>
      /\ (lease # NoLease => lease.attempt > 0)'
  BY <1>1 DEF AcquireLease
<1>6. /\ (execution.state = "none" => execution = NoRow)'
      /\ (execution.state = "verified" => observation # "none")'
      /\ (called => execution.state \notin {"none", "persisted"})'
  BY <1>5 DEF IInv, Backed
<1> QED
  BY <1>2, <1>3, <1>4, <1>5, <1>6, Combine

\* mark_started: past it the row has left "persisted".
LEMMA MarkStartedKeeps ==
  ASSUME IInv, NEW d \in Deliveries, MarkStarted(d)
  PROVE  IInv'
<1>1. CASE Over(d) /\ UNCHANGED execution
  BY <1>1, OverKeeps DEF MarkStarted
<1>2. CASE ~(Over(d) /\ UNCHANGED execution)
  <2>1. StepTo(d, "apply") /\ "apply" \in Places /\ delivery[d].pc = "start"
    BY <1>2 DEF MarkStarted, Places
  <2>2. /\ delivery' \in [Deliveries -> DeliveryTypes]
        /\ \A e \in Deliveries : e # d => delivery'[e] = delivery[e]
        /\ delivery'[d].pc = "apply" /\ delivery'[d].dry = delivery[d].dry
        /\ delivery'[d].lease = delivery[d].lease
    BY <2>1, StepToMeaning DEF IInv
  <2>3. delivery[d].lease.attempt \in Nat /\ delivery[d].lease.attempt > 0
    BY <2>1 DEF IInv, Typed, DeliveryTypes, LeaseTypes, Backed, RowOf
  <2>4. \/ execution' = execution /\ Concluded(execution)
        \/ /\ execution' = [execution EXCEPT !.state = "started",
                                              !.attempt = delivery[d].lease.attempt]
           /\ MayStart(execution, delivery[d].lease.attempt)
           /\ ~Concluded(execution)
    BY <1>2 DEF MarkStarted
  <2>5. /\ execution' \in [state : States, intent : Intents \cup {"none"},
                            attempt : Nat, result : Results, resultAttempt : Nat]
        /\ execution'.result = execution.result
    BY <2>3, <2>4 DEF IInv, Typed, States
  <2>6. \/ execution' = execution /\ Concluded(execution)
        \/ /\ execution'.state = "started" /\ execution'.attempt > 0
           /\ MayStart(execution, delivery[d].lease.attempt)
    BY <2>3, <2>4, <2>5 DEF IInv, Typed, States
  <2>7. execution'.state \notin {"none", "persisted"}
    BY <2>6 DEF Concluded
  <2>8. Typed' /\ VerifiedAnswersAgree'
    <3>1. UNCHANGED <<time, lease, observation, actuated, called, verified, serial>>
      BY DEF MarkStarted
    <3> QED
      BY <2>2, <2>5, <3>1 DEF IInv, Typed, VerifiedAnswersAgree
  <2>9. RowOf(d)'
    BY <2>2, <2>3, <2>7 DEF RowOf
  <2>10. /\ (execution.state = "verified" => observation # "none")'
         /\ (lease # NoLease => lease.attempt > 0)'
    BY <2>6 DEF MarkStarted, IInv, Backed
  <2>11. ASSUME serial'
         PROVE  RowInTurn' /\ TurnOf(d)'
    <3>1. /\ serial /\ RowInTurn /\ TurnOf(d) /\ UNCHANGED called
      BY <2>11 DEF MarkStarted, IInv, InTurn
    <3>2. execution.state \in {"persisted", "started", "failed"} /\ ~delivery[d].dry
      BY <2>1, <3>1 DEF TurnOf
    <3>3. /\ execution'.state = "started" /\ execution'.attempt > 0
          /\ execution'.result \in {"none", "failed_retryable"}
      BY <2>5, <2>6, <3>1, <3>2 DEF Concluded, MayStart, Retryable, RowInTurn
    <3> QED
      BY <2>2, <3>1, <3>2, <3>3 DEF RowInTurn, TurnOf
  <2>12. serial' => serial /\ RowInTurn' /\ TurnOf(d)' /\ delivery[d].pc # "idle"
    BY <2>1, <2>11 DEF MarkStarted
  <2> QED
    BY <2>2, <2>7, <2>8, <2>9, <2>10, <2>12, Combine
<1> QED
  BY <1>1, <1>2

\* _invoke_actuator is called for a row that has been started.
LEMMA ApplyKeeps ==
  ASSUME IInv, NEW d \in Deliveries, Apply(d)
  PROVE  IInv'
<1>1. /\ delivery[d].pc = "apply" /\ called' = TRUE
      /\ UNCHANGED <<time, execution, lease, observation, verified, serial>>
  BY DEF Apply
<1>2. execution.state \notin {"none", "persisted"}
  BY <1>1 DEF IInv, Backed, RowOf
<1>3. serial => RowInTurn' /\ execution.state = "started" /\ execution.attempt > 0
                           /\ ~delivery[d].dry
  BY <1>1 DEF IInv, InTurn, RowInTurn, TurnOf
<1>4. /\ delivery' \in [Deliveries -> DeliveryTypes]
      /\ \A e \in Deliveries : e # d => delivery'[e] = delivery[e]
      /\ actuated' \in {"none", "succeeded", "failed"}
      /\ RowOf(d)' /\ (serial => TurnOf(d)')
  <2>1. CASE Over(d) /\ UNCHANGED actuated
    BY <2>1, OverMeaning DEF IInv, Typed
  <2>2. ASSUME NEW s \in ActuatorSteps(actuated), actuated' = s.memory,
               delivery' = [delivery EXCEPT ![d].pc = "record", ![d].result = s.answer]
        PROVE  <1>4!:
    <3>1. /\ s.answer \in Outcomes \ {"simulated"}
          /\ s.memory \in {"none", "succeeded", "failed"}
      BY DEF ActuatorSteps, Outcomes, IInv, Typed
    <3>2. delivery[d].lease.attempt > 0
      BY <1>1 DEF IInv, Backed, RowOf
    <3>3. s.answer # "none"
      BY <3>1 DEF Outcomes
    <3>4. /\ delivery' \in [Deliveries -> DeliveryTypes]
          /\ \A e \in Deliveries : e # d => delivery'[e] = delivery[e]
          /\ delivery'[d].pc = "record" /\ delivery'[d].result = s.answer
          /\ delivery'[d].dry = delivery[d].dry
          /\ delivery'[d].lease = delivery[d].lease
      BY ZenonT(60), <2>2, <3>1 DEF IInv, Typed, DeliveryTypes, Places, Results
    <3>5. RowOf(d)'
      BY <3>2, <3>3, <3>4 DEF RowOf
    <3>6. serial => TurnOf(d)'
      BY <1>1, <1>3, <3>1, <3>4 DEF TurnOf
    <3> QED
      BY <2>2, <3>1, <3>4, <3>5, <3>6
  <2> QED
    BY <2>1, <2>2 DEF Apply
<1>5. Typed' /\ VerifiedAnswersAgree'
  BY <1>1, <1>4 DEF IInv, Typed, VerifiedAnswersAgree
<1> QED
  BY <1>1, <1>2, <1>3, <1>4, <1>5, Combine DEF IInv, Backed

\* record_result: the row leaves "persisted" with a result, and in turn that
\* result is the actuator's once the actuator has been called.
LEMMA RecordResultKeeps ==
  ASSUME IInv, NEW d \in Deliveries, RecordResult(d)
  PROVE  IInv'
<1> DEFINE result == delivery[d].result
<1>1. /\ delivery[d].pc = "record"
      /\ UNCHANGED <<time, lease, observation, actuated, called, verified, serial>>
  BY DEF RecordResult
<1>2. CASE Over(d) /\ UNCHANGED execution
  BY <1>1, <1>2, OverKeeps
<1>3. CASE ~(Over(d) /\ UNCHANGED execution)
  <2>1. /\ execution' = WithResult(execution, d)
        /\ Over(d) \/ StepTo(d, "observe")
    BY <1>3 DEF RecordResult
  <2>2. /\ result \in Outcomes /\ delivery[d].lease.attempt \in Nat
        /\ result # "none"
    BY <1>1 DEF IInv, Typed, DeliveryTypes, LeaseTypes, Results, Backed, RowOf
  <2>3. StateOf(result) \in {"simulated", "succeeded", "failed"}
    BY <2>2 DEF StateOf, Failed, Outcomes
  <2>4. \/ execution' = execution
        \/ execution' = [execution EXCEPT !.state = StateOf(result),
                                          !.result = result,
                                          !.resultAttempt = delivery[d].lease.attempt]
    BY <2>1 DEF WithResult
  <2>5. /\ execution' \in [state : States, intent : Intents \cup {"none"},
                            attempt : Nat, result : Results, resultAttempt : Nat]
        /\ execution'.attempt = execution.attempt
        /\ \/ execution' = execution
           \/ execution'.state = StateOf(result) /\ execution'.result = result
    <3> HIDE DEF result
    <3> QED
      BY <2>2, <2>3, <2>4 DEF IInv, Typed, States, Results
  <2>6. /\ delivery' \in [Deliveries -> DeliveryTypes]
        /\ \A e \in Deliveries : e # d => delivery'[e] = delivery[e]
        /\ RowOf(d)' /\ TurnOf(d)'
    <3>1. CASE Over(d)
      BY <3>1, OverMeaning DEF IInv
    <3>2. CASE StepTo(d, "observe")
      <4>1. "observe" \in Places
        BY DEF Places
      <4>2. /\ delivery' \in [Deliveries -> DeliveryTypes]
            /\ \A e \in Deliveries : e # d => delivery'[e] = delivery[e]
            /\ delivery'[d].pc = "observe" /\ delivery'[d].result = result
        BY <3>2, <4>1, StepToMeaning DEF IInv
      <4> QED
        BY <2>2, <4>2 DEF RowOf, TurnOf
    <3> QED
      BY <2>1, <3>1, <3>2
  <2>7. Typed' /\ VerifiedAnswersAgree'
    BY <1>1, <2>5, <2>6 DEF IInv, Typed, VerifiedAnswersAgree
  <2>8. /\ (execution.state = "none" => execution = NoRow)'
        /\ (execution.state = "verified" => observation # "none")'
        /\ (lease # NoLease => lease.attempt > 0)'
        /\ (called => execution.state \notin {"none", "persisted"})'
        /\ execution.state \notin {"none", "persisted"} =>
             execution'.state \notin {"none", "persisted"}
    BY <1>1, <2>3, <2>5 DEF IInv, Backed
  <2>9. ASSUME serial'
        PROVE  RowInTurn'
    <3>1. serial /\ RowInTurn /\ TurnOf(d) /\ (called => execution.state # "persisted")
      BY <1>1, <2>9 DEF IInv, InTurn, Backed
    <3>2. called => execution.attempt > 0 /\ result # "simulated"
      BY <1>1, <3>1 DEF TurnOf
    <3>3. CASE execution' = execution
      BY <1>1, <3>1, <3>3 DEF RowInTurn
    <3>4. CASE execution'.state = StateOf(result) /\ execution'.result = result
      BY <1>1, <2>2, <2>3, <2>5, <3>2, <3>4 DEF RowInTurn, StateOf, Failed, Outcomes
    <3> QED
      BY <2>5, <3>3, <3>4
  <2>10. /\ serial' => serial
         /\ serial' => RowInTurn' /\ TurnOf(d)' /\ delivery[d].pc # "idle"
    BY <1>1, <2>6, <2>9
  <2> QED
    BY <2>6, <2>7, <2>8, <2>10, Combine
<1> QED
  BY <1>2, <1>3

\* record_observation: the first observation is kept, and every answer is it.
LEMMA ObserveKeeps ==
  ASSUME IInv, NEW d \in Deliveries, Observe(d)
  PROVE  IInv'
<1>1. /\ delivery[d].pc = "observe" /\ Over(d)
      /\ UNCHANGED <<time, lease, actuated, called, serial>>
  BY DEF Observe
<1>2. CASE ~ObservationFits(d)
  BY <1>1, <1>2, OverKeeps DEF Observe
<1>3. CASE ObservationFits(d)
  <2>1. delivery[d].result \in Results \ {"none"}
    BY <1>1 DEF IInv, Typed, DeliveryTypes, Backed, RowOf
  <2>2. /\ observation' = delivery[d].result
        /\ verified' = verified \cup {delivery[d].result}
        /\ observation # "none" => observation = delivery[d].result
    BY <1>3 DEF Observe, ObservationFits
  <2>3. \/ execution' = execution
        \/ execution' = [execution EXCEPT !.state = "verified"]
    BY <1>3 DEF Observe
  <2>4. /\ execution' \in [state : States, intent : Intents \cup {"none"},
                            attempt : Nat, result : Results, resultAttempt : Nat]
        /\ execution'.attempt = execution.attempt
        /\ execution'.result = execution.result
        /\ execution' = execution \/ execution'.state = "verified"
    BY <2>3 DEF IInv, Typed, States
  <2>5. Typed'
    BY <1>1, <2>1, <2>2, <2>4, OverMeaning DEF IInv, Typed
  <2>6. VerifiedAnswersAgree'
    BY <2>1, <2>2 DEF IInv, VerifiedAnswersAgree
  <2>7. /\ (execution.state = "none" => execution = NoRow)'
        /\ (execution.state = "verified" => observation # "none")'
        /\ (lease # NoLease => lease.attempt > 0)'
        /\ (called => execution.state \notin {"none", "persisted"})'
        /\ execution.state \notin {"none", "persisted"} =>
             execution'.state \notin {"none", "persisted"}
    BY <1>1, <2>1, <2>2, <2>4 DEF IInv, Backed
  <2>8. /\ serial' => serial
        /\ serial' => RowInTurn'
    BY <1>1, <2>4 DEF IInv, InTurn, RowInTurn
  <2>9. /\ \A e \in Deliveries : e # d => delivery'[e] = delivery[e]
        /\ RowOf(d)' /\ TurnOf(d)' /\ delivery[d].pc # "idle"
    BY <1>1, OverMeaning DEF IInv
  <2> QED
    BY <2>5, <2>6, <2>7, <2>8, <2>9, Combine
<1> QED
  BY <1>2, <1>3

--------------------------------------------------------------------------------
(* The theorems                                                               *)

\* No step of a delivery, of the clock or of a crash breaks the invariant.
LEMMA StepKeeps == IInv /\ [ScaleNext]_scaleVars => IInv'
<1> SUFFICES ASSUME IInv, [ScaleNext]_scaleVars PROVE IInv'
  OBVIOUS
<1>1. CASE ScaleTick
  <2>1. Typed'
    BY <1>1 DEF ScaleTick, IInv, Typed
  <2> QED
    BY <1>1, <2>1
    DEF ScaleTick, IInv, Backed, RowOf, InTurn, OneAtATime, RowInTurn, TurnOf,
        VerifiedAnswersAgree
<1>2. ASSUME NEW d \in Deliveries, Crash(d) PROVE IInv'
  BY <1>2, OverKeeps DEF Crash
<1>3. CASE UNCHANGED scaleVars
  BY <1>3 DEF scaleVars, IInv, Typed, Backed, RowOf, InTurn, OneAtATime, RowInTurn,
              TurnOf, VerifiedAnswersAgree
<1> QED
  BY <1>1, <1>2, <1>3, DeliverKeeps, PersistKeeps, RecordBreakGlassKeeps,
     AcquireLeaseKeeps, MarkStartedKeeps, ApplyKeeps, RecordResultKeeps, ObserveKeeps
  DEF ScaleNext

\* At first nothing is durable and no delivery is under way.
LEMMA InitHolds == ScaleInit => IInv
<1> SUFFICES ASSUME ScaleInit PROVE IInv
  OBVIOUS
<1>1. Typed
  <2>1. delivery \in [Deliveries -> DeliveryTypes]
    BY IdleMeaning DEF ScaleInit
  <2>2. lease \in LeaseTypes
    BY DEF ScaleInit, NoLease, LeaseTypes
  <2>3. execution \in [state : States, intent : Intents \cup {"none"}, attempt : Nat,
                       result : Results, resultAttempt : Nat]
    BY DEF ScaleInit, NoRow, States, Results
  <2>4. time \in Int
    BY DEF ScaleInit
  <2>5. /\ observation \in Results /\ actuated \in {"none", "succeeded", "failed"}
        /\ called \in BOOLEAN /\ serial \in BOOLEAN
    BY Zenon DEF ScaleInit, Results
  <2> QED
    BY <2>1, <2>2, <2>3, <2>4, <2>5 DEF Typed
<1>2. execution.state = "none" /\ \A d \in Deliveries : delivery[d].pc = "idle"
  BY IdleMeaning DEF ScaleInit, NoRow
<1>3. Backed
  BY <1>2 DEF ScaleInit, Backed, RowOf
<1>4. InTurn
  BY <1>2 DEF ScaleInit, InTurn, OneAtATime, RowInTurn, TurnOf
<1> QED
  BY <1>1, <1>3, <1>4 DEF IInv, ScaleInit, VerifiedAnswersAgree

\* The inductive invariant holds of every reconciliation: any number of
\* deliveries, overlapping or in turn, crashing anywhere.
THEOREM InvariantHolds == ScaleSpec => []IInv
BY InitHolds, StepKeeps, PTL DEF ScaleSpec

\* reconcile: whoever answers "verified" answers the outcome of the one durable
\* observation.
THEOREM OneVerifiedOutcome == ScaleSpec => []VerifiedAnswersAgree
<1>1. IInv => VerifiedAnswersAgree
  BY DEF IInv
<1> QED
  BY <1>1, InvariantHolds, PTL

\* reconcile: once the actuator has been called, the row says so, and in turn it
\* counts the attempt and is never recorded as simulated.
THEOREM ActuationLeavesARecord == ScaleSpec => []ActuationIsOnRecord
<1>1. IInv => ActuationIsOnRecord
  BY DEF IInv, Backed, InTurn, RowInTurn, ActuationIsOnRecord
<1> QED
  BY <1>1, InvariantHolds, PTL
--------------------------------------------------------------------------------
(* Numbers: attempts, leases, deliveries                                      *)

\* The deliveries that may still be issued a lease.
Due == {d \in Deliveries : delivery[d].pc \in {"persist", "audit", "lease"}}

CountsOf(d) ==
  /\ delivery[d].now \in 0..FenceEnd
  /\ delivery[d].lease.id <= lease.id
  /\ delivery[d].lease.attempt <= delivery[d].lease.id
  /\ delivery[d].lease.expires \in 0..FenceEnd

\* An attempt is numbered by a lease, a lease is issued to a delivery, and one
\* delivery is issued one lease at most.
Counts ==
  /\ time \in 0..FenceEnd
  /\ execution.attempt <= lease.id /\ execution.resultAttempt <= lease.id
  /\ lease.attempt <= lease.id /\ lease.expires \in 0..FenceEnd
  /\ audit \in Glasses \cup {"none"} /\ verified \subseteq Results
  /\ \A d \in Deliveries : CountsOf(d)
  /\ IsFiniteSet(Due) /\ lease.id + Cardinality(Due) <= delivered
  /\ delivered \in 0..MaxDeliveries

\* How many leases may still be issued, when a delivery arrives, gets its lease
\* or ends.
LEMMA DueGrows ==
  ASSUME IsFiniteSet(Due), NEW d \in Deliveries,
         \A e \in Deliveries \ {d} : delivery'[e] = delivery[e]
  PROVE  /\ IsFiniteSet(Due)' /\ Cardinality(Due)' \in Nat /\ Cardinality(Due) \in Nat
         /\ Cardinality(Due)' <= Cardinality(Due) + 1
         /\ Due' \subseteq Due => Cardinality(Due)' <= Cardinality(Due)
         /\ d \in Due /\ d \notin Due' => Cardinality(Due)' <= Cardinality(Due) - 1
<1>1. Due' \subseteq Due \cup {d} /\ Due \ {d} \subseteq Due' \cup {d}
  BY DEF Due
<1>2. IsFiniteSet(Due \cup {d}) /\ IsFiniteSet(Due \ {d})
  BY FS_AddElement, FS_RemoveElement
<1>3. IsFiniteSet(Due') /\ Cardinality(Due') <= Cardinality(Due \cup {d})
  BY <1>1, <1>2, FS_Subset
<1>4. /\ Cardinality(Due') \in Nat /\ Cardinality(Due) \in Nat
      /\ Cardinality(Due \cup {d}) <= Cardinality(Due) + 1
  <2>1. Cardinality(Due') \in Nat /\ Cardinality(Due) \in Nat
    BY <1>3, FS_CardinalityType
  <2>2. Cardinality(Due \cup {d}) \in {Cardinality(Due), Cardinality(Due) + 1}
    BY FS_AddElement
  <2> QED
    BY <2>1, <2>2
<1>5. Cardinality(Due \cup {d}) \in Nat
  BY <1>2, FS_CardinalityType
<1>6. Due' \subseteq Due => Cardinality(Due') <= Cardinality(Due)
  BY FS_Subset
<1>7. ASSUME d \in Due, d \notin Due' PROVE Cardinality(Due') <= Cardinality(Due) - 1
  <2>1. Due' \subseteq Due \ {d}
    BY <1>1, <1>7
  <2>2. Cardinality(Due \ {d}) = Cardinality(Due) - 1
    BY <1>7, FS_RemoveElement
  <2> QED
    BY <1>2, <2>1, <2>2, FS_Subset
<1> QED
  BY <1>3, <1>4, <1>5, <1>6, <1>7

\* A step of one delivery under the leases that were issued before: what it
\* keeps of its lease, and that it becomes due to no other one.
LEMMA CountsKept ==
  ASSUME Typed, Typed', Counts, NEW d \in Deliveries, UNCHANGED <<time, lease, delivered>>,
         \A e \in Deliveries \ {d} : delivery'[e] = delivery[e],
         \/ delivery'[d] = Idle
         \/ /\ delivery'[d].now = delivery[d].now /\ delivery'[d].lease = delivery[d].lease
            /\ delivery'[d].pc \in {"persist", "audit", "lease"} => d \in Due,
         (execution.attempt <= lease.id /\ execution.resultAttempt <= lease.id)',
         (audit \in Glasses \cup {"none"} /\ verified \subseteq Results)'
  PROVE  Counts'
<1> USE ScaleAssumption
<1>1. CountsOf(d)'
  <2>1. CASE delivery'[d] = Idle
    <3>1. lease'.id \in Nat
      BY DEF Typed, LeaseTypes
    <3> QED
      BY <2>1, <3>1 DEF CountsOf, Idle, NoLease
  <2>2. CASE delivery'[d].now = delivery[d].now /\ delivery'[d].lease = delivery[d].lease
    BY <2>2 DEF Counts, CountsOf
  <2> QED
    BY <2>1, <2>2
<1>2. \A e \in Deliveries : CountsOf(e)'
  BY <1>1 DEF Counts, CountsOf
<1>3. Due' \subseteq Due
  BY DEF Due, Idle
<1>4. IsFiniteSet(Due)' /\ Cardinality(Due)' <= Cardinality(Due)
      /\ Cardinality(Due)' \in Nat /\ Cardinality(Due) \in Nat
  BY <1>3, DueGrows DEF Counts
<1>5. lease.id + Cardinality(Due) <= delivered /\ lease'.id = lease.id /\ delivered' = delivered
      /\ lease.id \in Nat /\ delivered \in Nat
  BY DEF Counts, Typed, LeaseTypes
<1>6. (lease.id + Cardinality(Due) <= delivered)'
  BY <1>4, <1>5
<1> QED
  BY <1>2, <1>4, <1>6 DEF Counts

\* A delivery arrives and is counted; it may be issued a lease.
LEMMA DeliverCounts ==
  ASSUME IInv, Typed', Counts, NEW d \in Deliveries, Deliver(d)
  PROVE  Counts'
<1>1. PICK c \in Controllers, dry \in BOOLEAN :
        delivery' = IF c = Writer /\ time < FenceEnd
                    THEN [delivery EXCEPT ![d] =
                            [Idle EXCEPT !.pc = "persist", !.now = time,
                                         !.dry = dry]]
                    ELSE delivery
  BY DEF Deliver
<1> USE ScaleAssumption
<1>2. /\ UNCHANGED <<time, execution, lease, audit, verified>>
      /\ delivered < MaxDeliveries /\ delivered' = delivered + 1
  BY DEF Deliver
<1>3. \A e \in Deliveries \ {d} : delivery'[e] = delivery[e]
  BY <1>1 DEF IInv, Typed
<1>4. delivery' = delivery \/ (delivery'[d].now = time /\ delivery'[d].lease = NoLease)
  <2> DEFINE new == [Idle EXCEPT !.pc = "persist", !.now = time, !.dry = dry]
  <2>1. new.now = time /\ new.lease = NoLease
    BY DEF Idle
  <2>2. delivery' = delivery \/ delivery' = [delivery EXCEPT ![d] = new]
    BY <1>1
  <2> HIDE DEF new
  <2> QED
    BY <2>1, <2>2 DEF IInv, Typed
<1>5. lease.id \in Nat /\ delivered \in Nat
  BY DEF IInv, Typed, LeaseTypes, Counts
<1>6. CountsOf(d)'
  <2>1. CASE delivery' = delivery
    BY <1>2, <2>1 DEF Counts, CountsOf
  <2>2. CASE delivery'[d].now = time /\ delivery'[d].lease = NoLease
    BY <1>2, <1>5, <2>2 DEF Counts, CountsOf, NoLease
  <2> QED
    BY <1>4, <2>1, <2>2
<1>7. \A e \in Deliveries : CountsOf(e)'
  BY <1>2, <1>3, <1>6 DEF Counts, CountsOf
<1>8. /\ IsFiniteSet(Due)' /\ Cardinality(Due)' \in Nat /\ Cardinality(Due) \in Nat
      /\ Cardinality(Due)' <= Cardinality(Due) + 1
  BY <1>3, DueGrows DEF Counts
<1>9. /\ (lease.id + Cardinality(Due) <= delivered)' /\ delivered' \in 0..MaxDeliveries
  BY <1>2, <1>5, <1>8 DEF Counts
<1> QED
  BY <1>2, <1>7, <1>8, <1>9 DEF Counts

\* acquire_controller_lease: the new lease has the next number, and the delivery
\* that got it is not due to another.
LEMMA AcquireLeaseCounts ==
  ASSUME IInv, Typed', Counts, NEW d \in Deliveries, AcquireLease(d)
  PROVE  Counts'
<1> USE ScaleAssumption
<1>1. /\ UNCHANGED <<time, execution, delivered, audit, verified>>
      /\ delivery[d].pc = "lease"
  BY DEF AcquireLease
<1>2. /\ delivery'[d].lease = lease' /\ delivery'[d].now = delivery[d].now
      /\ delivery'[d].pc \in {"record", "start"}
      /\ \A e \in Deliveries \ {d} : delivery'[e] = delivery[e]
  BY DEF AcquireLease, IInv, Typed, DeliveryTypes
<1>3. /\ lease.id \in Nat /\ execution.attempt \in Nat /\ delivered \in Nat
      /\ execution.resultAttempt \in Nat
      /\ delivery[d].now \in 0..FenceEnd
  BY DEF IInv, Typed, LeaseTypes, Counts, CountsOf
<1>4. /\ lease'.id \in {lease.id, lease.id + 1} /\ lease'.attempt <= lease'.id
      /\ lease'.expires \in 0..FenceEnd
  <2>1. CASE LeaseReplayed(delivery[d].now)
    BY <2>1 DEF AcquireLease, Counts
  <2>2. CASE ~LeaseReplayed(delivery[d].now)
    <3> DEFINE now == delivery[d].now
               until == IF now + LeaseTtl < FenceEnd THEN now + LeaseTtl
                                                     ELSE FenceEnd
    <3>1. until \in 0..FenceEnd
      BY <1>3
    <3>2. lease' = [id |-> lease.id + 1, attempt |-> execution.attempt + 1,
                    expires |-> until]
      BY <2>2 DEF AcquireLease
    <3> HIDE DEF until
    <3>3. execution.attempt <= lease.id
      BY DEF Counts
    <3> QED
      BY <1>3, <3>1, <3>2, <3>3
  <2> QED
    BY <2>1, <2>2
<1>5. /\ lease'.id \in Nat /\ lease'.id >= lease.id /\ lease'.id <= lease.id + 1
      /\ (execution.attempt <= lease.id /\ execution.resultAttempt <= lease.id)'
  BY <1>1, <1>3, <1>4 DEF Counts
<1>6. \A e \in Deliveries : CountsOf(e)'
  <2>1. CountsOf(d)'
    BY <1>2, <1>3, <1>4, <1>5 DEF CountsOf
  <2>2. ASSUME NEW e \in Deliveries, e # d PROVE CountsOf(e)'
    <3>1. delivery'[e] = delivery[e] /\ CountsOf(e) /\ delivery[e].lease.id \in Nat
      BY <1>2, <2>2 DEF Counts, IInv, Typed, DeliveryTypes, LeaseTypes
    <3> QED
      BY <1>3, <1>5, <3>1 DEF CountsOf
  <2> QED
    BY <2>1, <2>2
<1>7. d \in Due /\ d \notin Due'
  BY <1>1, <1>2 DEF Due
<1>8. /\ IsFiniteSet(Due)' /\ Cardinality(Due)' \in Nat /\ Cardinality(Due) \in Nat
      /\ Cardinality(Due)' <= Cardinality(Due) - 1
  BY <1>2, <1>7, DueGrows DEF Counts
<1>9. (lease.id + Cardinality(Due) <= delivered)'
  BY <1>1, <1>3, <1>5, <1>8 DEF Counts
<1> QED
  BY <1>1, <1>4, <1>5, <1>6, <1>8, <1>9 DEF Counts

\* The steps that leave leases and clock alone: attempts are taken from leases
\* that were issued.
LEMMA DurableCounts ==
  ASSUME IInv, Typed', Counts, NEW d \in Deliveries,
         \/ Persist(d) \/ RecordBreakGlass(d) \/ MarkStarted(d) \/ Apply(d)
         \/ RecordResult(d) \/ Observe(d) \/ Crash(d)
  PROVE  Counts'
<1>1. UNCHANGED <<time, lease, delivered>>
  BY DEF Persist, RecordBreakGlass, MarkStarted, Apply, RecordResult, Observe, Crash
<1>2. /\ Typed /\ delivery[d] \in DeliveryTypes /\ CountsOf(d)
      /\ lease.id \in Nat /\ execution.attempt \in Nat /\ execution.resultAttempt \in Nat
      /\ execution.attempt <= lease.id /\ execution.resultAttempt <= lease.id
      /\ audit \in Glasses \cup {"none"} /\ verified \subseteq Results
  BY DEF IInv, Typed, LeaseTypes, Counts
<1>3. /\ delivery[d].lease.attempt \in Nat /\ delivery[d].lease.attempt <= lease.id
  BY <1>2 DEF DeliveryTypes, LeaseTypes, CountsOf
<1>4. (execution.attempt <= lease.id /\ execution.resultAttempt <= lease.id)'
  <2>1. CASE Persist(d)
    <3>1. PICK intent \in Intents :
            execution' = IF execution = NoRow THEN NewRow(intent) ELSE execution
      BY <2>1 DEF Persist
    <3>2. /\ NewRow(intent).attempt = 0 /\ NewRow(intent).resultAttempt = 0
      BY DEF NewRow, NoRow
    <3> QED
      BY <1>1, <1>2, <3>1, <3>2
  <2>2. CASE MarkStarted(d)
    <3>1. \/ execution' = execution
          \/ execution' = [execution EXCEPT !.state = "started",
                                            !.attempt = delivery[d].lease.attempt]
      BY <2>2 DEF MarkStarted
    <3> QED
      BY <1>1, <1>2, <1>3, <3>1 DEF Typed
  <2>3. CASE RecordResult(d)
    <3>1. \/ execution' = execution
          \/ execution' = [execution EXCEPT !.state = StateOf(delivery[d].result),
                                            !.result = delivery[d].result,
                                            !.resultAttempt = delivery[d].lease.attempt]
      BY <2>3 DEF RecordResult, WithResult
    <3> QED
      BY <1>1, <1>2, <1>3, <3>1 DEF Typed
  <2>4. CASE Observe(d)
    <3>1. execution' = execution \/ execution' = [execution EXCEPT !.state = "verified"]
      BY <2>4 DEF Observe
    <3> QED
      BY <1>1, <1>2, <3>1 DEF Typed
  <2>5. CASE RecordBreakGlass(d) \/ Apply(d) \/ Crash(d)
    BY <1>1, <1>2, <2>5 DEF RecordBreakGlass, Apply, Crash
  <2> QED
    BY <2>1, <2>2, <2>3, <2>4, <2>5
<1>5. (audit \in Glasses \cup {"none"} /\ verified \subseteq Results)'
  <2>1. delivery[d].glass \in Glasses \cup {"none"} /\ delivery[d].result \in Results
        /\ observation \in Results
    BY <1>2 DEF DeliveryTypes, Typed
  <2>2. audit' \in {audit, delivery[d].glass}
    BY DEF Persist, RecordBreakGlass, MarkStarted, Apply, RecordResult, Observe, Crash
  <2>3. verified' \subseteq verified \cup {observation, delivery[d].result}
    BY DEF Persist, RecordBreakGlass, MarkStarted, Apply, RecordResult, Observe, Crash
  <2> QED
    BY <1>2, <2>1, <2>2, <2>3
<1>6. CASE Over(d)
  <2>1. delivery'[d] = Idle /\ \A e \in Deliveries \ {d} : delivery'[e] = delivery[e]
    BY <1>2, <1>6 DEF Over, Typed
  <2> QED
    BY <1>1, <1>2, <1>4, <1>5, <2>1, CountsKept
<1>7. CASE ~Over(d)
  <2>1. /\ \A e \in Deliveries \ {d} : delivery'[e] = delivery[e]
        /\ delivery'[d].now = delivery[d].now /\ delivery'[d].lease = delivery[d].lease
        /\ delivery'[d].pc \in {"persist", "audit", "lease"} => d \in Due
    <3>1. CASE Persist(d)
      <4>1. \/ \E r : delivery' = [delivery EXCEPT ![d].pc = "observe", ![d].result = r]
            \/ StepTo(d, "lease")
            \/ \E g : delivery' = [delivery EXCEPT ![d].pc = "audit", ![d].glass = g]
        BY <1>7, <3>1 DEF Persist, Decide
      <4>2. delivery[d].pc = "persist"
        BY <3>1 DEF Persist
      <4> QED
        BY <1>2, <4>1, <4>2 DEF StepTo, Typed, DeliveryTypes, Due
    <3>2. CASE RecordBreakGlass(d)
      BY <1>2, <1>7, <3>2 DEF RecordBreakGlass, Typed, DeliveryTypes, Due
    <3>3. CASE MarkStarted(d) \/ RecordResult(d)
      <4>1. StepTo(d, "apply") \/ StepTo(d, "observe")
        BY <1>7, <3>3 DEF MarkStarted, RecordResult
      <4> QED
        BY <1>2, <4>1 DEF StepTo, Typed, DeliveryTypes
    <3>4. CASE Apply(d)
      <4>1. \E r : delivery' = [delivery EXCEPT ![d].pc = "record", ![d].result = r]
        BY <1>7, <3>4 DEF Apply
      <4> QED
        BY <1>2, <4>1 DEF Typed, DeliveryTypes
    <3> QED
      BY <1>7, <3>1, <3>2, <3>3, <3>4 DEF Observe, Crash
  <2> QED
    BY <1>1, <1>2, <1>4, <1>5, <2>1, CountsKept
<1> QED
  BY <1>6, <1>7

\* reconcile: every attempt is numbered by a lease and every lease was issued to a
\* delivery of its own, whatever overlaps, crashes or expires (ScaleTypeOK).
THEOREM AttemptsAreLeased == ScaleSpec => []ScaleTypeOK
<1> USE ScaleAssumption
<1>1. ScaleInit => Counts
  <2> SUFFICES ASSUME ScaleInit PROVE Counts
    OBVIOUS
  <2>1. Due = {} /\ IsFiniteSet({}) /\ Cardinality({}) = 0
    BY FS_EmptySet DEF ScaleInit, Due, Idle
  <2>2. \A d \in Deliveries : CountsOf(d)
    BY DEF ScaleInit, CountsOf, Idle, NoLease
  <2>3. IsFiniteSet(Due) /\ lease.id + Cardinality(Due) <= delivered
    BY <2>1 DEF ScaleInit, NoLease
  <2> QED
    BY <2>2, <2>3 DEF ScaleInit, Counts, NoRow, NoLease, Results
<1>2. IInv /\ IInv' /\ Counts /\ [ScaleNext]_scaleVars => Counts'
  <2> SUFFICES ASSUME IInv, IInv', Counts, [ScaleNext]_scaleVars PROVE Counts'
    OBVIOUS
  <2>1. CASE ScaleTick
    <3>1. UNCHANGED <<execution, lease, audit, delivery, delivered, verified>>
          /\ time' \in 0..FenceEnd
      BY <2>1 DEF ScaleTick, Counts
    <3> QED
      BY <3>1 DEF Counts, CountsOf, Due
  <2>2. CASE UNCHANGED scaleVars
    BY <2>2 DEF scaleVars, Counts, CountsOf, Due
  <2> QED
    BY <2>1, <2>2, DeliverCounts, AcquireLeaseCounts, DurableCounts DEF ScaleNext, IInv
<1>3. IInv /\ Counts => ScaleTypeOK
  <2> SUFFICES ASSUME IInv, Counts PROVE ScaleTypeOK
    OBVIOUS
  <2>1. Cardinality(Due) \in Nat
    BY FS_CardinalityType DEF Counts
  <2>2. lease \in LeaseTypes /\ delivered \in 0..MaxDeliveries
    BY DEF IInv, Typed, Counts
  <2>3. lease.id \in 0..MaxDeliveries
    BY <2>1, <2>2 DEF LeaseTypes, Counts
  <2>4. lease \in [id : 0..MaxDeliveries, attempt : 0..MaxDeliveries, expires : 0..FenceEnd]
    BY <2>2, <2>3 DEF LeaseTypes, Counts
  <2>5. execution \in [state : States, intent : Intents \cup {"none"},
                       attempt : 0..lease.id, result : Results,
                       resultAttempt : 0..lease.id]
    BY <2>3 DEF IInv, Typed, Counts
  <2>6. delivery \in [Deliveries ->
          [pc : Places, now : 0..FenceEnd, dry : BOOLEAN, glass : Glasses \cup {"none"},
           lease : [id : 0..lease.id, attempt : 0..MaxDeliveries,
                    expires : 0..FenceEnd],
           result : Results]]
    <3>1. ASSUME NEW d \in Deliveries
          PROVE  delivery[d] \in
                   [pc : Places, now : 0..FenceEnd, dry : BOOLEAN,
                    glass : Glasses \cup {"none"},
                    lease : [id : 0..lease.id, attempt : 0..MaxDeliveries,
                             expires : 0..FenceEnd],
                    result : Results]
      <4>1. delivery[d] \in DeliveryTypes /\ delivery[d].lease \in LeaseTypes /\ CountsOf(d)
        BY DEF IInv, Typed, DeliveryTypes, Counts
      <4>2. delivery[d].lease \in [id : 0..lease.id, attempt : 0..MaxDeliveries,
                                   expires : 0..FenceEnd]
        BY <2>3, <4>1 DEF LeaseTypes, CountsOf
      <4> QED
        BY <4>1, <4>2 DEF DeliveryTypes, CountsOf
    <3> QED
      BY <3>1 DEF IInv, Typed
  <2> QED
    BY <2>2, <2>4, <2>5, <2>6
    DEF IInv, Typed, Counts, ScaleTypeOK, States, Places, Results
<1> QED
  BY <1>1, <1>2, <1>3, InvariantHolds, PTL DEF ScaleSpec
================================================================================
