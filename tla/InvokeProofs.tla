----------------------------- MODULE InvokeProofs -----------------------------
(***************************************************************************)
(* Proofs about the invocation pipeline, for any number of invocations,     *)
(* requests, keys, plans and authority changes.                             *)
(***************************************************************************)
EXTENDS Invoke, TLAPS

EffTypes == [effect : Effects, confirm : Confirms]

\* Where an invocation can be once it has resolved its operation, once it has
\* a request_id, and before it has one.
Unbound  == {"idle", "resolve", "gate", "issue", "bind"}
Resolved == Labels \ {"idle", "resolve", "done", "gone"}
Reserving == {"preflight", "submit", "claim", "existing", "replay",
              "record_replay", "record", "store", "commit"}
Executing == {"plan", "consume", "dispatch", "running", "record_audit"}
Journalling == Reserving \ {"preflight"}
Holding == {"claim", "record", "store", "commit"}
Unsent == (Labels \ {"running", "record", "record_audit", "store", "commit",
                     "done", "gone"})

\* The local state of an invocation is complete for the await it is at.
ShapeOf(i) ==
  /\ pc[i] # "idle" => req[i] \in ReqTypes
  /\ pc[i] \in Resolved => effective[i] \in EffTypes
  /\ pc[i] \in Unbound => rid[i] = None
  /\ pc[i] \in Reserving => Governed(i) /\ rid[i] # None
  /\ pc[i] \in Executing /\ Governed(i) => rid[i] # None
  /\ rid[i] # None =>
       /\ req[i] \in ReqTypes /\ effective[i] \in EffTypes
       /\ rid[i] = RequestId(i) /\ rid[i] \in RequestIds
  /\ pc[i] \in Journalling => Journalled(i)
  /\ pc[i] = "record_audit" => ~Journalled(i)
  /\ pc[i] \in {"plan", "consume"} => NeedsPlan(i) /\ req[i].plan \in PlanRefs
  /\ pc[i] \in {"bind", "preflight", "submit", "claim"} /\ NeedsPlan(i) =>
       req[i].plan \in PlanRefs
  /\ pc[i] \in {"replay", "store", "commit"} \cup Recording =>
       result[i] \in Outcomes
  /\ pc[i] \in Unsent => sent[i] = None

Shape == \A i \in Invocations : ShapeOf(i)

\* A reservation belongs to the invocation that created the work item.
HoldsOf(i) ==
  /\ pc[i] \in Holding \/ (pc[i] \in Executing /\ Journalled(i)) =>
       /\ items[rid[i]].status # "absent"
       /\ items[rid[i]].holder = i
       /\ items[rid[i]].binding = BoundTo(i)
  /\ Sent(i) /\ Owned(i) =>
       /\ items[rid[i]].status # "absent"
       /\ items[rid[i]].holder = i
       /\ items[rid[i]].binding = sent[i]

Holds == \A i \in Invocations : HoldsOf(i)

\* A plan that is past its validation is the plan of this very request.
ConfirmsOf(i) ==
  /\ pc[i] = "consume" =>
       /\ plans[req[i].plan].status # "free"
       /\ plans[req[i].plan].binding = BoundTo(i)
  /\ pc[i] = "dispatch" /\ NeedsPlan(i) =>
       /\ req[i].plan \in PlanRefs
       /\ plans[req[i].plan].status = "consumed"
       /\ plans[req[i].plan].binding = BoundTo(i)
  /\ Sent(i) =>
       /\ req[i] \in ReqTypes /\ effective[i] \in EffTypes
       /\ sent[i] = BoundTo(i)
       /\ Governed(i) => rid[i] # None
       /\ NeedsPlan(i) =>
            /\ req[i].plan \in PlanRefs
            /\ plans[req[i].plan].status = "consumed"
            /\ plans[req[i].plan].binding = sent[i]

Confirmed == \A i \in Invocations : ConfirmsOf(i)

IInv == TypeOK /\ Shape /\ Holds /\ Confirmed

-------------------------------------------------------------------------------
(* What the helpers return.                                                 *)

\* GateRefusal is a code or None.
LEMMA GateRefusalType ==
  ASSUME NEW i \in Invocations
  PROVE  GateRefusal(i) \in Codes \cup {None}
BY DEF GateRefusal, Codes

\* An audit entry of an outcome has one of the terminal statuses.
LEMMA AuditStatusType ==
  ASSUME NEW o
  PROVE  AuditStatus(o) \in {"ok", "denied", "error"}
BY DEF AuditStatus

\* A complete request has a request_id.
LEMMA RequestIdType ==
  ASSUME NEW i \in Invocations, req[i] \in ReqTypes
  PROVE  RequestId(i) \in RequestIds
<1>1. Source(i) \in Sources
  BY DEF Source, Sources, ReqTypes
<1> QED
  BY <1>1 DEF RequestId, RequestIds, ReqTypes

\* A request_id is a tuple, never None.
LEMMA IdIsNotNone ==
  ASSUME NEW r \in RequestIds
  PROVE  r # None
BY InvokeAssumption DEF RequestIds

\* The plan store refuses with a code, and accepts only an active plan that
\* was issued for this very request (EgPlanStore.validate).
LEMMA PlanRefusalMeaning ==
  ASSUME NEW i \in Invocations, req[i].plan \in PlanRefs, TypeOK
  PROVE  /\ PlanRefusal(i) \in Codes \cup {None}
         /\ PlanRefusal(i) = None => /\ plans[req[i].plan].status = "active"
                                     /\ plans[req[i].plan].binding = BoundTo(i)
<1>1. plans[req[i].plan].status \in {"free", "active", "consumed", "expired"}
  BY DEF TypeOK, PlanTypes
<1>2. None \notin Codes
  BY InvokeAssumption
<1> QED
  BY <1>1, <1>2 DEF PlanRefusal, Codes

\* The effective operation of a request has an effect and a confirmation.
LEMMA EffectiveOpType ==
  ASSUME NEW o \in Ops, TypeOK
  PROVE  EffectiveOp(o) \in EffTypes
BY InvokeAssumption DEF EffectiveOp, EffTypes, TypeOK

-------------------------------------------------------------------------------
(* What one invocation's step leaves alone.                                 *)

Same(j) ==
  /\ pc'[j] = pc[j] /\ req'[j] = req[j] /\ effective'[j] = effective[j]
  /\ rid'[j] = rid[j] /\ result'[j] = result[j] /\ sent'[j] = sent[j]

\* A work item that exists keeps its creator and its binding.
ItemsGrow ==
  \A r \in RequestIds :
    items[r].status # "absent" =>
      /\ items'[r].status # "absent"
      /\ items'[r].holder = items[r].holder
      /\ items'[r].binding = items[r].binding

\* A plan that was issued keeps its binding, and stays consumed once it is.
PlansGrow ==
  \A p \in PlanRefs :
    plans[p].status # "free" =>
      /\ plans'[p].status # "free"
      /\ plans'[p].binding = plans[p].binding
      /\ plans[p].status = "consumed" => plans'[p].status = "consumed"

\* The part of the invariant about an invocation survives the steps of others.
LEMMA Frame ==
  ASSUME NEW j \in Invocations, Same(j), ItemsGrow, PlansGrow,
         ShapeOf(j), HoldsOf(j), ConfirmsOf(j)
  PROVE  ShapeOf(j)' /\ HoldsOf(j)' /\ ConfirmsOf(j)'
<1> USE DEF Same, NeedsPlan, Governed, NativeReplay, Journalled, BoundTo,
            Binding,
            Sent, Owned
<1>1. ShapeOf(j)'
  BY DEF ShapeOf, RequestId, Source
<1>2. HoldsOf(j)'
  BY DEF HoldsOf, ShapeOf, ItemsGrow, Holding, Executing, Reserving
<1>3. ConfirmsOf(j)'
  BY DEF ConfirmsOf, ShapeOf, PlansGrow
<1> QED
  BY <1>1, <1>2, <1>3

-------------------------------------------------------------------------------
(* The invariant is kept, one lemma per action.                             *)

\* What a step of one invocation has to show.
LEMMA Combine ==
  ASSUME IInv, NEW i \in Invocations, TypeOK', ItemsGrow, PlansGrow,
         \A j \in Invocations \ {i} : Same(j),
         ShapeOf(i)', HoldsOf(i)', ConfirmsOf(i)'
  PROVE  IInv'
<1>1. ASSUME NEW j \in Invocations PROVE ShapeOf(j)' /\ HoldsOf(j)' /\ ConfirmsOf(j)'
  <2>1. CASE j = i
    BY <2>1
  <2>2. CASE j # i
    BY <2>2, Frame DEF IInv, Shape, Holds, Confirmed
  <2> QED
    BY <2>1, <2>2
<1> QED
  BY <1>1 DEF IInv, Shape, Holds, Confirmed

\* invoke up to its first await.
LEMMA StartKeeps ==
  ASSUME IInv, NEW i \in Invocations, Start(i)
  PROVE  IInv'
<1> USE DEF Start, Go, Finish, authority, durable, caller, Settled, Outcome
<1> TypeOK /\ ShapeOf(i) /\ HoldsOf(i) /\ ConfirmsOf(i)
  BY DEF IInv, Shape, Holds, Confirmed
<1>1. TypeOK'
  <2>1. req' \in [Invocations -> ReqTypes \cup {None}]
    BY InvokeAssumption DEF TypeOK, ReqTypes, RequestTypes
  <2>2. pc' \in [Invocations -> Labels]
    BY DEF TypeOK, Labels
  <2>3. answer' \in [Invocations -> Outcomes \cup {None}]
    BY DEF TypeOK, Outcomes, Codes
  <2> QED
    BY <2>1, <2>2, <2>3 DEF TypeOK
<1>2. ItemsGrow /\ PlansGrow
  BY DEF TypeOK, ItemsGrow, PlansGrow, ItemTypes, PlanTypes
<1>3. \A j \in Invocations \ {i} : Same(j)
  BY DEF TypeOK, Same
<1>4. ShapeOf(i)'
  <2>1. req'[i] \in ReqTypes
    BY InvokeAssumption DEF TypeOK, ReqTypes, RequestTypes
  <2>2. pc'[i] \in {"resolve", "done"} /\ rid'[i] = None /\ sent'[i] = None
    BY DEF TypeOK, ShapeOf, Unbound, Unsent, Labels
  <2> QED
    BY <2>1, <2>2 DEF ShapeOf, Resolved, Reserving, Executing, Journalling,
                      Recording, Labels
<1>5. HoldsOf(i)'
  BY DEF TypeOK, ItemTypes, HoldsOf, ShapeOf, NeedsPlan, Governed, NativeReplay,
         Journalled, BoundTo, Binding, Sent, Owned, Unbound, Resolved,
         Reserving, Executing, Journalling, Holding, Unsent, Recording, Labels
<1>6. ConfirmsOf(i)'
  BY DEF TypeOK, PlanTypes, ConfirmsOf, ShapeOf, NeedsPlan, Governed,
         NativeReplay, Journalled, BoundTo, Binding, Sent, Owned, Unbound,
         Resolved, Reserving, Executing, Journalling, Holding, Unsent,
         Recording, Labels
<1> QED
  BY <1>1, <1>2, <1>3, <1>4, <1>5, <1>6, Combine

\* _resolve.
LEMMA ResolveKeeps ==
  ASSUME IInv, NEW i \in Invocations, Resolve(i)
  PROVE  IInv'
<1> USE DEF Resolve, Go, Finish, authority, durable, caller, Settled, Outcome,
            AuthorityRefusals
<1> TypeOK /\ ShapeOf(i) /\ HoldsOf(i) /\ ConfirmsOf(i)
  BY DEF IInv, Shape, Holds, Confirmed
<1>1. TypeOK'
  <2>0. EffectiveOp(req[i].op) \in EffTypes
    BY EffectiveOpType DEF ShapeOf, ReqTypes
  <2>1. effective' \in [Invocations -> EffTypes \cup {None}]
    BY <2>0 DEF TypeOK, EffTypes
  <2>2. pc' \in [Invocations -> Labels]
    BY DEF TypeOK, Labels
  <2>3. answer' \in [Invocations -> Outcomes \cup {None}]
    BY DEF TypeOK, Outcomes, Codes
  <2> QED
    BY <2>1, <2>2, <2>3 DEF TypeOK, EffTypes
<1>2. ItemsGrow /\ PlansGrow
  BY DEF TypeOK, ItemsGrow, PlansGrow, ItemTypes, PlanTypes
<1>3. \A j \in Invocations \ {i} : Same(j)
  BY DEF TypeOK, Same
<1>4. ShapeOf(i)'
  <2>1. req[i] \in ReqTypes /\ EffectiveOp(req[i].op) \in EffTypes
    BY EffectiveOpType DEF ShapeOf, ReqTypes
  <2> QED
    BY <2>1 DEF TypeOK, ShapeOf, Unbound, Resolved, Reserving, Executing,
                Journalling, Unsent, Recording, Labels
<1>5. HoldsOf(i)'
  BY DEF TypeOK, ItemTypes, HoldsOf, ShapeOf, NeedsPlan, Governed, NativeReplay,
         Journalled, BoundTo, Binding, Sent, Owned, Unbound, Resolved,
         Reserving, Executing, Journalling, Holding, Unsent, Recording, Labels
<1>6. ConfirmsOf(i)'
  BY DEF TypeOK, PlanTypes, ConfirmsOf, ShapeOf, NeedsPlan, Governed,
         NativeReplay, Journalled, BoundTo, Binding, Sent, Owned, Unbound,
         Resolved, Reserving, Executing, Journalling, Holding, Unsent,
         Recording, Labels
<1> QED
  BY <1>1, <1>2, <1>3, <1>4, <1>5, <1>6, Combine

\* _confirmation_gate.
LEMMA ConfirmationGateKeeps ==
  ASSUME IInv, NEW i \in Invocations, ConfirmationGate(i)
  PROVE  IInv'
<1> USE DEF ConfirmationGate, Go, Finish, authority, durable, caller, Settled,
            Outcome
<1> TypeOK /\ ShapeOf(i) /\ HoldsOf(i) /\ ConfirmsOf(i)
  BY DEF IInv, Shape, Holds, Confirmed
<1>1. TypeOK'
  <2>1. pc' \in [Invocations -> Labels]
    BY DEF TypeOK, Labels
  <2>2. answer' \in [Invocations -> Outcomes \cup {None}]
    BY GateRefusalType DEF TypeOK, Outcomes, Codes
  <2> QED
    BY <2>1, <2>2 DEF TypeOK
<1>2. ItemsGrow /\ PlansGrow
  BY DEF TypeOK, ItemsGrow, PlansGrow, ItemTypes, PlanTypes
<1>3. \A j \in Invocations \ {i} : Same(j)
  BY DEF TypeOK, Same
<1>4. ShapeOf(i)'
  <2>1. req[i] \in ReqTypes /\ effective[i] \in EffTypes /\ rid[i] = None
    BY DEF ShapeOf, Resolved, Unbound, Labels
  <2>2. NeedsPlan(i)' = NeedsPlan(i)
    BY DEF NeedsPlan
  <2>3. sent'[i] = None
    BY DEF ShapeOf, Unsent, Labels
  <2>4. pc'[i] = "bind" /\ NeedsPlan(i) => req[i].plan \in PlanRefs
    BY <2>1 DEF TypeOK, ReqTypes
  <2>5. pc'[i] \in {"bind", "issue", "done"}
    BY DEF TypeOK
  <2> QED
    BY <2>1, <2>2, <2>3, <2>4, <2>5
    DEF ShapeOf, Reserving, Executing, Journalling, Recording
<1>5. HoldsOf(i)'
  BY GateRefusalType DEF TypeOK, ItemTypes, HoldsOf, ShapeOf, NeedsPlan,
     Governed, NativeReplay, Journalled, BoundTo, Binding, Sent, Owned, Unbound,
     Resolved, Reserving, Executing, Journalling, Holding, Unsent, Recording,
     Labels
<1>6. ConfirmsOf(i)'
  BY GateRefusalType DEF TypeOK, PlanTypes, ConfirmsOf, ShapeOf, NeedsPlan,
     Governed, NativeReplay, Journalled, BoundTo, Binding, Sent, Owned, Unbound,
     Resolved, Reserving, Executing, Journalling, Holding, Unsent, Recording,
     Labels
<1> QED
  BY <1>1, <1>2, <1>3, <1>4, <1>5, <1>6, Combine

\* EgPlanStore.issue.
LEMMA IssuePlanKeeps ==
  ASSUME IInv, NEW i \in Invocations, IssuePlan(i)
  PROVE  IInv'
<1> USE DEF IssuePlan, Go, Finish, authority, durable, caller, Settled, Outcome
<1> TypeOK /\ ShapeOf(i) /\ HoldsOf(i) /\ ConfirmsOf(i)
  BY DEF IInv, Shape, Holds, Confirmed
<1>1. TypeOK'
  <2>1. BoundTo(i) \in BindingTypes
    BY DEF ShapeOf, Resolved, Labels, BoundTo, Binding, BindingTypes, ReqTypes,
           EffTypes
  <2>2. plans' \in [PlanRefs -> PlanTypes]
    BY <2>1 DEF TypeOK, PlanTypes
  <2>3. pc' \in [Invocations -> Labels]
    BY DEF TypeOK, Labels
  <2>4. answer' \in [Invocations -> Outcomes \cup {None}]
    BY DEF TypeOK, Outcomes, Codes
  <2> QED
    BY <2>2, <2>3, <2>4 DEF TypeOK
<1>2. ItemsGrow /\ PlansGrow
  BY DEF TypeOK, ItemsGrow, PlansGrow, ItemTypes, PlanTypes
<1>3. \A j \in Invocations \ {i} : Same(j)
  BY DEF TypeOK, Same
<1>4. ShapeOf(i)'
  BY DEF TypeOK, ShapeOf, RequestId, Source, NeedsPlan, Governed, NativeReplay,
         Journalled, BoundTo, Binding, Sent, Owned, Unbound, Resolved,
         Reserving, Executing, Journalling, Holding, Unsent, Recording, Labels,
         Codes, Outcomes
<1>5. HoldsOf(i)'
  BY DEF TypeOK, ItemTypes, HoldsOf, ShapeOf, NeedsPlan, Governed, NativeReplay,
         Journalled, BoundTo, Binding, Sent, Owned, Unbound, Resolved,
         Reserving, Executing, Journalling, Holding, Unsent, Recording, Labels
<1>6. ConfirmsOf(i)'
  BY DEF TypeOK, PlanTypes, ConfirmsOf, ShapeOf, NeedsPlan, Governed,
         NativeReplay, Journalled, BoundTo, Binding, Sent, Owned, Unbound,
         Resolved, Reserving, Executing, Journalling, Holding, Unsent,
         Recording, Labels
<1> QED
  BY <1>1, <1>2, <1>3, <1>4, <1>5, <1>6, Combine

\* _bind_caller.
LEMMA BindCallerKeeps ==
  ASSUME IInv, NEW i \in Invocations, BindCaller(i)
  PROVE  IInv'
<1> USE DEF BindCaller, Go, Finish, authority, durable, caller, Settled,
            Outcome, AfterReserve
<1> TypeOK /\ ShapeOf(i) /\ HoldsOf(i) /\ ConfirmsOf(i)
  BY DEF IInv, Shape, Holds, Confirmed
<1>1. TypeOK'
  <2>1. RequestId(i) \in RequestIds
    BY RequestIdType DEF ShapeOf
  <2>2. rid' \in [Invocations -> RequestIds \cup {None}]
    BY <2>1 DEF TypeOK
  <2>3. pc' \in [Invocations -> Labels]
    BY DEF TypeOK, Labels
  <2>4. answer' \in [Invocations -> Outcomes \cup {None}]
    BY DEF TypeOK, Outcomes, Codes
  <2> QED
    BY <2>2, <2>3, <2>4 DEF TypeOK
<1>2. ItemsGrow /\ PlansGrow
  BY DEF TypeOK, ItemsGrow, PlansGrow, ItemTypes, PlanTypes
<1>3. \A j \in Invocations \ {i} : Same(j)
  BY DEF TypeOK, Same
<1>4. ShapeOf(i)'
  <2>1. req[i] \in ReqTypes /\ effective[i] \in EffTypes /\ RequestId(i) \in RequestIds
    BY RequestIdType DEF ShapeOf, Resolved, Labels
  <2>2. RequestId(i) # None
    BY <2>1, IdIsNotNone
  <2>3. RequestId(i)' = RequestId(i)
    BY DEF RequestId, Source
  <2>4. /\ NeedsPlan(i)' = NeedsPlan(i) /\ Governed(i)' = Governed(i)
        /\ Journalled(i)' = Journalled(i)
    BY DEF NeedsPlan, Governed, Journalled, NativeReplay
  <2>5. /\ Journalled(i) => Governed(i)
        /\ NeedsPlan(i) => ~NativeReplay(i) /\ req[i].plan \in PlanRefs
        /\ sent[i] = None
    BY DEF Journalled, NativeReplay, ShapeOf, Unsent, Labels
  <2>6. \/ pc'[i] = "done" /\ rid'[i] = None
        \/ pc'[i] = "preflight" /\ Governed(i) /\ rid'[i] = RequestId(i)
        \/ /\ ~Governed(i) /\ rid'[i] = None
           /\ pc'[i] = IF NeedsPlan(i) THEN "plan" ELSE "dispatch"
    BY DEF TypeOK, ShapeOf, Unbound
  <2> QED
    BY <2>1, <2>2, <2>3, <2>4, <2>5, <2>6
    DEF ShapeOf, Unbound, Reserving, Executing, Journalling, Recording
<1>5. HoldsOf(i)'
  BY RequestIdType DEF TypeOK, ItemTypes, HoldsOf, ShapeOf, NeedsPlan, Governed,
     NativeReplay, Journalled, BoundTo, Binding, Sent, Owned, Unbound, Resolved,
     Reserving, Executing, Journalling, Holding, Unsent, Recording, Labels
<1>6. ConfirmsOf(i)'
  BY RequestIdType DEF TypeOK, PlanTypes, ConfirmsOf, ShapeOf, NeedsPlan,
     Governed, NativeReplay, Journalled, BoundTo, Binding, Sent, Owned, Unbound,
     Resolved, Reserving, Executing, Journalling, Holding, Unsent, Recording,
     Labels
<1> QED
  BY <1>1, <1>2, <1>3, <1>4, <1>5, <1>6, Combine

\* _audit_preflight.
LEMMA AuditPreflightKeeps ==
  ASSUME IInv, NEW i \in Invocations, AuditPreflight(i)
  PROVE  IInv'
<1> USE DEF AuditPreflight, Go, Finish, authority, durable, caller, Settled,
            Outcome, AfterReserve
<1> TypeOK /\ ShapeOf(i) /\ HoldsOf(i) /\ ConfirmsOf(i)
  BY DEF IInv, Shape, Holds, Confirmed
<1>1. TypeOK'
  <2>1. audit' \in [RequestIds -> {"none", "reserved", "ok", "denied", "error"}]
    BY DEF TypeOK
  <2>2. pc' \in [Invocations -> Labels]
    BY DEF TypeOK, Labels
  <2>3. answer' \in [Invocations -> Outcomes \cup {None}]
    BY DEF TypeOK, Outcomes, Codes
  <2> QED
    BY <2>1, <2>2, <2>3 DEF TypeOK
<1>2. ItemsGrow /\ PlansGrow
  BY DEF TypeOK, ItemsGrow, PlansGrow, ItemTypes, PlanTypes
<1>3. \A j \in Invocations \ {i} : Same(j)
  BY DEF TypeOK, Same
<1>4. ShapeOf(i)'
  BY DEF TypeOK, ShapeOf, RequestId, Source, NeedsPlan, Governed, NativeReplay,
         Journalled, BoundTo, Binding, Sent, Owned, Unbound, Resolved,
         Reserving, Executing, Journalling, Holding, Unsent, Recording, Labels,
         Codes, Outcomes
<1>5. HoldsOf(i)'
  BY DEF TypeOK, ItemTypes, HoldsOf, ShapeOf, NeedsPlan, Governed, NativeReplay,
         Journalled, BoundTo, Binding, Sent, Owned, Unbound, Resolved,
         Reserving, Executing, Journalling, Holding, Unsent, Recording, Labels
<1>6. ConfirmsOf(i)'
  BY DEF TypeOK, PlanTypes, ConfirmsOf, ShapeOf, NeedsPlan, Governed,
         NativeReplay, Journalled, BoundTo, Binding, Sent, Owned, Unbound,
         Resolved, Reserving, Executing, Journalling, Holding, Unsent,
         Recording, Labels
<1> QED
  BY <1>1, <1>2, <1>3, <1>4, <1>5, <1>6, Combine

\* EgEffectJournal.reserve, the submission.
LEMMA SubmitKeeps ==
  ASSUME IInv, NEW i \in Invocations, Submit(i)
  PROVE  IInv'
<1> USE DEF Submit, Go, Finish, authority, durable, caller, Settled, Outcome
<1> TypeOK /\ ShapeOf(i) /\ HoldsOf(i) /\ ConfirmsOf(i)
  BY DEF IInv, Shape, Holds, Confirmed
<1>1. TypeOK'
  <2>1. BoundTo(i) \in BindingTypes
    BY DEF ShapeOf, Reserving, BoundTo, Binding, BindingTypes, ReqTypes,
           EffTypes
  <2>2. items' \in [RequestIds -> ItemTypes]
    BY <2>1 DEF TypeOK, ItemTypes
  <2>3. pc' \in [Invocations -> Labels]
    BY DEF TypeOK, Labels
  <2>4. answer' \in [Invocations -> Outcomes \cup {None}]
    BY DEF TypeOK, Outcomes, Codes
  <2> QED
    BY <2>2, <2>3, <2>4 DEF TypeOK
<1>2. ItemsGrow /\ PlansGrow
  BY DEF TypeOK, ItemsGrow, PlansGrow, ItemTypes, PlanTypes
<1>3. \A j \in Invocations \ {i} : Same(j)
  BY DEF TypeOK, Same
<1>4. ShapeOf(i)'
  BY DEF TypeOK, ShapeOf, RequestId, Source, NeedsPlan, Governed, NativeReplay,
         Journalled, BoundTo, Binding, Sent, Owned, Unbound, Resolved,
         Reserving, Executing, Journalling, Holding, Unsent, Recording, Labels,
         Codes, Outcomes
<1>5. HoldsOf(i)'
  BY DEF TypeOK, ItemTypes, HoldsOf, ShapeOf, NeedsPlan, Governed, NativeReplay,
         Journalled, BoundTo, Binding, Sent, Owned, Unbound, Resolved,
         Reserving, Executing, Journalling, Holding, Unsent, Recording, Labels
<1>6. ConfirmsOf(i)'
  BY DEF TypeOK, PlanTypes, ConfirmsOf, ShapeOf, NeedsPlan, Governed,
         NativeReplay, Journalled, BoundTo, Binding, Sent, Owned, Unbound,
         Resolved, Reserving, Executing, Journalling, Holding, Unsent,
         Recording, Labels
<1> QED
  BY <1>1, <1>2, <1>3, <1>4, <1>5, <1>6, Combine

\* EgEffectJournal._acquire.
LEMMA AcquireKeeps ==
  ASSUME IInv, NEW i \in Invocations, Acquire(i)
  PROVE  IInv'
<1> USE DEF Acquire, Go, Finish, authority, durable, caller, Settled, Outcome,
            AfterReserve
<1> TypeOK /\ ShapeOf(i) /\ HoldsOf(i) /\ ConfirmsOf(i)
  BY DEF IInv, Shape, Holds, Confirmed
<1>1. TypeOK'
  <2>1. items' \in [RequestIds -> ItemTypes]
    <3>1. rid[i] \in RequestIds /\ items[rid[i]] \in ItemTypes
      BY DEF TypeOK, ShapeOf, Reserving
    <3>2. [items[rid[i]] EXCEPT !.status = "leased"] \in ItemTypes
      BY <3>1 DEF ItemTypes, Terminal
    <3> QED
      BY <3>1, <3>2 DEF TypeOK
  <2>2. pc' \in [Invocations -> Labels]
    BY DEF TypeOK, Labels
  <2>3. answer' \in [Invocations -> Outcomes \cup {None}]
    BY DEF TypeOK, Outcomes, Codes
  <2> QED
    BY <2>1, <2>2, <2>3 DEF TypeOK
<1>2. ItemsGrow /\ PlansGrow
  BY DEF TypeOK, ItemsGrow, PlansGrow, ItemTypes, PlanTypes
<1>3. \A j \in Invocations \ {i} : Same(j)
  BY DEF TypeOK, Same
<1>4. ShapeOf(i)'
  BY DEF TypeOK, ShapeOf, RequestId, Source, NeedsPlan, Governed, NativeReplay,
         Journalled, BoundTo, Binding, Sent, Owned, Unbound, Resolved,
         Reserving, Executing, Journalling, Holding, Unsent, Recording, Labels,
         Codes, Outcomes
<1>5. HoldsOf(i)'
  BY DEF TypeOK, ItemTypes, HoldsOf, ShapeOf, NeedsPlan, Governed, NativeReplay,
         Journalled, BoundTo, Binding, Sent, Owned, Unbound, Resolved,
         Reserving, Executing, Journalling, Holding, Unsent, Recording, Labels
<1>6. ConfirmsOf(i)'
  BY DEF TypeOK, PlanTypes, ConfirmsOf, ShapeOf, NeedsPlan, Governed,
         NativeReplay, Journalled, BoundTo, Binding, Sent, Owned, Unbound,
         Resolved, Reserving, Executing, Journalling, Holding, Unsent,
         Recording, Labels
<1> QED
  BY <1>1, <1>2, <1>3, <1>4, <1>5, <1>6, Combine

\* EgEffectJournal._existing.
LEMMA ExistingKeeps ==
  ASSUME IInv, NEW i \in Invocations, Existing(i)
  PROVE  IInv'
<1> USE DEF Existing, Go, Finish, authority, durable, caller, Settled, Outcome,
            ItemTypes
<1> TypeOK /\ ShapeOf(i) /\ HoldsOf(i) /\ ConfirmsOf(i)
  BY DEF IInv, Shape, Holds, Confirmed
<1>1. TypeOK'
  <2>1. result' \in [Invocations -> Outcomes \cup {None}]
    BY DEF TypeOK, ShapeOf, Reserving, ItemTypes
  <2>2. pc' \in [Invocations -> Labels]
    BY DEF TypeOK, Labels
  <2>3. answer' \in [Invocations -> Outcomes \cup {None}]
    BY DEF TypeOK, Outcomes, Codes
  <2> QED
    BY <2>1, <2>2, <2>3 DEF TypeOK
<1>2. ItemsGrow /\ PlansGrow
  BY DEF TypeOK, ItemsGrow, PlansGrow, ItemTypes, PlanTypes
<1>3. \A j \in Invocations \ {i} : Same(j)
  BY DEF TypeOK, Same
<1>4. ShapeOf(i)'
  BY DEF TypeOK, ShapeOf, RequestId, Source, NeedsPlan, Governed, NativeReplay,
         Journalled, BoundTo, Binding, Sent, Owned, Unbound, Resolved,
         Reserving, Executing, Journalling, Holding, Unsent, Recording, Labels,
         Codes, Outcomes
<1>5. HoldsOf(i)'
  BY DEF TypeOK, ItemTypes, HoldsOf, ShapeOf, NeedsPlan, Governed, NativeReplay,
         Journalled, BoundTo, Binding, Sent, Owned, Unbound, Resolved,
         Reserving, Executing, Journalling, Holding, Unsent, Recording, Labels
<1>6. ConfirmsOf(i)'
  BY DEF TypeOK, PlanTypes, ConfirmsOf, ShapeOf, NeedsPlan, Governed,
         NativeReplay, Journalled, BoundTo, Binding, Sent, Owned, Unbound,
         Resolved, Reserving, Executing, Journalling, Holding, Unsent,
         Recording, Labels
<1> QED
  BY <1>1, <1>2, <1>3, <1>4, <1>5, <1>6, Combine

\* _replay_completed.
LEMMA ReplayCompletedKeeps ==
  ASSUME IInv, NEW i \in Invocations, ReplayCompleted(i)
  PROVE  IInv'
<1> USE DEF ReplayCompleted, Go, Finish, authority, durable, caller, Settled,
            Outcome, AuthorityRefusals
<1> TypeOK /\ ShapeOf(i) /\ HoldsOf(i) /\ ConfirmsOf(i)
  BY DEF IInv, Shape, Holds, Confirmed
<1>1. TypeOK'
  <2>1. pc' \in [Invocations -> Labels]
    BY DEF TypeOK, Labels
  <2>2. answer' \in [Invocations -> Outcomes \cup {None}]
    BY DEF TypeOK, Outcomes, Codes
  <2> QED
    BY <2>1, <2>2 DEF TypeOK
<1>2. ItemsGrow /\ PlansGrow
  BY DEF TypeOK, ItemsGrow, PlansGrow, ItemTypes, PlanTypes
<1>3. \A j \in Invocations \ {i} : Same(j)
  BY DEF TypeOK, Same
<1>4. ShapeOf(i)'
  BY DEF TypeOK, ShapeOf, RequestId, Source, NeedsPlan, Governed, NativeReplay,
         Journalled, BoundTo, Binding, Sent, Owned, Unbound, Resolved,
         Reserving, Executing, Journalling, Holding, Unsent, Recording, Labels,
         Codes, Outcomes
<1>5. HoldsOf(i)'
  BY DEF TypeOK, ItemTypes, HoldsOf, ShapeOf, NeedsPlan, Governed, NativeReplay,
         Journalled, BoundTo, Binding, Sent, Owned, Unbound, Resolved,
         Reserving, Executing, Journalling, Holding, Unsent, Recording, Labels
<1>6. ConfirmsOf(i)'
  BY DEF TypeOK, PlanTypes, ConfirmsOf, ShapeOf, NeedsPlan, Governed,
         NativeReplay, Journalled, BoundTo, Binding, Sent, Owned, Unbound,
         Resolved, Reserving, Executing, Journalling, Holding, Unsent,
         Recording, Labels
<1> QED
  BY <1>1, <1>2, <1>3, <1>4, <1>5, <1>6, Combine

\* _effect and EgPlanStore.validate.
LEMMA ValidatePlanKeeps ==
  ASSUME IInv, NEW i \in Invocations, ValidatePlan(i)
  PROVE  IInv'
<1> USE DEF ValidatePlan, Go, Finish, authority, durable, caller, Settled,
            Outcome
<1> TypeOK /\ ShapeOf(i) /\ HoldsOf(i) /\ ConfirmsOf(i)
  BY DEF IInv, Shape, Holds, Confirmed
<1>1. TypeOK'
  <2>1. req[i].plan \in PlanRefs
    BY DEF ShapeOf
  <2>2. PlanRefusal(i) # None => PlanRefusal(i) \in Codes
    BY <2>1, PlanRefusalMeaning
  <2>3. pc' \in [Invocations -> Labels]
    BY DEF TypeOK, Labels
  <2>4. result' \in [Invocations -> Outcomes \cup {None}]
    BY <2>2 DEF TypeOK, Outcomes, Codes
  <2> QED
    BY <2>3, <2>4 DEF TypeOK
<1>2. ItemsGrow /\ PlansGrow
  BY DEF TypeOK, ItemsGrow, PlansGrow, ItemTypes, PlanTypes
<1>3. \A j \in Invocations \ {i} : Same(j)
  BY DEF TypeOK, Same
<1>4. ShapeOf(i)'
  <2>1. /\ req[i] \in ReqTypes /\ effective[i] \in EffTypes
        /\ NeedsPlan(i) /\ req[i].plan \in PlanRefs
        /\ Governed(i) => rid[i] # None
    BY DEF ShapeOf, Resolved, Executing, Labels
  <2>2. \/ pc'[i] = "consume"
        \/ pc'[i] \in {"record", "record_audit"} /\ result'[i] \in Outcomes
    BY <2>1, PlanRefusalMeaning DEF TypeOK, Outcomes, Codes
  <2>3. /\ NeedsPlan(i)' = NeedsPlan(i) /\ Governed(i)' = Governed(i)
        /\ Journalled(i)' = Journalled(i) /\ RequestId(i)' = RequestId(i)
    BY DEF NeedsPlan, Governed, Journalled, NativeReplay, RequestId, Source
  <2>4. /\ pc'[i] = "record" => Journalled(i)
        /\ pc'[i] = "record_audit" => ~Journalled(i)
    BY DEF TypeOK
  <2>5. Journalled(i) => Governed(i)
    BY DEF Journalled
  <2> QED
    BY <2>1, <2>2, <2>3, <2>4, <2>5
    DEF ShapeOf, Unbound, Reserving, Executing, Journalling, Unsent, Labels, Recording
<1>5. HoldsOf(i)'
  BY PlanRefusalMeaning DEF TypeOK, ItemTypes, HoldsOf, ShapeOf, NeedsPlan,
     Governed, NativeReplay, Journalled, BoundTo, Binding, Sent, Owned, Unbound,
     Resolved, Reserving, Executing, Journalling, Holding, Unsent, Recording,
     Labels
<1>6. ConfirmsOf(i)'
  BY PlanRefusalMeaning DEF TypeOK, PlanTypes, ConfirmsOf, ShapeOf, NeedsPlan,
     Governed, NativeReplay, Journalled, BoundTo, Binding, Sent, Owned, Unbound,
     Resolved, Reserving, Executing, Journalling, Holding, Unsent, Recording,
     Labels
<1> QED
  BY <1>1, <1>2, <1>3, <1>4, <1>5, <1>6, Combine

\* EgPlanStore.consume.
LEMMA ConsumePlanKeeps ==
  ASSUME IInv, NEW i \in Invocations, ConsumePlan(i)
  PROVE  IInv'
<1> USE DEF ConsumePlan, Go, Finish, authority, durable, caller, Settled,
            Outcome
<1> TypeOK /\ ShapeOf(i) /\ HoldsOf(i) /\ ConfirmsOf(i)
  BY DEF IInv, Shape, Holds, Confirmed
<1>1. TypeOK'
  <2>1. plans' \in [PlanRefs -> PlanTypes]
    BY SMTT(60) DEF TypeOK, ShapeOf, PlanTypes
  <2>2. pc' \in [Invocations -> Labels]
    BY DEF TypeOK, Labels
  <2>3. result' \in [Invocations -> Outcomes \cup {None}]
    BY DEF TypeOK, Outcomes, Codes
  <2> QED
    BY <2>1, <2>2, <2>3 DEF TypeOK
<1>2. ItemsGrow /\ PlansGrow
  BY SMTT(60) DEF TypeOK, ItemsGrow, PlansGrow, ItemTypes, PlanTypes
<1>3. \A j \in Invocations \ {i} : Same(j)
  BY DEF TypeOK, Same
<1>4. ShapeOf(i)'
  BY DEF TypeOK, ShapeOf, RequestId, Source, NeedsPlan, Governed, NativeReplay,
         Journalled, BoundTo, Binding, Sent, Owned, Unbound, Resolved,
         Reserving, Executing, Journalling, Holding, Unsent, Recording, Labels,
         Codes, Outcomes
<1>5. HoldsOf(i)'
  BY DEF TypeOK, ItemTypes, HoldsOf, ShapeOf, NeedsPlan, Governed, NativeReplay,
         Journalled, BoundTo, Binding, Sent, Owned, Unbound, Resolved,
         Reserving, Executing, Journalling, Holding, Unsent, Recording, Labels
<1>6. ConfirmsOf(i)'
  BY DEF TypeOK, PlanTypes, ConfirmsOf, ShapeOf, NeedsPlan, Governed,
         NativeReplay, Journalled, BoundTo, Binding, Sent, Owned, Unbound,
         Resolved, Reserving, Executing, Journalling, Holding, Unsent,
         Recording, Labels
<1> QED
  BY <1>1, <1>2, <1>3, <1>4, <1>5, <1>6, Combine

\* _dispatch.
LEMMA DispatchKeeps ==
  ASSUME IInv, NEW i \in Invocations, Dispatch(i)
  PROVE  IInv'
<1> USE DEF Dispatch, Go, Finish, authority, durable, caller, Settled, Outcome,
            Rechecked, Current, AuthorityRefusals, Unsettled
<1> TypeOK /\ ShapeOf(i) /\ HoldsOf(i) /\ ConfirmsOf(i)
  BY DEF IInv, Shape, Holds, Confirmed
<1>1. TypeOK'
  <2>1. BoundTo(i) \in BindingTypes
    BY DEF ShapeOf, Resolved, Labels, BoundTo, Binding, BindingTypes, ReqTypes,
           EffTypes
  <2>2. sent' \in [Invocations -> BindingTypes \cup {None}]
    BY <2>1 DEF TypeOK, BoundTo
  <2>3. pc' \in [Invocations -> Labels]
    BY DEF TypeOK, Labels
  <2>4. result' \in [Invocations -> Outcomes \cup {None}]
    BY DEF TypeOK, Outcomes, Codes
  <2> QED
    BY <2>2, <2>3, <2>4 DEF TypeOK
<1>2. ItemsGrow /\ PlansGrow
  BY DEF TypeOK, ItemsGrow, PlansGrow, ItemTypes, PlanTypes
<1>3. \A j \in Invocations \ {i} : Same(j)
  BY DEF TypeOK, Same
<1>4. ShapeOf(i)'
  BY DEF TypeOK, ShapeOf, RequestId, Source, NeedsPlan, Governed, NativeReplay,
         Journalled, BoundTo, Binding, Sent, Owned, Unbound, Resolved,
         Reserving, Executing, Journalling, Holding, Unsent, Recording, Labels,
         Codes, Outcomes
<1>5. HoldsOf(i)'
  BY DEF TypeOK, ItemTypes, HoldsOf, ShapeOf, NeedsPlan, Governed, NativeReplay,
         Journalled, BoundTo, Binding, Sent, Owned, Unbound, Resolved,
         Reserving, Executing, Journalling, Holding, Unsent, Recording, Labels
<1>6. ConfirmsOf(i)'
  BY DEF TypeOK, PlanTypes, ConfirmsOf, ShapeOf, NeedsPlan, Governed,
         NativeReplay, Journalled, BoundTo, Binding, Sent, Owned, Unbound,
         Resolved, Reserving, Executing, Journalling, Holding, Unsent,
         Recording, Labels
<1> QED
  BY <1>1, <1>2, <1>3, <1>4, <1>5, <1>6, Combine

\* _dispatch_outcome.
LEMMA DispatchOutcomeKeeps ==
  ASSUME IInv, NEW i \in Invocations, DispatchOutcome(i)
  PROVE  IInv'
<1> USE DEF DispatchOutcome, Go, Finish, authority, durable, caller, Settled,
            Outcome, Unsettled
<1> TypeOK /\ ShapeOf(i) /\ HoldsOf(i) /\ ConfirmsOf(i)
  BY DEF IInv, Shape, Holds, Confirmed
<1>1. TypeOK'
  <2>1. pc' \in [Invocations -> Labels]
    BY DEF TypeOK, Labels
  <2>2. result' \in [Invocations -> Outcomes \cup {None}]
    BY DEF TypeOK, Outcomes, Codes
  <2> QED
    BY <2>1, <2>2 DEF TypeOK
<1>2. ItemsGrow /\ PlansGrow
  BY DEF TypeOK, ItemsGrow, PlansGrow, ItemTypes, PlanTypes
<1>3. \A j \in Invocations \ {i} : Same(j)
  BY DEF TypeOK, Same
<1>4. ShapeOf(i)'
  BY DEF TypeOK, ShapeOf, RequestId, Source, NeedsPlan, Governed, NativeReplay,
         Journalled, BoundTo, Binding, Sent, Owned, Unbound, Resolved,
         Reserving, Executing, Journalling, Holding, Unsent, Recording, Labels,
         Codes, Outcomes
<1>5. HoldsOf(i)'
  BY DEF TypeOK, ItemTypes, HoldsOf, ShapeOf, NeedsPlan, Governed, NativeReplay,
         Journalled, BoundTo, Binding, Sent, Owned, Unbound, Resolved,
         Reserving, Executing, Journalling, Holding, Unsent, Recording, Labels
<1>6. ConfirmsOf(i)'
  BY DEF TypeOK, PlanTypes, ConfirmsOf, ShapeOf, NeedsPlan, Governed,
         NativeReplay, Journalled, BoundTo, Binding, Sent, Owned, Unbound,
         Resolved, Reserving, Executing, Journalling, Holding, Unsent,
         Recording, Labels
<1> QED
  BY <1>1, <1>2, <1>3, <1>4, <1>5, <1>6, Combine

\* _record, the audit entry.
LEMMA RecordKeeps ==
  ASSUME IInv, NEW i \in Invocations, Record(i)
  PROVE  IInv'
<1> USE DEF Record, Go, Finish, authority, durable, caller, Settled, Outcome
<1> TypeOK /\ ShapeOf(i) /\ HoldsOf(i) /\ ConfirmsOf(i)
  BY DEF IInv, Shape, Holds, Confirmed
<1>1. TypeOK'
  <2>1. audit' \in [RequestIds -> {"none", "reserved", "ok", "denied", "error"}]
    BY AuditStatusType DEF TypeOK
  <2>2. pc' \in [Invocations -> Labels]
    BY DEF TypeOK, Labels
  <2>3. answer' \in [Invocations -> Outcomes \cup {None}]
    <3>1. result[i] \in Outcomes /\ Outcome("INDETERMINATE", i) \in Outcomes
      BY DEF ShapeOf, Outcomes, Codes
    <3> QED
      BY <3>1 DEF TypeOK
  <2> QED
    BY <2>1, <2>2, <2>3 DEF TypeOK
<1>2. ItemsGrow /\ PlansGrow
  BY DEF TypeOK, ItemsGrow, PlansGrow, ItemTypes, PlanTypes
<1>3. \A j \in Invocations \ {i} : Same(j)
  BY DEF TypeOK, Same
<1>4. ShapeOf(i)'
  BY AuditStatusType DEF TypeOK, ShapeOf, RequestId, Source, NeedsPlan,
     Governed, NativeReplay, Journalled, BoundTo, Binding, Sent, Owned, Unbound,
     Resolved, Reserving, Executing, Journalling, Holding, Unsent, Recording,
     Labels, Codes, Outcomes
<1>5. HoldsOf(i)'
  BY AuditStatusType DEF TypeOK, ItemTypes, HoldsOf, ShapeOf, NeedsPlan,
     Governed, NativeReplay, Journalled, BoundTo, Binding, Sent, Owned, Unbound,
     Resolved, Reserving, Executing, Journalling, Holding, Unsent, Recording,
     Labels
<1>6. ConfirmsOf(i)'
  BY AuditStatusType DEF TypeOK, PlanTypes, ConfirmsOf, ShapeOf, NeedsPlan,
     Governed, NativeReplay, Journalled, BoundTo, Binding, Sent, Owned, Unbound,
     Resolved, Reserving, Executing, Journalling, Holding, Unsent, Recording,
     Labels
<1> QED
  BY <1>1, <1>2, <1>3, <1>4, <1>5, <1>6, Combine

\* EgEffectJournal.complete, the metadata.
LEMMA StoreOutcomeKeeps ==
  ASSUME IInv, NEW i \in Invocations, StoreOutcome(i)
  PROVE  IInv'
<1> USE DEF StoreOutcome, Go, Finish, authority, durable, caller, Settled,
            Outcome, LeasedBy
<1> TypeOK /\ ShapeOf(i) /\ HoldsOf(i) /\ ConfirmsOf(i)
  BY DEF IInv, Shape, Holds, Confirmed
<1>1. TypeOK'
  <2>1. items' \in [RequestIds -> ItemTypes]
    <3>1. rid[i] \in RequestIds /\ items[rid[i]] \in ItemTypes /\ result[i] \in Outcomes
      BY DEF TypeOK, ShapeOf, Reserving
    <3>2. [items[rid[i]] EXCEPT !.outcome = result[i]] \in ItemTypes
      BY <3>1 DEF ItemTypes, Terminal
    <3> QED
      BY <3>1, <3>2 DEF TypeOK
  <2>2. pc' \in [Invocations -> Labels]
    BY DEF TypeOK, Labels
  <2>3. answer' \in [Invocations -> Outcomes \cup {None}]
    BY DEF TypeOK, Outcomes, Codes
  <2> QED
    BY <2>1, <2>2, <2>3 DEF TypeOK
<1>2. ItemsGrow /\ PlansGrow
  BY DEF TypeOK, ItemsGrow, PlansGrow, ItemTypes, PlanTypes
<1>3. \A j \in Invocations \ {i} : Same(j)
  BY DEF TypeOK, Same
<1>4. ShapeOf(i)'
  BY DEF TypeOK, ShapeOf, RequestId, Source, NeedsPlan, Governed, NativeReplay,
         Journalled, BoundTo, Binding, Sent, Owned, Unbound, Resolved,
         Reserving, Executing, Journalling, Holding, Unsent, Recording, Labels,
         Codes, Outcomes
<1>5. HoldsOf(i)'
  BY DEF TypeOK, ItemTypes, HoldsOf, ShapeOf, NeedsPlan, Governed, NativeReplay,
         Journalled, BoundTo, Binding, Sent, Owned, Unbound, Resolved,
         Reserving, Executing, Journalling, Holding, Unsent, Recording, Labels
<1>6. ConfirmsOf(i)'
  BY DEF TypeOK, PlanTypes, ConfirmsOf, ShapeOf, NeedsPlan, Governed,
         NativeReplay, Journalled, BoundTo, Binding, Sent, Owned, Unbound,
         Resolved, Reserving, Executing, Journalling, Holding, Unsent,
         Recording, Labels
<1> QED
  BY <1>1, <1>2, <1>3, <1>4, <1>5, <1>6, Combine

\* EgEffectJournal.complete, the result.
LEMMA CommitOutcomeKeeps ==
  ASSUME IInv, NEW i \in Invocations, CommitOutcome(i)
  PROVE  IInv'
<1> USE DEF CommitOutcome, Go, Finish, authority, durable, caller, Settled,
            Outcome, LeasedBy
<1> TypeOK /\ ShapeOf(i) /\ HoldsOf(i) /\ ConfirmsOf(i)
  BY DEF IInv, Shape, Holds, Confirmed
<1>1. TypeOK'
  <2>1. items' \in [RequestIds -> ItemTypes]
    <3>1. rid[i] \in RequestIds /\ items[rid[i]] \in ItemTypes
      BY DEF TypeOK, ShapeOf, Reserving
    <3>2. [items[rid[i]] EXCEPT !.status =
             IF result[i].code = "OK" THEN "succeeded" ELSE "failed"] \in ItemTypes
      BY <3>1 DEF ItemTypes, Terminal
    <3> QED
      BY <3>1, <3>2 DEF TypeOK
  <2>2. pc' \in [Invocations -> Labels]
    BY DEF TypeOK, Labels
  <2>3. answer' \in [Invocations -> Outcomes \cup {None}]
    BY DEF TypeOK, Outcomes, Codes
  <2> QED
    BY <2>1, <2>2, <2>3 DEF TypeOK
<1>2. ItemsGrow /\ PlansGrow
  BY DEF TypeOK, ItemsGrow, PlansGrow, ItemTypes, PlanTypes
<1>3. \A j \in Invocations \ {i} : Same(j)
  BY DEF TypeOK, Same
<1>4. ShapeOf(i)'
  BY DEF TypeOK, ShapeOf, RequestId, Source, NeedsPlan, Governed, NativeReplay,
         Journalled, BoundTo, Binding, Sent, Owned, Unbound, Resolved,
         Reserving, Executing, Journalling, Holding, Unsent, Recording, Labels,
         Codes, Outcomes
<1>5. HoldsOf(i)'
  BY DEF TypeOK, ItemTypes, HoldsOf, ShapeOf, NeedsPlan, Governed, NativeReplay,
         Journalled, BoundTo, Binding, Sent, Owned, Unbound, Resolved,
         Reserving, Executing, Journalling, Holding, Unsent, Recording, Labels
<1>6. ConfirmsOf(i)'
  BY DEF TypeOK, PlanTypes, ConfirmsOf, ShapeOf, NeedsPlan, Governed,
         NativeReplay, Journalled, BoundTo, Binding, Sent, Owned, Unbound,
         Resolved, Reserving, Executing, Journalling, Holding, Unsent,
         Recording, Labels
<1> QED
  BY <1>1, <1>2, <1>3, <1>4, <1>5, <1>6, Combine

\* A crash or an unhandled cancellation.
LEMMA VanishKeeps ==
  ASSUME IInv, NEW i \in Invocations, Vanish(i)
  PROVE  IInv'
<1> USE DEF Vanish, Go, Finish, authority, durable, caller, Settled, Outcome
<1> TypeOK /\ ShapeOf(i) /\ HoldsOf(i) /\ ConfirmsOf(i)
  BY DEF IInv, Shape, Holds, Confirmed
<1>1. TypeOK'
  <2>1. pc' \in [Invocations -> Labels]
    BY DEF TypeOK, Labels
  <2>2. answer' \in [Invocations -> Outcomes \cup {None}]
    BY DEF TypeOK, Outcomes, Codes
  <2> QED
    BY <2>1, <2>2 DEF TypeOK
<1>2. ItemsGrow /\ PlansGrow
  BY DEF TypeOK, ItemsGrow, PlansGrow, ItemTypes, PlanTypes
<1>3. \A j \in Invocations \ {i} : Same(j)
  BY DEF TypeOK, Same
<1>4. ShapeOf(i)'
  BY DEF TypeOK, ShapeOf, RequestId, Source, NeedsPlan, Governed, NativeReplay,
         Journalled, BoundTo, Binding, Sent, Owned, Unbound, Resolved,
         Reserving, Executing, Journalling, Holding, Unsent, Recording, Labels,
         Codes, Outcomes
<1>5. HoldsOf(i)'
  BY DEF TypeOK, ItemTypes, HoldsOf, ShapeOf, NeedsPlan, Governed, NativeReplay,
         Journalled, BoundTo, Binding, Sent, Owned, Unbound, Resolved,
         Reserving, Executing, Journalling, Holding, Unsent, Recording, Labels
<1>6. ConfirmsOf(i)'
  BY DEF TypeOK, PlanTypes, ConfirmsOf, ShapeOf, NeedsPlan, Governed,
         NativeReplay, Journalled, BoundTo, Binding, Sent, Owned, Unbound,
         Resolved, Reserving, Executing, Journalling, Holding, Unsent,
         Recording, Labels
<1> QED
  BY <1>1, <1>2, <1>3, <1>4, <1>5, <1>6, Combine

\* Time and the authorities: leases run out and facts change.
LEMMA EnvironmentKeeps ==
  ASSUME IInv, Environment
  PROVE  IInv'
<1> USE DEF caller, authority, durable
<1> TypeOK
  BY DEF IInv
<1>1. CASE \E p \in PlanRefs : ExpirePlan(p)
  <2>1. PICK p \in PlanRefs : ExpirePlan(p)
    BY <1>1
  <2>2. [plans[p] EXCEPT !.status = "expired"] \in PlanTypes
    BY DEF TypeOK, PlanTypes
  <2>3. TypeOK'
    BY <2>1, <2>2 DEF TypeOK, ExpirePlan
  <2>4. ItemsGrow /\ PlansGrow /\ \A j \in Invocations : Same(j)
    BY <2>1 DEF TypeOK, PlanTypes, ExpirePlan, ItemsGrow, PlansGrow, Same
  <2> QED
    BY <2>3, <2>4, Frame DEF IInv, Shape, Holds, Confirmed
<1>2. CASE \E r \in RequestIds : ExpireLease(r)
  <2>1. PICK r \in RequestIds : ExpireLease(r)
    BY <1>2
  <2>2. [items[r] EXCEPT !.status = "dead_letter"] \in ItemTypes
    BY DEF TypeOK, ItemTypes, Terminal
  <2>3. TypeOK'
    BY <2>1, <2>2 DEF TypeOK, ExpireLease
  <2>4. ItemsGrow /\ PlansGrow /\ \A j \in Invocations : Same(j)
    BY <2>1 DEF TypeOK, ItemTypes, ExpireLease, ItemsGrow, PlansGrow, Same
  <2> QED
    BY <2>3, <2>4, Frame DEF IInv, Shape, Holds, Confirmed
<1>3. CASE ChangeAuthority
  <2>1. TypeOK'
    BY <1>3, InvokeAssumption DEF TypeOK, ChangeAuthority
  <2>2. ItemsGrow /\ PlansGrow /\ \A j \in Invocations : Same(j)
    BY <1>3 DEF ChangeAuthority, ItemsGrow, PlansGrow, Same
  <2> QED
    BY <2>1, <2>2, Frame DEF IInv, Shape, Holds, Confirmed
<1> QED
  BY <1>1, <1>2, <1>3 DEF Environment

\* A step that changes nothing.
LEMMA StutterKeeps ==
  ASSUME IInv, UNCHANGED vars
  PROVE  IInv'
<1>1. ItemsGrow /\ PlansGrow /\ \A j \in Invocations : Same(j)
  BY DEF vars, ItemsGrow, PlansGrow, Same
<1>2. TypeOK'
  BY DEF IInv, TypeOK, vars
<1> QED
  BY <1>1, <1>2, Frame DEF IInv, Shape, Holds, Confirmed

\* Nothing is reserved, confirmed or sent at the start.
LEMMA InitIInv == Init => IInv
<1> SUFFICES ASSUME Init PROVE IInv
  OBVIOUS
<1> USE InvokeAssumption DEF Init
<1>1. TypeOK
  BY DEF TypeOK, Labels, PlanTypes, ItemTypes
<1>2. Shape
  BY DEF Shape, ShapeOf, Unbound, Resolved, Reserving, Executing, Journalling,
         Unsent, Recording, Labels
<1>3. Holds /\ Confirmed
  BY DEF Holds, HoldsOf, Confirmed, ConfirmsOf, Holding, Executing, Sent
<1> QED
  BY <1>1, <1>2, <1>3 DEF IInv

\* Every step of the pipeline and of its environment keeps the invariant.
LEMMA NextIInv == IInv /\ [Next]_vars => IInv'
<1> SUFFICES ASSUME IInv, [Next]_vars PROVE IInv'
  OBVIOUS
<1>1. ASSUME NEW i \in Invocations, Invoke(i) PROVE IInv'
  BY <1>1, StartKeeps, ResolveKeeps, ConfirmationGateKeeps, IssuePlanKeeps,
     BindCallerKeeps, AuditPreflightKeeps, SubmitKeeps, AcquireKeeps,
     ExistingKeeps, ReplayCompletedKeeps, ValidatePlanKeeps, ConsumePlanKeeps,
     DispatchKeeps, DispatchOutcomeKeeps, RecordKeeps, StoreOutcomeKeeps,
     CommitOutcomeKeeps, VanishKeeps
  DEF Invoke
<1> QED
  BY <1>1, EnvironmentKeeps, StutterKeeps DEF Next

-------------------------------------------------------------------------------
(* The theorems.                                                            *)

\* The inductive invariant holds of every behaviour of the pipeline.
THEOREM InvariantHolds == Spec => []IInv
  BY InitIInv, NextIInv, PTL DEF Spec

\* Every record the pipeline and EG keep is well formed at every await, however
\* many invocations fail or vanish.
THEOREM TypeCorrect == Spec => []TypeOK
<1>1. IInv => TypeOK
  BY DEF IInv
<1> QED
  BY <1>1, InvariantHolds, PTL

\* runtime.dispatch runs under the facts that the durable reservation binds and
\* only for the invocation that created the reservation.
THEOREM DispatchIsReserved == Spec => []DispatchedAsReserved
<1>1. IInv => DispatchedAsReserved
  BY DEF IInv, Holds, HoldsOf, DispatchedAsReserved
<1> QED
  BY <1>1, InvariantHolds, PTL

\* However often and wherever a call is retried under one key, it is dispatched
\* at most once: two dispatches would both hold the work item.
THEOREM AtMostOnce == Spec => []AtMostOneDispatch
<1>1. IInv => AtMostOneDispatch
  BY DEF IInv, Holds, HoldsOf, AtMostOneDispatch
<1> QED
  BY <1>1, InvariantHolds, PTL

\* An effect that needs confirmation is dispatched as it was confirmed, after
\* its plan is consumed.
THEOREM DispatchIsConfirmed == Spec => []DispatchedAsConfirmed
<1>1. IInv => DispatchedAsConfirmed
  BY DEF IInv, Confirmed, ConfirmsOf, DispatchedAsConfirmed
<1> QED
  BY <1>1, InvariantHolds, PTL

\* A plan is spent on one dispatch although EG may answer a repeated transition
\* as applied: both dispatches would carry the plan's binding, so the same
\* operation and principal, so the same request_id.
THEOREM PlanIsSpentOnce == Spec => []PlanSpentOnce
<1>1. ASSUME IInv, NEW i \in Invocations, NEW j \in Invocations,
             Sent(i), Sent(j), Governed(i), NeedsPlan(i), NeedsPlan(j),
             req[i].plan = req[j].plan
      PROVE  i = j
  <2>1. ConfirmsOf(i) /\ ConfirmsOf(j) /\ HoldsOf(i) /\ HoldsOf(j)
          /\ ShapeOf(i) /\ ShapeOf(j)
    BY <1>1 DEF IInv, Shape, Holds, Confirmed
  <2>2. BoundTo(i) = BoundTo(j) /\ req[i].plan \in PlanRefs
    BY <1>1, <2>1 DEF ConfirmsOf
  <2>3. /\ req[i].op = req[j].op /\ req[i].principal = req[j].principal
        /\ effective[i].effect = effective[j].effect
    BY <2>2 DEF BoundTo, Binding
  <2>4. Governed(j)
    BY <1>1, <2>3 DEF Governed
  <2>5. Owned(i) /\ Owned(j)
    BY <1>1, <2>1, <2>4 DEF ConfirmsOf, Owned, Journalled, NativeReplay
  <2>6. req[i].plan # None
    BY <2>2, InvokeAssumption
  <2>7. RequestId(i) = RequestId(j)
    BY <1>1, <2>3, <2>6 DEF RequestId, Source
  <2>8. rid[i] = rid[j]
    BY <2>1, <2>5, <2>7 DEF ShapeOf, Owned
  <2> QED
    BY <1>1, <2>1, <2>5, <2>8 DEF HoldsOf
<1>2. IInv => PlanSpentOnce
  BY <1>1 DEF PlanSpentOnce
<1> QED
  BY <1>2, InvariantHolds, PTL

-------------------------------------------------------------------------------
(* Outcomes: the part of the invariant about what is stored, audited and    *)
(* told.                                                                    *)

\* Where a governed invocation can be once its audit reservation is durable.
Audited == Journalling \cup Executing

\* The result an invocation carries is not stored before "commit", is audited
\* before it is stored, says OK only of a dispatch that was made, and is told
\* when it is final; a replay carries what is stored.
RecordsOf(i) ==
  /\ pc[i] # "done" => answer[i] = None
  /\ pc[i] \in Audited /\ Governed(i) => audit[rid[i]] # "none"
  /\ Sent(i) /\ Governed(i) => audit[rid[i]] # "none"
  /\ pc[i] = "running" => Sent(i)
  /\ pc[i] \in {"record", "record_audit", "store", "commit"}
       /\ result[i].code = "OK" => Sent(i)
  /\ \/ pc[i] \in {"claim", "record", "store"}
     \/ pc[i] \in Executing /\ Journalled(i)
     => items[rid[i]].outcome = None
  /\ pc[i] \in {"store", "commit"} =>
       /\ result[i].code \notin Uncertain
       /\ audit[rid[i]] = AuditStatus(result[i])
  /\ pc[i] = "commit" => items[rid[i]].outcome = result[i]
  /\ pc[i] \in {"replay", "record_replay"} =>
       /\ items[rid[i]].outcome = result[i]
       /\ items[rid[i]].status \in Terminal
  /\ answer[i] # None /\ answer[i].code = "OK" /\ Owned(i) =>
       /\ items[rid[i]].outcome = answer[i]
       /\ items[rid[i]].status \in Terminal

\* An item that does not exist has neither binding nor outcome; an outcome that
\* is stored is settled and audited.
StoredOf(r) ==
  /\ items[r].status = "absent" => items[r].binding = None /\ items[r].outcome = None
  /\ items[r].outcome # None =>
       /\ items[r].outcome.code \notin Uncertain
       /\ audit[r] = AuditStatus(items[r].outcome)

Records == \A i \in Invocations : RecordsOf(i)
Stored == \A r \in RequestIds : StoredOf(r)

JInv == Records /\ Stored

\* An audit entry is kept, and is final once it has a status.
AuditGrows ==
  \A r \in RequestIds :
    /\ audit[r] # "none" => audit'[r] # "none"
    /\ audit[r] \in {"ok", "denied", "error"} => audit'[r] = audit[r]

\* A stored outcome is final; invocation i stores only in an item it holds.
OutcomesGrow(i) ==
  \A r \in RequestIds :
    /\ \/ items'[r].outcome = items[r].outcome
       \/ /\ items[r].status # "absent" /\ items[r].holder = i
          /\ items[r].outcome = None
    /\ items[r].status \in Terminal => items'[r].status \in Terminal

Others(i) == \A j \in Invocations \ {i} : Same(j) /\ answer'[j] = answer[j]

\* What an invocation carries survives the steps of others.
LEMMA RecordsFrame ==
  ASSUME IInv, NEW i, NEW j \in Invocations, i # j, Same(j), answer'[j] = answer[j],
         AuditGrows, OutcomesGrow(i), RecordsOf(j)
  PROVE  RecordsOf(j)'
<1>1. ShapeOf(j) /\ HoldsOf(j) /\ ConfirmsOf(j) /\ TypeOK
  BY DEF IInv, Shape, Holds, Confirmed
<1>2. /\ Governed(j)' = Governed(j) /\ Journalled(j)' = Journalled(j)
      /\ Owned(j)' = Owned(j) /\ Sent(j)' = Sent(j)
  BY DEF Same, Governed, Journalled, NativeReplay, NeedsPlan, Owned, Sent
<1>3. \/ pc[j] \in Audited /\ Governed(j)
      \/ Sent(j) /\ Governed(j)
      \/ Owned(j)
      \/ pc[j] \in Holding \cup {"replay", "record_replay"}
      => rid[j] \in RequestIds
  BY <1>1 DEF ShapeOf, ConfirmsOf, Owned, Audited, Journalling, Reserving, Executing,
              Holding, Journalled
<1>4. rid[j] \in RequestIds /\ items[rid[j]].outcome # None =>
        items'[rid[j]].outcome = items[rid[j]].outcome
  BY DEF OutcomesGrow
<1>5. rid[j] \in RequestIds /\ items[rid[j]].holder = j =>
        items'[rid[j]].outcome = items[rid[j]].outcome
  BY DEF OutcomesGrow
<1>6. \/ pc[j] \in {"claim", "record", "store"}
      \/ pc[j] \in Executing /\ Journalled(j)
      => rid[j] \in RequestIds /\ items[rid[j]].holder = j
  <2>1. pc[j] \in Executing /\ Journalled(j) => rid[j] \in RequestIds
    BY <1>1 DEF ShapeOf, Journalled
  <2> QED
    BY <1>1, <1>3, <2>1 DEF HoldsOf, Holding
<1>7. pc[j] \in {"commit", "replay", "record_replay", "store"} =>
        result[j] \in Outcomes /\ result[j] # None
  BY <1>1, RecordsAssumption DEF ShapeOf, Recording
<1>8. \A o : AuditStatus(o) \in {"ok", "denied", "error"}
  BY AuditStatusType
<1>9. rid[j] \in RequestIds /\ pc[j] \in {"store", "commit"} =>
        audit'[rid[j]] = AuditStatus(result[j])
  BY <1>8 DEF RecordsOf, AuditGrows
<1>10. rid[j] \in RequestIds =>
         /\ audit[rid[j]] # "none" => audit'[rid[j]] # "none"
         /\ items[rid[j]].status \in Terminal => items'[rid[j]].status \in Terminal
  BY DEF AuditGrows, OutcomesGrow
<1>11. /\ pc'[j] = pc[j] /\ result'[j] = result[j] /\ answer'[j] = answer[j]
       /\ rid'[j] = rid[j]
  BY DEF Same
<1> USE <1>2, <1>11 DEF RecordsOf
<1>12. pc'[j] # "done" => answer'[j] = None
  OBVIOUS
<1>13. /\ pc'[j] \in Audited /\ Governed(j)' => audit'[rid'[j]] # "none"
       /\ Sent(j)' /\ Governed(j)' => audit'[rid'[j]] # "none"
  BY <1>3, <1>10
<1>14. /\ pc'[j] = "running" => Sent(j)'
       /\ pc'[j] \in {"record", "record_audit", "store", "commit"}
            /\ result'[j].code = "OK" => Sent(j)'
  OBVIOUS
<1>15. \/ pc'[j] \in {"claim", "record", "store"}
       \/ pc'[j] \in Executing /\ Journalled(j)'
       => items'[rid'[j]].outcome = None
  BY <1>5, <1>6
<1>16. pc'[j] \in {"store", "commit"} =>
         /\ result'[j].code \notin Uncertain
         /\ audit'[rid'[j]] = AuditStatus(result'[j])
  BY <1>3, <1>9 DEF Holding
<1>17. /\ pc'[j] = "commit" => items'[rid'[j]].outcome = result'[j]
       /\ pc'[j] \in {"replay", "record_replay"} =>
            /\ items'[rid'[j]].outcome = result'[j]
            /\ items'[rid'[j]].status \in Terminal
  BY <1>3, <1>4, <1>7, <1>10 DEF Holding
<1>18. answer'[j] # None /\ answer'[j].code = "OK" /\ Owned(j)' =>
         /\ items'[rid'[j]].outcome = answer'[j]
         /\ items'[rid'[j]].status \in Terminal
  BY <1>3, <1>4, <1>10
<1> QED
  BY <1>12, <1>13, <1>14, <1>15, <1>16, <1>17, <1>18 DEF Uncertain, AuditStatus

\* What a step of one invocation has to show.
LEMMA CombineRecords ==
  ASSUME IInv, JInv, NEW i \in Invocations, Others(i), AuditGrows, OutcomesGrow(i),
         RecordsOf(i)', \A r \in RequestIds : StoredOf(r)'
  PROVE  JInv'
<1>1. ASSUME NEW j \in Invocations PROVE RecordsOf(j)'
  <2>1. CASE j = i
    BY <2>1
  <2>2. CASE j # i
    BY <2>2, RecordsFrame DEF JInv, Records, Others
  <2> QED
    BY <2>1, <2>2
<1> QED
  BY <1>1 DEF JInv, Records, Stored

\* A step that changes neither the items nor the audit log.
LEMMA CombineQuiet ==
  ASSUME IInv, JInv, NEW i \in Invocations, Others(i), UNCHANGED <<items, audit>>,
         RecordsOf(i)'
  PROVE  JInv'
<1>1. AuditGrows /\ OutcomesGrow(i)
  BY DEF AuditGrows, OutcomesGrow
<1>2. \A r \in RequestIds : StoredOf(r)'
  BY DEF JInv, Stored, StoredOf, AuditStatus, Uncertain
<1> QED
  BY <1>1, <1>2, CombineRecords

\* An invocation that is over, whatever it was told.
LEMMA EndsRecords ==
  ASSUME IInv, JInv, NEW i \in Invocations, pc'[i] \in {"done", "gone"},
         pc'[i] = "gone" => answer'[i] = None,
         AuditGrows,
         \/ sent'[i] = None
         \/ /\ sent'[i] = sent[i] /\ req'[i] = req[i]
            /\ effective'[i] = effective[i] /\ rid'[i] = rid[i],
         answer'[i] # None /\ answer'[i].code = "OK" /\ Owned(i)' =>
           /\ items'[rid'[i]].outcome = answer'[i]
           /\ items'[rid'[i]].status \in Terminal
  PROVE  RecordsOf(i)'
<1>1. Sent(i)' /\ Governed(i)' => audit'[rid'[i]] # "none"
  <2> SUFFICES ASSUME Sent(i)', Governed(i)'
               PROVE  audit'[rid'[i]] # "none"
    OBVIOUS
  <2>1. /\ sent'[i] = sent[i] /\ req'[i] = req[i] /\ effective'[i] = effective[i]
        /\ rid'[i] = rid[i]
    BY DEF Sent
  <2>2. Sent(i) /\ Governed(i)
    BY <2>1 DEF Sent, Governed
  <2>3. audit[rid[i]] # "none" /\ rid[i] \in RequestIds
    BY <2>2 DEF JInv, Records, RecordsOf, IInv, Confirmed, ConfirmsOf, Shape, ShapeOf
  <2> QED
    BY <2>1, <2>3 DEF AuditGrows
<1>2. pc'[i] \notin Audited /\ pc'[i] \notin Executing
  BY DEF Audited, Journalling, Reserving, Executing
<1> QED
  BY <1>1, <1>2 DEF RecordsOf

\* An invocation that has no audit reservation yet.
LEMMA EarlyRecords ==
  ASSUME NEW i \in Invocations, pc'[i] \in Unbound \cup {"preflight"},
         answer'[i] = None, sent'[i] = None
  PROVE  RecordsOf(i)'
<1>1. pc'[i] \notin Audited /\ pc'[i] \notin Executing /\ ~Sent(i)'
  BY DEF Audited, Journalling, Reserving, Executing, Unbound, Sent
<1> QED
  BY <1>1 DEF RecordsOf, Unbound

\* A dispatch, or a refusal before it, that is settled: its outcome is neither
\* audited nor stored.
LEMMA SettlesRecords ==
  ASSUME IInv, JInv, NEW i \in Invocations,
         pc[i] \in {"plan", "consume", "dispatch", "running"},
         NEW o, Settled(i, o), o.code = "OK" => Sent(i),
         UNCHANGED <<req, effective, rid, answer, items, audit, sent>>
  PROVE  RecordsOf(i)'
<1>1. TypeOK /\ RecordsOf(i)
  BY DEF IInv, JInv, Records
<1>2. /\ pc'[i] = IF Journalled(i) THEN "record" ELSE "record_audit"
      /\ result'[i] = o
  BY <1>1 DEF Settled, Go, TypeOK
<1>3. /\ Governed(i)' = Governed(i) /\ Journalled(i)' = Journalled(i)
      /\ Owned(i)' = Owned(i) /\ Sent(i)' = Sent(i)
  BY DEF Governed, Journalled, NativeReplay, NeedsPlan, Owned, Sent
<1>4. pc[i] \in Executing /\ pc[i] \in Audited
  BY DEF Executing, Audited
<1> QED
  BY <1>1, <1>2, <1>3, <1>4 DEF RecordsOf

\* invoke up to its first await.
LEMMA StartRecords ==
  ASSUME IInv, JInv, NEW i \in Invocations, Start(i)
  PROVE  JInv'
<1> TypeOK /\ ShapeOf(i) /\ RecordsOf(i)
  BY DEF IInv, Shape, JInv, Records
<1>1. UNCHANGED <<items, audit>> /\ Others(i)
  BY DEF Start, Go, Finish, authority, durable, TypeOK, Others, Same
<1>2. answer[i] = None /\ sent'[i] = None
  BY DEF Start, RecordsOf, ShapeOf, Unsent, Labels
<1>3. \/ pc'[i] = "resolve" /\ answer'[i] = None
      \/ pc'[i] = "done" /\ answer'[i].code # "OK"
  BY <1>2 DEF Start, Go, Finish, Outcome, TypeOK
<1>4. RecordsOf(i)'
  BY <1>1, <1>2, <1>3, EarlyRecords, EndsRecords DEF Unbound, AuditGrows
<1> QED
  BY <1>1, <1>4, CombineQuiet

\* _resolve.
LEMMA ResolveRecords ==
  ASSUME IInv, JInv, NEW i \in Invocations, Resolve(i)
  PROVE  JInv'
<1> TypeOK /\ ShapeOf(i) /\ RecordsOf(i)
  BY DEF IInv, Shape, JInv, Records
<1>1. UNCHANGED <<items, audit>> /\ Others(i)
  BY DEF Resolve, Go, Finish, authority, durable, TypeOK, Others, Same
<1>2. answer[i] = None /\ sent'[i] = None
  BY DEF Resolve, RecordsOf, ShapeOf, Unsent, Labels
<1>3. \/ pc'[i] = "gate" /\ answer'[i] = None
      \/ pc'[i] = "done" /\ answer'[i].code # "OK"
  BY <1>2 DEF Resolve, Go, Finish, Outcome, TypeOK, AuthorityRefusals
<1>4. RecordsOf(i)'
  BY <1>1, <1>2, <1>3, EarlyRecords, EndsRecords DEF Unbound, AuditGrows
<1> QED
  BY <1>1, <1>4, CombineQuiet

\* GateRefusal never says OK.
LEMMA GateRefusalIsNotOK ==
  ASSUME NEW i \in Invocations, GateRefusal(i) # None
  PROVE  GateRefusal(i) # "OK"
BY DEF GateRefusal

\* _confirmation_gate.
LEMMA ConfirmationGateRecords ==
  ASSUME IInv, JInv, NEW i \in Invocations, ConfirmationGate(i)
  PROVE  JInv'
<1> TypeOK /\ ShapeOf(i) /\ RecordsOf(i)
  BY DEF IInv, Shape, JInv, Records
<1>1. UNCHANGED <<items, audit>> /\ Others(i)
  BY DEF ConfirmationGate, Go, Finish, authority, durable, TypeOK, Others, Same
<1>2. answer[i] = None /\ sent'[i] = None
  BY DEF ConfirmationGate, RecordsOf, ShapeOf, Unsent, Labels
<1>3. \/ pc'[i] \in {"issue", "bind"} /\ answer'[i] = None
      \/ pc'[i] = "done" /\ answer'[i].code # "OK"
  BY <1>2, GateRefusalIsNotOK DEF ConfirmationGate, Go, Finish, Outcome, TypeOK
<1>4. RecordsOf(i)'
  BY <1>1, <1>2, <1>3, EarlyRecords, EndsRecords DEF Unbound, AuditGrows
<1> QED
  BY <1>1, <1>4, CombineQuiet

\* EgPlanStore.issue.
LEMMA IssuePlanRecords ==
  ASSUME IInv, JInv, NEW i \in Invocations, IssuePlan(i)
  PROVE  JInv'
<1> TypeOK /\ ShapeOf(i) /\ RecordsOf(i)
  BY DEF IInv, Shape, JInv, Records
<1>1. UNCHANGED <<items, audit>> /\ Others(i)
  BY DEF IssuePlan, Go, Finish, authority, durable, TypeOK, Others, Same
<1>2. answer[i] = None /\ sent'[i] = None
  BY DEF IssuePlan, RecordsOf, ShapeOf, Unsent, Labels
<1>3. pc'[i] = "done" /\ answer'[i].code # "OK"
  BY <1>2 DEF IssuePlan, Go, Finish, Outcome, TypeOK
<1>4. RecordsOf(i)'
  BY <1>1, <1>2, <1>3, EndsRecords DEF AuditGrows
<1> QED
  BY <1>1, <1>4, CombineQuiet

\* _bind_caller: an ungoverned call goes on without an audit reservation.
LEMMA BindCallerRecords ==
  ASSUME IInv, JInv, NEW i \in Invocations, BindCaller(i)
  PROVE  JInv'
<1> TypeOK /\ ShapeOf(i) /\ RecordsOf(i)
  BY DEF IInv, Shape, JInv, Records
<1>1. UNCHANGED <<items, audit>> /\ Others(i)
  BY DEF BindCaller, Go, Finish, authority, durable, TypeOK, Others, Same
<1>2. answer[i] = None /\ sent'[i] = None
  BY DEF BindCaller, RecordsOf, ShapeOf, Unsent, Labels
<1>3. \/ pc'[i] = "preflight" /\ answer'[i] = None
      \/ pc'[i] \in {"plan", "dispatch"} /\ answer'[i] = None /\ ~Governed(i)'
      \/ pc'[i] = "done" /\ answer'[i].code # "OK"
  BY <1>2 DEF BindCaller, Go, Finish, Outcome, TypeOK, AfterReserve, Governed
<1>4. CASE pc'[i] \in {"plan", "dispatch"} /\ answer'[i] = None /\ ~Governed(i)'
  <2>1. ~Journalled(i)' /\ ~Sent(i)'
    BY <1>2, <1>4 DEF Journalled, Sent
  <2>2. RecordsOf(i)'
    BY <1>4, <2>1 DEF RecordsOf
  <2> QED
    BY <1>1, <2>2, CombineQuiet
<1>5. CASE ~(pc'[i] \in {"plan", "dispatch"} /\ answer'[i] = None /\ ~Governed(i)')
  <2>1. RecordsOf(i)'
    BY <1>1, <1>2, <1>3, <1>5, EarlyRecords, EndsRecords DEF AuditGrows
  <2> QED
    BY <1>1, <2>1, CombineQuiet
<1> QED
  BY <1>4, <1>5

\* An item whose outcome stays as it is.
LEMMA StoredFrame ==
  ASSUME NEW r \in RequestIds, StoredOf(r), AuditGrows,
         items'[r].outcome = items[r].outcome,
         items'[r].status = "absent" =>
           items[r].status = "absent" /\ items'[r].binding = items[r].binding
  PROVE  StoredOf(r)'
<1>1. AuditStatus(items[r].outcome) \in {"ok", "denied", "error"}
  BY AuditStatusType
<1>2. items[r].outcome # None => audit'[r] = AuditStatus(items[r].outcome)
  BY <1>1 DEF StoredOf, AuditGrows
<1>3. AuditStatus(items[r].outcome)' = AuditStatus(items[r].outcome)
  BY DEF AuditStatus
<1> QED
  BY <1>2, <1>3 DEF StoredOf, Uncertain

\* EgAuditAdapter.preflight: the reservation in the audit log.
LEMMA AuditPreflightRecords ==
  ASSUME IInv, JInv, NEW i \in Invocations, AuditPreflight(i)
  PROVE  JInv'
<1> TypeOK /\ ShapeOf(i) /\ RecordsOf(i)
  BY DEF IInv, Shape, JInv, Records
<1>1. UNCHANGED <<items, req, effective, rid, sent>> /\ Others(i)
  BY DEF AuditPreflight, Go, Finish, authority, TypeOK, Others, Same
<1>2. answer[i] = None /\ sent'[i] = None /\ rid[i] \in RequestIds
  BY <1>1 DEF AuditPreflight, RecordsOf, ShapeOf, Unsent, Labels, Reserving
<1>3. \/ /\ pc'[i] = "submit" \/ (pc'[i] \in {"plan", "dispatch"} /\ NativeReplay(i))
         /\ answer'[i] = None /\ audit'[rid[i]] # "none"
      \/ pc'[i] = "done" /\ answer'[i].code # "OK"
  BY <1>2 DEF AuditPreflight, Go, Finish, Outcome, TypeOK, AfterReserve
<1>4. AuditGrows /\ OutcomesGrow(i)
  BY <1>1, <1>2 DEF AuditPreflight, AuditGrows, OutcomesGrow, TypeOK
<1>5. \A r \in RequestIds : StoredOf(r)'
  BY <1>1, <1>4, StoredFrame DEF JInv, Stored
<1>6. NativeReplay(i) => ~Journalled(i)'
  BY <1>1 DEF Journalled, NativeReplay, NeedsPlan
<1>7. RecordsOf(i)'
  <2>1. CASE pc'[i] = "done"
    BY <1>1, <1>2, <1>3, <1>4, <2>1, EndsRecords
  <2>2. CASE pc'[i] # "done"
    <3>1. ~Sent(i)' /\ rid'[i] = rid[i]
      BY <1>1, <1>2 DEF Sent
    <3>2. pc'[i] \in {"submit", "plan", "dispatch"} /\ answer'[i] = None
          /\ audit'[rid'[i]] # "none"
          /\ ~(pc'[i] \in Executing /\ Journalled(i)')
      BY <1>1, <1>3, <1>6, <2>2 DEF Executing
    <3> QED
      BY <3>1, <3>2 DEF RecordsOf
  <2> QED
    BY <2>1, <2>2
<1> QED
  BY <1>1, <1>4, <1>5, <1>7, CombineRecords

\* work_items.submit: a new item has no outcome.
LEMMA SubmitRecords ==
  ASSUME IInv, JInv, NEW i \in Invocations, Submit(i)
  PROVE  JInv'
<1> TypeOK /\ ShapeOf(i) /\ RecordsOf(i)
  BY DEF IInv, Shape, JInv, Records
<1>1. UNCHANGED <<audit, req, effective, rid, sent>> /\ Others(i)
  BY DEF Submit, Go, Finish, authority, TypeOK, Others, Same
<1>2. /\ answer[i] = None /\ sent'[i] = None /\ rid[i] \in RequestIds
      /\ audit[rid[i]] # "none"
  BY <1>1 DEF Submit, RecordsOf, ShapeOf, Unsent, Labels, Reserving, Audited,
              Journalling
<1>3. \/ UNCHANGED items
      \/ /\ items[rid[i]].status = "absent"
         /\ items' = [items EXCEPT ![rid[i]] =
                        [status |-> "ready", binding |-> BoundTo(i),
                         holder |-> i, outcome |-> None]]
  BY DEF Submit
<1>4. \A r \in RequestIds :
        \/ items'[r] = items[r]
        \/ /\ items[r].status = "absent" /\ items'[r].status = "ready"
           /\ items'[r].outcome = None
  BY <1>2, <1>3 DEF TypeOK
<1>5. \A r \in RequestIds : items'[r].outcome = items[r].outcome
  BY <1>4 DEF JInv, Stored, StoredOf
<1>6. AuditGrows /\ OutcomesGrow(i)
  BY <1>1, <1>4, <1>5 DEF AuditGrows, OutcomesGrow, Terminal
<1>7. \A r \in RequestIds : StoredOf(r)'
  BY <1>4, <1>5, <1>6, StoredFrame DEF JInv, Stored
<1>8. \/ /\ pc'[i] = "claim" /\ items'[rid[i]].outcome = None
         /\ answer'[i] = None
      \/ pc'[i] = "existing" /\ answer'[i] = None
      \/ pc'[i] = "done" /\ answer'[i].code # "OK"
  BY <1>2 DEF Submit, Go, Finish, Outcome, TypeOK
<1>9. RecordsOf(i)'
  <2>1. CASE pc'[i] = "done"
    BY <1>1, <1>2, <1>6, <1>8, <2>1, EndsRecords
  <2>2. CASE pc'[i] # "done"
    <3>1. /\ pc'[i] \in {"claim", "existing"} /\ answer'[i] = None /\ ~Sent(i)'
          /\ pc'[i] = "claim" => items'[rid'[i]].outcome = None
          /\ audit'[rid'[i]] # "none"
          /\ pc'[i] \notin Executing
      BY <1>1, <1>2, <1>8, <2>2 DEF Executing, Sent
    <3> QED
      BY <3>1 DEF RecordsOf
  <2> QED
    BY <2>1, <2>2
<1> QED
  BY <1>1, <1>6, <1>7, <1>9, CombineRecords

\* _acquire: the item is leased, and has no outcome yet.
LEMMA AcquireRecords ==
  ASSUME IInv, JInv, NEW i \in Invocations, Acquire(i)
  PROVE  JInv'
<1> TypeOK /\ ShapeOf(i) /\ RecordsOf(i)
  BY DEF IInv, Shape, JInv, Records
<1>1. UNCHANGED <<audit, req, effective, rid, sent>> /\ Others(i)
  BY DEF Acquire, Go, Finish, authority, TypeOK, Others, Same
<1>2. /\ answer[i] = None /\ sent'[i] = None /\ rid[i] \in RequestIds
      /\ audit[rid[i]] # "none" /\ items[rid[i]].outcome = None
  BY <1>1 DEF Acquire, RecordsOf, ShapeOf, Unsent, Labels, Reserving, Audited,
              Journalling
<1>3. \A r \in RequestIds :
        \/ items'[r] = items[r]
        \/ /\ items[r].status = "ready" /\ items'[r].status = "leased"
           /\ items'[r].outcome = items[r].outcome
  BY <1>2 DEF Acquire, TypeOK, ItemTypes
<1>4. AuditGrows /\ OutcomesGrow(i)
  BY <1>1, <1>3 DEF AuditGrows, OutcomesGrow, Terminal
<1>5. \A r \in RequestIds : StoredOf(r)'
  BY <1>3, <1>4, StoredFrame DEF JInv, Stored
<1>6. \/ pc'[i] \in {"plan", "dispatch"} /\ answer'[i] = None
      \/ pc'[i] = "done" /\ answer'[i].code # "OK"
  BY <1>2 DEF Acquire, Go, Finish, Outcome, TypeOK, AfterReserve
<1>7. RecordsOf(i)'
  <2>1. CASE pc'[i] = "done"
    BY <1>1, <1>2, <1>4, <1>6, <2>1, EndsRecords
  <2>2. CASE pc'[i] # "done"
    <3>1. /\ pc'[i] \in {"plan", "dispatch"} /\ answer'[i] = None /\ ~Sent(i)'
          /\ items'[rid'[i]].outcome = None /\ audit'[rid'[i]] # "none"
      BY <1>1, <1>2, <1>3, <1>6, <2>2 DEF Sent
    <3> QED
      BY <3>1 DEF RecordsOf
  <2> QED
    BY <2>1, <2>2
<1> QED
  BY <1>1, <1>4, <1>5, <1>7, CombineRecords

\* _existing: a replay carries the stored outcome.
LEMMA ExistingRecords ==
  ASSUME IInv, JInv, NEW i \in Invocations, Existing(i)
  PROVE  JInv'
<1> TypeOK /\ ShapeOf(i) /\ RecordsOf(i)
  BY DEF IInv, Shape, JInv, Records
<1>1. UNCHANGED <<items, audit, req, effective, rid, sent>> /\ Others(i)
  BY DEF Existing, Go, Finish, authority, durable, TypeOK, Others, Same
<1>2. /\ answer[i] = None /\ sent'[i] = None /\ audit[rid[i]] # "none"
  BY <1>1 DEF Existing, RecordsOf, ShapeOf, Unsent, Labels, Reserving, Audited,
              Journalling
<1>3. \/ /\ pc'[i] = "replay" /\ result'[i] = items[rid[i]].outcome
         /\ items[rid[i]].status \in Terminal /\ answer'[i] = None
      \/ pc'[i] = "done" /\ answer'[i].code # "OK"
  BY <1>2 DEF Existing, Go, Finish, Outcome, TypeOK
<1>4. RecordsOf(i)'
  <2>1. CASE pc'[i] = "done"
    BY <1>1, <1>2, <1>3, <2>1, EndsRecords DEF AuditGrows
  <2>2. CASE pc'[i] # "done"
    <3>1. /\ pc'[i] = "replay" /\ answer'[i] = None /\ ~Sent(i)'
          /\ items'[rid'[i]].outcome = result'[i]
          /\ items'[rid'[i]].status \in Terminal
          /\ audit'[rid'[i]] # "none" /\ pc'[i] \notin Executing
      BY <1>1, <1>2, <1>3, <2>2 DEF Executing, Sent
    <3> QED
      BY <3>1 DEF RecordsOf
  <2> QED
    BY <2>1, <2>2
<1> QED
  BY <1>1, <1>4, CombineQuiet

\* _replay_completed.
LEMMA ReplayCompletedRecords ==
  ASSUME IInv, JInv, NEW i \in Invocations, ReplayCompleted(i)
  PROVE  JInv'
<1> TypeOK /\ ShapeOf(i) /\ RecordsOf(i)
  BY DEF IInv, Shape, JInv, Records
<1>1. UNCHANGED <<items, audit, req, effective, rid, sent, result>> /\ Others(i)
  BY DEF ReplayCompleted, Go, Finish, authority, durable, TypeOK, Others, Same
<1>2. /\ answer[i] = None /\ sent'[i] = None /\ audit[rid[i]] # "none"
      /\ items[rid[i]].outcome = result[i] /\ items[rid[i]].status \in Terminal
  BY <1>1 DEF ReplayCompleted, RecordsOf, ShapeOf, Unsent, Labels, Reserving,
              Audited, Journalling
<1>3. \/ pc'[i] = "record_replay" /\ answer'[i] = None
      \/ pc'[i] = "done" /\ answer'[i].code # "OK"
  BY <1>2 DEF ReplayCompleted, Go, Finish, Outcome, TypeOK, AuthorityRefusals
<1>4. RecordsOf(i)'
  <2>1. CASE pc'[i] = "done"
    BY <1>1, <1>2, <1>3, <2>1, EndsRecords DEF AuditGrows
  <2>2. CASE pc'[i] # "done"
    <3>1. /\ pc'[i] = "record_replay" /\ answer'[i] = None /\ ~Sent(i)'
          /\ items'[rid'[i]].outcome = result'[i]
          /\ items'[rid'[i]].status \in Terminal
          /\ audit'[rid'[i]] # "none" /\ pc'[i] \notin Executing
      BY <1>1, <1>2, <1>3, <2>2 DEF Executing, Sent
    <3> QED
      BY <3>1 DEF RecordsOf
  <2> QED
    BY <2>1, <2>2
<1> QED
  BY <1>1, <1>4, CombineQuiet

\* PlanRefusal never says OK.
LEMMA PlanRefusalIsNotOK ==
  ASSUME NEW i \in Invocations, PlanRefusal(i) # None
  PROVE  PlanRefusal(i) # "OK"
BY DEF PlanRefusal

\* A plan that is being validated or consumed.
LEMMA OnwardRecords ==
  ASSUME IInv, JInv, NEW i \in Invocations, pc[i] \in {"plan", "consume"},
         pc'[i] \in {"consume", "dispatch"},
         UNCHANGED <<req, effective, rid, answer, items, audit, sent>>
  PROVE  RecordsOf(i)'
<1>1. RecordsOf(i)
  BY DEF JInv, Records
<1>2. /\ Governed(i)' = Governed(i) /\ Journalled(i)' = Journalled(i)
      /\ Owned(i)' = Owned(i) /\ Sent(i)' = Sent(i)
  BY DEF Governed, Journalled, NativeReplay, NeedsPlan, Owned, Sent
<1>3. /\ pc[i] \in Executing /\ pc[i] \in Audited
      /\ pc'[i] \in Executing /\ pc'[i] \in Audited
  BY DEF Executing, Audited
<1> QED
  BY <1>1, <1>2, <1>3 DEF RecordsOf

\* EgPlanStore.validate.
LEMMA ValidatePlanRecords ==
  ASSUME IInv, JInv, NEW i \in Invocations, ValidatePlan(i)
  PROVE  JInv'
<1> TypeOK
  BY DEF IInv
<1>1. /\ UNCHANGED <<req, effective, rid, answer, items, audit, sent>>
      /\ pc[i] = "plan" /\ Others(i)
  BY DEF ValidatePlan, Settled, Go, authority, durable, TypeOK, Others, Same
<1>2. \/ pc'[i] = "consume"
      \/ \E o : Settled(i, o) /\ o.code # "OK"
  BY PlanRefusalIsNotOK DEF ValidatePlan, Go, Outcome, TypeOK
<1>3. RecordsOf(i)'
  BY <1>1, <1>2, OnwardRecords, SettlesRecords
<1> QED
  BY <1>1, <1>3, CombineQuiet

\* EgPlanStore.consume.
LEMMA ConsumePlanRecords ==
  ASSUME IInv, JInv, NEW i \in Invocations, ConsumePlan(i)
  PROVE  JInv'
<1> TypeOK
  BY DEF IInv
<1>1. /\ UNCHANGED <<req, effective, rid, answer, items, audit, sent>>
      /\ pc[i] = "consume" /\ Others(i)
  BY DEF ConsumePlan, Settled, Go, authority, TypeOK, Others, Same
<1>2. \/ pc'[i] = "dispatch"
      \/ \E o : Settled(i, o) /\ o.code # "OK"
  BY DEF ConsumePlan, Go, Outcome, TypeOK
<1>3. RecordsOf(i)'
  BY <1>1, <1>2, OnwardRecords, SettlesRecords
<1> QED
  BY <1>1, <1>3, CombineQuiet

\* What a dispatch is sent with is a binding.
LEMMA SentType ==
  ASSUME IInv, NEW i \in Invocations, pc[i] = "dispatch"
  PROVE  /\ Binding(req[i], rev, EffectiveOp(req[i].op)) \in BindingTypes
         /\ Binding(req[i], rev, EffectiveOp(req[i].op)) # None
<1>1. req[i] \in ReqTypes /\ rev \in 0..MaxRev /\ TypeOK
  BY DEF IInv, Shape, ShapeOf, TypeOK
<1>2. EffectiveOp(req[i].op) \in EffTypes
  BY <1>1, EffectiveOpType DEF ReqTypes
<1>3. Binding(req[i], rev, EffectiveOp(req[i].op)) \in BindingTypes
  BY <1>1, <1>2 DEF Binding, BindingTypes, ReqTypes, EffTypes
<1> QED
  BY <1>3, RecordsAssumption

\* _dispatch: the recheck, then runtime.dispatch.
LEMMA DispatchRecords ==
  ASSUME IInv, JInv, NEW i \in Invocations, Dispatch(i)
  PROVE  JInv'
<1> TypeOK /\ RecordsOf(i)
  BY DEF IInv, JInv, Records
<1>1. /\ UNCHANGED <<req, effective, rid, answer, items, audit>>
      /\ pc[i] = "dispatch" /\ Others(i)
  BY DEF Dispatch, Settled, Go, authority, durable, TypeOK, Others, Same
<1>2. \/ pc'[i] = "running" /\ sent'[i] # None
      \/ UNCHANGED sent /\ \E o : Settled(i, o) /\ o.code # "OK"
  <2>1. \/ /\ sent' = [sent EXCEPT ![i] = Binding(req[i], rev, EffectiveOp(req[i].op))]
           /\ pc' = [pc EXCEPT ![i] = "running"]
        \/ UNCHANGED sent /\ \E o : Settled(i, o) /\ o.code # "OK"
    BY DEF Dispatch, Go, Outcome, Unsettled, AuthorityRefusals
  <2> QED
    BY <1>1, <2>1, SentType DEF TypeOK
<1>3. CASE pc'[i] = "running" /\ sent'[i] # None
  <2>1. /\ Governed(i)' = Governed(i) /\ Journalled(i)' = Journalled(i)
        /\ Sent(i)'
    BY <1>1, <1>3 DEF Governed, Journalled, NativeReplay, NeedsPlan, Sent
  <2>2. pc[i] \in Executing /\ pc[i] \in Audited
    BY <1>1 DEF Executing, Audited
  <2>3. RecordsOf(i)'
    BY <1>1, <1>3, <2>1, <2>2 DEF RecordsOf
  <2> QED
    BY <1>1, <2>3, CombineQuiet
<1>4. CASE UNCHANGED sent /\ \E o : Settled(i, o) /\ o.code # "OK"
  <2>1. RecordsOf(i)'
    BY <1>1, <1>4, SettlesRecords
  <2> QED
    BY <1>1, <2>1, CombineQuiet
<1> QED
  BY <1>2, <1>3, <1>4

\* _dispatch_outcome: OK only of a dispatch.
LEMMA DispatchOutcomeRecords ==
  ASSUME IInv, JInv, NEW i \in Invocations, DispatchOutcome(i)
  PROVE  JInv'
<1> TypeOK /\ RecordsOf(i)
  BY DEF IInv, JInv, Records
<1>1. /\ UNCHANGED <<req, effective, rid, answer, items, audit, sent>>
      /\ pc[i] = "running" /\ Others(i)
  BY DEF DispatchOutcome, Settled, Go, authority, durable, TypeOK, Others, Same
<1>2. Sent(i)
  BY <1>1 DEF RecordsOf
<1>3. \E o : Settled(i, o)
  BY DEF DispatchOutcome
<1>4. RecordsOf(i)'
  BY <1>1, <1>2, <1>3, SettlesRecords
<1> QED
  BY <1>1, <1>4, CombineQuiet

\* _record: the audit entry comes before the stored outcome and, for a replay,
\* before the answer.
LEMMA RecordRecords ==
  ASSUME IInv, JInv, NEW i \in Invocations, Record(i)
  PROVE  JInv'
<1> TypeOK /\ ShapeOf(i) /\ RecordsOf(i)
  BY DEF IInv, Shape, JInv, Records
<1>1. UNCHANGED <<req, effective, rid, result, items, sent>> /\ Others(i)
  BY DEF Record, Go, Finish, authority, TypeOK, Others, Same
<1>2. pc[i] \in {"record", "record_audit", "record_replay"} /\ answer[i] = None
  BY DEF Record, Recording, RecordsOf
<1>3. /\ Governed(i)' = Governed(i) /\ Journalled(i)' = Journalled(i)
      /\ Owned(i)' = Owned(i) /\ Sent(i)' = Sent(i)
  BY <1>1 DEF Governed, Journalled, NativeReplay, NeedsPlan, Owned, Sent
<1>4. Governed(i) => rid[i] \in RequestIds
  BY <1>2 DEF ShapeOf, Reserving, Executing
<1>5. \/ UNCHANGED audit
      \/ /\ Governed(i) /\ audit[rid[i]] \in {"reserved", AuditStatus(result[i])}
         /\ audit' = [audit EXCEPT ![rid[i]] = AuditStatus(result[i])]
  BY DEF Record
<1>6. AuditGrows /\ OutcomesGrow(i)
  BY <1>1, <1>4, <1>5, AuditStatusType DEF AuditGrows, OutcomesGrow, TypeOK
<1>7. \A r \in RequestIds : StoredOf(r)'
  BY <1>1, <1>6, StoredFrame DEF JInv, Stored
<1>8. \/ /\ pc[i] = "record" /\ pc'[i] = "store" /\ answer'[i] = None
         /\ Governed(i) /\ result[i].code \notin Uncertain
         /\ audit'[rid[i]] = AuditStatus(result[i])
      \/ pc'[i] = "done" /\ answer'[i].code # "OK"
      \/ pc'[i] = "done" /\ answer'[i] = result[i] /\ pc[i] # "record"
  <2>1. CASE ~Governed(i) \/ result[i].code \in Uncertain
    <3>1. Finish(i, result[i])
      BY <2>1 DEF Record
    <3>2. pc'[i] = "done" /\ answer'[i] = result[i]
      BY <3>1 DEF Finish, TypeOK
    <3>3. pc[i] = "record" => Governed(i)
      BY DEF ShapeOf, Reserving
    <3>4. result[i].code \in Uncertain => result[i].code # "OK"
      BY DEF Uncertain
    <3> QED
      BY <2>1, <3>2, <3>3, <3>4
  <2>2. CASE Governed(i) /\ result[i].code \notin Uncertain
    BY <1>2, <1>4, <2>2 DEF Record, Go, Finish, Outcome, TypeOK
  <2> QED
    BY <2>1, <2>2
<1>9. CASE pc'[i] = "store"
  <2>1. /\ pc[i] = "record" /\ answer'[i] = None /\ Governed(i)
        /\ result'[i].code \notin Uncertain /\ result'[i] = result[i]
        /\ audit'[rid'[i]] = AuditStatus(result'[i]) /\ rid'[i] = rid[i]
    BY <1>1, <1>8, <1>9
  <2>2. audit'[rid'[i]] # "none"
    BY <2>1, AuditStatusType
  <2>3. items'[rid'[i]].outcome = None /\ pc'[i] \notin Executing
    BY <1>1, <1>9, <2>1 DEF RecordsOf, Executing
  <2>4. result'[i].code = "OK" => Sent(i)'
    BY <1>3, <2>1 DEF RecordsOf
  <2>5. RecordsOf(i)'
    BY <1>9, <2>1, <2>2, <2>3, <2>4 DEF RecordsOf, Uncertain, AuditStatus
  <2> QED
    BY <1>1, <1>6, <1>7, <2>5, CombineRecords
<1>10. CASE pc'[i] = "done"
  <2>1. answer'[i] # None /\ answer'[i].code = "OK" /\ Owned(i)' =>
          /\ items'[rid'[i]].outcome = answer'[i]
          /\ items'[rid'[i]].status \in Terminal
    <3> SUFFICES ASSUME answer'[i].code = "OK", Owned(i)
                 PROVE  /\ items[rid[i]].outcome = answer'[i]
                        /\ items[rid[i]].status \in Terminal
      BY <1>1, <1>3
    <3>1. answer'[i] = result[i] /\ pc[i] # "record"
      BY <1>8, <1>10
    <3>2. pc[i] = "record_replay"
      BY <1>2, <3>1 DEF ShapeOf, Owned
    <3> QED
      BY <3>1, <3>2 DEF RecordsOf
  <2>2. RecordsOf(i)'
    BY <1>1, <1>6, <1>10, <2>1, EndsRecords
  <2> QED
    BY <1>1, <1>6, <1>7, <2>2, CombineRecords
<1> QED
  BY <1>8, <1>9, <1>10

\* complete, first half: the audited outcome is stored in the item that the
\* invocation holds.
LEMMA StoreOutcomeRecords ==
  ASSUME IInv, JInv, NEW i \in Invocations, StoreOutcome(i)
  PROVE  JInv'
<1> TypeOK /\ ShapeOf(i) /\ HoldsOf(i) /\ RecordsOf(i)
  BY DEF IInv, Shape, Holds, JInv, Records
<1>1. /\ UNCHANGED <<audit, req, effective, rid, result, sent>> /\ Others(i)
      /\ pc[i] = "store"
  BY DEF StoreOutcome, Go, Finish, authority, TypeOK, Others, Same
<1>2. /\ answer[i] = None /\ rid[i] \in RequestIds /\ items[rid[i]].outcome = None
      /\ result[i].code \notin Uncertain /\ audit[rid[i]] = AuditStatus(result[i])
      /\ items[rid[i]].holder = i /\ items[rid[i]].status # "absent"
      /\ audit[rid[i]] # "none" /\ Governed(i)
      /\ result[i].code = "OK" => Sent(i)
  BY <1>1 DEF RecordsOf, ShapeOf, HoldsOf, Holding, Reserving, Audited, Journalling
<1>3. \/ items' = [items EXCEPT ![rid[i]].outcome = result[i]]
      \/ UNCHANGED items /\ pc'[i] = "done"
  BY DEF StoreOutcome, Finish, TypeOK
<1>4. /\ \A r \in RequestIds : r # rid[i] => items'[r] = items[r]
      /\ items'[rid[i]].status = items[rid[i]].status
      /\ items'[rid[i]].outcome \in {None, result[i]}
      /\ items'[rid[i]].outcome = result[i] \/ pc'[i] = "done"
  BY <1>2, <1>3 DEF TypeOK, ItemTypes
<1>5. AuditGrows /\ OutcomesGrow(i)
  BY <1>1, <1>2, <1>4 DEF AuditGrows, OutcomesGrow
<1>6. \A r \in RequestIds : StoredOf(r)'
  <2> SUFFICES ASSUME NEW r \in RequestIds
               PROVE  StoredOf(r)'
    OBVIOUS
  <2>1. CASE r # rid[i]
    BY <1>4, <1>5, <2>1, StoredFrame DEF JInv, Stored
  <2>2. CASE r = rid[i]
    <3>1. items'[r].status # "absent" /\ items'[r].outcome \in {None, result[i]}
      BY <1>2, <1>4, <2>2
    <3>2. audit'[r] = AuditStatus(result[i]) /\ result[i].code \notin Uncertain
      BY <1>1, <1>2, <2>2
    <3> QED
      BY <3>1, <3>2 DEF StoredOf, AuditStatus, Uncertain
  <2> QED
    BY <2>1, <2>2
<1>7. \/ pc'[i] = "commit" /\ answer'[i] = None
      \/ pc'[i] = "done" /\ answer'[i].code # "OK"
  BY <1>2 DEF StoreOutcome, Go, Finish, Outcome, TypeOK
<1>8. RecordsOf(i)'
  <2>1. CASE pc'[i] = "done"
    BY <1>1, <1>5, <1>7, <2>1, EndsRecords
  <2>2. CASE pc'[i] = "commit"
    <3>1. /\ answer'[i] = None /\ result'[i] = result[i] /\ rid'[i] = rid[i]
          /\ Sent(i)' = Sent(i) /\ items'[rid'[i]].outcome = result'[i]
          /\ audit'[rid'[i]] = AuditStatus(result[i]) /\ audit'[rid'[i]] # "none"
          /\ pc'[i] \notin Executing
      BY <1>1, <1>2, <1>4, <1>7, <2>2 DEF Sent, Executing
    <3> QED
      BY <1>2, <2>2, <3>1 DEF RecordsOf, AuditStatus, Uncertain
  <2> QED
    BY <1>7, <2>1, <2>2
<1> QED
  BY <1>1, <1>5, <1>6, <1>8, CombineRecords

\* complete, second half: what is told is what is stored.
LEMMA CommitOutcomeRecords ==
  ASSUME IInv, JInv, NEW i \in Invocations, CommitOutcome(i)
  PROVE  JInv'
<1> TypeOK /\ ShapeOf(i) /\ RecordsOf(i)
  BY DEF IInv, Shape, JInv, Records
<1>1. /\ UNCHANGED <<audit, req, effective, rid, result, sent>> /\ Others(i)
      /\ pc[i] = "commit"
  BY DEF CommitOutcome, Go, Finish, authority, TypeOK, Others, Same
<1>2. rid[i] \in RequestIds /\ items[rid[i]].outcome = result[i]
  BY <1>1 DEF RecordsOf, ShapeOf, Reserving
<1>3. \A r \in RequestIds :
        \/ items'[r] = items[r]
        \/ /\ items[r].status = "leased" /\ items'[r].status \in Terminal
           /\ items'[r].outcome = items[r].outcome
  BY <1>2 DEF CommitOutcome, LeasedBy, Terminal, TypeOK, ItemTypes
<1>4. AuditGrows /\ OutcomesGrow(i)
  BY <1>1, <1>3 DEF AuditGrows, OutcomesGrow
<1>5. \A r \in RequestIds : StoredOf(r)'
  BY <1>3, <1>4, StoredFrame DEF JInv, Stored, Terminal
<1>6. /\ pc'[i] = "done"
      /\ \/ answer'[i] = result[i] /\ items'[rid[i]].status \in Terminal
         \/ answer'[i].code # "OK"
  BY <1>2 DEF CommitOutcome, Finish, Outcome, TypeOK, ItemTypes, Terminal
<1>7. answer'[i] # None /\ answer'[i].code = "OK" /\ Owned(i)' =>
        /\ items'[rid'[i]].outcome = answer'[i]
        /\ items'[rid'[i]].status \in Terminal
  BY <1>1, <1>2, <1>3, <1>6
<1>8. RecordsOf(i)'
  BY <1>1, <1>4, <1>6, <1>7, EndsRecords
<1> QED
  BY <1>1, <1>4, <1>5, <1>8, CombineRecords

\* The invocation is gone, and nobody is told.
LEMMA VanishRecords ==
  ASSUME IInv, JInv, NEW i \in Invocations, Vanish(i)
  PROVE  JInv'
<1> TypeOK /\ RecordsOf(i)
  BY DEF IInv, JInv, Records
<1>1. /\ UNCHANGED <<items, audit, req, effective, rid, answer, sent>> /\ Others(i)
      /\ pc'[i] = "gone" /\ pc[i] # "done"
  BY DEF Vanish, Go, authority, durable, TypeOK, Others, Same
<1>2. answer'[i] = None
  BY <1>1 DEF RecordsOf
<1>3. RecordsOf(i)'
  BY <1>1, <1>2, EndsRecords DEF AuditGrows
<1> QED
  BY <1>1, <1>3, CombineQuiet

\* Time, the authorities, and steps that change nothing.
LEMMA EnvironmentRecords ==
  ASSUME IInv, JInv, Environment \/ UNCHANGED vars
  PROVE  JInv'
<1>1. /\ UNCHANGED <<audit, answer>> /\ \A j \in Invocations : Same(j)
      /\ UNCHANGED items \/ \E r \in RequestIds : ExpireLease(r)
  BY DEF Environment, ExpirePlan, ExpireLease, ChangeAuthority, vars, caller, durable,
         Same
<1>2. \A r \in RequestIds :
        \/ items'[r] = items[r]
        \/ /\ items[r].status = "leased" /\ items'[r].status = "dead_letter"
           /\ items'[r].outcome = items[r].outcome
  BY <1>1 DEF ExpireLease, IInv, TypeOK, ItemTypes
<1>3. AuditGrows /\ OutcomesGrow(None)
  BY <1>1, <1>2 DEF AuditGrows, OutcomesGrow, Terminal
<1>4. \A r \in RequestIds : StoredOf(r)'
  BY <1>2, <1>3, StoredFrame DEF JInv, Stored
<1>5. \A j \in Invocations : RecordsOf(j)'
  BY <1>1, <1>3, RecordsFrame, InvokeAssumption DEF JInv, Records
<1> QED
  BY <1>4, <1>5 DEF JInv, Records, Stored

\* Nothing is stored or told at the start.
LEMMA InitJInv == Init => JInv
<1> SUFFICES ASSUME Init PROVE JInv
  OBVIOUS
<1>1. ASSUME NEW i \in Invocations PROVE RecordsOf(i)
  <2>1. pc[i] = "idle" /\ answer[i] = None /\ sent[i] = None
    BY <1>1 DEF Init
  <2>2. pc[i] \notin Audited /\ pc[i] \notin Executing /\ ~Sent(i)
    BY <2>1 DEF Audited, Journalling, Reserving, Executing, Sent
  <2> QED
    BY <2>1, <2>2 DEF RecordsOf
<1>2. ASSUME NEW r \in RequestIds PROVE StoredOf(r)
  BY <1>2 DEF Init, StoredOf
<1> QED
  BY <1>1, <1>2 DEF JInv, Records, Stored

\* Every step keeps what is stored, audited and told in order.
LEMMA NextJInv == IInv /\ JInv /\ [Next]_vars => JInv'
<1> SUFFICES ASSUME IInv, JInv, [Next]_vars PROVE JInv'
  OBVIOUS
<1>1. ASSUME NEW i \in Invocations, Invoke(i) PROVE JInv'
  BY <1>1, StartRecords, ResolveRecords, ConfirmationGateRecords, IssuePlanRecords,
     BindCallerRecords, AuditPreflightRecords, SubmitRecords, AcquireRecords,
     ExistingRecords, ReplayCompletedRecords, ValidatePlanRecords,
     ConsumePlanRecords, DispatchRecords, DispatchOutcomeRecords, RecordRecords,
     StoreOutcomeRecords, CommitOutcomeRecords, VanishRecords
  DEF Invoke
<1> QED
  BY <1>1, EnvironmentRecords DEF Next

\* What is stored, audited and told is in order in every reachable state.
THEOREM OutcomesHold == Spec => []JInv
  BY InitJInv, NextJInv, InvariantHolds, PTL DEF Spec

\* Whoever is answered OK is told the outcome that EgEffectJournal.complete has
\* stored for good, the caller that made the effect as well as a replay.
THEOREM SuccessIsStored == Spec => []SuccessIsDurable
<1>1. JInv => SuccessIsDurable
  BY DEF JInv, Records, RecordsOf, SuccessIsDurable
<1> QED
  BY <1>1, OutcomesHold, PTL

\* The audit trail leads: no governed dispatch without its reservation in the
\* audit log, no stored outcome without its audit entry.
THEOREM AuditComesFirst == Spec => []AuditLeads
<1>1. JInv => AuditLeads
  BY DEF JInv, Records, RecordsOf, Stored, StoredOf, AuditLeads
<1> QED
  BY <1>1, OutcomesHold, PTL

-------------------------------------------------------------------------------
(* The refinement: every step is a step of EffectOnce, or changes none of   *)
(* its variables.                                                           *)

SentFor(r) == \E i \in Invocations : Sent(i) /\ Owned(i) /\ rid[i] = r

\* The three variables of EffectOnce, as Effect maps them.
BoundOf == [r \in RequestIds |-> items[r].binding]
SentOf == [r \in RequestIds |-> SentFor(r)]
OutcomeOf == [r \in RequestIds |-> items[r].outcome]

AbstractStep == [Effect!EffectNext]_Effect!effectVars

\* Nothing is bound, sent or settled at the start.
LEMMA InitRefines == Init => Effect!EffectInit
<1> SUFFICES ASSUME Init PROVE Effect!EffectInit
  OBVIOUS
<1>1. \A r \in RequestIds : ~SentFor(r)
  BY DEF Init, SentFor, Sent
<1> QED
  BY <1>1 DEF Init, Effect!EffectInit, SentFor

\* A step that leaves the three alone is a stutter.
LEMMA AbstractStutter ==
  ASSUME \A r \in RequestIds :
           /\ items'[r].binding = items[r].binding
           /\ items'[r].outcome = items[r].outcome
           /\ SentFor(r)' = SentFor(r)
  PROVE  AbstractStep
<1>1. UNCHANGED <<BoundOf, OutcomeOf>>
  BY DEF BoundOf, OutcomeOf
<1>2. UNCHANGED SentOf
  BY DEF SentOf
<1> QED
  BY <1>1, <1>2 DEF AbstractStep, Effect!effectVars, BoundOf, OutcomeOf, SentOf, SentFor

\* A key is bound to a request.
LEMMA AbstractBind ==
  ASSUME NEW k \in RequestIds, items[k].binding = None,
         items'[k].binding \in BindingTypes,
         \A r \in RequestIds :
           /\ r # k => items'[r].binding = items[r].binding
           /\ items'[r].outcome = items[r].outcome
           /\ SentFor(r)' = SentFor(r)
  PROVE  AbstractStep
<1>1. UNCHANGED OutcomeOf /\ BoundOf' = [BoundOf EXCEPT ![k] = BoundOf'[k]]
  BY DEF BoundOf, OutcomeOf
<1>2. UNCHANGED SentOf
  BY DEF SentOf
<1>3. BoundOf[k] = None /\ BoundOf'[k] \in BindingTypes
  BY DEF BoundOf
<1>4. Effect!Bind(k)
  BY <1>1, <1>2, <1>3 DEF Effect!Bind, Effect!Only, BoundOf, OutcomeOf, SentOf, SentFor
<1> QED
  BY <1>4 DEF AbstractStep, Effect!EffectNext

\* The effect of a key is sent.
LEMMA AbstractSend ==
  ASSUME NEW k \in RequestIds, items[k].binding # None, items[k].outcome = None,
         ~SentFor(k), SentFor(k)',
         \A r \in RequestIds :
           /\ items'[r].binding = items[r].binding
           /\ items'[r].outcome = items[r].outcome
           /\ r # k => SentFor(r)' = SentFor(r)
  PROVE  AbstractStep
<1>1. UNCHANGED <<BoundOf, OutcomeOf>>
  BY DEF BoundOf, OutcomeOf
<1>2. SentOf' = [SentOf EXCEPT ![k] = TRUE]
  BY DEF SentOf
<1>3. BoundOf[k] # None /\ OutcomeOf[k] = None /\ ~SentOf[k]
  BY DEF BoundOf, OutcomeOf, SentOf
<1>4. Effect!Send(k)
  BY <1>1, <1>2, <1>3 DEF Effect!Send, BoundOf, OutcomeOf, SentOf, SentFor
<1> QED
  BY <1>4 DEF AbstractStep, Effect!EffectNext

\* The outcome of a key is stored.
LEMMA AbstractSettle ==
  ASSUME NEW k \in RequestIds, items[k].binding # None, items[k].outcome = None,
         items'[k].outcome \in DefiniteOutcomes,
         items'[k].outcome.code = "OK" => SentFor(k),
         \A r \in RequestIds :
           /\ items'[r].binding = items[r].binding
           /\ r # k => items'[r].outcome = items[r].outcome
           /\ SentFor(r)' = SentFor(r)
  PROVE  AbstractStep
<1>1. UNCHANGED BoundOf /\ OutcomeOf' = [OutcomeOf EXCEPT ![k] = OutcomeOf'[k]]
  BY DEF BoundOf, OutcomeOf
<1>2. UNCHANGED SentOf
  BY DEF SentOf
<1>3. /\ BoundOf[k] # None /\ OutcomeOf[k] = None
      /\ OutcomeOf'[k] \in DefiniteOutcomes
      /\ OutcomeOf'[k] \in {o \in DefiniteOutcomes : o.code = "OK"} => SentOf[k]
  BY DEF BoundOf, OutcomeOf, SentOf
<1>4. Effect!Settle(k)
  BY <1>1, <1>2, <1>3 DEF Effect!Settle, Effect!Only, BoundOf, OutcomeOf, SentOf, SentFor
<1> QED
  BY <1>4 DEF AbstractStep, Effect!EffectNext

\* What an invocation has sent stays what it is while its request does, and an
\* invocation that sent nothing counts for no key.
SendsAlike(j) ==
  \/ sent[j] = None /\ sent'[j] = None
  \/ /\ sent'[j] = sent[j] /\ req'[j] = req[j]
     /\ effective'[j] = effective[j] /\ rid'[j] = rid[j]

\* What was sent for each key stays the same.
LEMMA SentStays ==
  ASSUME \A j \in Invocations : SendsAlike(j)
  PROVE  \A r : SentFor(r)' = SentFor(r)
<1>1. ASSUME NEW j \in Invocations, NEW r
      PROVE  (Sent(j) /\ Owned(j) /\ rid[j] = r)' <=> (Sent(j) /\ Owned(j) /\ rid[j] = r)
  <2>1. CASE sent[j] = None /\ sent'[j] = None
    BY <2>1 DEF Sent
  <2>2. CASE ~(sent[j] = None /\ sent'[j] = None)
    BY <2>2 DEF SendsAlike, Sent, Owned, Journalled, Governed, NativeReplay, NeedsPlan
  <2> QED
    BY <2>1, <2>2
<1> QED
  BY <1>1 DEF SentFor

\* A step that neither binds, sends nor settles.
LEMMA QuietRefines ==
  ASSUME \A j \in Invocations : SendsAlike(j),
         \A r \in RequestIds : /\ items'[r].binding = items[r].binding
                               /\ items'[r].outcome = items[r].outcome
  PROVE  AbstractStep
BY SentStays, AbstractStutter

\* submit binds the key to the request, or finds it bound.
LEMMA SubmitRefines ==
  ASSUME IInv, JInv, NEW i \in Invocations, Submit(i)
  PROVE  AbstractStep
<1>1. /\ UNCHANGED <<req, effective, rid, sent>> /\ TypeOK /\ ShapeOf(i)
      /\ pc[i] = "submit"
  BY DEF Submit, IInv, Shape
<1>2. \A j \in Invocations : SendsAlike(j)
  BY <1>1 DEF SendsAlike
<1>3. rid[i] \in RequestIds /\ BoundTo(i) \in BindingTypes
  BY <1>1 DEF ShapeOf, Reserving, BoundTo, Binding, BindingTypes, ReqTypes, EffTypes
<1>4. CASE UNCHANGED items
  BY <1>2, <1>4, QuietRefines
<1>5. CASE /\ items[rid[i]].status = "absent"
           /\ items' = [items EXCEPT ![rid[i]] =
                          [status |-> "ready", binding |-> BoundTo(i),
                           holder |-> i, outcome |-> None]]
  <2>1. items[rid[i]].binding = None /\ items[rid[i]].outcome = None
    BY <1>3, <1>5 DEF JInv, Stored, StoredOf
  <2>2. /\ items'[rid[i]].binding = BoundTo(i) /\ items'[rid[i]].outcome = None
        /\ \A r \in RequestIds : r # rid[i] => items'[r] = items[r]
    BY <1>1, <1>3, <1>5 DEF TypeOK
  <2> QED
    BY <1>2, <1>3, <2>1, <2>2, SentStays, AbstractBind
<1> QED
  BY <1>4, <1>5 DEF Submit

\* runtime.dispatch sends the effect of a journalled call, once: the work item
\* has one holder, and no outcome yet.
LEMMA DispatchRefines ==
  ASSUME IInv, JInv, NEW i \in Invocations, Dispatch(i)
  PROVE  AbstractStep
<1>1. /\ UNCHANGED <<req, effective, rid, items>> /\ TypeOK /\ ShapeOf(i) /\ HoldsOf(i)
      /\ RecordsOf(i) /\ pc[i] = "dispatch"
  BY DEF Dispatch, durable, IInv, Shape, Holds, JInv, Records
<1>2. CASE UNCHANGED sent
  <2>1. \A j \in Invocations : SendsAlike(j)
    BY <1>1, <1>2 DEF SendsAlike
  <2> QED
    BY <1>1, <2>1, QuietRefines
<1>3. CASE sent' = [sent EXCEPT ![i] = Binding(req[i], rev, EffectiveOp(req[i].op))]
  <2>1. /\ sent[i] = None /\ sent'[i] # None
        /\ \A j \in Invocations : j # i => sent'[j] = sent[j]
    BY <1>1, <1>3, SentType DEF TypeOK, ShapeOf, Unsent, Labels
  <2>2. \A j \in Invocations : Owned(j)' = Owned(j)
    BY <1>1 DEF Owned, Journalled, Governed, NativeReplay, NeedsPlan
  <2>3. \A j \in Invocations : j # i => Sent(j)' = Sent(j)
    BY <2>1 DEF Sent
  <2>4. Sent(i)' /\ ~Sent(i)
    BY <2>1 DEF Sent
  <2>5. CASE ~Owned(i)
    <3>1. \A r : SentFor(r)' = SentFor(r)
      BY <1>1, <2>2, <2>3, <2>5 DEF SentFor
    <3> QED
      BY <1>1, <3>1, AbstractStutter
  <2>6. CASE Owned(i)
    <3>1. pc[i] \in Executing /\ Journalled(i) /\ rid[i] # None
      BY <1>1, <2>6 DEF Executing, Owned
    <3>2. PICK k \in RequestIds : k = rid[i]
      BY <1>1, <3>1 DEF ShapeOf
    <3>3. items[k].holder = i /\ items[k].binding = BoundTo(i) /\ items[k].outcome = None
      BY <1>1, <3>1, <3>2 DEF HoldsOf, RecordsOf
    <3>4. items[k].binding # None
      <4>1. BoundTo(i) \in BindingTypes
        BY <1>1 DEF ShapeOf, Resolved, Labels, BoundTo, Binding, BindingTypes,
                    ReqTypes, EffTypes
      <4> QED
        BY <3>3, <4>1, RecordsAssumption
    <3>5. ~SentFor(k)
      <4> SUFFICES ASSUME NEW j \in Invocations, Sent(j), Owned(j), rid[j] = k
                   PROVE  FALSE
        BY DEF SentFor
      <4>1. items[k].holder = j
        BY DEF IInv, Holds, HoldsOf
      <4> QED
        BY <2>4, <3>3, <4>1
    <3>6. SentFor(k)'
      BY <1>1, <2>2, <2>4, <2>6, <3>2 DEF SentFor
    <3>7. \A r \in RequestIds : r # k => SentFor(r)' = SentFor(r)
      BY <1>1, <2>2, <2>3, <3>2 DEF SentFor
    <3> QED
      BY <1>1, <3>3, <3>4, <3>5, <3>6, <3>7, AbstractSend
  <2> QED
    BY <2>5, <2>6
<1> QED
  BY <1>2, <1>3 DEF Dispatch

\* cas_metadata settles the key with an outcome that is definite and that says
\* OK only if the effect was sent.
LEMMA StoreOutcomeRefines ==
  ASSUME IInv, JInv, NEW i \in Invocations, StoreOutcome(i)
  PROVE  AbstractStep
<1>1. /\ UNCHANGED <<req, effective, rid, sent>> /\ TypeOK /\ ShapeOf(i) /\ HoldsOf(i)
      /\ RecordsOf(i) /\ pc[i] = "store"
  BY DEF StoreOutcome, IInv, Shape, Holds, JInv, Records
<1>2. \A j \in Invocations : SendsAlike(j)
  BY <1>1 DEF SendsAlike
<1>3. CASE UNCHANGED items
  BY <1>2, <1>3, QuietRefines
<1>4. CASE items' = [items EXCEPT ![rid[i]].outcome = result[i]]
  <2> DEFINE k == rid[i]
  <2>1. /\ k \in RequestIds /\ items[k].binding = BoundTo(i) /\ items[k].outcome = None
        /\ result[i] \in Outcomes /\ result[i].code \notin Uncertain
        /\ Journalled(i) /\ rid[i] # None
    BY <1>1 DEF ShapeOf, HoldsOf, RecordsOf, Holding, Reserving, Journalling
  <2>2. items[k].binding # None
    <3>1. BoundTo(i) \in BindingTypes
      BY <1>1 DEF ShapeOf, Resolved, Labels, BoundTo, Binding, BindingTypes,
                  ReqTypes, EffTypes
    <3> QED
      BY <2>1, <3>1, RecordsAssumption
  <2>3. result[i] \in DefiniteOutcomes
    BY <2>1 DEF DefiniteOutcomes, Outcomes, Uncertain
  <2>4. result[i].code = "OK" => SentFor(k)
    BY <1>1, <2>1 DEF RecordsOf, SentFor, Owned
  <2>5. /\ items'[k].outcome = result[i] /\ items'[k].binding = items[k].binding
        /\ \A r \in RequestIds : r # k => items'[r] = items[r]
    BY <1>1, <1>4, <2>1 DEF TypeOK, ItemTypes
  <2> HIDE DEF k
  <2> QED
    BY <1>2, <2>1, <2>2, <2>3, <2>4, <2>5, SentStays, AbstractSettle
<1> QED
  BY <1>3, <1>4 DEF StoreOutcome

\* Every step of the pipeline is a step of EffectOnce or a stutter.
LEMMA NextRefines == IInv /\ JInv /\ [Next]_vars => AbstractStep
<1> SUFFICES ASSUME IInv, JInv, [Next]_vars PROVE AbstractStep
  OBVIOUS
<1> TypeOK
  BY DEF IInv
<1>1. ASSUME NEW i \in Invocations, Start(i) \/ Resolve(i) \/ BindCaller(i)
      PROVE  AbstractStep
  <2>1. ShapeOf(i)
    BY DEF IInv, Shape
  <2>2. UNCHANGED <<items, sent>> /\ sent[i] = None
        /\ \A j \in Invocations : j # i => Same(j)
    BY <1>1, <2>1 DEF Start, Resolve, BindCaller, Go, Finish, authority, durable, Same,
                      TypeOK, ShapeOf, Unsent, Labels
  <2>3. \A j \in Invocations : SendsAlike(j)
    BY <2>2 DEF SendsAlike, Same
  <2> QED
    BY <2>2, <2>3, QuietRefines
<1>2. ASSUME NEW i \in Invocations,
             \/ ConfirmationGate(i) \/ IssuePlan(i) \/ AuditPreflight(i)
             \/ Existing(i) \/ ReplayCompleted(i) \/ ValidatePlan(i)
             \/ ConsumePlan(i) \/ DispatchOutcome(i) \/ Record(i) \/ Vanish(i)
      PROVE  AbstractStep
  <2>1. UNCHANGED <<items, sent, req, effective, rid>>
    BY <1>2 DEF ConfirmationGate, IssuePlan, AuditPreflight, Existing,
                ReplayCompleted, ValidatePlan, ConsumePlan, DispatchOutcome, Record,
                Vanish, durable
  <2> QED
    BY <2>1, QuietRefines DEF SendsAlike
<1>3. ASSUME NEW i \in Invocations, Acquire(i) \/ CommitOutcome(i)
      PROVE  AbstractStep
  <2>1. UNCHANGED <<sent, req, effective, rid>> /\ rid[i] \in RequestIds
    BY <1>3 DEF Acquire, CommitOutcome, IInv, Shape, ShapeOf, Reserving
  <2>2. \A r \in RequestIds : /\ items'[r].binding = items[r].binding
                              /\ items'[r].outcome = items[r].outcome
    BY <1>3, <2>1 DEF Acquire, CommitOutcome, TypeOK, ItemTypes
  <2> QED
    BY <2>1, <2>2, QuietRefines DEF SendsAlike
<1>4. CASE Environment \/ UNCHANGED vars
  <2>1. UNCHANGED <<sent, req, effective, rid>>
        /\ (UNCHANGED items \/ \E r \in RequestIds : ExpireLease(r))
    BY <1>4 DEF Environment, ExpirePlan, ExpireLease, ChangeAuthority, vars, caller,
                durable
  <2>2. \A r \in RequestIds : /\ items'[r].binding = items[r].binding
                              /\ items'[r].outcome = items[r].outcome
    BY <2>1 DEF ExpireLease, TypeOK, ItemTypes
  <2> QED
    BY <2>1, <2>2, QuietRefines DEF SendsAlike
<1>5. ASSUME NEW i \in Invocations, Invoke(i)
      PROVE  AbstractStep
  BY <1>1, <1>2, <1>3, <1>5, SubmitRefines, DispatchRefines, StoreOutcomeRefines
  DEF Invoke
<1> QED
  BY <1>4, <1>5 DEF Next

\* The pipeline and EG's work items implement the promise of the effect-owner
\* port (EffectJournal): each key is bound once, sent at most once and settled
\* at most once, and never sent after it is settled.
THEOREM PipelineImplementsPort == Spec => ImplementsEffectOnce
<1>1. Init => Effect!EffectInit
  BY InitRefines
<1>2. IInv /\ JInv /\ [Next]_vars => [Effect!EffectNext]_Effect!effectVars
  BY NextRefines DEF AbstractStep
<1> QED
  BY <1>1, <1>2, InvariantHolds, OutcomesHold, PTL
  DEF Spec, ImplementsEffectOnce, Effect!EffectSpec
===============================================================================
