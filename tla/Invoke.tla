-------------------------------- MODULE Invoke --------------------------------
(***************************************************************************)
(* The operation chokepoint of Arbora: arbora/api/invoke/pipeline.py with   *)
(* the confirmation leases of plan.py, the audit adapter of eg_audit.py and *)
(* the durable effect owner of arbora/mcp_server/effect_journal.py.         *)
(*                                                                          *)
(* Every value of pc names the await an invocation is suspended at, so the  *)
(* invocations interleave exactly where the code yields.  The plan leases,  *)
(* the work items and the audit log belong to epistemic-graph (EG), outside *)
(* this repository, and outlive the process: a call to EG can fail before   *)
(* or after it took effect, and an invocation can vanish at any await.      *)
(*                                                                          *)
(* Digests are the values they digest.  One policy revision stands for the  *)
(* facts that verify_current compares (policy revision, scopes, registry    *)
(* digest).  The policy gate can refuse at every check, whatever it said    *)
(* before, so it keeps no state here.                                       *)
(***************************************************************************)
EXTENDS Naturals, FiniteSets

CONSTANTS
  Invocations,     \* calls of invoke, in every process and on every surface
  Requests,        \* what callers ask for (see RequestTypes)
  Ops,             \* operation ids of the registry
  Operation,       \* Operation[o]: the registry entry and the replay owner of o
  FleetCall,       \* the operation whose authority is the live catalog's
  Decisions,       \* the effect and confirmation the catalog can give a tool
  Principals, Args, Keys, PlanRefs,
  MaxRev,          \* bound: how often the caller's authority changes
  None             \* Python's None

Effects  == {"read", "write", "destructive", "admin"}
Confirms == {"none", "plan", "console"}

\* The codes of OpResult and OpError, those that every step treats alike under
\* one name: POLICY_DENIED also stands for UNAUTHENTICATED, SCOPE_REQUIRED and
\* SUBJECT_ACCESS_DENIED, UNAVAILABLE for POLICY_UNAVAILABLE and for an owner's
\* own error, INVALID_ARGUMENT for UNKNOWN_OP and SURFACE_NOT_ALLOWED.
Codes ==
  {"OK", "CONFIRMATION_REQUIRED", "STEP_UP_REQUIRED", "INVALID_ARGUMENT",
   "POLICY_DENIED", "UNAVAILABLE", "PLAN_MISMATCH", "PLAN_STALE",
   "PLAN_EXPIRED", "PRINCIPAL_NOT_ALLOWED", "INDETERMINATE", "TIMEOUT",
   "INTERNAL"}

RequestTypes ==
  [op : Ops, args : Args, principal : Principals, key : Keys \cup {None},
   plan : PlanRefs \cup {None}, intent : BOOLEAN, console : BOOLEAN]

\* _request_caller: a retry of the same call has the same identity.
Sources ==
  ({"plan"} \X PlanRefs) \cup ({"key"} \X Keys) \cup
  ({"natural"} \X Args) \cup ({"request"} \X Invocations)

RequestIds == Principals \X Ops \X Sources

ASSUME InvokeAssumption ==
  /\ Requests \subseteq RequestTypes
  /\ Decisions \subseteq [effect : Effects, confirm : Confirms]
  /\ Decisions # {}
  /\ Operation \in [Ops -> [effect : Effects, confirm : Confirms,
                            natural : BOOLEAN, native : BOOLEAN,
                            external : BOOLEAN]]
  /\ MaxRev \in Nat
  /\ None \notin Keys \cup PlanRefs \cup Invocations \cup Args \cup Codes
  /\ None \notin RequestIds

VARIABLES
  pc,          \* the await each invocation is at
  req,         \* its request and the authority revision it was verified with
  effective,   \* the effect and confirmation it resolved its operation to
  rid,         \* its audit and journal identity (request_id)
  result,      \* the outcome it is about to record
  answer,      \* what its caller was told
  rev, meta,               \* authority facts: revision, catalog decision
  plans, items, audit,     \* EG: plan leases, work items, audit entries
  sent                     \* history: the facts each dispatch was made under

caller == <<pc, req, effective, rid, result, answer>>
authority == <<rev, meta>>
durable == <<plans, items, audit>>
vars == <<pc, req, effective, rid, result, answer, rev, meta,
          plans, items, audit, sent>>

-------------------------------------------------------------------------------
(* Identities, bindings and operations.                                     *)

Binding(r, v, e) ==
  [op |-> r.op, args |-> r.args, principal |-> r.principal, rev |-> v,
   effect |-> e.effect, confirm |-> e.confirm]

BindingTypes ==
  [op : Ops, args : Args, principal : Principals, rev : 0..MaxRev,
   effect : Effects, confirm : Confirms]

BoundTo(i) == Binding(req[i], req[i].rev, effective[i])

\* _effective_op: fleet.call takes its effect from the live catalog.
EffectiveOp(o) ==
  IF o = FleetCall THEN meta
  ELSE [effect |-> Operation[o].effect, confirm |-> Operation[o].confirm]

NeedsPlan(i) ==
  \/ effective[i].confirm \in {"plan", "console"}
  \/ effective[i].effect = "write" /\ req[i].intent

ExternalReplay(i) == Operation[req[i].op].external
NativeReplay(i) == Operation[req[i].op].native /\ ~NeedsPlan(i)
Governed(i) == effective[i].effect # "read" \/ req[i].op = FleetCall
\* _reserve takes a reservation for every governed call without native replay.
Journalled(i) == Governed(i) /\ ~NativeReplay(i)

\* Mutation: an indeterminate dispatch counts as settled.
UncertainTimeoutOnly == {"TIMEOUT"}

Uncertain == {"INDETERMINATE", "TIMEOUT"}

\* An OpResult or an OpError; by tells the values of two dispatches apart.
Outcomes == [code : Codes, by : Invocations]
Outcome(c, i) == [code |-> c, by |-> i]

\* Neither a binding nor an outcome is None.
ASSUME RecordsAssumption == None \notin BindingTypes /\ None \notin Outcomes

-------------------------------------------------------------------------------
Go(i, l) == pc' = [pc EXCEPT ![i] = l]

Finish(i, o) ==
  /\ pc' = [pc EXCEPT ![i] = "done"]
  /\ answer' = [answer EXCEPT ![i] = o]

Current(i) == rev = req[i].rev

\* What _refresh, _base_authority and _authorize can refuse with: a fact that
\* changed, or an authority that does not answer.
AuthorityRefusals ==
  {"POLICY_DENIED", "UNAVAILABLE"}

\* Mutation: the recheck forgets that the catalog can change.
RecheckedIdentityOnly(i) == Current(i)

\* _recheck also compares the decision the call was resolved with.
Rechecked(i) ==
  /\ Current(i)
  /\ EffectiveOp(req[i].op) = effective[i]

-------------------------------------------------------------------------------
(* Requests: invoke up to _bind_caller.                                     *)

\* The registry lookup, _static_refusal and _arguments come before any await.
Start(i) ==
  /\ pc[i] = "idle"
  /\ \E r \in Requests :
       req' = [req EXCEPT ![i] =
                 [op |-> r.op, args |-> r.args, principal |-> r.principal,
                  key |-> r.key, plan |-> r.plan, intent |-> r.intent,
                  console |-> r.console, rev |-> rev]]
  /\ \/ Go(i, "resolve") /\ UNCHANGED answer
     \/ Finish(i, Outcome("INVALID_ARGUMENT", i))
  /\ UNCHANGED <<effective, rid, result, authority, durable, sent>>

Resolve(i) ==
  /\ pc[i] = "resolve"
  /\ \/ /\ Current(i)
        /\ effective' = [effective EXCEPT ![i] = EffectiveOp(req[i].op)]
        /\ Go(i, "gate")
        /\ UNCHANGED answer
     \/ /\ \E c \in AuthorityRefusals : Finish(i, Outcome(c, i))
        /\ UNCHANGED effective
  /\ UNCHANGED <<req, rid, result, authority, durable, sent>>

MissingKey(i) ==
  /\ effective[i].effect = "write"
  /\ ~Operation[req[i].op].natural
  /\ req[i].key = None
  /\ req[i].plan = None

\* The refusals of _request_refusal, a plan to preview, or _execution_refusal.
GateRefusal(i) ==
  IF req[i].plan # None /\ ~NeedsPlan(i) THEN "PLAN_MISMATCH"
  ELSE IF NeedsPlan(i) /\ ~ExternalReplay(i) THEN "UNAVAILABLE"
  ELSE IF NeedsPlan(i) /\ req[i].plan = None THEN None
  ELSE IF effective[i].confirm = "console" /\ ~req[i].console
       THEN "PRINCIPAL_NOT_ALLOWED"
  ELSE IF MissingKey(i) THEN "INVALID_ARGUMENT"
  ELSE IF Journalled(i) /\ ~ExternalReplay(i) THEN "UNAVAILABLE"
  ELSE None

ConfirmationGate(i) ==
  /\ pc[i] = "gate"
  /\ IF GateRefusal(i) # None
     THEN Finish(i, Outcome(GateRefusal(i), i))
     ELSE /\ Go(i, IF NeedsPlan(i) /\ req[i].plan = None THEN "issue" ELSE "bind")
          /\ UNCHANGED answer
  /\ UNCHANGED <<req, effective, rid, result, authority, durable, sent>>

\* EgPlanStore.issue under a fresh random reference; the call can fail before
\* or after EG stored the lease.
IssuePlan(i) ==
  /\ pc[i] = "issue"
  /\ \/ \E p \in PlanRefs :
          /\ plans[p].status = "free"
          /\ plans' = [plans EXCEPT ![p] = [status |-> "active",
                                            binding |-> BoundTo(i)]]
          /\ \/ Finish(i, Outcome(IF effective[i].confirm = "console"
                                  THEN "STEP_UP_REQUIRED"
                                  ELSE "CONFIRMATION_REQUIRED", i))
             \/ Finish(i, Outcome("UNAVAILABLE", i))
     \/ Finish(i, Outcome("UNAVAILABLE", i)) /\ UNCHANGED plans
  /\ UNCHANGED <<req, effective, rid, result, authority, items, audit, sent>>

\* Mutation: the idempotency key wins over the plan.
SourceKeyFirst(i) ==
  IF req[i].key # None THEN <<"key", req[i].key>>
  ELSE IF req[i].plan # None THEN <<"plan", req[i].plan>>
  ELSE <<"request", i>>

Source(i) ==
  IF req[i].plan # None THEN <<"plan", req[i].plan>>
  ELSE IF req[i].key # None THEN <<"key", req[i].key>>
  ELSE IF Operation[req[i].op].natural THEN <<"natural", req[i].args>>
  ELSE <<"request", i>>

RequestId(i) == <<req[i].principal, req[i].op, Source(i)>>

Keyless(i) ==
  /\ req[i].plan = None /\ req[i].key = None
  /\ ~Operation[req[i].op].natural
  /\ effective[i].effect # "read"

\* _execute consumes the plan, if there is one, before it dispatches.
AfterReserve(i) == IF NeedsPlan(i) THEN "plan" ELSE "dispatch"

BindCaller(i) ==
  /\ pc[i] = "bind"
  /\ \/ /\ Governed(i) /\ Keyless(i)
        /\ Finish(i, Outcome("INVALID_ARGUMENT", i))
        /\ UNCHANGED rid
     \/ /\ ~(Governed(i) /\ Keyless(i))
        /\ Current(i)
        /\ rid' = IF Governed(i) THEN [rid EXCEPT ![i] = RequestId(i)] ELSE rid
        /\ Go(i, IF Governed(i) THEN "preflight" ELSE AfterReserve(i))
        /\ UNCHANGED answer
     \/ /\ ~(Governed(i) /\ Keyless(i))
        /\ Finish(i, Outcome("POLICY_DENIED", i))
        /\ UNCHANGED rid
  /\ UNCHANGED <<req, effective, result, authority, durable, sent>>

-------------------------------------------------------------------------------
(* Reservations: _reserve and EgEffectJournal.reserve.                      *)

AuditPreflight(i) ==
  /\ pc[i] = "preflight"
  /\ \/ /\ audit' = [audit EXCEPT ![rid[i]] = IF @ = "none" THEN "reserved" ELSE @]
        /\ \/ /\ Go(i, IF NativeReplay(i) THEN AfterReserve(i) ELSE "submit")
              /\ UNCHANGED answer
           \/ Finish(i, Outcome("UNAVAILABLE", i))
     \/ Finish(i, Outcome("UNAVAILABLE", i)) /\ UNCHANGED audit
  /\ UNCHANGED <<req, effective, rid, result, authority, plans, items, sent>>

\* work_items.submit: EG creates an item once per idempotency key.  A replay
\* and an idempotency conflict both lead to the stored item.
Submit(i) ==
  /\ pc[i] = "submit"
  /\ \/ /\ items[rid[i]].status = "absent"
        /\ items' = [items EXCEPT ![rid[i]] =
                       [status |-> "ready", binding |-> BoundTo(i),
                        holder |-> i, outcome |-> None]]
        /\ \/ Go(i, "claim") /\ UNCHANGED answer
           \/ Finish(i, Outcome("UNAVAILABLE", i))
     \/ /\ items[rid[i]].status # "absent"
        /\ Go(i, "existing")
        /\ UNCHANGED <<items, answer>>
     \/ Finish(i, Outcome("UNAVAILABLE", i)) /\ UNCHANGED items
  /\ UNCHANGED <<req, effective, rid, result, authority, plans, audit, sent>>

\* _acquire: only the invocation that created the item tries to lease it.
Acquire(i) ==
  /\ pc[i] = "claim"
  /\ \/ /\ items[rid[i]].status = "ready"
        /\ items' = [items EXCEPT ![rid[i]].status = "leased"]
        /\ \/ Go(i, AfterReserve(i)) /\ UNCHANGED answer
           \/ Finish(i, Outcome("UNAVAILABLE", i))
     \/ /\ \E c \in {"INDETERMINATE", "UNAVAILABLE"} : Finish(i, Outcome(c, i))
        /\ UNCHANGED items
  /\ UNCHANGED <<req, effective, rid, result, authority, plans, audit, sent>>

Terminal == {"succeeded", "failed", "dead_letter"}

\* Mutation: a pending item of the same binding is taken over.
ExistingReacquires(i) ==
  /\ pc[i] = "existing"
  /\ items[rid[i]].binding = BoundTo(i)
  /\ Go(i, "dispatch")
  /\ UNCHANGED <<req, effective, rid, result, answer, authority, durable, sent>>

\* _existing: the stored item decides, and is never acquired again.
Existing(i) ==
  /\ pc[i] = "existing"
  /\ LET item == items[rid[i]] IN
       \/ /\ item.binding # BoundTo(i)
          /\ Finish(i, Outcome("INVALID_ARGUMENT", i))
          /\ UNCHANGED result
       \/ /\ item.binding = BoundTo(i)
          /\ item.status \in Terminal /\ item.outcome # None
          /\ result' = [result EXCEPT ![i] = item.outcome]
          /\ Go(i, "replay")
          /\ UNCHANGED answer
       \/ /\ item.binding = BoundTo(i)
          /\ ~(item.status \in Terminal /\ item.outcome # None)
          /\ Finish(i, Outcome("INDETERMINATE", i))
          /\ UNCHANGED result
       \/ Finish(i, Outcome("UNAVAILABLE", i)) /\ UNCHANGED result
  /\ UNCHANGED <<req, effective, rid, authority, durable, sent>>

\* _replay_completed: a stored outcome is told under current authority only.
ReplayCompleted(i) ==
  /\ pc[i] = "replay"
  /\ \/ Rechecked(i) /\ Go(i, "record_replay") /\ UNCHANGED answer
     \/ \E c \in AuthorityRefusals : Finish(i, Outcome(c, i))
  /\ UNCHANGED <<req, effective, rid, result, authority, durable, sent>>

-------------------------------------------------------------------------------
(* Execution: _execute, EgPlanStore.consume and _dispatch_outcome.          *)

Settled(i, o) ==
  /\ result' = [result EXCEPT ![i] = o]
  /\ Go(i, IF Journalled(i) THEN "record" ELSE "record_audit")

\* Mutation: a live plan is good for any request.
PlanRefusalUnbound(i) ==
  IF plans[req[i].plan].status = "active" THEN None ELSE "PLAN_EXPIRED"

PlanRefusal(i) ==
  LET plan == plans[req[i].plan] IN
    IF plan.status = "free" THEN "PLAN_MISMATCH"
    ELSE IF plan.status # "active" THEN "PLAN_EXPIRED"
    ELSE IF plan.binding.rev # req[i].rev THEN "PLAN_STALE"
    ELSE IF plan.binding # BoundTo(i) THEN "PLAN_MISMATCH"
    ELSE None

\* _effect and EgPlanStore.validate.  The console's MFA can have grown stale
\* since the gate; the lease read can fail.
ValidatePlan(i) ==
  /\ pc[i] = "plan"
  /\ \/ /\ PlanRefusal(i) = None
        /\ Go(i, "consume")
        /\ UNCHANGED result
     \/ PlanRefusal(i) # None /\ Settled(i, Outcome(PlanRefusal(i), i))
     \/ Settled(i, Outcome("UNAVAILABLE", i))
     \/ /\ effective[i].confirm = "console"
        /\ Settled(i, Outcome("PRINCIPAL_NOT_ALLOWED", i))
  /\ UNCHANGED <<req, effective, rid, answer, authority, durable, sent>>

\* leases.transition: a compare-and-swap on the revision read.  EG may answer
\* a repeated transition under the same idempotency key as applied again.
ConsumePlan(i) ==
  /\ pc[i] = "consume"
  /\ \/ /\ plans[req[i].plan].status \in {"active", "consumed"}
        /\ plans' = [plans EXCEPT ![req[i].plan].status = "consumed"]
        /\ \/ Go(i, "dispatch") /\ UNCHANGED result
           \/ Settled(i, Outcome("UNAVAILABLE", i))
     \/ /\ plans[req[i].plan].status # "active"
        /\ Settled(i, Outcome("PLAN_EXPIRED", i))
        /\ UNCHANGED plans
     \/ Settled(i, Outcome("UNAVAILABLE", i)) /\ UNCHANGED plans
  /\ UNCHANGED <<req, effective, rid, answer, authority, items, audit, sent>>

Unsettled(i, c) == Outcome(IF Governed(i) THEN "INDETERMINATE" ELSE c, i)

\* _dispatch up to runtime.dispatch: the last thing awaited is the recheck.
Dispatch(i) ==
  /\ pc[i] = "dispatch"
  /\ \/ /\ Rechecked(i)
        /\ sent' = [sent EXCEPT ![i] =
                      Binding(req[i], rev, EffectiveOp(req[i].op))]
        /\ Go(i, "running")
        /\ UNCHANGED result
     \/ /\ \E c \in AuthorityRefusals : Settled(i, Outcome(c, i))
        /\ UNCHANGED sent
     \/ /\ \E c \in {"TIMEOUT", "INTERNAL"} : Settled(i, Unsettled(i, c))
        /\ UNCHANGED sent
  /\ UNCHANGED <<req, effective, rid, answer, authority, durable>>

\* What the owner's answer, its refusal, an exception, the dispatch timeout or
\* the caller's cancellation make of a dispatch.
DispatchOutcome(i) ==
  /\ pc[i] = "running"
  /\ \/ Settled(i, Outcome("OK", i))
     \/ \E c \in {"POLICY_DENIED", "UNAVAILABLE", "TIMEOUT"} :
          Settled(i, Outcome(c, i))
     \/ \E c \in {"TIMEOUT", "INTERNAL"} : Settled(i, Unsettled(i, c))
  /\ UNCHANGED <<req, effective, rid, answer, authority, durable, sent>>

-------------------------------------------------------------------------------
(* Outcomes: _record, EgAuditAdapter.write and EgEffectJournal.complete.    *)

AuditStatus(o) ==
  IF o.code = "OK" THEN "ok"
  ELSE IF o.code \in {"POLICY_DENIED", "PRINCIPAL_NOT_ALLOWED"} THEN "denied"
  ELSE "error"

Recording == {"record", "record_audit", "record_replay"}

\* Mutation: the effect is completed without its audit entry.
RecordUnaudited(i) ==
  /\ pc[i] \in Recording
  /\ \/ pc[i] = "record" /\ Go(i, "store") /\ UNCHANGED answer
     \/ pc[i] # "record" /\ Finish(i, result[i])
  /\ UNCHANGED <<req, effective, rid, result, authority, durable, sent>>

\* The audit write comes first; EG links one outcome to a reservation.
Record(i) ==
  /\ pc[i] \in Recording
  /\ \/ /\ ~Governed(i) \/ result[i].code \in Uncertain
        /\ Finish(i, result[i])
        /\ UNCHANGED audit
     \/ /\ Governed(i) /\ result[i].code \notin Uncertain
        /\ \/ /\ audit[rid[i]] \in {"reserved", AuditStatus(result[i])}
              /\ audit' = [audit EXCEPT ![rid[i]] = AuditStatus(result[i])]
              /\ \/ /\ pc[i] = "record"
                    /\ Go(i, "store")
                    /\ UNCHANGED answer
                 \/ /\ pc[i] # "record"
                    /\ Finish(i, result[i])
                 \/ Finish(i, Outcome("INDETERMINATE", i))
           \/ Finish(i, Outcome("INDETERMINATE", i)) /\ UNCHANGED audit
  /\ UNCHANGED <<req, effective, rid, result, authority, plans, items, sent>>

LeasedBy(i) == items[rid[i]].status = "leased" /\ items[rid[i]].holder = i

\* Mutation: the caller gets its result although it could not be stored.
StoreOutcomeOptimistic(i) ==
  /\ pc[i] = "store"
  /\ Finish(i, result[i])
  /\ UNCHANGED <<req, effective, rid, result, authority, durable, sent>>

\* complete, first half: cas_metadata under the lease fence.
StoreOutcome(i) ==
  /\ pc[i] = "store"
  /\ \/ /\ LeasedBy(i)
        /\ items' = [items EXCEPT ![rid[i]].outcome = result[i]]
        /\ \/ Go(i, "commit") /\ UNCHANGED answer
           \/ Finish(i, Outcome("INDETERMINATE", i))
     \/ Finish(i, Outcome("INDETERMINATE", i)) /\ UNCHANGED items
  /\ UNCHANGED <<req, effective, rid, result, authority, plans, audit, sent>>

\* complete, second half: commit_result under the lease fence.
CommitOutcome(i) ==
  /\ pc[i] = "commit"
  /\ \/ /\ LeasedBy(i)
        /\ items' = [items EXCEPT ![rid[i]].status =
                       IF result[i].code = "OK" THEN "succeeded" ELSE "failed"]
        /\ \/ Finish(i, result[i])
           \/ Finish(i, Outcome("INDETERMINATE", i))
     \/ Finish(i, Outcome("INDETERMINATE", i)) /\ UNCHANGED items
  /\ UNCHANGED <<req, effective, rid, result, authority, plans, audit, sent>>

\* A crash of the process, or a cancellation at an await that no handler
\* covers: the invocation is gone and its caller is told nothing.
Vanish(i) ==
  /\ pc[i] \notin {"idle", "done", "gone"}
  /\ Go(i, "gone")
  /\ UNCHANGED <<req, effective, rid, result, answer, authority, durable, sent>>

-------------------------------------------------------------------------------
(* The environment: time and the authorities.                               *)

ExpirePlan(p) ==
  /\ plans[p].status = "active"
  /\ plans' = [plans EXCEPT ![p].status = "expired"]
  /\ UNCHANGED <<caller, authority, items, audit, sent>>

\* The day-long lease of the single attempt runs out.
ExpireLease(r) ==
  /\ items[r].status = "leased"
  /\ items' = [items EXCEPT ![r].status = "dead_letter"]
  /\ UNCHANGED <<caller, authority, plans, audit, sent>>

ChangeAuthority ==
  /\ \/ rev < MaxRev /\ rev' = rev + 1 /\ UNCHANGED meta
     \/ meta' \in Decisions /\ UNCHANGED rev
  /\ UNCHANGED <<caller, durable, sent>>

-------------------------------------------------------------------------------
Labels ==
  {"idle", "resolve", "gate", "issue", "bind", "preflight", "submit",
   "claim", "existing", "replay", "record_replay", "plan", "consume", "dispatch",
   "running", "record", "record_audit", "store", "commit", "done", "gone"}

Init ==
  /\ pc = [i \in Invocations |-> "idle"]
  /\ req = [i \in Invocations |-> None]
  /\ effective = [i \in Invocations |-> None]
  /\ rid = [i \in Invocations |-> None]
  /\ result = [i \in Invocations |-> None]
  /\ answer = [i \in Invocations |-> None]
  /\ rev = 0 /\ meta \in Decisions
  /\ plans = [p \in PlanRefs |-> [status |-> "free", binding |-> None]]
  /\ items = [r \in RequestIds |-> [status |-> "absent", binding |-> None,
                                    holder |-> None, outcome |-> None]]
  /\ audit = [r \in RequestIds |-> "none"]
  /\ sent = [i \in Invocations |-> None]

Invoke(i) ==
  \/ Start(i) \/ Resolve(i) \/ ConfirmationGate(i)
  \/ IssuePlan(i) \/ BindCaller(i)
  \/ AuditPreflight(i) \/ Submit(i) \/ Acquire(i) \/ Existing(i)
  \/ ReplayCompleted(i) \/ ValidatePlan(i) \/ ConsumePlan(i)
  \/ Dispatch(i) \/ DispatchOutcome(i)
  \/ Record(i) \/ StoreOutcome(i) \/ CommitOutcome(i)
  \/ Vanish(i)

Environment ==
  \/ \E p \in PlanRefs : ExpirePlan(p)
  \/ \E r \in RequestIds : ExpireLease(r)
  \/ ChangeAuthority

Next == (\E i \in Invocations : Invoke(i)) \/ Environment

Spec == Init /\ [][Next]_vars

-------------------------------------------------------------------------------
(* What makes the chokepoint correct.                                       *)

ReqTypes ==
  [op : Ops, args : Args, principal : Principals, key : Keys \cup {None},
   plan : PlanRefs \cup {None}, intent : BOOLEAN, console : BOOLEAN,
   rev : 0..MaxRev]

PlanTypes == [status : {"free", "active", "consumed", "expired"},
              binding : BindingTypes \cup {None}]

ItemTypes == [status : {"absent", "ready", "leased"} \cup Terminal,
              binding : BindingTypes \cup {None},
              holder : Invocations \cup {None},
              outcome : Outcomes \cup {None}]

\* Type correctness of invocations and of the records EG keeps for them.
TypeOK ==
  /\ pc \in [Invocations -> Labels]
  /\ req \in [Invocations -> ReqTypes \cup {None}]
  /\ effective \in [Invocations ->
                      [effect : Effects, confirm : Confirms] \cup {None}]
  /\ rid \in [Invocations -> RequestIds \cup {None}]
  /\ result \in [Invocations -> Outcomes \cup {None}]
  /\ answer \in [Invocations -> Outcomes \cup {None}]
  /\ rev \in 0..MaxRev /\ meta \in Decisions
  /\ plans \in [PlanRefs -> PlanTypes]
  /\ items \in [RequestIds -> ItemTypes]
  /\ audit \in [RequestIds -> {"none", "reserved", "ok", "denied", "error"}]
  /\ sent \in [Invocations -> BindingTypes \cup {None}]

Sent(i) == sent[i] # None
Owned(i) == rid[i] # None /\ Journalled(i)

\* At most one acquisition (EffectJournal): of all the invocations that share
\* a tenant/principal/operation/key identity, in whatever process and however
\* they failed, at most one ever reaches runtime.dispatch.
AtMostOneDispatch ==
  \A i, j \in Invocations :
    Sent(i) /\ Sent(j) /\ Owned(i) /\ Owned(j) /\ rid[i] = rid[j] => i = j

\* A confirmation is spent on one effect: however often a plan_ref is sent
\* again, with or without an idempotency key, one dispatch uses it.
PlanSpentOnce ==
  \A i, j \in Invocations :
    Sent(i) /\ Sent(j) /\ Governed(i) /\ NeedsPlan(i) /\ NeedsPlan(j)
      /\ req[i].plan = req[j].plan => i = j

\* What is dispatched is what was confirmed: an effect that needs a plan is
\* sent under the arguments, the revision and the catalog decision the plan
\* was issued for, and the plan is consumed by then.
DispatchedAsConfirmed ==
  \A i \in Invocations :
    Sent(i) /\ NeedsPlan(i) =>
      /\ plans[req[i].plan].status = "consumed"
      /\ plans[req[i].plan].binding = sent[i]

\* What is dispatched is what was reserved: authority and catalog facts at
\* runtime.dispatch are those bound into the durable reservation, although
\* both can change at every await in between.
DispatchedAsReserved ==
  \A i \in Invocations :
    Sent(i) /\ Owned(i) =>
      /\ items[rid[i]].holder = i
      /\ items[rid[i]].binding = sent[i]

\* Success is told only once it is durable: whoever is answered OK, the caller
\* that made the effect or a replay, is told the outcome that is stored.
SuccessIsDurable ==
  \A i \in Invocations :
    answer[i] # None /\ answer[i].code = "OK" /\ Owned(i) =>
      /\ items[rid[i]].outcome = answer[i]
      /\ items[rid[i]].status \in Terminal

\* The audit trail leads: no governed dispatch without a durable reservation
\* in the audit log, no stored outcome without its audit entry.
AuditLeads ==
  /\ \A i \in Invocations : Sent(i) /\ Governed(i) => audit[rid[i]] # "none"
  /\ \A r \in RequestIds :
       items[r].outcome # None => audit[r] = AuditStatus(items[r].outcome)

DefiniteOutcomes == [code : Codes \ {"INDETERMINATE", "TIMEOUT"}, by : Invocations]

\* The pipeline and EG's work items implement the promise of the port.
Effect == INSTANCE EffectOnce WITH
  EffectKeys <- RequestIds,
  Bindings <- BindingTypes,
  Outcomes <- DefiniteOutcomes,
  Successes <- {o \in DefiniteOutcomes : o.code = "OK"},
  NoBinding <- None, NoOutcome <- None,
  bound <- [r \in RequestIds |-> items[r].binding],
  sent <- [r \in RequestIds |->
             \E i \in Invocations : Sent(i) /\ Owned(i) /\ rid[i] = r],
  outcome <- [r \in RequestIds |-> items[r].outcome]

\* Every step of the pipeline binds, sends or settles an effect as EffectOnce
\* allows, or leaves the effects alone.
ImplementsEffectOnce == Effect!EffectSpec
===============================================================================
