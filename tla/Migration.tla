------------------------------- MODULE Migration -------------------------------
(***************************************************************************)
(* The staged cutover of arbora/control_plane/migrations/authority.py: the  *)
(* plans of one migration over one source snapshot, and the evidence that   *)
(* moves them from stage to stage.                                          *)
(*                                                                         *)
(* Every operation runs under one lock, so it is one step.  Operators work  *)
(* side by side and repeat a request whose answer they lost: a request is   *)
(* new, a repetition, or drift, depending on what is stored under its       *)
(* reference.  An operator names the plan version that a request is made    *)
(* for, and a request for another version is refused: the steps are those   *)
(* of the operator who knows the present one.                               *)
(*                                                                         *)
(* A digest is the value it digests.  Requests that are bound to another    *)
(* migration or snapshot, or whose gate is not bound or has not passed,     *)
(* change nothing and are left out.                                         *)
(***************************************************************************)
EXTENDS Naturals, FiniteSets

CONSTANTS
  Plans,          \* plan_refs
  Records,        \* canonical_refs: what the source holds
  Refs,           \* references of evidence, of each kind
  Targets,        \* snapshots the source is compared with; "source" is itself
  Cohorts,        \* cohort_refs
  MaxPlanVersion  \* bound: versions of a plan

ASSUME MigrationAssumption ==
  /\ MaxPlanVersion \in Nat
  /\ "none" \notin Refs \cup Targets

VARIABLES
  plan,          \* _plans
  inventories,   \* _inventories
  backfills,     \* _backfills
  shadows,       \* _reconciliations, by their target
  readCutovers,  \* _read_cutovers
  fences,        \* _write_fences
  checkpoints,   \* _checkpoints
  retirements,   \* _retirements
  rollbacks      \* _rollbacks

migrationVars == <<plan, inventories, backfills, shadows, readCutovers, fences,
                   checkpoints, retirements, rollbacks>>

NoPlan ==
  [state |-> "none", version |-> 0, inventory |-> "none", shadow |-> "none",
   cohorts |-> {}, fence |-> "none", checkpoint |-> "none", retirement |-> "none"]

\* Evidence is stored under its reference; by is the plan it was accepted for.
Empty == [r \in {} |-> "none"]
Put(f, r, v) == [x \in DOMAIN f \cup {r} |-> IF x = r THEN v ELSE f[x]]

MigrationInit ==
  /\ plan = [p \in Plans |-> NoPlan]
  /\ inventories = Empty /\ backfills = Empty /\ shadows = Empty
  /\ readCutovers = Empty /\ fences = Empty /\ checkpoints = Empty
  /\ retirements = Empty /\ rollbacks = Empty

\* _next_plan
NextPlan(p, state, updated) ==
  /\ plan[p].version < MaxPlanVersion
  /\ plan' = [plan EXCEPT ![p] = [updated EXCEPT !.state = state, !.version = @ + 1]]

\* create_plan, which registers the snapshot of the plan.
CreatePlan(p) ==
  /\ plan[p].state = "none"
  /\ NextPlan(p, "planned", plan[p])
  /\ UNCHANGED <<inventories, backfills, shadows, readCutovers, fences, checkpoints,
                 retirements, rollbacks>>

-----------------------------------------------------------------------------
(* Stages 0 to 2: what the source holds, and how it compares.               *)

Maps(values) == UNION {[S -> values] : S \in (SUBSET Records) \ {{}}}

FreezeInventory(p, r, items) ==
  /\ plan[p].state = "planned"
  /\ r \notin DOMAIN inventories
  /\ NextPlan(p, "inventory_frozen", [plan[p] EXCEPT !.inventory = r])
  /\ inventories' = Put(inventories, r, [by |-> p, items |-> items])
  /\ UNCHANGED <<backfills, shadows, readCutovers, fences, checkpoints, retirements,
                 rollbacks>>

\* Only what the frozen inventory of the plan knows can be observed.
BackfillBound(p, seen) ==
  /\ plan[p].inventory \in DOMAIN inventories
  /\ DOMAIN seen \subseteq DOMAIN inventories[plan[p].inventory].items

RecordBackfill(p, r, seen) ==
  /\ BackfillBound(p, seen)
  /\ r \notin DOMAIN backfills
  /\ plan[p].state \in {"inventory_frozen", "backfill_observing"}
  /\ NextPlan(p, "backfill_observing", plan[p])
  /\ backfills' = Put(backfills, r, [by |-> p, seen |-> seen])
  /\ UNCHANGED <<inventories, shadows, readCutovers, fences, checkpoints, retirements,
                 rollbacks>>

\* _load_shadow_observations: some, and no record twice.  The batches of every
\* plan of the migration count.
Observed ==
  /\ backfills # Empty
  /\ \A r, q \in DOMAIN backfills :
       r # q => DOMAIN backfills[r].seen \cap DOMAIN backfills[q].seen = {}

Rejects(p) ==
  \/ \E r \in DOMAIN backfills : \E x \in DOMAIN backfills[r].seen :
       backfills[r].seen[x] # "accepted"
  \/ \E x \in DOMAIN inventories[plan[p].inventory].items :
       inventories[plan[p].inventory].items[x] # "present"

\* _shadow_reconciliation_state
Compared(p, differs) ==
  IF Rejects(p) THEN "blocked" ELSE IF differs THEN "needs_review" ELSE "clean"

\* reconcile_shadow and _commit_shadow_reconciliation: only a clean comparison
\* moves a plan, and only one that is still observing.
ReconcileShadow(p, t, differs) ==
  /\ plan[p].state \in {"backfill_observing", "shadow_reconciled"}
  /\ Observed
  /\ t = "source" => ~differs
  /\ t \notin DOMAIN shadows
  /\ shadows' = Put(shadows, t, [by |-> p, differs |-> differs,
                                 state |-> Compared(p, differs)])
  /\ IF shadows'[t].state = "clean" /\ plan[p].state = "backfill_observing"
       THEN NextPlan(p, "shadow_reconciled", [plan[p] EXCEPT !.shadow = t])
       ELSE UNCHANGED plan
  /\ UNCHANGED <<inventories, backfills, readCutovers, fences, checkpoints,
                 retirements, rollbacks>>

-----------------------------------------------------------------------------
(* Stages 3 to 5: reads, writes and the projection are cut over.            *)

\* Mutant: the stage is looked at before the reference.
CutoverBoundInStage(p) ==
  /\ \E t \in DOMAIN shadows : shadows[t].state = "clean"
  /\ plan[p].state \in {"shadow_reconciled", "read_cutover"}

\* _clean_reconciliation
CutoverBound(p) == \E t \in DOMAIN shadows : shadows[t].state = "clean"

CutoverReads(p, r, c) ==
  /\ CutoverBound(p)
  /\ r \notin DOMAIN readCutovers
  /\ plan[p].state \in {"shadow_reconciled", "read_cutover"}
  /\ NextPlan(p, "read_cutover", [plan[p] EXCEPT !.cohorts = @ \cup {c}])
  /\ readCutovers' = Put(readCutovers, r, [by |-> p, cohort |-> c])
  /\ UNCHANGED <<inventories, backfills, shadows, fences, checkpoints, retirements,
                 rollbacks>>

\* The fence is for all cohorts of the plan.  Its state is the one the request
\* carries, which need not be "active"; asked keeps it as it was requested.
FenceWrites(p, r, state) ==
  /\ r \notin DOMAIN fences
  /\ plan[p].state = "read_cutover"
  /\ NextPlan(p, "write_fenced", [plan[p] EXCEPT !.fence = r])
  /\ fences' = Put(fences, r, [by |-> p, cohorts |-> plan[p].cohorts,
                               asked |-> state, state |-> state])
  /\ UNCHANGED <<inventories, backfills, shadows, readCutovers, checkpoints,
                 retirements, rollbacks>>

\* active_write_fence_missing
ActiveFence(p) ==
  plan[p].fence \in DOMAIN fences /\ fences[plan[p].fence].state = "active"

CheckpointProjection(p, r) ==
  /\ r \notin DOMAIN checkpoints
  /\ plan[p].state = "write_fenced"
  /\ ActiveFence(p)
  /\ NextPlan(p, "checkpointed", [plan[p] EXCEPT !.checkpoint = r])
  /\ checkpoints' = Put(checkpoints, r, [by |-> p])
  /\ UNCHANGED <<inventories, backfills, shadows, readCutovers, fences, retirements,
                 rollbacks>>

\* _retirement_proof_invalid: the proof names the plan's fence and checkpoint.
RetirementBound(p, proof) ==
  proof.fence = plan[p].fence /\ proof.checkpoint = plan[p].checkpoint

RetireLegacy(p, r, proof) ==
  /\ RetirementBound(p, proof)
  /\ r \notin DOMAIN retirements
  /\ plan[p].state = "checkpointed"
  /\ NextPlan(p, "retired", [plan[p] EXCEPT !.retirement = r])
  /\ retirements' = Put(retirements, r, [by |-> p, proof |-> proof])
  /\ UNCHANGED <<inventories, backfills, shadows, readCutovers, fences, checkpoints,
                 rollbacks>>

-----------------------------------------------------------------------------

\* Mutant: a plan with a checkpoint is taken to have no writes to give back.
RolledBackFenceEarly(p) ==
  IF plan[p].state = "write_fenced"
    THEN [fences EXCEPT ![plan[p].fence].state = "rolled_back"]
    ELSE fences

\* _rolled_back_fence_for
RolledBackFence(p) ==
  IF plan[p].state \in {"write_fenced", "checkpointed"}
    THEN [fences EXCEPT ![plan[p].fence].state = "rolled_back"]
    ELSE fences

\* rollback: of any plan that is not retired, also of one rolled back before.
\* What is stored is the applied form of what was requested (_applied_rollback).
Rollback(p, r) ==
  /\ plan[p].state \notin {"none", "retired"}
  /\ r \notin DOMAIN rollbacks
  /\ NextPlan(p, "rolled_back", plan[p])
  /\ fences' = RolledBackFence(p)
  /\ rollbacks' = Put(rollbacks, r, [by |-> p, decision |-> "applied"])
  /\ UNCHANGED <<inventories, backfills, shadows, readCutovers, checkpoints,
                 retirements>>

Submits(p, r) ==
  \/ \E items \in Maps({"present", "rejected"}) : FreezeInventory(p, r, items)
  \/ \E seen \in Maps({"accepted", "rejected"}) : RecordBackfill(p, r, seen)
  \/ \E c \in Cohorts : CutoverReads(p, r, c)
  \/ \E state \in {"active", "rolled_back"} : FenceWrites(p, r, state)
  \/ CheckpointProjection(p, r)
  \/ \E f, k \in Refs : RetireLegacy(p, r, [fence |-> f, checkpoint |-> k])
  \/ Rollback(p, r)

MigrationNext ==
  \E p \in Plans :
    \/ CreatePlan(p)
    \/ \E r \in Refs : Submits(p, r)
    \/ \E t \in Targets, differs \in BOOLEAN : ReconcileShadow(p, t, differs)

MigrationSpec == MigrationInit /\ [][MigrationNext]_migrationVars
-----------------------------------------------------------------------------
(* Properties *)

Held(f) == DOMAIN f \subseteq Refs /\ \A r \in DOMAIN f : f[r].by \in Plans

MigrationTypeOK ==
  /\ plan \in [Plans ->
       [state : {"none", "planned", "inventory_frozen", "backfill_observing",
                 "shadow_reconciled", "read_cutover", "write_fenced",
                 "checkpointed", "retired", "rolled_back"},
        version : 0..MaxPlanVersion, inventory : Refs \cup {"none"},
        shadow : Targets \cup {"none"}, cohorts : SUBSET Cohorts,
        fence : Refs \cup {"none"}, checkpoint : Refs \cup {"none"},
        retirement : Refs \cup {"none"}]]
  /\ Held(inventories) /\ Held(backfills) /\ Held(readCutovers) /\ Held(fences)
  /\ Held(checkpoints) /\ Held(retirements) /\ Held(rollbacks)
  /\ DOMAIN shadows \subseteq Targets

\* Writes are denied to the legacy side as long as a plan stands behind it: the
\* fence of a plan is as it was requested until the plan's own rollback, at
\* whatever stage, gives it back; a plan gets to its checkpoint and to the
\* retirement behind an active fence only.  It covers the cohorts whose reads
\* the plan moved, and what is done with another plan does not touch it.
FenceFollowsPlan ==
  /\ \A p \in Plans :
       plan[p].fence # "none" =>
         /\ plan[p].fence \in DOMAIN fences
         /\ LET f == fences[plan[p].fence]
            IN /\ f.by = p /\ f.cohorts = plan[p].cohorts
               /\ f.state = IF plan[p].state = "rolled_back" THEN "rolled_back"
                                                             ELSE f.asked
               /\ plan[p].state \in {"checkpointed", "retired"} => f.state = "active"
  /\ \A r \in DOMAIN fences : plan[fences[r].by].fence = r

\* "replaying the same reference and digest returns the original record": the
\* evidence of an inventory, a batch, a cutover, a checkpoint or a retirement
\* is answered again wherever its plan has got to since, rolled back included.
EvidenceReplays ==
  /\ \A r \in DOMAIN inventories : plan[inventories[r].by].inventory = r
  /\ \A r \in DOMAIN backfills : BackfillBound(backfills[r].by, backfills[r].seen)
  /\ \A r \in DOMAIN readCutovers : CutoverBound(readCutovers[r].by)
  /\ \A r \in DOMAIN checkpoints : plan[checkpoints[r].by].checkpoint = r
  /\ \A r \in DOMAIN retirements :
       RetirementBound(retirements[r].by, retirements[r].proof)
================================================================================
