----------------------------- MODULE ControlProofs -----------------------------
(***************************************************************************)
(* Proofs about two components that share no state: the staged cutover, for *)
(* any number of plans, records, references, targets and cohorts, and the   *)
(* tool tasks, for any number of deliveries.                                *)
(***************************************************************************)
EXTENDS Migration, ToolTask, TLAPS

PlanStates ==
  {"none", "planned", "inventory_frozen", "backfill_observing",
   "shadow_reconciled", "read_cutover", "write_fenced", "checkpointed",
   "retired", "rolled_back"}

\* The plans that MigrationTypeOK allows.
PlanTypes ==
  [state : PlanStates, version : 0..MaxPlanVersion,
   inventory : Refs \cup {"none"}, shadow : Targets \cup {"none"},
   cohorts : SUBSET Cohorts, fence : Refs \cup {"none"},
   checkpoint : Refs \cup {"none"}, retirement : Refs \cup {"none"}]

\* The stages before fence_writes, and those after it.
Unfenced ==
  {"none", "planned", "inventory_frozen", "backfill_observing",
   "shadow_reconciled", "read_cutover"}
Fenced == {"write_fenced", "checkpointed", "retired"}

\* What a plan refers to is what its stage has produced.
StageOf(p) ==
  /\ plan[p].state \in {"none", "planned"} => plan[p].inventory = "none"
  /\ plan[p].state \in Unfenced => plan[p].fence = "none"
  /\ plan[p].state \in Unfenced \cup {"write_fenced"} =>
       plan[p].checkpoint = "none"
  /\ plan[p].state \in Fenced => plan[p].fence # "none"

Stages == \A p \in Plans : StageOf(p)

\* Fences are records that rollback can change in one field.
FencesAreRecords ==
  fences \in [DOMAIN fences ->
                [by : Plans, cohorts : SUBSET Cohorts,
                 asked : {"active", "rolled_back"},
                 state : {"active", "rolled_back"}]]

\* A proof of retirement was accepted for a plan that is retired since.
RetiredForGood == \A r \in DOMAIN retirements : plan[retirements[r].by].state = "retired"

IInv ==
  /\ MigrationTypeOK /\ FencesAreRecords
  /\ Stages /\ RetiredForGood
  /\ FenceFollowsPlan /\ EvidenceReplays

--------------------------------------------------------------------------------
(* What the helpers return.                                                   *)

\* _next_plan changes the state and the version, of the plan asked for only.
LEMMA NextPlanMeaning ==
  ASSUME NEW p \in Plans, NEW state \in PlanStates, NEW updated \in PlanTypes,
         plan \in [Plans -> PlanTypes],
         updated.version = plan[p].version,
         NextPlan(p, state, updated)
  PROVE  /\ plan' \in [Plans -> PlanTypes]
         /\ plan'[p].state = state
         /\ plan'[p].inventory = updated.inventory
         /\ plan'[p].cohorts = updated.cohorts
         /\ plan'[p].fence = updated.fence
         /\ plan'[p].checkpoint = updated.checkpoint
         /\ \A q \in Plans : q # p => plan'[q] = plan[q]
<1>1. plan[p].version < MaxPlanVersion /\ plan[p].version \in 0..MaxPlanVersion
  BY DEF NextPlan, PlanTypes
<1>2. updated.version + 1 \in 0..MaxPlanVersion
  BY <1>1, MigrationAssumption
<1>3. [updated EXCEPT !.state = state, !.version = @ + 1] \in PlanTypes
  BY <1>2 DEF PlanTypes
<1>4. plan' = [plan EXCEPT ![p] = [updated EXCEPT !.state = state, !.version = @ + 1]]
  BY DEF NextPlan
<1>5. plan' \in [Plans -> PlanTypes]
  BY <1>3, <1>4
<1> QED
  BY <1>4, <1>5 DEF PlanTypes

--------------------------------------------------------------------------------
(* The invariant is kept, one lemma per operation.                            *)

\* The parts of EvidenceReplays, one per kind of evidence.
InventoryReplays == \A r \in DOMAIN inventories : plan[inventories[r].by].inventory = r
BackfillReplays ==
  \A r \in DOMAIN backfills : BackfillBound(backfills[r].by, backfills[r].seen)
CutoverReplays == \A r \in DOMAIN readCutovers : CutoverBound(readCutovers[r].by)
CheckpointReplays == \A r \in DOMAIN checkpoints : plan[checkpoints[r].by].checkpoint = r
RetirementReplays ==
  \A r \in DOMAIN retirements :
    RetirementBound(retirements[r].by, retirements[r].proof)

\* What the invariant says of the plans and of the evidence.
LEMMA Typed ==
  ASSUME IInv
  PROVE  /\ plan \in [Plans -> PlanTypes]
         /\ Held(inventories) /\ Held(backfills) /\ Held(readCutovers)
         /\ Held(fences) /\ Held(checkpoints) /\ Held(retirements)
         /\ Held(rollbacks)
         /\ DOMAIN shadows \subseteq Targets
         /\ FencesAreRecords /\ Stages /\ RetiredForGood /\ FenceFollowsPlan
         /\ InventoryReplays /\ BackfillReplays /\ CutoverReplays
         /\ CheckpointReplays /\ RetirementReplays
BY DEF IInv, MigrationTypeOK, PlanTypes, PlanStates, EvidenceReplays,
       InventoryReplays, BackfillReplays, CutoverReplays, CheckpointReplays,
       RetirementReplays

\* And these are all of it.
LEMMA Combine ==
  ASSUME plan' \in [Plans -> PlanTypes],
         Held(inventories)', Held(backfills)', Held(readCutovers)', Held(fences)',
         Held(checkpoints)', Held(retirements)', Held(rollbacks)',
         (DOMAIN shadows \subseteq Targets)',
         FencesAreRecords', Stages', RetiredForGood', FenceFollowsPlan',
         InventoryReplays', BackfillReplays', CutoverReplays',
         CheckpointReplays', RetirementReplays'
  PROVE  IInv'
BY DEF IInv, MigrationTypeOK, PlanTypes, PlanStates, EvidenceReplays,
       InventoryReplays, BackfillReplays, CutoverReplays, CheckpointReplays,
       RetirementReplays

\* create_plan
LEMMA CreatePlanKeeps ==
  ASSUME IInv, NEW p \in Plans, CreatePlan(p)
  PROVE  IInv'
<1>1. plan \in [Plans -> PlanTypes] /\ plan[p] \in PlanTypes
  BY Typed
<1>2. /\ plan' \in [Plans -> PlanTypes]
      /\ plan[p].state = "none" /\ plan'[p].state = "planned"
      /\ plan'[p].inventory = plan[p].inventory
      /\ plan'[p].cohorts = plan[p].cohorts
      /\ plan'[p].fence = plan[p].fence
      /\ plan'[p].checkpoint = plan[p].checkpoint
      /\ \A q \in Plans : q # p => plan'[q] = plan[q]
      /\ UNCHANGED <<inventories, backfills, shadows, readCutovers, fences,
                     checkpoints, retirements, rollbacks>>
  BY <1>1, NextPlanMeaning DEF CreatePlan, PlanStates
<1>3. Stages' /\ RetiredForGood'
  BY <1>2, Typed DEF Held, Stages, StageOf, RetiredForGood, Unfenced, Fenced
<1>4. FenceFollowsPlan'
  BY <1>2, Typed DEF Held, FenceFollowsPlan, Stages, StageOf, Unfenced
<1>5. InventoryReplays' /\ CheckpointReplays' /\ RetirementReplays'
  BY <1>2, Typed DEF Held, InventoryReplays, CheckpointReplays, RetirementReplays,
                     RetirementBound
<1>6. BackfillReplays' /\ CutoverReplays'
  BY <1>2, Typed DEF Held, BackfillReplays, CutoverReplays, BackfillBound, CutoverBound
<1> QED
  BY <1>2, <1>3, <1>4, <1>5, <1>6, Typed, Combine DEF Held, FencesAreRecords

\* freeze_inventory
LEMMA FreezeInventoryKeeps ==
  ASSUME IInv, NEW p \in Plans, NEW r \in Refs, NEW items,
         FreezeInventory(p, r, items)
  PROVE  IInv'
<1>1. plan \in [Plans -> PlanTypes] /\ plan[p] \in PlanTypes
  BY Typed
<1> DEFINE updated == [plan[p] EXCEPT !.inventory = r]
<1>2. updated \in PlanTypes /\ updated.version = plan[p].version
  BY <1>1 DEF PlanTypes
<1>3. /\ plan' \in [Plans -> PlanTypes]
      /\ plan[p].state = "planned" /\ plan'[p].state = "inventory_frozen"
      /\ plan'[p].inventory = r
      /\ plan'[p].cohorts = plan[p].cohorts
      /\ plan'[p].fence = plan[p].fence
      /\ plan'[p].checkpoint = plan[p].checkpoint
      /\ \A q \in Plans : q # p => plan'[q] = plan[q]
      /\ UNCHANGED <<backfills, shadows, readCutovers, fences, checkpoints,
                      retirements, rollbacks>>
  <2>1. NextPlan(p, "inventory_frozen", updated)
    BY DEF FreezeInventory
  <2> HIDE DEF updated
  <2>2. /\ plan' \in [Plans -> PlanTypes]
        /\ plan'[p].state = "inventory_frozen"
        /\ plan'[p].inventory = updated.inventory
        /\ plan'[p].cohorts = updated.cohorts
        /\ plan'[p].fence = updated.fence
        /\ plan'[p].checkpoint = updated.checkpoint
        /\ \A q \in Plans : q # p => plan'[q] = plan[q]
    BY <2>1, <1>1, <1>2, NextPlanMeaning DEF PlanStates
  <2> QED
    BY <2>2, <1>1 DEF updated, FreezeInventory, PlanTypes
<1>4. /\ r \notin DOMAIN inventories /\ DOMAIN inventories' = DOMAIN inventories \cup {r}
      /\ inventories'[r] = [by |-> p, items |-> items]
      /\ \A x \in DOMAIN inventories : inventories'[x] = inventories[x]
  BY DEF FreezeInventory, Put
<1>5. Stages' /\ RetiredForGood'
  BY <1>3, <1>4, Typed, MigrationAssumption
  DEF Held, Stages, StageOf, RetiredForGood, Unfenced, Fenced
<1>6. FenceFollowsPlan'
  BY <1>3, <1>4, Typed, MigrationAssumption
  DEF Held, FenceFollowsPlan, Stages, StageOf, Unfenced, Fenced
<1>7. InventoryReplays'
  BY <1>3, <1>4, Typed, MigrationAssumption DEF Held, InventoryReplays, Stages, StageOf
<1>8. CheckpointReplays'
  BY <1>3, <1>4, Typed, MigrationAssumption
  DEF Held, CheckpointReplays, Stages, StageOf, Unfenced
<1>9. RetirementReplays'
  BY <1>3, <1>4, Typed, MigrationAssumption
  DEF Held, RetirementReplays, RetirementBound, RetiredForGood
<1>10. BackfillReplays' /\ CutoverReplays'
  BY <1>3, <1>4, Typed, MigrationAssumption
  DEF Held, BackfillReplays, CutoverReplays, BackfillBound, CutoverBound,
      InventoryReplays, Stages, StageOf
<1> QED
  BY <1>3, <1>4, <1>5, <1>6, <1>7, <1>9, <1>10, <1>8, Typed, Combine
  DEF Held, FencesAreRecords


\* record_backfill
LEMMA RecordBackfillKeeps ==
  ASSUME IInv, NEW p \in Plans, NEW r \in Refs, NEW seen,
         RecordBackfill(p, r, seen)
  PROVE  IInv'
<1>1. plan \in [Plans -> PlanTypes] /\ plan[p] \in PlanTypes
  BY Typed
<1>2. /\ plan' \in [Plans -> PlanTypes]
      /\ plan[p].state \in {"inventory_frozen", "backfill_observing"} /\ plan'[p].state = "backfill_observing"
      /\ plan'[p].inventory = plan[p].inventory
      /\ plan'[p].cohorts = plan[p].cohorts
      /\ plan'[p].fence = plan[p].fence
      /\ plan'[p].checkpoint = plan[p].checkpoint
      /\ \A q \in Plans : q # p => plan'[q] = plan[q]
      /\ UNCHANGED <<inventories, shadows, readCutovers, fences, checkpoints,
                      retirements, rollbacks>>
  BY <1>1, NextPlanMeaning DEF RecordBackfill, PlanStates
<1>3. /\ r \notin DOMAIN backfills /\ DOMAIN backfills' = DOMAIN backfills \cup {r}
      /\ backfills'[r] = [by |-> p, seen |-> seen]
      /\ \A x \in DOMAIN backfills : backfills'[x] = backfills[x]
  BY DEF RecordBackfill, Put
<1>4. Stages' /\ RetiredForGood'
  BY <1>2, <1>3, Typed, MigrationAssumption
  DEF Held, Stages, StageOf, RetiredForGood, Unfenced, Fenced
<1>5. FenceFollowsPlan'
  BY <1>2, <1>3, Typed, MigrationAssumption
  DEF Held, FenceFollowsPlan, Stages, StageOf, Unfenced, Fenced
<1>6. InventoryReplays'
  BY <1>2, <1>3, Typed, MigrationAssumption DEF Held, InventoryReplays, Stages, StageOf
<1>7. CheckpointReplays'
  BY <1>2, <1>3, Typed, MigrationAssumption
  DEF Held, CheckpointReplays, Stages, StageOf, Unfenced
<1>8. RetirementReplays'
  BY <1>2, <1>3, Typed, MigrationAssumption
  DEF Held, RetirementReplays, RetirementBound, RetiredForGood
<1>9. BackfillReplays' /\ CutoverReplays'
  BY <1>2, <1>3, Typed, MigrationAssumption
  DEF Held, BackfillReplays, CutoverReplays, BackfillBound, CutoverBound,
      InventoryReplays, Stages, StageOf, RecordBackfill
<1> QED
  BY <1>2, <1>3, <1>4, <1>5, <1>6, <1>8, <1>9, <1>7, Typed, Combine
  DEF Held, FencesAreRecords


\* cutover_reads
LEMMA CutoverReadsKeeps ==
  ASSUME IInv, NEW p \in Plans, NEW r \in Refs, NEW c \in Cohorts,
         CutoverReads(p, r, c)
  PROVE  IInv'
<1>1. plan \in [Plans -> PlanTypes] /\ plan[p] \in PlanTypes
  BY Typed
<1> DEFINE updated == [plan[p] EXCEPT !.cohorts = @ \cup {c}]
<1>2. updated \in PlanTypes /\ updated.version = plan[p].version
  BY <1>1 DEF PlanTypes
<1>3. /\ plan' \in [Plans -> PlanTypes]
      /\ plan[p].state \in {"shadow_reconciled", "read_cutover"} /\ plan'[p].state = "read_cutover"
      /\ plan'[p].inventory = plan[p].inventory
      /\ plan'[p].cohorts = plan[p].cohorts \cup {c}
      /\ plan'[p].fence = plan[p].fence
      /\ plan'[p].checkpoint = plan[p].checkpoint
      /\ \A q \in Plans : q # p => plan'[q] = plan[q]
      /\ UNCHANGED <<inventories, backfills, shadows, fences, checkpoints,
                      retirements, rollbacks>>
  <2>1. NextPlan(p, "read_cutover", updated)
    BY DEF CutoverReads
  <2> HIDE DEF updated
  <2>2. /\ plan' \in [Plans -> PlanTypes]
        /\ plan'[p].state = "read_cutover"
        /\ plan'[p].inventory = updated.inventory
        /\ plan'[p].cohorts = updated.cohorts
        /\ plan'[p].fence = updated.fence
        /\ plan'[p].checkpoint = updated.checkpoint
        /\ \A q \in Plans : q # p => plan'[q] = plan[q]
    BY <2>1, <1>1, <1>2, NextPlanMeaning DEF PlanStates
  <2> QED
    BY <2>2, <1>1 DEF updated, CutoverReads, PlanTypes
<1>4. /\ r \notin DOMAIN readCutovers /\ DOMAIN readCutovers' = DOMAIN readCutovers \cup {r}
      /\ readCutovers'[r] = [by |-> p, cohort |-> c]
      /\ \A x \in DOMAIN readCutovers : readCutovers'[x] = readCutovers[x]
  BY DEF CutoverReads, Put
<1>5. Stages' /\ RetiredForGood'
  BY <1>3, <1>4, Typed, MigrationAssumption
  DEF Held, Stages, StageOf, RetiredForGood, Unfenced, Fenced
<1>6. FenceFollowsPlan'
  BY <1>3, <1>4, Typed, MigrationAssumption
  DEF Held, FenceFollowsPlan, Stages, StageOf, Unfenced, Fenced
<1>7. InventoryReplays'
  BY <1>3, <1>4, Typed, MigrationAssumption DEF Held, InventoryReplays, Stages, StageOf
<1>8. CheckpointReplays'
  BY <1>3, <1>4, Typed, MigrationAssumption
  DEF Held, CheckpointReplays, Stages, StageOf, Unfenced
<1>9. RetirementReplays'
  BY <1>3, <1>4, Typed, MigrationAssumption
  DEF Held, RetirementReplays, RetirementBound, RetiredForGood
<1>10. BackfillReplays' /\ CutoverReplays'
  BY <1>3, <1>4, Typed, MigrationAssumption
  DEF Held, BackfillReplays, CutoverReplays, BackfillBound, CutoverBound,
      InventoryReplays, Stages, StageOf, CutoverReads
<1> QED
  BY <1>3, <1>4, <1>5, <1>6, <1>7, <1>9, <1>10, <1>8, Typed, Combine
  DEF Held, FencesAreRecords


\* fence_writes
LEMMA FenceWritesKeeps ==
  ASSUME IInv, NEW p \in Plans, NEW r \in Refs,
         NEW state \in {"active", "rolled_back"}, FenceWrites(p, r, state)
  PROVE  IInv'
<1>1. plan \in [Plans -> PlanTypes] /\ plan[p] \in PlanTypes
  BY Typed
<1> DEFINE updated == [plan[p] EXCEPT !.fence = r]
<1>2. updated \in PlanTypes /\ updated.version = plan[p].version
  BY <1>1 DEF PlanTypes
<1>3. /\ plan' \in [Plans -> PlanTypes]
      /\ plan[p].state = "read_cutover" /\ plan'[p].state = "write_fenced"
      /\ plan'[p].inventory = plan[p].inventory
      /\ plan'[p].cohorts = plan[p].cohorts
      /\ plan'[p].fence = r
      /\ plan'[p].checkpoint = plan[p].checkpoint
      /\ \A q \in Plans : q # p => plan'[q] = plan[q]
      /\ UNCHANGED <<inventories, backfills, shadows, readCutovers,
                      checkpoints, retirements, rollbacks>>
  <2>1. NextPlan(p, "write_fenced", updated)
    BY DEF FenceWrites
  <2> HIDE DEF updated
  <2>2. /\ plan' \in [Plans -> PlanTypes]
        /\ plan'[p].state = "write_fenced"
        /\ plan'[p].inventory = updated.inventory
        /\ plan'[p].cohorts = updated.cohorts
        /\ plan'[p].fence = updated.fence
        /\ plan'[p].checkpoint = updated.checkpoint
        /\ \A q \in Plans : q # p => plan'[q] = plan[q]
    BY <2>1, <1>1, <1>2, NextPlanMeaning DEF PlanStates
  <2> QED
    BY <2>2, <1>1 DEF updated, FenceWrites, PlanTypes
<1>4. /\ r \notin DOMAIN fences /\ DOMAIN fences' = DOMAIN fences \cup {r}
      /\ fences'[r] = [by |-> p, cohorts |-> plan[p].cohorts,
                        asked |-> state, state |-> state]
      /\ \A x \in DOMAIN fences : fences'[x] = fences[x]
  BY DEF FenceWrites, Put
<1>5. Stages' /\ RetiredForGood'
  BY <1>3, <1>4, Typed, MigrationAssumption
  DEF Held, Stages, StageOf, RetiredForGood, Unfenced, Fenced
<1>6. FenceFollowsPlan'
  BY <1>3, <1>4, Typed, MigrationAssumption
  DEF Held, FenceFollowsPlan, Stages, StageOf, Unfenced, Fenced
<1>7. InventoryReplays'
  BY <1>3, <1>4, Typed, MigrationAssumption DEF Held, InventoryReplays, Stages, StageOf
<1>8. CheckpointReplays'
  BY <1>3, <1>4, Typed, MigrationAssumption
  DEF Held, CheckpointReplays, Stages, StageOf, Unfenced
<1>9. RetirementReplays'
  BY <1>3, <1>4, Typed, MigrationAssumption
  DEF Held, RetirementReplays, RetirementBound, RetiredForGood
<1>10. BackfillReplays' /\ CutoverReplays'
  BY <1>3, <1>4, Typed, MigrationAssumption
  DEF Held, BackfillReplays, CutoverReplays, BackfillBound, CutoverBound,
      InventoryReplays, Stages, StageOf
<1>11. FencesAreRecords' /\ Held(fences)'
  <2>1. fences' = [x \in DOMAIN fences' |-> fences'[x]]
    BY DEF FenceWrites, Put
  <2>2. plan[p].cohorts \in SUBSET Cohorts
    BY <1>1 DEF PlanTypes
  <2> QED
    BY <1>4, <2>1, <2>2, Typed DEF Held, FencesAreRecords
<1> QED
  BY <1>3, <1>11, <1>5, <1>6, <1>7, <1>9, <1>10, <1>8, Typed, Combine
  DEF Held


\* checkpoint_projection
LEMMA CheckpointProjectionKeeps ==
  ASSUME IInv, NEW p \in Plans, NEW r \in Refs,
         CheckpointProjection(p, r)
  PROVE  IInv'
<1>1. plan \in [Plans -> PlanTypes] /\ plan[p] \in PlanTypes
  BY Typed
<1> DEFINE updated == [plan[p] EXCEPT !.checkpoint = r]
<1>2. updated \in PlanTypes /\ updated.version = plan[p].version
  BY <1>1 DEF PlanTypes
<1>3. /\ plan' \in [Plans -> PlanTypes]
      /\ plan[p].state = "write_fenced" /\ plan'[p].state = "checkpointed"
      /\ plan'[p].inventory = plan[p].inventory
      /\ plan'[p].cohorts = plan[p].cohorts
      /\ plan'[p].fence = plan[p].fence
      /\ plan'[p].checkpoint = r
      /\ \A q \in Plans : q # p => plan'[q] = plan[q]
      /\ UNCHANGED <<inventories, backfills, shadows, readCutovers, fences,
                      retirements, rollbacks>>
  <2>1. NextPlan(p, "checkpointed", updated)
    BY DEF CheckpointProjection
  <2> HIDE DEF updated
  <2>2. /\ plan' \in [Plans -> PlanTypes]
        /\ plan'[p].state = "checkpointed"
        /\ plan'[p].inventory = updated.inventory
        /\ plan'[p].cohorts = updated.cohorts
        /\ plan'[p].fence = updated.fence
        /\ plan'[p].checkpoint = updated.checkpoint
        /\ \A q \in Plans : q # p => plan'[q] = plan[q]
    BY <2>1, <1>1, <1>2, NextPlanMeaning DEF PlanStates
  <2> QED
    BY <2>2, <1>1 DEF updated, CheckpointProjection, PlanTypes
<1>active. ActiveFence(p)
  BY DEF CheckpointProjection
<1>4. /\ r \notin DOMAIN checkpoints /\ DOMAIN checkpoints' = DOMAIN checkpoints \cup {r}
      /\ checkpoints'[r] = [by |-> p]
      /\ \A x \in DOMAIN checkpoints : checkpoints'[x] = checkpoints[x]
  BY DEF CheckpointProjection, Put
<1>5. Stages' /\ RetiredForGood'
  BY <1>3, <1>4, Typed, MigrationAssumption
  DEF Held, Stages, StageOf, RetiredForGood, Unfenced, Fenced
<1>6. FenceFollowsPlan'
  BY <1>3, <1>4, <1>active, Typed, MigrationAssumption
  DEF Held, ActiveFence, FenceFollowsPlan, Stages, StageOf, Unfenced, Fenced
<1>7. InventoryReplays'
  BY <1>3, <1>4, Typed, MigrationAssumption DEF Held, InventoryReplays, Stages, StageOf
<1>8. CheckpointReplays'
  BY <1>3, <1>4, Typed, MigrationAssumption
  DEF Held, CheckpointReplays, Stages, StageOf, Unfenced
<1>9. RetirementReplays'
  BY <1>3, <1>4, Typed, MigrationAssumption
  DEF Held, RetirementReplays, RetirementBound, RetiredForGood
<1>10. BackfillReplays' /\ CutoverReplays'
  BY <1>3, <1>4, Typed, MigrationAssumption
  DEF Held, BackfillReplays, CutoverReplays, BackfillBound, CutoverBound,
      InventoryReplays, Stages, StageOf
<1> QED
  BY <1>3, <1>4, <1>5, <1>6, <1>7, <1>9, <1>10, <1>8, Typed, Combine
  DEF Held, FencesAreRecords


\* retire_legacy
LEMMA RetireLegacyKeeps ==
  ASSUME IInv, NEW p \in Plans, NEW r \in Refs, NEW proof,
         RetireLegacy(p, r, proof)
  PROVE  IInv'
<1>1. plan \in [Plans -> PlanTypes] /\ plan[p] \in PlanTypes
  BY Typed
<1> DEFINE updated == [plan[p] EXCEPT !.retirement = r]
<1>2. updated \in PlanTypes /\ updated.version = plan[p].version
  BY <1>1 DEF PlanTypes
<1>3. /\ plan' \in [Plans -> PlanTypes]
      /\ plan[p].state = "checkpointed" /\ plan'[p].state = "retired"
      /\ plan'[p].inventory = plan[p].inventory
      /\ plan'[p].cohorts = plan[p].cohorts
      /\ plan'[p].fence = plan[p].fence
      /\ plan'[p].checkpoint = plan[p].checkpoint
      /\ \A q \in Plans : q # p => plan'[q] = plan[q]
      /\ UNCHANGED <<inventories, backfills, shadows, readCutovers, fences,
                      checkpoints, rollbacks>>
  <2>1. NextPlan(p, "retired", updated)
    BY DEF RetireLegacy
  <2> HIDE DEF updated
  <2>2. /\ plan' \in [Plans -> PlanTypes]
        /\ plan'[p].state = "retired"
        /\ plan'[p].inventory = updated.inventory
        /\ plan'[p].cohorts = updated.cohorts
        /\ plan'[p].fence = updated.fence
        /\ plan'[p].checkpoint = updated.checkpoint
        /\ \A q \in Plans : q # p => plan'[q] = plan[q]
    BY <2>1, <1>1, <1>2, NextPlanMeaning DEF PlanStates
  <2> QED
    BY <2>2, <1>1 DEF updated, RetireLegacy, PlanTypes
<1>4. /\ r \notin DOMAIN retirements /\ DOMAIN retirements' = DOMAIN retirements \cup {r}
      /\ retirements'[r] = [by |-> p, proof |-> proof]
      /\ \A x \in DOMAIN retirements : retirements'[x] = retirements[x]
      /\ RetirementBound(p, proof)
  BY DEF RetireLegacy, Put
<1>5. Stages' /\ RetiredForGood'
  BY <1>3, <1>4, Typed, MigrationAssumption
  DEF Held, Stages, StageOf, RetiredForGood, Unfenced, Fenced
<1>6. FenceFollowsPlan'
  BY <1>3, <1>4, Typed, MigrationAssumption
  DEF Held, FenceFollowsPlan, Stages, StageOf, Unfenced, Fenced
<1>7. InventoryReplays'
  BY <1>3, <1>4, Typed, MigrationAssumption DEF Held, InventoryReplays, Stages, StageOf
<1>8. CheckpointReplays'
  BY <1>3, <1>4, Typed, MigrationAssumption
  DEF Held, CheckpointReplays, Stages, StageOf, Unfenced
<1>9. RetirementReplays'
  BY <1>3, <1>4, Typed, MigrationAssumption
  DEF Held, RetirementReplays, RetirementBound, RetiredForGood
<1>10. BackfillReplays' /\ CutoverReplays'
  BY <1>3, <1>4, Typed, MigrationAssumption
  DEF Held, BackfillReplays, CutoverReplays, BackfillBound, CutoverBound,
      InventoryReplays, Stages, StageOf
<1> QED
  BY <1>3, <1>4, <1>5, <1>6, <1>7, <1>9, <1>10, <1>8, Typed, Combine
  DEF Held, FencesAreRecords

\* reconcile_shadow
LEMMA ReconcileShadowKeeps ==
  ASSUME IInv, NEW p \in Plans, NEW t \in Targets, NEW differs \in BOOLEAN,
         ReconcileShadow(p, t, differs)
  PROVE  IInv'
<1>1. plan \in [Plans -> PlanTypes] /\ plan[p] \in PlanTypes
  BY Typed
<1> DEFINE updated == [plan[p] EXCEPT !.shadow = t]
<1>2. updated \in PlanTypes /\ updated.version = plan[p].version
  BY <1>1 DEF PlanTypes
<1>3. /\ plan' \in [Plans -> PlanTypes]
      /\ plan[p].state \in {"backfill_observing", "shadow_reconciled"}
      /\ plan'[p].state \in {plan[p].state, "shadow_reconciled"}
      /\ plan'[p].inventory = plan[p].inventory
      /\ plan'[p].cohorts = plan[p].cohorts
      /\ plan'[p].fence = plan[p].fence
      /\ plan'[p].checkpoint = plan[p].checkpoint
      /\ \A q \in Plans : q # p => plan'[q] = plan[q]
      /\ UNCHANGED <<inventories, backfills, readCutovers, fences, checkpoints,
                     retirements, rollbacks>>
  <2>1. CASE UNCHANGED plan
    BY <2>1, <1>1 DEF ReconcileShadow
  <2>2. CASE NextPlan(p, "shadow_reconciled", updated)
    <3> HIDE DEF updated
    <3>1. /\ plan' \in [Plans -> PlanTypes]
          /\ plan'[p].state = "shadow_reconciled"
          /\ plan'[p].inventory = updated.inventory
          /\ plan'[p].cohorts = updated.cohorts
          /\ plan'[p].fence = updated.fence
          /\ plan'[p].checkpoint = updated.checkpoint
          /\ \A q \in Plans : q # p => plan'[q] = plan[q]
      BY <2>2, <1>1, <1>2, NextPlanMeaning DEF PlanStates
    <3> QED
      BY <3>1, <1>1 DEF updated, ReconcileShadow, PlanTypes
  <2> QED
    BY <2>1, <2>2 DEF ReconcileShadow
<1>4. /\ DOMAIN shadows' = DOMAIN shadows \cup {t}
      /\ \A x \in DOMAIN shadows : shadows'[x] = shadows[x]
  BY DEF ReconcileShadow, Put
<1>5. Stages' /\ RetiredForGood'
  BY <1>3, Typed DEF Held, Stages, StageOf, RetiredForGood, Unfenced, Fenced
<1>6. FenceFollowsPlan'
  BY <1>3, Typed DEF Held, FenceFollowsPlan, Stages, StageOf, Unfenced
<1>7. InventoryReplays' /\ CheckpointReplays' /\ RetirementReplays'
  BY <1>3, Typed DEF Held, InventoryReplays, CheckpointReplays, RetirementReplays,
                     RetirementBound
<1>8. BackfillReplays' /\ CutoverReplays'
  BY <1>3, <1>4, Typed
  DEF Held, BackfillReplays, CutoverReplays, BackfillBound, CutoverBound
<1> QED
  BY <1>3, <1>4, <1>5, <1>6, <1>7, <1>8, Typed, Combine DEF Held, FencesAreRecords

\* rollback: a fence that is given back is the one of the plan.
LEMMA RollbackKeeps ==
  ASSUME IInv, NEW p \in Plans, NEW r \in Refs, Rollback(p, r)
  PROVE  IInv'
<1>1. plan \in [Plans -> PlanTypes] /\ plan[p] \in PlanTypes
  BY Typed
<1>2. /\ plan' \in [Plans -> PlanTypes]
      /\ plan[p].state \notin {"none", "retired"} /\ plan'[p].state = "rolled_back"
      /\ plan'[p].inventory = plan[p].inventory
      /\ plan'[p].cohorts = plan[p].cohorts
      /\ plan'[p].fence = plan[p].fence
      /\ plan'[p].checkpoint = plan[p].checkpoint
      /\ \A q \in Plans : q # p => plan'[q] = plan[q]
      /\ UNCHANGED <<inventories, backfills, shadows, readCutovers, checkpoints,
                     retirements>>
  BY <1>1, NextPlanMeaning DEF Rollback, PlanStates
<1>3. Held(rollbacks)'
  BY Typed DEF Rollback, Put, Held
<1>4. /\ DOMAIN fences' = DOMAIN fences
      /\ FencesAreRecords'
      /\ \A x \in DOMAIN fences :
           /\ fences'[x].by = fences[x].by /\ fences'[x].cohorts = fences[x].cohorts
           /\ fences'[x].asked = fences[x].asked
           /\ x # plan[p].fence => fences'[x].state = fences[x].state
      /\ plan[p].fence # "none" => fences'[plan[p].fence].state = "rolled_back"
  <2>1. CASE plan[p].state \in {"write_fenced", "checkpointed"}
    <3>1. plan[p].fence \in DOMAIN fences
      BY <2>1, Typed DEF Stages, StageOf, Fenced, FenceFollowsPlan
    <3>2. fences' = [fences EXCEPT ![plan[p].fence].state = "rolled_back"]
      BY <2>1 DEF Rollback, RolledBackFence
    <3> QED
      BY <3>1, <3>2, Typed DEF FencesAreRecords
  <2>2. CASE plan[p].state \notin {"write_fenced", "checkpointed"}
    <3>1. plan[p].fence # "none" => plan[p].state = "rolled_back"
      BY <2>2, <1>1, <1>2, Typed DEF Stages, StageOf, Unfenced, PlanTypes, PlanStates
    <3>2. fences' = fences
      BY <2>2 DEF Rollback, RolledBackFence
    <3> QED
      BY <3>1, <3>2, Typed DEF FencesAreRecords, FenceFollowsPlan
  <2> QED
    BY <2>1, <2>2
<1>5. Stages' /\ RetiredForGood'
  BY <1>2, Typed DEF Held, Stages, StageOf, RetiredForGood, Unfenced, Fenced
<1>6. FenceFollowsPlan'
  BY SMTT(60), <1>2, <1>4, Typed DEF Held, FenceFollowsPlan, FencesAreRecords
<1>7. InventoryReplays' /\ CheckpointReplays' /\ RetirementReplays'
  BY <1>2, Typed DEF Held, InventoryReplays, CheckpointReplays, RetirementReplays,
                     RetirementBound
<1>8. BackfillReplays' /\ CutoverReplays'
  BY <1>2, Typed DEF Held, BackfillReplays, CutoverReplays, BackfillBound, CutoverBound
<1> QED
  BY <1>2, <1>3, <1>4, <1>5, <1>6, <1>7, <1>8, Typed, Combine DEF Held

--------------------------------------------------------------------------------
(* The theorems.                                                              *)

\* The inductive invariant: whatever operators submit, repeat or roll back, in
\* any order, on any number of plans.
THEOREM InvariantHolds == MigrationSpec => []IInv
<1>1. MigrationInit => IInv
  BY MigrationAssumption
  DEF MigrationInit, IInv, MigrationTypeOK, FencesAreRecords, Stages, StageOf,
      RetiredForGood, FenceFollowsPlan, EvidenceReplays, NoPlan, Empty, Held,
      Fenced
<1>2. IInv /\ [MigrationNext]_migrationVars => IInv'
  <2> SUFFICES ASSUME IInv, [MigrationNext]_migrationVars PROVE IInv'
    OBVIOUS
  <2>1. CASE UNCHANGED migrationVars
    BY <2>1
    DEF migrationVars, IInv, MigrationTypeOK, FencesAreRecords, Stages, StageOf,
        RetiredForGood, FenceFollowsPlan, EvidenceReplays, Held, BackfillBound,
        CutoverBound, RetirementBound
  <2>2. ASSUME NEW p \in Plans, CreatePlan(p) PROVE IInv'
    BY <2>2, CreatePlanKeeps
  <2>3. ASSUME NEW p \in Plans, NEW r \in Refs, Submits(p, r) PROVE IInv'
    BY <2>3, FreezeInventoryKeeps, RecordBackfillKeeps, CutoverReadsKeeps,
       FenceWritesKeeps, CheckpointProjectionKeeps, RetireLegacyKeeps,
       RollbackKeeps
    DEF Submits
  <2>4. ASSUME NEW p \in Plans, NEW t \in Targets, NEW differs \in BOOLEAN,
               ReconcileShadow(p, t, differs)
        PROVE  IInv'
    BY <2>4, ReconcileShadowKeeps
  <2> QED
    BY <2>1, <2>2, <2>3, <2>4 DEF MigrationNext
<1> QED
  BY <1>1, <1>2, PTL DEF MigrationSpec

\* authority.py: plans, evidence and fences stay well typed.
THEOREM MigrationTypesHold == MigrationSpec => []MigrationTypeOK
<1>1. IInv => MigrationTypeOK
  BY DEF IInv
<1> QED
  BY <1>1, InvariantHolds, PTL

\* authority.py: the write fence of a plan stays as it was requested until the
\* plan's own rollback, is active behind every checkpoint and retirement, and
\* covers the cohorts of the plan (FenceFollowsPlan).
THEOREM FenceIsThePlans == MigrationSpec => []FenceFollowsPlan
<1>1. IInv => FenceFollowsPlan
  BY DEF IInv
<1> QED
  BY <1>1, InvariantHolds, PTL

\* authority.py: evidence that was accepted is answered again wherever its plan
\* has got to (EvidenceReplays).
THEOREM EvidenceIsKept == MigrationSpec => []EvidenceReplays
<1>1. IInv => EvidenceReplays
  BY DEF IInv
<1> QED
  BY <1>1, InvariantHolds, PTL
--------------------------------------------------------------------------------
(* Tool tasks                                                                 *)

\* What a run has got so far agrees with the dispatcher's record and the item:
\* the effect is under way under its own key, a result at hand is the stored
\* one, and an acknowledged outcome is the item's.
RunOK(d) ==
  /\ task[d].pc = "effecting" => journal.state = "began" /\ journal.by = d
  /\ task[d].pc = "committing" => task[d].result \in Results
  /\ task[d].pc \in {"returned", "committing"} /\ task[d].result \in Results =>
       task[d].result = journal.state
  /\ task[d].outcome \in Results => item.by = d
  /\ task[d].outcome = "skipped" => IsTerminal
  /\ task[d].outcome = "completed" => journal.state = "completed"

\* A claim is on an open item, which nobody has closed; a receipt is that of the
\* stored result; what completed was made.
ItemOK ==
  /\ IsTerminal <=> item.by # "none"
  /\ item.claim # "none" => ~IsTerminal
  /\ item.ref = "receipt" =>
       IsTerminal /\ journal.state \in Results /\ item.status = Status(journal.state)
  /\ journal.state = "completed" => journal.effect

TaskInv ==
  ToolTaskTypeOK /\ ItemOK /\ \A d \in Deliveries : RunOK(d)

\* The types of the records, field by field.
ItemTypes ==
  [status : {"open"} \cup TERMINAL_WORK_ITEM_STATES, claim : Deliveries \cup {"none"},
   by : Deliveries \cup {"none", "owner"}, ref : {"none", "receipt", "refusal"}]
RunTypes ==
  [pc : {"idle", "claiming", "unclaimed", "claimed", "resolving", "resolved",
         "executing", "effecting", "returned", "committing", "refusing", "ended"},
   result : Results \cup {"none", "indeterminate"},
   outcome : Acknowledged \cup {"none", "indeterminate", "fenced"}]
JournalTypes ==
  [state : {"none", "began"} \cup Results, effect : BOOLEAN,
   by : Deliveries \cup {"none"}]

LEMMA TaskTypes ==
  ToolTaskTypeOK <=> /\ item \in ItemTypes /\ task \in [Deliveries -> RunTypes]
                     /\ journal \in JournalTypes
BY DEF ToolTaskTypeOK, ItemTypes, RunTypes, JournalTypes

\* A run ends, moves on or gets a result; the other runs are as they were.
LEMMA RunMoves ==
  ASSUME ToolTaskTypeOK, NEW d \in Deliveries, NEW pc, NEW result, NEW outcome,
         [pc |-> pc, result |-> result, outcome |-> outcome] \in RunTypes,
         \/ Moves(d, pc) /\ result = task[d].result /\ outcome = task[d].outcome
         \/ Ends(d, outcome) /\ pc = "ended" /\ result = task[d].result
         \/ Returns(d, result) /\ pc = "returned" /\ outcome = task[d].outcome
  PROVE  /\ task' \in [Deliveries -> RunTypes]
         /\ task'[d].pc = pc /\ task'[d].result = result /\ task'[d].outcome = outcome
         /\ \A e \in Deliveries \ {d} : task'[e] = task[e]
<1>1. task \in [Deliveries -> RunTypes] /\ task[d] \in RunTypes
  BY TaskTypes
<1>2. task' = [task EXCEPT ![d] = [pc |-> pc, result |-> result, outcome |-> outcome]]
  BY <1>1 DEF Moves, Ends, Returns, RunTypes
<1> HIDE DEF RunTypes
<1> QED
  BY <1>1, <1>2

\* A step of delivery d on an open item, and on a record that is new or its own,
\* does not disturb what the others rely on.
LEMMA RunStep ==
  ASSUME TaskInv, NEW d \in Deliveries, item' \in ItemTypes, journal' \in JournalTypes,
         task' \in [Deliveries -> RunTypes], \A e \in Deliveries \ {d} : task'[e] = task[e],
         item' = item \/ ~IsTerminal,
         \/ journal' = journal
         \/ journal.state = "none"
         \/ journal.state = "began" /\ journal.by = d,
         ItemOK', RunOK(d)'
  PROVE  TaskInv'
<1>1. ToolTaskTypeOK'
  BY DEF ToolTaskTypeOK, ItemTypes, RunTypes, JournalTypes
<1>2. ASSUME NEW e \in Deliveries \ {d} PROVE RunOK(e)'
  <2>1. RunOK(e) /\ task'[e] = task[e] /\ ItemOK
    BY DEF TaskInv
  <2>2. /\ task[e].pc = "effecting" => journal' = journal
        /\ task[e].pc \in {"returned", "committing"} /\ task[e].result \in Results =>
             journal' = journal
        /\ task[e].outcome = "completed" => journal' = journal
    BY <2>1 DEF RunOK, Results
  <2>3. task[e].outcome \in Results \cup {"skipped"} => item' = item
    BY <2>1, ToolTaskAssumption DEF RunOK, ItemOK
  <2>4. IsTerminal /\ item' = item => IsTerminal'
    BY DEF IsTerminal
  <2>5. /\ task'[e].pc = "effecting" => journal'.state = "began" /\ journal'.by = e
        /\ task'[e].pc = "committing" => task'[e].result \in Results
        /\ task'[e].pc \in {"returned", "committing"} /\ task'[e].result \in Results =>
             task'[e].result = journal'.state
        /\ task'[e].outcome = "completed" => journal'.state = "completed"
    BY <2>1, <2>2 DEF RunOK
  <2>6. /\ task'[e].outcome \in Results => item'.by = e
        /\ task'[e].outcome = "skipped" => IsTerminal'
    BY <2>1, <2>3, <2>4 DEF RunOK
  <2> QED
    BY <2>5, <2>6 DEF RunOK
<1>3. \A e \in Deliveries : RunOK(e)'
  BY <1>2
<1> QED
  BY <1>1, <1>3 DEF TaskInv

\* A run that moves on or ends without a verdict, and changes nothing else.
LEMMA QuietStep ==
  ASSUME TaskInv, NEW d \in Deliveries, UNCHANGED <<item, journal>>,
         task' \in [Deliveries -> RunTypes], \A e \in Deliveries \ {d} : task'[e] = task[e],
         RunOK(d)'
  PROVE  TaskInv'
<1>1. item' \in ItemTypes /\ journal' \in JournalTypes
  BY TaskTypes DEF TaskInv
<1>2. ItemOK'
  BY DEF TaskInv, ItemOK, IsTerminal
<1> QED
  BY <1>1, <1>2, RunStep

\* A run moves on to a step that asks nothing of it.
LEMMA MovesOn ==
  ASSUME TaskInv, NEW d \in Deliveries, UNCHANGED <<item, journal>>,
         NEW pc \in {"claiming", "unclaimed", "claimed", "resolving", "resolved",
                     "executing", "refusing"},
         Moves(d, pc)
  PROVE  TaskInv'
<1>1. RunOK(d) /\ ToolTaskTypeOK /\ task[d] \in RunTypes
  BY TaskTypes DEF TaskInv
<1>2. /\ task' \in [Deliveries -> RunTypes] /\ task'[d].pc = pc
      /\ task'[d].outcome = task[d].outcome
      /\ \A e \in Deliveries \ {d} : task'[e] = task[e]
  BY <1>1, RunMoves DEF RunTypes
<1>3. RunOK(d)'
  BY <1>1, <1>2 DEF RunOK, IsTerminal
<1> QED
  BY <1>2, <1>3, QuietStep

\* A run ends without a verdict.
LEMMA EndsWithout ==
  ASSUME TaskInv, NEW d \in Deliveries, UNCHANGED <<item, journal>>,
         NEW o \in {"none", "skipped", "indeterminate", "fenced"}, Ends(d, o),
         o = "skipped" => IsTerminal
  PROVE  TaskInv'
<1>1. RunOK(d) /\ ToolTaskTypeOK /\ task[d] \in RunTypes
  BY TaskTypes DEF TaskInv
<1>2. /\ task' \in [Deliveries -> RunTypes] /\ task'[d].pc = "ended"
      /\ task'[d].outcome = o
      /\ \A e \in Deliveries \ {d} : task'[e] = task[e]
  BY <1>1, RunMoves DEF RunTypes, Acknowledged
<1>3. RunOK(d)'
  BY <1>1, <1>2 DEF RunOK, IsTerminal, Results
<1> QED
  BY <1>2, <1>3, QuietStep

\* What the worker does before the dispatcher is asked, and with its answer.
LEMMA WorkerKeeps ==
  ASSUME TaskInv, NEW d \in Deliveries,
         \/ Precheck(d) \/ ReadAgain(d) \/ CheckBeforeResolve(d) \/ ResolveRequest(d)
         \/ CheckBeforeExecute(d) \/ SettleTask(d)
  PROVE  TaskInv'
<1>1. CASE \/ Precheck(d) \/ ReadAgain(d) \/ CheckBeforeResolve(d) \/ ResolveRequest(d)
           \/ CheckBeforeExecute(d)
  BY <1>1, MovesOn, EndsWithout
  DEF Precheck, ReadAgain, CheckBeforeResolve, ResolveRequest, CheckBeforeExecute, RequireCurrent
<1>2. CASE SettleTask(d)
  <2>1. CASE Moves(d, "committing") /\ task[d].result \in Results
    <3>1. RunOK(d) /\ ToolTaskTypeOK /\ task[d] \in RunTypes /\ task[d].pc = "returned"
      BY <1>2, TaskTypes DEF TaskInv, SettleTask
    <3>2. /\ task' \in [Deliveries -> RunTypes] /\ task'[d].pc = "committing"
          /\ task'[d].outcome = task[d].outcome /\ task'[d].result = task[d].result
          /\ \A e \in Deliveries \ {d} : task'[e] = task[e]
      BY <2>1, <3>1, RunMoves DEF RunTypes
    <3>3. RunOK(d)'
      BY <1>2, <2>1, <3>1, <3>2 DEF RunOK, IsTerminal, SettleTask
    <3> QED
      BY <1>2, <3>2, <3>3, QuietStep DEF SettleTask
  <2> QED
    BY <1>2, <2>1, EndsWithout DEF SettleTask, RequireCurrent
<1> QED
  BY <1>1, <1>2

\* A claim on an open item, with or without its answer.
LEMMA ClaimKeeps ==
  ASSUME TaskInv, NEW d \in Deliveries, Claim(d) \/ ClaimAnswerLost(d)
  PROVE  TaskInv'
<1>1. RunOK(d) /\ ToolTaskTypeOK /\ task[d] \in RunTypes /\ UNCHANGED journal /\ ItemOK
  BY TaskTypes DEF TaskInv, Claim, ClaimAnswerLost
<1>2. CASE UNCHANGED item /\ Moves(d, "unclaimed")
  BY <1>1, <1>2, MovesOn
<1>3. CASE /\ ~IsTerminal /\ item' = [item EXCEPT !.claim = d]
           /\ Moves(d, "claimed") \/ Ends(d, "none")
  <2>1. /\ item' \in ItemTypes /\ item'.status = item.status /\ item'.by = item.by
        /\ item'.ref = item.ref /\ journal' \in JournalTypes
    BY <1>1, <1>3, TaskTypes DEF ItemTypes
  <2>2. /\ task' \in [Deliveries -> RunTypes] /\ task'[d].pc \in {"claimed", "ended"}
        /\ task'[d].outcome \in {task[d].outcome, "none"}
        /\ \A e \in Deliveries \ {d} : task'[e] = task[e]
    <3>1. CASE Moves(d, "claimed")
      BY <1>1, <3>1, RunMoves DEF RunTypes
    <3>2. CASE Ends(d, "none")
      BY <1>1, <3>2, RunMoves DEF RunTypes
    <3> QED
      BY <1>3, <3>1, <3>2
  <2>3. ItemOK' /\ RunOK(d)'
    BY <1>1, <1>3, <2>1, <2>2 DEF ItemOK, RunOK, IsTerminal, Results
  <2> QED
    BY <1>1, <1>3, <2>1, <2>2, <2>3, RunStep
<1> QED
  BY <1>2, <1>3 DEF Claim, ClaimAnswerLost

\* The dispatcher gives the stored result again, or none.
LEMMA RepeatKeeps ==
  ASSUME TaskInv, NEW d \in Deliveries, UNCHANGED <<item, journal>>,
         NEW r \in Results \cup {"none", "indeterminate"},
         r \in Results => r = journal.state, Returns(d, r)
  PROVE  TaskInv'
<1>1. RunOK(d) /\ ToolTaskTypeOK /\ task[d] \in RunTypes
  BY TaskTypes DEF TaskInv
<1>2. /\ task' \in [Deliveries -> RunTypes] /\ task'[d].pc = "returned"
      /\ task'[d].outcome = task[d].outcome /\ task'[d].result = r
      /\ \A e \in Deliveries \ {d} : task'[e] = task[e]
  BY <1>1, RunMoves DEF RunTypes
<1>3. RunOK(d)'
  BY <1>1, <1>2 DEF RunOK, IsTerminal
<1> QED
  BY <1>2, <1>3, QuietStep

\* The dispatcher's record of the job changes: it is new, or the run's own.
LEMMA RecordKeeps ==
  ASSUME TaskInv, NEW d \in Deliveries, UNCHANGED item, journal' \in JournalTypes,
         \/ journal.state = "none"
         \/ journal.state = "began" /\ journal.by = d,
         journal'.state = "completed" => journal'.effect,
         task' \in [Deliveries -> RunTypes], \A e \in Deliveries \ {d} : task'[e] = task[e],
         task'[d].outcome \in {task[d].outcome, "none"},
         \/ task'[d].pc = "effecting" /\ journal'.state = "began" /\ journal'.by = d
         \/ /\ task'[d].pc \in {"returned", "ended"}
            /\ task'[d].result \in Results => task'[d].pc = "ended" \/ task'[d].result = journal'.state
  PROVE  TaskInv'
<1>1. RunOK(d) /\ ItemOK /\ item \in ItemTypes
  BY TaskTypes DEF TaskInv
<1>2. ItemOK'
  BY <1>1 DEF ItemOK, IsTerminal, Results
<1>3. task[d].outcome # "completed"
  BY <1>1 DEF RunOK
<1>4. RunOK(d)'
  BY <1>1, <1>3 DEF RunOK, IsTerminal, Results
<1> QED
  BY <1>1, <1>2, <1>4, RunStep

\* The steps of the dispatcher: they keep one record of the job.
LEMMA DispatcherKeeps ==
  ASSUME TaskInv, NEW d \in Deliveries,
         \/ DispatchRepeats(d) \/ DispatchRefuses(d) \/ DispatchBegins(d)
         \/ \E result \in {"completed", "failed"} : DispatchStores(d, result)
         \/ DispatchFails(d)
  PROVE  TaskInv'
<1>0. UNCHANGED item
  BY ZenonT(60)
  DEF DispatchRepeats, DispatchRefuses, DispatchBegins, DispatchStores, DispatchFails
<1>1. /\ RunOK(d) /\ ToolTaskTypeOK /\ task[d] \in RunTypes /\ journal \in JournalTypes
      /\ UNCHANGED item
  BY <1>0, TaskTypes DEF TaskInv
<1>2. CASE DispatchRepeats(d)
  <2> DEFINE r == IF journal.state = "began" THEN "indeterminate" ELSE journal.state
  <2>1. /\ r \in Results \cup {"none", "indeterminate"}
        /\ r \in Results => r = journal.state
        /\ Returns(d, r) /\ UNCHANGED <<item, journal>>
    BY <1>1, <1>2 DEF DispatchRepeats, JournalTypes, Results
  <2> HIDE DEF r
  <2> QED
    BY <2>1, RepeatKeeps
<1>3. ASSUME NEW r \in Results \cup {"none", "indeterminate"}, Returns(d, r)
      PROVE  /\ task' \in [Deliveries -> RunTypes] /\ task'[d].pc = "returned"
             /\ task'[d].outcome = task[d].outcome /\ task'[d].result = r
             /\ \A e \in Deliveries \ {d} : task'[e] = task[e]
  BY <1>1, <1>3, RunMoves DEF RunTypes
<1>4. CASE DispatchRefuses(d)
  <2>1. /\ journal.state = "none" /\ journal' \in JournalTypes /\ journal'.state = "refused"
    BY <1>1, <1>4 DEF DispatchRefuses, JournalTypes, Results
  <2>2. PICK r \in {"none", "refused"} : Returns(d, r)
    BY <1>4 DEF DispatchRefuses
  <2>3. /\ task' \in [Deliveries -> RunTypes] /\ task'[d].pc = "returned"
        /\ task'[d].outcome = task[d].outcome /\ task'[d].result = r
        /\ \A e \in Deliveries \ {d} : task'[e] = task[e]
    BY <1>3, <2>2 DEF Results
  <2> QED
    BY <1>1, <2>1, <2>3, RecordKeeps DEF Results
<1>5. CASE DispatchBegins(d)
  <2>1. CASE item.claim = d
    <3>1. /\ journal.state = "none" /\ journal' \in JournalTypes
          /\ journal'.state = "began" /\ journal'.by = d /\ Moves(d, "effecting")
      BY <1>1, <1>5, <2>1 DEF DispatchBegins, RequireCurrent, JournalTypes
    <3>2. /\ task' \in [Deliveries -> RunTypes] /\ task'[d].pc = "effecting"
          /\ task'[d].outcome = task[d].outcome
          /\ \A e \in Deliveries \ {d} : task'[e] = task[e]
      BY <1>1, <3>1, RunMoves DEF RunTypes
    <3> QED
      BY <1>1, <3>1, <3>2, RecordKeeps
  <2>2. CASE item.claim # d
    BY <1>1, <1>5, <2>2, EndsWithout DEF DispatchBegins, RequireCurrent
  <2> QED
    BY <2>1, <2>2
<1>6. ASSUME NEW result \in {"completed", "failed"}, DispatchStores(d, result)
      PROVE  TaskInv'
  <2> DEFINE Stored(made) == [journal EXCEPT !.state = result, !.effect = made]
  <2>0. /\ task[d].pc = "effecting"
        /\ \E made \in BOOLEAN : (result = "completed" => made) /\ journal' = Stored(made)
        /\ \E r \in {"none", result} : Returns(d, r)
    BY Zenon, <1>6 DEF DispatchStores
  <2>1. journal.state = "began" /\ journal.by = d
    BY <1>1, <2>0 DEF RunOK
  <2>2. /\ journal' \in JournalTypes /\ journal'.state = result
        /\ result = "completed" => journal'.effect
    <3>1. PICK made \in BOOLEAN : (result = "completed" => made) /\ journal' = Stored(made)
      BY Zenon, <2>0
    <3>2. /\ journal' \in JournalTypes /\ journal'.state = result /\ journal'.effect = made
      BY <1>1, <3>1 DEF JournalTypes, Results
    <3> QED
      BY Zenon, <3>1, <3>2
  <2>3. PICK r \in {"none", result} : Returns(d, r)
    BY <2>0
  <2>4. /\ task' \in [Deliveries -> RunTypes] /\ task'[d].pc = "returned"
        /\ task'[d].outcome = task[d].outcome /\ task'[d].result = r
        /\ \A e \in Deliveries \ {d} : task'[e] = task[e]
    BY <1>3, <2>3 DEF Results
  <2>5. task'[d].result \in Results => task'[d].result = journal'.state
    BY <2>2, <2>3, <2>4 DEF Results
  <2> QED
    BY <1>1, <2>1, <2>2, <2>4, <2>5, RecordKeeps
<1>7. CASE DispatchFails(d)
  <2>1. CASE UNCHANGED journal
    BY <1>1, <1>7, <2>1, RepeatKeeps DEF DispatchFails, Results
  <2>2. CASE task[d].pc = "effecting"
    <3>1. journal.state = "began" /\ journal.by = d
      BY <1>1, <2>2 DEF RunOK
    <3>2. journal' \in JournalTypes /\ journal'.state = "began"
      BY <1>1, <1>7, <2>2, <3>1 DEF DispatchFails, LeavesEffect, JournalTypes
    <3>3. /\ task' \in [Deliveries -> RunTypes] /\ task'[d].pc = "returned"
          /\ task'[d].outcome = task[d].outcome /\ task'[d].result = "none"
          /\ \A e \in Deliveries \ {d} : task'[e] = task[e]
      BY <1>3, <1>7 DEF DispatchFails
    <3> QED
      BY <1>1, <3>1, <3>2, <3>3, RecordKeeps DEF Results
  <2> QED
    BY <1>7, <2>1, <2>2 DEF DispatchFails, LeavesEffect
<1> QED
  BY <1>2, <1>4, <1>5, <1>6, <1>7

\* An open item is closed under its claim, with the stored result or a refusal.
LEMMA ClosingKeeps ==
  ASSUME TaskInv, NEW d \in Deliveries, item.claim = d, UNCHANGED journal,
         NEW status \in {"succeeded", "failed"}, NEW ref \in {"receipt", "refusal"},
         item' = Closed(status, d, ref),
         NEW o \in Results \cup {"none"}, Ends(d, o),
         ref = "receipt" => journal.state \in Results /\ status = Status(journal.state),
         o = "completed" => journal.state = "completed"
  PROVE  TaskInv'
<1>1. /\ RunOK(d) /\ ToolTaskTypeOK /\ task[d] \in RunTypes /\ ItemOK
      /\ journal' \in JournalTypes
  BY TaskTypes DEF TaskInv
<1>2. ~IsTerminal /\ d # "none"
  BY <1>1, ToolTaskAssumption DEF ItemOK
<1>3. /\ item' \in ItemTypes /\ item'.status = status /\ item'.by = d /\ item'.ref = ref
      /\ item'.claim = "none" /\ IsTerminal'
  BY DEF Closed, ItemTypes, IsTerminal, TERMINAL_WORK_ITEM_STATES
<1>4. /\ task' \in [Deliveries -> RunTypes] /\ task'[d].pc = "ended"
      /\ task'[d].outcome = o
      /\ \A e \in Deliveries \ {d} : task'[e] = task[e]
  <2>1. [pc |-> "ended", result |-> task[d].result, outcome |-> o] \in RunTypes
    BY <1>1 DEF RunTypes, Acknowledged, Results
  <2> QED
    BY <1>1, <2>1, RunMoves
<1>5. ItemOK'
  BY <1>1, <1>2, <1>3 DEF ItemOK, Status
<1>6. RunOK(d)'
  BY <1>3, <1>4 DEF RunOK, Results
<1> QED
  BY <1>1, <1>2, <1>3, <1>4, <1>5, <1>6, RunStep

\* fence.commit of a result or a refusal.
LEMMA CommitKeeps ==
  ASSUME TaskInv, NEW d \in Deliveries,
         CommitResult(d) \/ CommitRefusal(d) \/ CommitAnswerLost(d)
  PROVE  TaskInv'
<1>1. RunOK(d) /\ UNCHANGED journal
  BY DEF TaskInv, CommitResult, CommitRefusal, CommitAnswerLost, Commit
<1>2. CASE item.claim # d
  BY <1>1, <1>2, EndsWithout DEF CommitResult, CommitRefusal, CommitAnswerLost, Commit
<1>3. CASE item.claim = d /\ task[d].pc = "committing"
  <2> DEFINE r == task[d].result
  <2>1. r \in Results /\ r = journal.state /\ Status(r) \in {"succeeded", "failed"}
    BY <1>1, <1>3 DEF RunOK, Status
  <2>2. /\ item' = Closed(Status(r), d, "receipt")
        /\ Ends(d, r) \/ Ends(d, "none")
    BY <1>3 DEF CommitResult, CommitRefusal, CommitAnswerLost, Commit
  <2> HIDE DEF r
  <2> QED
    BY <1>1, <1>3, <2>1, <2>2, ClosingKeeps DEF Results
<1>4. CASE item.claim = d /\ task[d].pc = "refusing"
  <2>1. /\ item' = Closed("failed", d, "refusal")
        /\ Ends(d, "refused") \/ Ends(d, "none")
    BY <1>4 DEF CommitResult, CommitRefusal, CommitAnswerLost, Commit
  <2> QED
    BY <1>1, <1>4, <2>1, ClosingKeeps DEF Results
<1> QED
  BY <1>2, <1>3, <1>4 DEF CommitResult, CommitRefusal, CommitAnswerLost

\* A worker dies, also while the dispatcher makes the call for it.
LEMMA DiesKeeps ==
  ASSUME TaskInv, NEW d \in Deliveries, Dies(d)
  PROVE  TaskInv'
<1>1. CASE UNCHANGED journal
  BY <1>1, EndsWithout DEF Dies
<1>2. CASE task[d].pc = "effecting"
  <2>1. RunOK(d) /\ ToolTaskTypeOK /\ task[d] \in RunTypes /\ journal \in JournalTypes
    BY TaskTypes DEF TaskInv
  <2>2. journal.state = "began" /\ journal.by = d
    BY <1>2, <2>1 DEF RunOK
  <2>3. journal' \in JournalTypes /\ journal'.state = "began"
    BY <1>2, <2>1, <2>2 DEF Dies, LeavesEffect, JournalTypes
  <2>4. /\ task' \in [Deliveries -> RunTypes] /\ task'[d].pc = "ended"
        /\ task'[d].outcome = "none"
        /\ \A e \in Deliveries \ {d} : task'[e] = task[e]
    <3>1. [pc |-> "ended", result |-> task[d].result, outcome |-> "none"] \in RunTypes
      BY <2>1 DEF RunTypes
    <3>2. Ends(d, "none")
      BY DEF Dies
    <3> QED
      BY <2>1, <3>1, <3>2, RunMoves
  <2> QED
    BY <2>2, <2>3, <2>4, RecordKeeps DEF Dies
<1> QED
  BY <1>1, <1>2 DEF Dies, LeavesEffect

\* A lease lapses, or the owner closes the open item.
LEMMA ItemKeeps ==
  ASSUME TaskInv,
         LeaseLapses \/ \E status \in TERMINAL_WORK_ITEM_STATES : OwnerCloses(status)
  PROVE  TaskInv'
<1>1. ToolTaskTypeOK /\ ItemOK /\ item \in ItemTypes /\ UNCHANGED <<task, journal>>
  BY TaskTypes DEF TaskInv, LeaseLapses, OwnerCloses
<1>2. CASE LeaseLapses
  <2>1. /\ item' \in ItemTypes /\ item'.status = item.status /\ item'.by = item.by
        /\ item'.ref = item.ref /\ item'.claim = "none"
    BY <1>1, <1>2 DEF LeaseLapses, ItemTypes
  <2>2. ItemOK' /\ \A d \in Deliveries : RunOK(d)'
    BY <1>1, <2>1 DEF TaskInv, ItemOK, RunOK, IsTerminal
  <2> QED
    BY <1>1, <2>1, <2>2, TaskTypes DEF TaskInv, ToolTaskTypeOK, ItemTypes
<1>3. ASSUME NEW status \in TERMINAL_WORK_ITEM_STATES, OwnerCloses(status) PROVE TaskInv'
  <2>1. /\ item' \in ItemTypes /\ item'.status = status /\ item'.by = "owner"
        /\ item'.ref = "none" /\ item'.claim = "none" /\ IsTerminal' /\ ~IsTerminal
    BY <1>3 DEF OwnerCloses, Closed, ItemTypes, IsTerminal
  <2>2. item.by = "none"
    BY <1>1, <2>1 DEF ItemOK
  <2>3. \A d \in Deliveries : RunOK(d) /\ task[d].outcome \notin Results
    BY <2>2, ToolTaskAssumption DEF TaskInv, RunOK
  <2>4. \A d \in Deliveries : RunOK(d)'
    BY <1>1, <2>1, <2>3 DEF RunOK
  <2>5. ItemOK'
    BY <1>1, <2>1 DEF ItemOK
  <2> QED
    BY <1>1, <2>1, <2>4, <2>5 DEF TaskInv, ToolTaskTypeOK, ItemTypes
<1> QED
  BY <1>1, <1>2, <1>3

\* The invariant of the tool tasks, for any number of deliveries and workers.
THEOREM TaskInvariantHolds == TaskSpec => []TaskInv
<1>1. TaskInit => TaskInv
  <2> SUFFICES ASSUME TaskInit PROVE TaskInv
    OBVIOUS
  <2>1. ToolTaskTypeOK
    BY DEF TaskInit, ToolTaskTypeOK
  <2>2. ItemOK /\ \A d \in Deliveries : RunOK(d)
    BY DEF TaskInit, ItemOK, RunOK, IsTerminal, TERMINAL_WORK_ITEM_STATES, Results
  <2> QED
    BY <2>1, <2>2 DEF TaskInv
<1>2. TaskInv /\ [TaskNext]_taskVars => TaskInv'
  <2> SUFFICES ASSUME TaskInv, [TaskNext]_taskVars PROVE TaskInv'
    OBVIOUS
  <2>1. CASE UNCHANGED taskVars
    BY <2>1 DEF taskVars, TaskInv, ToolTaskTypeOK, ItemOK, RunOK, IsTerminal
  <2>2. CASE \/ LeaseLapses
             \/ \E status \in TERMINAL_WORK_ITEM_STATES : OwnerCloses(status)
    BY <2>2, ItemKeeps
  <2>3. ASSUME NEW d \in Deliveries,
               \/ Precheck(d) \/ Claim(d) \/ ClaimAnswerLost(d) \/ ReadAgain(d)
               \/ Executes(d) \/ SettleTask(d)
               \/ CommitResult(d) \/ CommitRefusal(d) \/ CommitAnswerLost(d) \/ Dies(d)
        PROVE  TaskInv'
    BY <2>3, WorkerKeeps, ClaimKeeps, DispatcherKeeps, CommitKeeps, DiesKeeps
    DEF Executes
  <2> QED
    BY <2>1, <2>2, <2>3 DEF TaskNext
<1> QED
  BY <1>1, <1>2, PTL DEF TaskSpec

\* tool_task.py: the work item, the runs and the dispatcher's record stay well
\* typed.
THEOREM TaskTypesHold == TaskSpec => []ToolTaskTypeOK
<1>1. TaskInv => ToolTaskTypeOK
  BY DEF TaskInv
<1> QED
  BY <1>1, TaskInvariantHolds, PTL

\* tool_task.py: a delivery that ToolTaskRun.acknowledge lets the broker forget
\* has a terminal work item, whoever lost a lease or a commit on the way.
THEOREM NoJobIsForgotten == TaskSpec => []AcknowledgedIsDecided
<1>1. TaskInv => AcknowledgedIsDecided
  BY ToolTaskAssumption
  DEF TaskInv, AcknowledgedIsDecided, RunOK, ItemOK, Acknowledged, Results
<1> QED
  BY <1>1, TaskInvariantHolds, PTL

\* tool_task.py: _settle commits only a proven outcome, and one delivery only
\* reports it, however often leases lapse after the last check.
THEOREM VerdictsAreProven == TaskSpec => []OneProvenVerdict
<1>1. TaskInv => OneProvenVerdict
  <2> SUFFICES ASSUME TaskInv PROVE OneProvenVerdict
    OBVIOUS
  <2>1. item.ref = "receipt" =>
          journal.state \in Results /\ item.status = Status(journal.state)
    BY DEF TaskInv, ItemOK
  <2>2. \A d, e \in Deliveries :
          task[d].outcome \in Results /\ task[e].outcome \in Results => d = e
    BY DEF TaskInv, RunOK
  <2>3. \A d \in Deliveries : task[d].outcome = "completed" => journal.effect
    BY DEF TaskInv, RunOK, ItemOK
  <2> QED
    BY <2>1, <2>2, <2>3 DEF OneProvenVerdict
<1> QED
  BY <1>1, TaskInvariantHolds, PTL
================================================================================
