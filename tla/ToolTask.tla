------------------------------- MODULE ToolTask -------------------------------
(***************************************************************************)
(* The worker of arbora/a2a/tool_task.py: the deliveries of one tool-task   *)
(* job, each a call of run_tool_task, by workers that share the job's work  *)
(* item in epistemic-graph (EG) and the dispatcher that makes the call.     *)
(*                                                                         *)
(* The broker delivers a job more than once: after a delivery that was not  *)
(* acknowledged, and beside one that still runs.  A lease lapses when its   *)
(* worker is late, between any two steps.  EG refuses a renewal or commit   *)
(* under a claim that is not current, with WorkItemLeaseLost.  A claim is   *)
(* named after the delivery that made it.                                   *)
(*                                                                         *)
(* A carrier that does not match the admitted item is rejected before       *)
(* anything happens; the deliveries here match.                             *)
(***************************************************************************)
CONSTANT Deliveries

ASSUME ToolTaskAssumption == Deliveries \cap {"none", "owner"} = {}

VARIABLES
  item,      \* the work item; by: who made it terminal
  task,      \* task[d]: the run of delivery d; result: what execute gave it
  journal    \* the dispatcher's record of the job; by: whose execution it is

taskVars == <<item, task, journal>>

Results == {"completed", "failed", "refused"}

\* _ACKNOWLEDGED
Acknowledged == {"completed", "failed", "refused", "skipped"}

TERMINAL_WORK_ITEM_STATES == {"succeeded", "failed", "cancelled", "dead_letter"}

ToolTaskTypeOK ==
  /\ item \in [status : {"open"} \cup TERMINAL_WORK_ITEM_STATES,
               claim : Deliveries \cup {"none"},
               by : Deliveries \cup {"none", "owner"},
               ref : {"none", "receipt", "refusal"}]
  /\ task \in [Deliveries ->
       [pc : {"idle", "claiming", "unclaimed", "claimed", "resolving", "resolved",
              "executing", "effecting", "returned", "committing", "refusing", "ended"},
        result : Results \cup {"none", "indeterminate"},
        outcome : Acknowledged \cup {"none", "indeterminate", "fenced"}]]
  /\ journal \in [state : {"none", "began"} \cup Results, effect : BOOLEAN,
                  by : Deliveries \cup {"none"}]

TaskInit ==
  /\ item = [status |-> "open", claim |-> "none", by |-> "none", ref |-> "none"]
  /\ task = [d \in Deliveries |->
               [pc |-> "idle", result |-> "none", outcome |-> "none"]]
  /\ journal = [state |-> "none", effect |-> FALSE, by |-> "none"]

\* _is_terminal
IsTerminal == item.status \in TERMINAL_WORK_ITEM_STATES

Moves(d, pc) == task' = [task EXCEPT ![d].pc = pc]
Ends(d, outcome) == task' = [task EXCEPT ![d].pc = "ended", ![d].outcome = outcome]

-----------------------------------------------------------------------------
(* run_tool_task up to the claim                                            *)

\* _precheck.  Each worker has its own clock: a delivery may be past its deadline.
Precheck(d) ==
  /\ task[d].pc = "idle"
  /\ \/ IsTerminal /\ Ends(d, "skipped")
     \/ ~IsTerminal /\ (Ends(d, "indeterminate") \/ Moves(d, "claiming"))
  /\ UNCHANGED <<item, journal>>

Claim(d) ==
  /\ task[d].pc = "claiming"
  /\ IF ~IsTerminal /\ item.claim = "none"
       THEN item' = [item EXCEPT !.claim = d] /\ Moves(d, "claimed")
       ELSE UNCHANGED item /\ Moves(d, "unclaimed")
  /\ UNCHANGED journal

\* Mutant: whoever gets no claim takes the item to be done with.
ReadAgainNever(d) ==
  /\ task[d].pc = "unclaimed"
  /\ Ends(d, "skipped")
  /\ UNCHANGED <<item, journal>>

\* EG makes the claim and its answer is lost: nobody works under it until it lapses.
ClaimAnswerLost(d) ==
  /\ task[d].pc = "claiming" /\ ~IsTerminal /\ item.claim = "none"
  /\ item' = [item EXCEPT !.claim = d]
  /\ Ends(d, "none")
  /\ UNCHANGED journal

\* The record is read again when there was nothing to claim.
ReadAgain(d) ==
  /\ task[d].pc = "unclaimed"
  /\ Ends(d, IF IsTerminal THEN "skipped" ELSE "fenced")
  /\ UNCHANGED <<item, journal>>

-----------------------------------------------------------------------------
(* _execute                                                                 *)

\* require_current renews the lease or raises WorkItemLeaseLost, which ends the
\* run as fenced.
RequireCurrent(d, pc) ==
  IF item.claim = d THEN Moves(d, pc) ELSE Ends(d, "fenced")

CheckBeforeResolve(d) ==
  /\ task[d].pc = "claimed"
  /\ RequireCurrent(d, "resolving")
  /\ UNCHANGED <<item, journal>>

\* _resolve: without a dispatcher, or when it does not give the admitted request,
\* the task is refused.
ResolveRequest(d) ==
  /\ task[d].pc = "resolving"
  /\ Moves(d, "resolved") \/ Moves(d, "refusing")
  /\ UNCHANGED <<item, journal>>

CheckBeforeExecute(d) ==
  /\ task[d].pc = "resolved"
  /\ RequireCurrent(d, "executing")
  /\ UNCHANGED <<item, journal>>

\* The dispatcher's answer; _bound and the handler of exceptions let no other pass.
Returns(d, result) ==
  task' = [task EXCEPT ![d].pc = "returned", ![d].result = result]

\* The job has a record in the dispatcher: its result is given again, if there
\* is one.
DispatchRepeats(d) ==
  /\ task[d].pc = "executing" /\ journal.state # "none"
  /\ Returns(d, IF journal.state = "began" THEN "indeterminate" ELSE journal.state)
  /\ UNCHANGED <<item, journal>>

\* The caller is no longer authorized: nothing is done.
DispatchRefuses(d) ==
  /\ task[d].pc = "executing" /\ journal.state = "none"
  /\ journal' = [journal EXCEPT !.state = "refused", !.by = d]
  /\ Returns(d, "none") \/ Returns(d, "refused")
  /\ UNCHANGED item

\* require_current immediately before effects, under the key of the job.
DispatchBegins(d) ==
  /\ task[d].pc = "executing" /\ journal.state = "none"
  /\ RequireCurrent(d, "effecting")
  /\ journal' = IF item.claim = d THEN [journal EXCEPT !.state = "began", !.by = d]
                                  ELSE journal
  /\ UNCHANGED item

\* The call is made and its result stored before it is returned.
DispatchStores(d, result) ==
  /\ task[d].pc = "effecting"
  /\ \E made \in BOOLEAN :
       /\ result = "completed" => made
       /\ journal' = [journal EXCEPT !.state = result, !.effect = made]
  /\ Returns(d, "none") \/ Returns(d, result)
  /\ UNCHANGED item

\* What a call that ends without a result leaves: the effect was made or not.
LeavesEffect(d) ==
  \E made \in BOOLEAN :
    journal' = IF task[d].pc = "effecting" THEN [journal EXCEPT !.effect = made]
                                           ELSE journal

\* execute raises, before or after the effect, or returns what is not bound.
DispatchFails(d) ==
  /\ task[d].pc \in {"executing", "effecting"}
  /\ LeavesEffect(d)
  /\ Returns(d, "none")
  /\ UNCHANGED item

-----------------------------------------------------------------------------
(* _settle                                                                  *)

\* Without a bound and definite result the item stays open, under the claim.
SettleTask(d) ==
  /\ task[d].pc = "returned"
  /\ IF task[d].result \in Results
       THEN RequireCurrent(d, "committing")
       ELSE Ends(d, "indeterminate")
  /\ UNCHANGED <<item, journal>>

Status(result) == IF result = "completed" THEN "succeeded" ELSE "failed"

Closed(status, by, ref) == [status |-> status, claim |-> "none", by |-> by, ref |-> ref]

\* Mutant: EG takes a commit from whoever has had a claim.
CommitUnfenced(d, status, ref, outcome) ==
  /\ item' = Closed(status, d, ref) /\ Ends(d, outcome)
  /\ UNCHANGED journal

\* fence.commit, under the claim; without it the run ends as fenced.
Commit(d, status, ref, outcome) ==
  /\ IF item.claim = d
       THEN item' = Closed(status, d, ref) /\ Ends(d, outcome)
       ELSE UNCHANGED item /\ Ends(d, "fenced")
  /\ UNCHANGED journal

CommitResult(d) ==
  /\ task[d].pc = "committing"
  /\ Commit(d, Status(task[d].result), "receipt", task[d].result)

CommitRefusal(d) ==
  /\ task[d].pc = "refusing"
  /\ Commit(d, "failed", "refusal", "refused")

\* The commit is made and its answer lost: the error leaves run_tool_task.
CommitAnswerLost(d) ==
  /\ task[d].pc \in {"committing", "refusing"} /\ item.claim = d
  /\ item' = IF task[d].pc = "committing"
               THEN Closed(Status(task[d].result), d, "receipt")
               ELSE Closed("failed", d, "refusal")
  /\ Ends(d, "none")
  /\ UNCHANGED journal

-----------------------------------------------------------------------------

\* The worker crashes, or a call to EG or resolve raises: no outcome, and the
\* delivery is not acknowledged.  Inside execute only a crash ends the run.
Dies(d) ==
  /\ task[d].pc \notin {"idle", "ended"}
  /\ Ends(d, "none")
  /\ LeavesEffect(d)
  /\ UNCHANGED item

LeaseLapses ==
  /\ item.claim # "none"
  /\ item' = [item EXCEPT !.claim = "none"]
  /\ UNCHANGED <<task, journal>>

\* The owner of the job reconciles or cancels the open item.
OwnerCloses(status) ==
  /\ ~IsTerminal
  /\ item' = Closed(status, "owner", "none")
  /\ UNCHANGED <<task, journal>>

Executes(d) ==
  \/ CheckBeforeResolve(d) \/ ResolveRequest(d) \/ CheckBeforeExecute(d)
  \/ DispatchRepeats(d) \/ DispatchRefuses(d) \/ DispatchBegins(d)
  \/ \E result \in {"completed", "failed"} : DispatchStores(d, result)
  \/ DispatchFails(d)

TaskNext ==
  \/ LeaseLapses
  \/ \E status \in TERMINAL_WORK_ITEM_STATES : OwnerCloses(status)
  \/ \E d \in Deliveries :
       \/ Precheck(d) \/ Claim(d) \/ ClaimAnswerLost(d) \/ ReadAgain(d)
       \/ Executes(d) \/ SettleTask(d)
       \/ CommitResult(d) \/ CommitRefusal(d) \/ CommitAnswerLost(d) \/ Dies(d)

TaskSpec == TaskInit /\ [][TaskNext]_taskVars
-----------------------------------------------------------------------------
(* Properties *)

\* The broker is told to forget a delivery only when the job is decided, also by
\* a worker that lost its lease between its last check and its commit, or found
\* the item claimed by another one: an acknowledged delivery has a terminal item.
AcknowledgedIsDecided ==
  \A d \in Deliveries : task[d].outcome \in Acknowledged => IsTerminal

\* "commit only a proven outcome", whichever of the workers that ran the job
\* after a lapsed lease commits it: an item with a receipt has the status of the
\* one result that the dispatcher stored, an effect without a stored result
\* brings no receipt, and no two deliveries report a verdict.
OneProvenVerdict ==
  /\ item.ref = "receipt" =>
       journal.state \in Results /\ item.status = Status(journal.state)
  /\ \A d, e \in Deliveries :
       task[d].outcome \in Results /\ task[e].outcome \in Results => d = e
  /\ \A d \in Deliveries : task[d].outcome = "completed" => journal.effect

\* tool_task.py says that "an uncertain effect leaves the WorkItem open and the
\* delivery unacknowledged, so that only the owner can reconcile it", and of a
\* refusal that "it proves that no effect happened": a worker does not close the
\* item of a job that had an effect without its stored result.
UncertainStaysOpen ==
  item.by \in Deliveries /\ journal.effect => journal.state \in Results
================================================================================
