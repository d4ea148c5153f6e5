------------------------------ MODULE BrowserCall ------------------------------
(***************************************************************************)
(* One browser-control call, from its durable fence to its receipt.         *)
(*                                                                         *)
(* The call is shared by the tasks of one event loop: the caller            *)
(* (execute_call), the abort task that outlives a caller who was cut off,   *)
(* clients that cancel or reconcile it, the disconnect of its channel, the  *)
(* receipt of a late result, and the reaper of a call whose effect is       *)
(* unknown.  A step is what a task does between two awaits; the calls of    *)
(* the engine run in threads, so a task that is cut off leaves one behind   *)
(* which has taken effect or has not.                                       *)
(*                                                                         *)
(* An execute_call that finds its fence submitted already (_replayed_call)  *)
(* only reads, and is not among the tasks.                                  *)
(*                                                                         *)
(* The locks need no variables: the caller holds dispatch_lock and the      *)
(* service's _lock at "sending" and nobody else holds either over an await; *)
(* finalize_lock is held at "settle", "store" and "close".                  *)
(***************************************************************************)
EXTENDS Integers, FiniteSets

CONSTANT Clients   \* calls of cancel_call and reconcile_call

ASSUME ClientsAssumption ==
  Clients \cap {"caller", "abort", "disconnect", "late", "reaper"} = {}

VARIABLES
  entry,     \* the _ActiveCall
  work,      \* the WorkItem that is its fence; "none" before it is submitted
  task,      \* where each task is and the receipt it is about to finalize
  channel,   \* is the document's channel open
  page,      \* the page: has it got the call and the cancellation, did it act
  torn       \* history: the page got the call from a send that did not return

callVars == <<entry, work, task, channel, page, torn>>

CallTasks == Clients \cup {"caller", "abort", "disconnect", "late", "reaper"}

Receipt(status, effect) == [status |-> status, effect |-> effect]
NoReceipt   == Receipt("none", "none")
Unknown     == Receipt("unknown", "unknown")
CancelledUntouched == Receipt("cancelled", "none")
TerminalWork == {"succeeded", "failed", "cancelled"}

CallInit ==
  /\ entry = [claim |-> FALSE, dispatched |-> FALSE, timedOut |-> FALSE,
              cancelling |-> FALSE, result |-> "none", ack |-> "pending",
              terminal |-> NoReceipt, completed |-> NoReceipt, live |-> FALSE]
  /\ work = "none"
  /\ task = [t \in CallTasks |->
               [pc |-> IF t = "caller" THEN "fence" ELSE "idle", verdict |-> NoReceipt]]
  /\ channel = TRUE
  /\ page = [got |-> FALSE, asked |-> FALSE, did |-> "nothing"]
  /\ torn = FALSE

pc(t) == task[t].pc
Terminal == entry.terminal # NoReceipt
Sending == pc("caller") = "sending"
Finalizing == {t \in CallTasks : pc(t) \in {"settle", "store", "close"}}

FinalizeFree == Finalizing = {}

At(t, label) == [task EXCEPT ![t].pc = label]
Move(t, label) == task' = At(t, label)

\* _finalize is called with a receipt and waits for its lock.
Finalize(t, receipt) ==
  task' = [task EXCEPT ![t] = [pc |-> "finalize", verdict |-> receipt]]

\* _finalize_result
ReceiptFor(result) ==
  IF result = "succeeded" THEN Receipt("succeeded", "committed")
                          ELSE Receipt("failed", "none")
ResultReceipt == ReceiptFor(entry.result)

\* _start_call_abort: an abort that is under way is not started again.
WithAbort(tasks, label) ==
  IF tasks["abort"].pc \in {"idle", "done"}
  THEN [tasks EXCEPT !["abort"].pc = label] ELSE tasks

\* Mutant: the outcome that could not be stored is left to whoever asks again.
WithoutReaper(tasks) == tasks

\* _schedule_unknown_reaper
WithReaper(tasks) ==
  IF tasks["reaper"].pc \in {"idle", "done"}
  THEN [tasks EXCEPT !["reaper"].pc = "sleep"] ELSE tasks

-------------------------------------------------------------------------------
(* The WorkItem in the engine *)

\* commit_call_outcome, commit_result: what the engine makes of an item that is
\* held and of one that has come to its end ("noop").
Committed(status) == IF work = "claimed" THEN status ELSE work

\* cancel_work_item: only a pending item can be cancelled.
WasCancelled == work \in {"pending", "cancelled"}

\* The outcome t is about to make durable (_terminalize_work_item): with a claim
\* it is committed, without one the pending item is cancelled.
Commits(t) == entry.claim /\ task[t].verdict.status # "unknown"
Cancels(t) == ~entry.claim /\ task[t].verdict.status = "cancelled"
AfterSettle(t) ==
  IF Commits(t) THEN Committed(task[t].verdict.status)
  ELSE IF Cancels(t) /\ WasCancelled THEN "cancelled" ELSE work

\* What has become of the item when the engine call of t was not answered.
Unanswered(t) ==
  {work} \cup CASE pc(t) = "fence"  -> {"pending"}
                [] pc(t) = "claim"  -> {IF work = "pending" THEN "claimed" ELSE work}
                [] pc(t) = "settle" -> {AfterSettle(t)}
                [] OTHER            -> {}

-------------------------------------------------------------------------------
(* execute_call *)

\* _submit_fence answers, or fails before or after the item was created.
SubmitFence ==
  /\ pc("caller") = "fence"
  /\ \/ work' = "pending" /\ Move("caller", "admit")
     \/ /\ work' \in Unanswered("caller")
        /\ task' = WithAbort(At("caller", "done"), "recover")
  /\ UNCHANGED <<entry, channel, page, torn>>

\* The pending audit, and the call becomes active.
Admit ==
  /\ pc("caller") = "admit"
  /\ \/ entry' = [entry EXCEPT !.live = TRUE] /\ Move("caller", "confirm")
     \/ task' = WithAbort(At("caller", "done"), "adopt") /\ UNCHANGED entry
  /\ UNCHANGED <<work, channel, page, torn>>

\* _execute_admitted_call: the TimeoutError of _confirm and of _await_result, or
\* of whatever else _dispatch_and_wait awaits: what the engine was asked for may
\* still happen, and a send may have reached the page.
TimesOut ==
  /\ pc("caller") \in {"confirm", "claim", "ready", "sending", "sent", "await"}
  /\ work' \in Unanswered("caller")
  /\ entry' = [entry EXCEPT !.timedOut = TRUE]
  /\ Move("caller", "enter")
  /\ \/ UNCHANGED <<page, torn>>
     \/ Sending /\ page' = [page EXCEPT !.got = TRUE] /\ torn' = TRUE
  /\ UNCHANGED channel

\* _execute_admitted_call: any other exception of _dispatch_and_wait: a send, an
\* audit or a check of the authority has failed.
DispatchRaises ==
  /\ pc("caller") \in {"confirm", "ready", "sent"}
  /\ Finalize("caller", IF entry.claim THEN Unknown ELSE CancelledUntouched)
  /\ UNCHANGED <<entry, work, channel, page, torn>>

\* _confirm, where the tool needs it: the user has confirmed.
Confirm ==
  /\ pc("caller") = "confirm" /\ FinalizeFree
  /\ Move("caller", IF Terminal THEN "done" ELSE "claim")
  /\ UNCHANGED <<entry, work, channel, page, torn>>

\* claim_specific in the engine, which may also raise.
ClaimItem ==
  /\ pc("caller") = "claim"
  /\ \/ work = "pending" /\ work' = "claimed" /\ Move("caller", "granted")
     \/ work # "pending" /\ UNCHANGED work /\ Move("caller", "refused")
     \/ work' \in Unanswered("caller") /\ Finalize("caller", CancelledUntouched)
  /\ UNCHANGED <<entry, channel, page, torn>>

\* _dispatch_and_wait goes on with its claim, or without one.
ClaimAnswered ==
  /\ \/ /\ pc("caller") = "granted"
        /\ entry' = [entry EXCEPT !.claim = TRUE]
        /\ IF entry.cancelling THEN Finalize("caller", CancelledUntouched)
                               ELSE Move("caller", "ready")
     \/ /\ pc("caller") = "refused"
        /\ UNCHANGED entry
        /\ IF Terminal THEN Move("caller", "done") ELSE Finalize("caller", Unknown)
  /\ UNCHANGED <<work, channel, page, torn>>

\* Mutant: whether the call was cancelled is not asked again under the lock.
StillWantedEarlier == TRUE

\* _dispatch: nobody has cancelled or settled the call meanwhile.
StillWanted == ~entry.cancelling /\ ~Terminal

\* _dispatch after its checks, up to the send.
BeginSend ==
  /\ pc("caller") = "ready"
  /\ \/ StillWanted /\ channel /\ Move("caller", "sending")
     \/ StillWanted /\ ~channel /\ Finalize("caller", Unknown)
     \/ /\ ~StillWanted
        /\ IF Terminal THEN Move("caller", "done")
                       ELSE Finalize("caller", CancelledUntouched)
  /\ UNCHANGED <<entry, work, channel, page, torn>>

\* The send returns or raises; either way the page may have got the call.
EndSend ==
  \E got \in BOOLEAN :
    /\ Sending
    /\ page' = [page EXCEPT !.got = got]
    /\ \/ /\ entry' = [entry EXCEPT !.dispatched = TRUE]
          /\ Move("caller", "sent")
          /\ UNCHANGED torn
       \/ /\ Finalize("caller", Unknown)
          /\ torn' = got
          /\ UNCHANGED entry
    /\ UNCHANGED <<work, channel>>

\* The audit of the dispatch.
AuditDispatched ==
  /\ pc("caller") = "sent" /\ FinalizeFree
  /\ Move("caller", IF Terminal THEN "done" ELSE "await")
  /\ UNCHANGED <<entry, work, channel, page, torn>>

\* _await_result
AwaitResult ==
  /\ pc("caller") = "await"
  /\ \/ Terminal /\ Move("caller", "done")
     \/ ~Terminal /\ entry.result # "none" /\ Finalize("caller", ResultReceipt)
  /\ UNCHANGED <<entry, work, channel, page, torn>>

\* A caller, a client or the disconnect is cut off (CancelledError) at its await.
\* What it asked the engine for may still happen.
CutOff(t) ==
  LET left == IF pc(t) \in {"settle", "store"} THEN WithReaper(At(t, "done"))
                                               ELSE At(t, "done")
  IN /\ t \in Clients \cup {"caller", "disconnect"}
     /\ pc(t) \notin {"idle", "done", "granted", "refused"}
     /\ work' \in Unanswered(t)
     /\ entry' = [entry EXCEPT !.timedOut = @ \/ pc(t) \in {"settle", "store"}]
     /\ \/ UNCHANGED <<page, torn>>
        \/ pc(t) = "sending" /\ page' = [page EXCEPT !.got = TRUE] /\ torn' = TRUE
     /\ task' = IF t # "caller" THEN left
                ELSE WithAbort(left, IF pc(t) = "fence" THEN "recover" ELSE "adopt")
     /\ UNCHANGED channel

-------------------------------------------------------------------------------
(* Cancellation *)

\* _recover_fence_ownership: the submission is tried until it answers.
RecoverFence ==
  /\ pc("abort") = "recover"
  /\ work' = IF work = "none" THEN "pending" ELSE work
  /\ Move("abort", "adopt")
  /\ UNCHANGED <<entry, channel, page, torn>>

\* _abort_call
Adopt ==
  /\ pc("abort") = "adopt" /\ ~Sending
  /\ entry' = [entry EXCEPT !.timedOut = TRUE, !.live = TRUE]
  /\ Move("abort", "enter")
  /\ UNCHANGED <<work, channel, page, torn>>

\* cancel_call (also from revoke_lease) and reconcile_call of an active call.
ClientAsks(k) ==
  /\ pc(k) = "idle" /\ entry.live
  /\ \/ Move(k, "enter")
     \/ entry.result # "none" /\ Finalize(k, ResultReceipt)
  /\ UNCHANGED <<entry, work, channel, page, torn>>

\* _disconnect
Disconnect ==
  /\ channel /\ ~Sending
  /\ channel' = FALSE
  /\ Move("disconnect", IF entry.live THEN "enter" ELSE "done")
  /\ UNCHANGED <<entry, work, page, torn>>

\* _cancel_active, once the effect of the cancellation is known: a result that
\* has come in meanwhile is preferred.
Conclude(t, effect) ==
  Finalize(t, IF entry.result # "none" THEN ResultReceipt
              ELSE CASE effect = "committed" -> Receipt("succeeded", "committed")
                     [] effect = "none"      -> CancelledUntouched
                     [] effect = "unknown"   -> Unknown)

\* _cancel_active, up to the wait for the page's acknowledgement.
CancelActive(t) ==
  /\ pc(t) = "enter"
  /\ \/ /\ entry.result # "none"
        /\ Finalize(t, ResultReceipt)
        /\ UNCHANGED <<entry, page>>
     \/ /\ entry.result = "none" /\ ~Sending
        /\ entry' = [entry EXCEPT !.cancelling = TRUE]
        /\ IF entry.dispatched
           THEN /\ page' \in {page, [page EXCEPT !.asked = channel]}
                /\ Move(t, "ack")
           ELSE Conclude(t, "none") /\ UNCHANGED page
  /\ UNCHANGED <<work, channel, torn>>

\* _cancellation_effect answers: the acknowledgement, or unknown after a
\* failed send or the time limit.
EffectKnown(t) ==
  /\ pc(t) = "ack"
  /\ \/ entry.ack # "pending" /\ Conclude(t, entry.ack)
     \/ Conclude(t, "unknown")
  /\ UNCHANGED <<entry, work, channel, page, torn>>

-------------------------------------------------------------------------------
(* Outcome *)

\* An outcome that could not be made durable, or is not known: _finalize and
\* _finalize_locked leave the call to the reaper.
Uncertain(t) ==
  /\ entry' = [entry EXCEPT !.timedOut = TRUE]
  /\ task' = WithReaper(At(t, "done"))

\* _finalize takes its lock and audits the outcome.
TakeFinalizeLock(t) ==
  /\ pc(t) = "finalize" /\ FinalizeFree
  /\ \/ Terminal /\ Move(t, "done") /\ UNCHANGED entry
     \/ ~Terminal /\ Move(t, "settle") /\ UNCHANGED entry
     \/ ~Terminal /\ Uncertain(t)
  /\ UNCHANGED <<work, channel, page, torn>>

\* _terminalize_work_item.  An answer of the engine that is lost, or is not one
\* of those that were asked for, makes the outcome unknown.
Settle(t) ==
  /\ pc(t) = "settle"
  /\ \/ /\ task[t].verdict.status # "unknown"
        /\ Cancels(t) => WasCancelled
        /\ work' = AfterSettle(t)
        /\ Move(t, "store")
        /\ UNCHANGED entry
     \/ work' \in Unanswered(t) /\ Uncertain(t)
  /\ UNCHANGED <<channel, page, torn>>

\* _store_terminal: the receipt is cached, the call is no longer active, and
\* the reaper and the abort of the call are cancelled.
StoreTerminal(t) ==
  LET stopped == {"reaper", "abort"} \ {t}
  IN /\ pc(t) = "store" /\ ~Sending
     /\ entry' = [entry EXCEPT
          !.completed = task[t].verdict,
          !.terminal = IF Terminal THEN @ ELSE task[t].verdict,
          !.live = FALSE]
     /\ task' = [u \in CallTasks |->
                   IF u = t \/ (u \in stopped /\ pc(u) # "idle")
                   THEN [task[u] EXCEPT !.pc = "done"] ELSE task[u]]
     /\ UNCHANGED <<work, channel, page, torn>>

\* _reap_unknown_call, when the call's window has passed.
Reap ==
  /\ pc("reaper") = "sleep" /\ FinalizeFree
  /\ Move("reaper", IF Terminal \/ ~entry.live \/ ~entry.timedOut
                    THEN "done" ELSE "close")
  /\ UNCHANGED <<entry, work, channel, page, torn>>

\* Mutant: the reaper is satisfied when the item can no longer be cancelled.
ClosedIfNotPending == TRUE

\* _close_reaped_work_item, for a call without a claim: the item was cancelled
\* or is at its end anyway.
ClosedUnclaimed == WasCancelled \/ work \in TerminalWork

\* _close_reaped_work_item; the item is closed.
Close ==
  /\ pc("reaper") = "close"
  /\ \/ entry.claim /\ work' = Committed("failed")
     \/ /\ ~entry.claim /\ ClosedUnclaimed
        /\ work' = IF work = "pending" THEN "cancelled" ELSE work
  /\ task' = [task EXCEPT !["reaper"] = [pc |-> "store", verdict |-> Unknown]]
  /\ UNCHANGED <<entry, channel, page, torn>>

\* The reaper's audit or the engine fails, or the item is neither pending nor
\* at its end; it tries again after another window.
CloseFails ==
  /\ pc("reaper") = "close"
  /\ \/ UNCHANGED work
     \/ entry.claim /\ work' = Committed("failed")
     \/ ~entry.claim /\ work = "pending" /\ work' = "cancelled"
  /\ Move("reaper", "sleep")
  /\ UNCHANGED <<entry, channel, page, torn>>

\* The engine ends an item whose lease has lapsed: its one attempt is spent.
ExpireClaim ==
  /\ work = "claimed"
  /\ work' = "failed"
  /\ UNCHANGED <<entry, task, channel, page, torn>>

-------------------------------------------------------------------------------
(* The page, and _receive *)

\* The page acts on the call, or fails or stops without an effect.
PageActs ==
  /\ page.got /\ page.did = "nothing"
  /\ page' \in {[page EXCEPT !.did = "effect"], [page EXCEPT !.did = "stopped"]}
  /\ UNCHANGED <<entry, work, task, channel, torn>>

\* _receive_result of an active call on the open channel; a message whose
\* authority cannot be checked is dropped, as any message may be.
ReceiveResult ==
  /\ channel /\ entry.live /\ entry.result = "none" /\ page.did # "nothing"
  /\ entry' = [entry EXCEPT !.result = IF page.did = "effect" THEN "succeeded"
                                                            ELSE "failed"]
  /\ IF entry.timedOut /\ pc("late") = "idle"
     THEN Finalize("late", ReceiptFor(entry'.result)) ELSE UNCHANGED task
  /\ UNCHANGED <<work, channel, page, torn>>

\* _receive_cancellation
ReceiveCancellation ==
  /\ channel /\ entry.live /\ entry.ack = "pending" /\ page.asked
  /\ \E ack \in {"none", "committed", "unknown"} :
       /\ ack = "none" => page.did = "stopped"
       /\ ack = "committed" => page.did = "effect"
       /\ entry' = [entry EXCEPT !.ack = ack]
  /\ UNCHANGED <<work, task, channel, page, torn>>

-------------------------------------------------------------------------------
CallerSteps ==
  \/ SubmitFence \/ Admit \/ TimesOut \/ DispatchRaises \/ Confirm \/ ClaimItem
  \/ ClaimAnswered \/ BeginSend \/ EndSend \/ AuditDispatched \/ AwaitResult

AbortSteps == RecoverFence \/ Adopt
TaskSteps(t) ==
  \/ CancelActive(t) \/ EffectKnown(t)
  \/ TakeFinalizeLock(t) \/ Settle(t) \/ StoreTerminal(t)
PageSteps == PageActs \/ ReceiveResult \/ ReceiveCancellation

CallNext ==
  \/ CallerSteps \/ AbortSteps \/ PageSteps
  \/ Disconnect \/ Reap \/ Close \/ CloseFails \/ ExpireClaim
  \/ \E k \in Clients : ClientAsks(k)
  \/ \E t \in CallTasks : TaskSteps(t) \/ CutOff(t)

\* The event loop runs some task that can go on, and every wait is bounded; the
\* engine ends an expired item, and does not fail the reaper for ever.
LoopSteps == CallerSteps \/ AbortSteps \/ Reap \/ \E t \in CallTasks : TaskSteps(t)
CallFair == WF_callVars(LoopSteps) /\ WF_callVars(ExpireClaim) /\ SF_callVars(Close)

CallSpec == CallInit /\ [][CallNext]_callVars /\ CallFair
-------------------------------------------------------------------------------
(* Properties *)

\* The variables have their types, a call is sent only under a claim, and one
\* task at a time settles the outcome.
CallTypeOK ==
  /\ entry \in [claim : BOOLEAN, dispatched : BOOLEAN, timedOut : BOOLEAN,
                cancelling : BOOLEAN, result : {"none", "succeeded", "failed"},
                ack : {"pending", "none", "committed", "unknown"},
                terminal : [status : {"none", "unknown"} \cup TerminalWork,
                            effect : {"none", "committed", "unknown"}],
                completed : [status : {"none", "unknown"} \cup TerminalWork,
                             effect : {"none", "committed", "unknown"}],
                live : BOOLEAN]
  /\ work \in {"none", "pending", "claimed"} \cup TerminalWork
  /\ page \in [got : BOOLEAN, asked : BOOLEAN, did : {"nothing", "effect", "stopped"}]
  /\ channel \in BOOLEAN /\ torn \in BOOLEAN
  /\ entry.dispatched \/ Sending => entry.claim
  /\ Cardinality(Finalizing) <= 1

\* The receipt is backed: once there is one, the WorkItem that fences the call
\* is at its end, so no redelivery finds a fence that can still be claimed; and
\* it is the same for whoever waited (terminal_future) and for whoever asks
\* later (_completed), whichever of the finalizers came first.
ReceiptIsBacked ==
  /\ Terminal => work \in TerminalWork
  /\ entry.completed = entry.terminal

\* "report only an observed effect state" (cancel_call): a receipt with effect
\* none is never followed or preceded by an effect of the page, and one that
\* says committed always is, unless the send of the call was torn.
EffectAsReported ==
  /\ Terminal /\ entry.terminal.effect = "none" /\ ~torn => page.did # "effect"
  /\ entry.terminal.effect = "committed" => page.did = "effect"

\* Every fenced call comes to a receipt, whoever was cut off, disconnected or
\* lost an answer of the engine (_reap_unknown_call bounds what is uncertain).
CallEnds == work # "none" ~> Terminal
================================================================================
