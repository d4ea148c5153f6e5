--------------------------- MODULE BrowserCallProofs ---------------------------
(***************************************************************************)
(* Proofs about one browser-control call, for any number of clients that    *)
(* cancel or reconcile it.                                                  *)
(***************************************************************************)
EXTENDS BrowserCall, FiniteSetTheorems, TLAPS

CommittedEffect == Receipt("succeeded", "committed")
FailedUntouched == Receipt("failed", "none")
Verdicts == {Unknown, CancelledUntouched, CommittedEffect, FailedUntouched}

Places == {"idle", "fence", "admit", "confirm", "claim", "granted", "refused", "ready",
           "sending", "sent", "await", "recover", "adopt", "enter", "ack", "finalize",
           "settle", "store", "sleep", "close", "done"}
TaskTypes == [pc : Places, verdict : Verdicts \cup {NoReceipt}]

EntryTypes ==
  [claim : BOOLEAN, dispatched : BOOLEAN, timedOut : BOOLEAN,
   cancelling : BOOLEAN, result : {"none", "succeeded", "failed"},
   ack : {"pending", "none", "committed", "unknown"},
   terminal : Verdicts \cup {NoReceipt}, completed : Verdicts \cup {NoReceipt},
   live : BOOLEAN]
PageTypes == [got : BOOLEAN, asked : BOOLEAN, did : {"nothing", "effect", "stopped"}]

Types ==
  /\ entry \in EntryTypes
  /\ work \in {"none", "pending", "claimed"} \cup TerminalWork
  /\ task \in [CallTasks -> TaskTypes]
  /\ channel \in BOOLEAN /\ page \in PageTypes /\ torn \in BOOLEAN

Unclaimed == {"fence", "admit", "confirm", "claim", "granted", "refused"}
Unsent    == Unclaimed \cup {"ready", "sending"}
Past      == {"enter", "ack", "finalize", "settle", "store", "done"}

\* The caller: until it has sent the call nobody has it, it sends under a claim,
\* and while it submits the fence nobody else is concerned with the call.
CallerOK ==
  /\ pc("caller") \in Unsent \cup {"sent", "await"} \cup Past
  /\ pc("caller") \in Unsent => ~page.got /\ ~entry.dispatched
  /\ pc("caller") \in Unclaimed => ~entry.claim
  /\ pc("caller") \in {"ready", "sending", "sent", "await"} => entry.claim
  /\ pc("caller") \in {"fence", "admit"} =>
       /\ ~entry.live
       /\ \A t \in CallTasks \ {"caller"} : pc(t) \in {"idle", "done"}
  /\ pc("caller") = "fence" => work = "none"

\* What the service has heard is what the page did, and the page has got the
\* call from a send that returned or from a torn one.
PageOK ==
  /\ entry.dispatched \/ page.got => entry.claim
  /\ page.got => entry.dispatched \/ torn
  /\ page.did # "nothing" => page.got
  /\ entry.result = "succeeded" \/ entry.ack = "committed" => page.did = "effect"
  /\ entry.result = "failed" \/ entry.ack = "none" => page.did = "stopped"

\* A claimed call has an item that is held or at its end; whoever stores the
\* receipt, and whoever has it, finds the item at its end.
WorkOK ==
  /\ entry.claim \/ pc("caller") = "granted" => work \in {"claimed"} \cup TerminalWork
  /\ Terminal => work \in TerminalWork
  /\ \A t \in CallTasks : pc(t) = "store" => work \in TerminalWork

\* finalize_lock: one task at a time, and none after the receipt.
LockOK ==
  /\ \A t, u \in Finalizing : t = u
  /\ Terminal => Finalizing = {}
  /\ entry.completed = entry.terminal

\* The page will not act on the call: it has stopped, or it has not got the
\* call, and the caller is past its send or will find the call cancelled.
NeverActs ==
  \/ page.did = "stopped" \/ torn
  \/ ~page.got /\ ~Sending /\ (entry.cancelling \/ pc("caller") \in Past)

\* A receipt is honest when it says of the effect what is, and will be, so.
Honest(r) ==
  /\ r = CancelledUntouched => NeverActs
  /\ r = CommittedEffect => page.did = "effect"
  /\ r = FailedUntouched => page.did = "stopped"

VerdictsOK ==
  /\ Honest(entry.terminal)
  /\ \A t \in CallTasks :
       /\ Honest(task[t].verdict)
       /\ pc(t) \in {"finalize", "settle", "store"} => task[t].verdict \in Verdicts

IInv == Types /\ CallerOK /\ PageOK /\ WorkOK /\ LockOK /\ VerdictsOK

Locked == {"settle", "store", "close"}

--------------------------------------------------------------------------------
(* How the tasks change                                                       *)

\* The five receipts are different, and none of them is missing.
LEMMA Receipts ==
  /\ NoReceipt \notin Verdicts /\ Unknown \in Verdicts /\ CancelledUntouched \in Verdicts
  /\ CommittedEffect \in Verdicts /\ FailedUntouched \in Verdicts
  /\ Unknown \notin {CancelledUntouched, CommittedEffect, FailedUntouched, NoReceipt}
  /\ CancelledUntouched \notin {CommittedEffect, FailedUntouched, NoReceipt}
  /\ CommittedEffect \notin {FailedUntouched, NoReceipt} /\ FailedUntouched # NoReceipt
  BY DEF Verdicts, NoReceipt, Unknown, CancelledUntouched, CommittedEffect,
         FailedUntouched, Receipt

\* A task moves and keeps its verdict.
LEMMA Moves ==
  ASSUME task \in [CallTasks -> TaskTypes], NEW t \in CallTasks, NEW l \in Places
  PROVE  /\ At(t, l) \in [CallTasks -> TaskTypes]
         /\ At(t, l)[t].pc = l /\ At(t, l)[t].verdict = task[t].verdict
         /\ \A u \in CallTasks \ {t} : At(t, l)[u] = task[u]
  BY DEF At, TaskTypes

\* A task calls _finalize with its verdict.
LEMMA Finalizes ==
  ASSUME task \in [CallTasks -> TaskTypes], NEW t \in CallTasks, NEW r \in Verdicts,
         Finalize(t, r)
  PROVE  /\ task' \in [CallTasks -> TaskTypes]
         /\ task'[t].pc = "finalize" /\ task'[t].verdict = r
         /\ \A u \in CallTasks \ {t} : task'[u] = task[u]
  BY DEF Finalize, TaskTypes, Places

\* An abort that is started, or is under way.
LEMMA Aborts ==
  ASSUME NEW ts \in [CallTasks -> TaskTypes], NEW l \in {"recover", "adopt"}
  PROVE  /\ WithAbort(ts, l) \in [CallTasks -> TaskTypes]
         /\ WithAbort(ts, l)["abort"].pc \in {l, ts["abort"].pc}
         /\ WithAbort(ts, l)["abort"].verdict = ts["abort"].verdict
         /\ \A u \in CallTasks \ {"abort"} : WithAbort(ts, l)[u] = ts[u]
<1>1. "abort" \in CallTasks /\ l \in Places
  BY DEF CallTasks, Places
<1> QED
  BY <1>1 DEF WithAbort, TaskTypes

\* A reaper that is scheduled, or is there.
LEMMA Reaps ==
  ASSUME NEW ts \in [CallTasks -> TaskTypes]
  PROVE  /\ WithReaper(ts) \in [CallTasks -> TaskTypes]
         /\ WithReaper(ts)["reaper"].pc \in {"sleep", ts["reaper"].pc}
         /\ WithReaper(ts)["reaper"].verdict = ts["reaper"].verdict
         /\ \A u \in CallTasks \ {"reaper"} : WithReaper(ts)[u] = ts[u]
<1>1. "reaper" \in CallTasks /\ "sleep" \in Places
  BY DEF CallTasks, Places
<1> QED
  BY <1>1 DEF WithReaper, TaskTypes

--------------------------------------------------------------------------------
(* What a step has to show                                                    *)

\* No task takes finalize_lock and no receipt is stored.
LEMMA LockStays ==
  ASSUME LockOK, entry'.terminal = entry.terminal, entry'.completed = entry.completed,
         \A t \in CallTasks : task'[t].pc \in Locked => task[t].pc \in Locked
  PROVE  LockOK'
<1>1. Finalizing' \subseteq Finalizing
  BY DEF Finalizing, pc, Locked
<1> QED
  BY <1>1 DEF LockOK, Terminal

\* One task takes finalize_lock while it is free and there is no receipt.
LEMMA LockTaken ==
  ASSUME FinalizeFree, ~Terminal, LockOK, entry' = entry, NEW t \in CallTasks,
         \A u \in CallTasks \ {t} : task'[u].pc \in Locked => task[u].pc \in Locked
  PROVE  LockOK'
<1>1. Finalizing' \subseteq {t}
  BY DEF Finalizing, FinalizeFree, pc, Locked
<1> QED
  BY <1>1 DEF LockOK, Terminal

\* The common part of all steps: the item does not leave its end, the page does
\* not undo what it did, and a new verdict is honest.
LEMMA Step ==
  ASSUME IInv, Types', CallerOK', PageOK', LockOK',
         work \in TerminalWork => work' \in TerminalWork,
         entry'.claim \/ task'["caller"].pc = "granted" =>
           work' \in {"claimed"} \cup TerminalWork,
         entry'.terminal = entry.terminal,
         NeverActs => NeverActs',
         page.did # "nothing" => page'.did = page.did,
         \A t \in CallTasks :
           /\ \/ task'[t].verdict = task[t].verdict
              \/ \E r \in Verdicts : task'[t].verdict = r /\ Honest(r)'
           /\ task'[t].pc \in {"finalize", "settle", "store"} => task'[t].verdict \in Verdicts
           /\ task'[t].pc = "store" => task[t].pc = "store" \/ work' \in TerminalWork
  PROVE  IInv'
<1>1. WorkOK'
  BY DEF IInv, WorkOK, Terminal, pc
<1>2. ASSUME NEW r, Honest(r) PROVE Honest(r)'
  BY <1>2 DEF Honest
<1>3. VerdictsOK'
  <2>1. Honest(entry.terminal)'
    <3>1. PICK r : r = entry.terminal
      OBVIOUS
    <3>2. Honest(r)'
      BY <1>2, <3>1 DEF IInv, VerdictsOK
    <3> QED
      BY <3>1, <3>2 DEF Honest
  <2>2. ASSUME NEW t \in CallTasks PROVE Honest(task[t].verdict)'
    <3>1. CASE task'[t].verdict = task[t].verdict
      <4>1. PICK r : r = task[t].verdict
        OBVIOUS
      <4>2. Honest(r)'
        BY <1>2, <2>2, <4>1 DEF IInv, VerdictsOK
      <4> QED
        BY <3>1, <4>1, <4>2 DEF Honest
    <3>2. CASE \E r \in Verdicts : task'[t].verdict = r /\ Honest(r)'
      BY <3>2 DEF Honest
    <3> QED
      BY <2>2, <3>1, <3>2
  <2> QED
    BY <2>1, <2>2 DEF VerdictsOK, pc
<1> QED
  BY <1>1, <1>3 DEF IInv

\* A step that the page and the claim do not notice: the entry may be marked as
\* cancelled, timed out or active, the caller stays or is past its send.
LEMMA LaterStep ==
  ASSUME IInv, CallerOK', LockOK', entry' \in EntryTypes,
         work' \in {"none", "pending", "claimed"} \cup TerminalWork,
         task' \in [CallTasks -> TaskTypes], channel' \in BOOLEAN,
         page' \in PageTypes, page'.got = page.got, page'.did = page.did, torn' = torn,
         \/ task'["caller"].pc = task["caller"].pc
         \/ task'["caller"].pc \in Past,
         entry'.claim = entry.claim, entry'.dispatched = entry.dispatched,
         entry'.result = entry.result, entry'.ack = entry.ack,
         entry'.terminal = entry.terminal, entry.cancelling => entry'.cancelling,
         work \in TerminalWork => work' \in TerminalWork,
         work = "claimed" => work' \in {"claimed"} \cup TerminalWork,
         \A t \in CallTasks :
           /\ \/ task'[t].verdict = task[t].verdict
              \/ \E r \in Verdicts : task'[t].verdict = r /\ Honest(r)'
           /\ task'[t].pc \in {"finalize", "settle", "store"} => task'[t].verdict \in Verdicts
           /\ task'[t].pc = "store" => task[t].pc = "store" \/ work' \in TerminalWork
  PROVE  IInv'
<1>1. Types'
  BY DEF IInv, Types
<1>2. PageOK'
  BY DEF IInv, PageOK
<1>3. NeverActs => NeverActs'
  BY DEF NeverActs, Sending, pc, Past
<1>4. entry'.claim \/ task'["caller"].pc = "granted" =>
        work' \in {"claimed"} \cup TerminalWork
  BY DEF IInv, WorkOK, pc, Past
<1> QED
  BY <1>1, <1>2, <1>3, <1>4, Step

\* Past its admission the call is looked after by anybody; the caller stays
\* where it is or is past its send.
LEMMA CallerStays ==
  ASSUME IInv, pc("caller") \notin {"fence", "admit"},
         \/ task'["caller"].pc = task["caller"].pc
         \/ task'["caller"].pc \in Past,
         entry'.claim = entry.claim, entry'.dispatched = entry.dispatched,
         page'.got = page.got
  PROVE  CallerOK'
<1>1. pc("caller")' = task'["caller"].pc /\ pc("caller") = task["caller"].pc
  BY DEF pc
<1>2. CASE task'["caller"].pc = task["caller"].pc
  BY <1>1, <1>2 DEF IInv, CallerOK
<1>3. CASE task'["caller"].pc \in Past
  BY <1>1, <1>3 DEF CallerOK, Past, Unsent, Unclaimed
<1> QED
  BY <1>2, <1>3

\* Who is concerned with the call, or finds it active, does so past its admission.
LEMMA PastAdmission ==
  ASSUME IInv, NEW t \in CallTasks,
         entry.live \/ (t # "caller" /\ pc(t) \notin {"idle", "done"})
                    \/ (t = "caller" /\ pc(t) \notin {"fence", "admit"})
  PROVE  pc("caller") \notin {"fence", "admit"}
  BY DEF IInv, CallerOK

\* The types, by the names used here.
LEMMA Typed ==
  ASSUME IInv
  PROVE  /\ task \in [CallTasks -> TaskTypes] /\ entry \in EntryTypes
         /\ page \in PageTypes /\ channel \in BOOLEAN /\ torn \in BOOLEAN
         /\ work \in {"none", "pending", "claimed"} \cup TerminalWork
         /\ LockOK
         /\ \A t \in CallTasks :
              task[t].pc \in {"finalize", "settle", "store"} => task[t].verdict \in Verdicts
         /\ {"caller", "abort", "disconnect", "late", "reaper"} \subseteq CallTasks
  BY DEF IInv, Types, CallTasks, VerdictsOK, pc

--------------------------------------------------------------------------------
(* Cancellation and the page                                                  *)

\* A task that calls _finalize with an honest verdict.
LEMMA FinalizeKeeps ==
  ASSUME IInv, NEW t \in CallTasks, pc("caller") \notin {"fence", "admit"},
         NEW r \in Verdicts, Finalize(t, r), Honest(r)',
         entry' \in EntryTypes, entry'.claim = entry.claim,
         entry'.dispatched = entry.dispatched, entry'.result = entry.result,
         entry'.ack = entry.ack, entry'.terminal = entry.terminal,
         entry'.completed = entry.completed,
         entry.cancelling => entry'.cancelling,
         UNCHANGED <<work, channel, page, torn>>
  PROVE  IInv'
<1>1. /\ task' \in [CallTasks -> TaskTypes]
      /\ task'[t].pc = "finalize" /\ task'[t].verdict = r
      /\ \A u \in CallTasks \ {t} : task'[u] = task[u]
  BY Typed, Finalizes
<1>2. \A u \in CallTasks : task'[u].pc \in Locked => task[u].pc \in Locked
  BY <1>1 DEF Locked
<1>3. LockOK'
  BY <1>2, LockStays, Typed
<1>4. \/ task'["caller"].pc = task["caller"].pc
      \/ task'["caller"].pc \in Past
  BY <1>1, Typed DEF Past
<1>5. CallerOK'
  BY <1>4, CallerStays
<1>6. \A u \in CallTasks :
        /\ \/ task'[u].verdict = task[u].verdict
           \/ \E q \in Verdicts : task'[u].verdict = q /\ Honest(q)'
        /\ task'[u].pc \in {"finalize", "settle", "store"} => task'[u].verdict \in Verdicts
        /\ task'[u].pc = "store" => task[u].pc = "store"
  BY <1>1, Typed
<1> QED
  BY <1>1, <1>3, <1>4, <1>5, <1>6, Typed, LaterStep

\* A task that moves on and takes no lock; the caller only to what is past its
\* send.
LEMMA MoveKeeps ==
  ASSUME IInv, NEW t \in CallTasks, pc("caller") \notin {"fence", "admit"},
         NEW l \in Places, l \notin Locked \cup {"finalize"}, Move(t, l),
         t = "caller" => l \in Past,
         entry' \in EntryTypes, entry'.claim = entry.claim,
         entry'.dispatched = entry.dispatched, entry'.result = entry.result,
         entry'.ack = entry.ack, entry'.terminal = entry.terminal,
         entry'.completed = entry.completed,
         entry.cancelling => entry'.cancelling,
         work' \in {"none", "pending", "claimed"} \cup TerminalWork,
         work \in TerminalWork => work' \in TerminalWork,
         work = "claimed" => work' \in {"claimed"} \cup TerminalWork,
         channel' \in BOOLEAN, page' \in PageTypes, page'.got = page.got,
         page'.did = page.did, torn' = torn
  PROVE  IInv'
<1>1. /\ task' \in [CallTasks -> TaskTypes]
      /\ task'[t].pc = l /\ task'[t].verdict = task[t].verdict
      /\ \A u \in CallTasks \ {t} : task'[u] = task[u]
  BY Typed, Moves DEF Move
<1>2. \A u \in CallTasks : task'[u].pc \in Locked => task[u].pc \in Locked
  BY <1>1
<1>3. LockOK'
  BY <1>2, LockStays, Typed
<1>4. \/ task'["caller"].pc = task["caller"].pc
      \/ task'["caller"].pc \in Past
  BY <1>1, Typed
<1>5. CallerOK'
  BY <1>4, CallerStays
<1>6. \A u \in CallTasks :
        /\ task'[u].verdict = task[u].verdict
        /\ task'[u].pc \in {"finalize", "settle", "store"} => task'[u].verdict \in Verdicts
        /\ task'[u].pc = "store" => task[u].pc = "store"
  BY <1>1, Typed DEF Locked
<1> QED
  BY <1>1, <1>3, <1>4, <1>5, <1>6, LaterStep

\* The receipt for a result says what the page did.
LEMMA ResultIsHonest ==
  ASSUME IInv, entry.result # "none", page' = page
  PROVE  \E r \in Verdicts : r = ResultReceipt /\ Honest(r)'
<1>1. CASE entry.result = "succeeded"
  <2>1. ResultReceipt = CommittedEffect /\ page.did = "effect"
    BY <1>1 DEF ResultReceipt, ReceiptFor, CommittedEffect, IInv, PageOK
  <2> QED
    BY <2>1, Receipts DEF Honest
<1>2. CASE entry.result = "failed"
  <2>1. ResultReceipt = FailedUntouched /\ page.did = "stopped"
    BY <1>2 DEF ResultReceipt, ReceiptFor, FailedUntouched, IInv, PageOK
  <2> QED
    BY <2>1, Receipts DEF Honest
<1> QED
  BY <1>1, <1>2, Typed DEF EntryTypes

\* Finalizing with the result keeps the invariant, whoever does it.
LEMMA ResultKeeps ==
  ASSUME IInv, NEW t \in CallTasks, pc("caller") \notin {"fence", "admit"},
         entry.result # "none", Finalize(t, ResultReceipt),
         UNCHANGED <<entry, work, channel, page, torn>>
  PROVE  IInv'
<1>1. PICK r \in Verdicts : r = ResultReceipt /\ Honest(r)'
  BY ResultIsHonest
<1>2. Finalize(t, r)
  BY <1>1
<1> QED
  BY <1>1, <1>2, Typed, FinalizeKeeps

\* Unknown says nothing, and keeps the invariant.
LEMMA UnknownKeeps ==
  ASSUME IInv, NEW t \in CallTasks, pc("caller") \notin {"fence", "admit"},
         Finalize(t, Unknown), UNCHANGED <<entry, work, channel, page, torn>>
  PROVE  IInv'
<1>1. Honest(Unknown)' /\ Unknown \in Verdicts
  BY Receipts DEF Honest, Unknown, CancelledUntouched, CommittedEffect, FailedUntouched
<1>2. PICK r \in Verdicts : r = Unknown /\ Honest(r)'
  BY <1>1
<1>3. Finalize(t, r)
  BY <1>2
<1> QED
  BY <1>2, <1>3, Typed, FinalizeKeeps

\* The caller gives up before it has sent the call.
LEMMA UntouchedKeeps ==
  ASSUME IInv, pc("caller") \in Unsent \ {"fence", "admit", "sending"},
         Finalize("caller", CancelledUntouched),
         entry' \in EntryTypes, entry'.claim = entry.claim,
         entry'.dispatched = entry.dispatched, entry'.result = entry.result,
         entry'.ack = entry.ack, entry'.terminal = entry.terminal,
         entry'.completed = entry.completed, entry.cancelling => entry'.cancelling,
         UNCHANGED <<work, channel, page, torn>>
  PROVE  IInv'
<1>1. ~page.got /\ pc("caller")' = "finalize"
  BY Finalizes, Receipts, Typed DEF IInv, CallerOK, pc
<1>2. NeverActs'
  BY <1>1 DEF NeverActs, Sending, Past
<1>3. PICK r \in Verdicts : r = CancelledUntouched /\ Honest(r)'
  BY <1>2, Receipts DEF Honest
<1>4. Finalize("caller", r)
  BY <1>3
<1> QED
  BY <1>3, <1>4, Typed, FinalizeKeeps

\* _cancel_active: whoever cancels the call, a caller that timed out included.
LEMMA CancelActiveKeeps ==
  ASSUME IInv, NEW t \in CallTasks, CancelActive(t)
  PROVE  IInv'
<1>1. pc("caller") \notin {"fence", "admit"}
  BY PastAdmission DEF CancelActive
<1>2. CASE entry.result # "none"
  BY <1>1, <1>2, ResultKeeps DEF CancelActive
<1>3. CASE entry.result = "none"
  <2>1. /\ entry' \in EntryTypes /\ entry'.claim = entry.claim
        /\ entry'.dispatched = entry.dispatched /\ entry'.result = entry.result
        /\ entry'.ack = entry.ack /\ entry'.terminal = entry.terminal
        /\ entry'.completed = entry.completed /\ entry'.cancelling
        /\ ~Sending /\ UNCHANGED <<work, channel, torn>>
    BY <1>3, Typed DEF CancelActive, EntryTypes
  <2>2. CASE entry.dispatched
    <3>1. /\ page' \in PageTypes /\ page'.got = page.got /\ page'.did = page.did
      BY <1>3, <2>2, Typed DEF CancelActive, PageTypes
    <3>2. Move(t, "ack") /\ "ack" \in Places /\ "ack" \in Past
          /\ "ack" \notin Locked \cup {"finalize"}
      BY <1>3, <2>2 DEF CancelActive, Places, Past, Locked
    <3> QED
      BY <1>1, <2>1, <3>1, <3>2, Typed, MoveKeeps
  <2>3. CASE ~entry.dispatched
    <3>1. Finalize(t, CancelledUntouched) /\ page' = page
      BY <1>3, <2>3 DEF CancelActive, Conclude
    <3>2. ~Sending'
      BY <2>1, <3>1, Finalizes, Receipts, Typed DEF Sending, pc
    <3>3. NeverActs'
      BY <2>1, <2>3, <3>1, <3>2, Typed DEF NeverActs, IInv, PageOK
    <3>4. PICK r \in Verdicts : r = CancelledUntouched /\ Honest(r)'
      BY <3>3, Receipts DEF Honest
    <3>5. Finalize(t, r)
      BY <3>1, <3>4
    <3> QED
      BY <1>1, <2>1, <3>1, <3>4, <3>5, FinalizeKeeps
  <2> QED
    BY <2>2, <2>3
<1> QED
  BY <1>2, <1>3

\* _cancellation_effect: the page's acknowledgement, or nothing certain.
LEMMA EffectKnownKeeps ==
  ASSUME IInv, NEW t \in CallTasks, EffectKnown(t)
  PROVE  IInv'
<1>1. pc("caller") \notin {"fence", "admit"}
  BY PastAdmission DEF EffectKnown
<1>2. UNCHANGED <<entry, work, channel, page, torn>>
  BY DEF EffectKnown
<1>3. CASE entry.result # "none"
  BY <1>1, <1>2, <1>3, ResultKeeps DEF EffectKnown, Conclude
<1>4. CASE entry.result = "none"
  <2>1. PICK e \in {"none", "committed", "unknown"} :
          Conclude(t, e) /\ (e = "unknown" \/ e = entry.ack)
    BY Typed DEF EffectKnown, EntryTypes
  <2>2. CASE e = "committed"
    <3>1. Finalize(t, CommittedEffect) /\ page.did = "effect"
      BY <1>4, <2>1, <2>2 DEF Conclude, CommittedEffect, IInv, PageOK
    <3>2. PICK r \in Verdicts : r = CommittedEffect /\ Honest(r)'
      BY <1>2, <3>1, Receipts DEF Honest
    <3>3. Finalize(t, r)
      BY <3>1, <3>2
    <3> QED
      BY <1>1, <1>2, <3>2, <3>3, Typed, FinalizeKeeps
  <2>3. CASE e = "none"
    <3>1. Finalize(t, CancelledUntouched) /\ page.did = "stopped"
      BY <1>4, <2>1, <2>3 DEF Conclude, IInv, PageOK
    <3>2. PICK r \in Verdicts : r = CancelledUntouched /\ Honest(r)'
      BY <1>2, <3>1, Receipts DEF Honest, NeverActs
    <3>3. Finalize(t, r)
      BY <3>1, <3>2
    <3> QED
      BY <1>1, <1>2, <3>2, <3>3, Typed, FinalizeKeeps
  <2>4. CASE e = "unknown"
    <3>1. Finalize(t, Unknown)
      BY <1>4, <2>1, <2>4 DEF Conclude
    <3> QED
      BY <1>1, <1>2, <3>1, UnknownKeeps
  <2> QED
    BY <2>1, <2>2, <2>3, <2>4
<1> QED
  BY <1>3, <1>4

\* cancel_call and reconcile_call of an active call.
LEMMA ClientAsksKeeps ==
  ASSUME IInv, NEW k \in Clients, ClientAsks(k)
  PROVE  IInv'
<1>1. k \in CallTasks /\ k # "caller"
  BY ClientsAssumption DEF CallTasks
<1>2. pc("caller") \notin {"fence", "admit"}
  BY <1>1, PastAdmission DEF ClientAsks
<1>3. UNCHANGED <<entry, work, channel, page, torn>>
  BY DEF ClientAsks
<1>4. CASE Move(k, "enter")
  <2>1. "enter" \in Places /\ "enter" \notin Locked \cup {"finalize"}
    BY DEF Places, Locked
  <2> QED
    BY <1>1, <1>2, <1>3, <1>4, <2>1, Typed, MoveKeeps
<1>5. CASE entry.result # "none" /\ Finalize(k, ResultReceipt)
  BY <1>1, <1>2, <1>3, <1>5, ResultKeeps
<1> QED
  BY <1>4, <1>5 DEF ClientAsks

\* _recover_fence_ownership and _abort_call.
LEMMA AbortStepsKeep ==
  ASSUME IInv, AbortSteps
  PROVE  IInv'
<1>1. /\ "abort" \in CallTasks /\ "adopt" \in Places /\ "enter" \in Places
      /\ {"adopt", "enter"} \cap (Locked \cup {"finalize"}) = {}
  BY DEF CallTasks, Places, Locked
<1>2. pc("caller") \notin {"fence", "admit"}
  BY <1>1, PastAdmission DEF AbortSteps, RecoverFence, Adopt
<1>3. CASE RecoverFence
  <2>1. /\ Move("abort", "adopt") /\ work' = (IF work = "none" THEN "pending" ELSE work)
        /\ UNCHANGED <<entry, channel, page, torn>>
    BY <1>3 DEF RecoverFence
  <2>2. /\ work' \in {"none", "pending", "claimed"} \cup TerminalWork
        /\ work \in TerminalWork => work' \in TerminalWork
        /\ work = "claimed" => work' \in {"claimed"} \cup TerminalWork
    BY <2>1, Typed DEF TerminalWork
  <2> QED
    BY <1>1, <1>2, <2>1, <2>2, Typed, MoveKeeps
<1>4. CASE Adopt
  <2>1. /\ entry' \in EntryTypes /\ entry'.claim = entry.claim
        /\ entry'.dispatched = entry.dispatched /\ entry'.result = entry.result
        /\ entry'.ack = entry.ack /\ entry'.terminal = entry.terminal
        /\ entry'.completed = entry.completed /\ entry'.cancelling = entry.cancelling
    BY <1>4, Typed DEF Adopt, EntryTypes
  <2>2. Move("abort", "enter") /\ UNCHANGED <<work, channel, page, torn>>
    BY <1>4 DEF Adopt
  <2> QED
    BY <1>1, <1>2, <2>1, <2>2, Typed, MoveKeeps
<1> QED
  BY <1>3, <1>4 DEF AbortSteps

\* _disconnect: of a call that is being admitted nobody is told.
LEMMA DisconnectKeeps ==
  ASSUME IInv, Disconnect
  PROVE  IInv'
<1>1. PICK l \in {"enter", "done"} :
        Move("disconnect", l) /\ (l = "enter" => entry.live)
  BY DEF Disconnect
<1>2. /\ channel' = FALSE /\ UNCHANGED <<entry, work, page, torn>>
      /\ "disconnect" \in CallTasks /\ l \in Places /\ l \notin Locked \cup {"finalize"}
  BY DEF Disconnect, CallTasks, Places, Locked
<1>3. CASE pc("caller") \notin {"fence", "admit"}
  BY <1>1, <1>2, <1>3, Typed, MoveKeeps
<1>4. CASE pc("caller") \in {"fence", "admit"}
  <2>1. l = "done"
    BY <1>1, <1>4 DEF IInv, CallerOK
  <2>2. /\ task' \in [CallTasks -> TaskTypes]
        /\ task'["disconnect"].pc = "done"
        /\ task'["disconnect"].verdict = task["disconnect"].verdict
        /\ \A u \in CallTasks \ {"disconnect"} : task'[u] = task[u]
    BY <1>1, <1>2, <2>1, Typed, Moves DEF Move
  <2>3. LockOK'
    BY <1>2, <2>2, Typed, LockStays DEF Locked
  <2>4. \A t \in CallTasks : pc(t)' \in {pc(t), "done"}
    BY <2>2 DEF pc
  <2>5. CallerOK'
    BY <1>2, <2>2, <2>4, Typed DEF IInv, CallerOK, pc
  <2> QED
    BY <1>2, <2>2, <2>3, <2>5, Typed, LaterStep
<1> QED
  BY <1>3, <1>4

\* The engine ends an item whose lease has lapsed.
LEMMA ExpireClaimKeeps ==
  ASSUME IInv, ExpireClaim
  PROVE  IInv'
<1>1. /\ work = "claimed" /\ work' = "failed" /\ "failed" \in TerminalWork
      /\ UNCHANGED <<entry, task, channel, page, torn>>
  BY DEF ExpireClaim, TerminalWork
<1>2. CallerOK'
  BY <1>1 DEF IInv, CallerOK, pc
<1>3. LockOK'
  BY <1>1, Typed, LockStays
<1> QED
  BY <1>1, <1>2, <1>3, Typed, LaterStep

\* The page acts: a call that was said to be untouched is not one it has got.
LEMMA PageActsKeeps ==
  ASSUME IInv, PageActs
  PROVE  IInv'
<1>1. /\ page' \in PageTypes /\ page'.got /\ page.got /\ page.did = "nothing"
      /\ page'.did \in {"effect", "stopped"}
      /\ UNCHANGED <<entry, work, task, channel, torn>>
  BY Typed DEF PageActs, PageTypes
<1>2. Types'
  BY <1>1 DEF IInv, Types
<1>3. CallerOK'
  BY <1>1 DEF IInv, CallerOK, pc
<1>4. PageOK'
  BY <1>1 DEF IInv, PageOK
<1>5. LockOK'
  BY <1>1, Typed, LockStays
<1>6. NeverActs => NeverActs'
  BY <1>1 DEF NeverActs, Sending, pc
<1>7. entry'.claim \/ task'["caller"].pc = "granted" =>
        work' \in {"claimed"} \cup TerminalWork
  BY <1>1 DEF IInv, WorkOK, pc
<1> QED
  BY <1>1, <1>2, <1>3, <1>4, <1>5, <1>6, <1>7, Typed, Step

\* _receive_result and _receive_cancellation: the service hears what the page
\* did; a late result is finalized by a task of its own.
LEMMA ReceiveKeeps ==
  ASSUME IInv, ReceiveResult \/ ReceiveCancellation
  PROVE  IInv'
<1>1. /\ entry' \in EntryTypes /\ entry'.claim = entry.claim
      /\ entry'.dispatched = entry.dispatched /\ entry'.cancelling = entry.cancelling
      /\ entry'.terminal = entry.terminal /\ entry'.completed = entry.completed
      /\ entry'.live = entry.live
      /\ entry'.result = "succeeded" \/ entry'.ack = "committed" => page.did = "effect"
      /\ entry'.result = "failed" \/ entry'.ack = "none" => page.did = "stopped"
      /\ UNCHANGED <<work, channel, page, torn>> /\ entry.live
  <2>1. CASE ReceiveResult
    <3>1. PICK x \in {"succeeded", "failed"} :
            /\ entry' = [entry EXCEPT !.result = x]
            /\ x = "succeeded" => page.did = "effect"
            /\ x = "failed" => page.did = "stopped"
      <4>1. page.did \in {"effect", "stopped"}
        BY <2>1, Typed DEF ReceiveResult, PageTypes
      <4> QED
        BY <2>1, <4>1 DEF ReceiveResult
    <3> QED
      BY <2>1, <3>1, Typed DEF ReceiveResult, EntryTypes, IInv, PageOK
  <2>2. CASE ReceiveCancellation
    <3>1. PICK x \in {"none", "committed", "unknown"} :
            /\ entry' = [entry EXCEPT !.ack = x]
            /\ x = "committed" => page.did = "effect"
            /\ x = "none" => page.did = "stopped"
      BY <2>2 DEF ReceiveCancellation
    <3> QED
      BY <2>2, <3>1, Typed DEF ReceiveCancellation, EntryTypes, IInv, PageOK
  <2> QED
    BY <2>1, <2>2
<1>2. /\ task' \in [CallTasks -> TaskTypes]
      /\ \A u \in CallTasks \ {"late"} : task'[u] = task[u]
      /\ \/ task'["late"] = task["late"]
         \/ /\ task'["late"].pc = "finalize"
            /\ \/ task'["late"].verdict = CommittedEffect /\ entry'.result = "succeeded"
               \/ task'["late"].verdict = FailedUntouched /\ entry'.result = "failed"
  <2>1. CASE task' = task
    BY <2>1, Typed
  <2>2. CASE task' # task
    <3>1. /\ Finalize("late", ReceiptFor(entry'.result))
          /\ entry' = [entry EXCEPT !.result = IF page.did = "effect" THEN "succeeded"
                                                                     ELSE "failed"]
      BY <2>2 DEF ReceiveResult, ReceiveCancellation
    <3>2. entry'.result \in {"succeeded", "failed"}
      BY <3>1, Typed DEF EntryTypes
    <3>3. PICK r \in {CommittedEffect, FailedUntouched} :
            /\ r = ReceiptFor(entry'.result)
            /\ r = CommittedEffect => entry'.result = "succeeded"
            /\ r = FailedUntouched => entry'.result = "failed"
      BY <3>2, Receipts DEF ReceiptFor, CommittedEffect, FailedUntouched
    <3>4. Finalize("late", r) /\ r \in Verdicts
      BY <3>1, <3>3, Receipts
    <3> QED
      BY <3>3, <3>4, Typed, Finalizes
  <2> QED
    BY <2>1, <2>2
<1>3. pc("caller") \notin {"fence", "admit"}
  BY <1>1, Typed, PastAdmission
<1>4. task'["caller"].pc = task["caller"].pc
  BY <1>2, Typed
<1>5. CallerOK'
  BY <1>1, <1>3, <1>4, CallerStays
<1>6. LockOK'
  <2>1. \A u \in CallTasks : task'[u].pc \in Locked => task[u].pc \in Locked
    BY <1>2 DEF Locked
  <2> QED
    BY <1>1, <2>1, Typed, LockStays
<1>7. Types'
  BY <1>1, <1>2 DEF IInv, Types
<1>8. PageOK'
  BY <1>1 DEF IInv, PageOK
<1>9. NeverActs => NeverActs'
  BY <1>1, <1>4 DEF NeverActs, Sending, pc
<1>10. entry'.claim \/ task'["caller"].pc = "granted" =>
         work' \in {"claimed"} \cup TerminalWork
  BY <1>1, <1>4 DEF IInv, WorkOK, pc
<1>11. /\ entry'.result = "succeeded" => Honest(CommittedEffect)'
       /\ entry'.result = "failed" => Honest(FailedUntouched)'
  BY <1>1, Receipts DEF Honest, CommittedEffect, FailedUntouched, CancelledUntouched
<1>12. \A t \in CallTasks :
         /\ \/ task'[t].verdict = task[t].verdict
            \/ \E r \in Verdicts : task'[t].verdict = r /\ Honest(r)'
         /\ task'[t].pc \in {"finalize", "settle", "store"} => task'[t].verdict \in Verdicts
         /\ task'[t].pc = "store" => task[t].pc = "store"
  <2>1. ASSUME NEW t \in CallTasks \ {"late"}
        PROVE  /\ task'[t].verdict = task[t].verdict
               /\ task'[t].pc \in {"finalize", "settle", "store"} =>
                    task'[t].verdict \in Verdicts
               /\ task'[t].pc = "store" => task[t].pc = "store"
    BY <1>2, <2>1, Typed
  <2>2. CASE task'["late"] = task["late"]
    BY <2>1, <2>2, Typed
  <2>3. CASE task'["late"].pc = "finalize" /\ task'["late"] # task["late"]
    <3>1. PICK r \in Verdicts : task'["late"].verdict = r /\ Honest(r)'
      <4>1. CASE entry'.result = "succeeded" /\ task'["late"].verdict = CommittedEffect
        <5>1. PICK r : r = CommittedEffect /\ Honest(r)'
          BY <1>11, <4>1
        <5> QED
          BY <4>1, <5>1, Receipts
      <4>2. CASE entry'.result = "failed" /\ task'["late"].verdict = FailedUntouched
        <5>1. PICK r : r = FailedUntouched /\ Honest(r)'
          BY <1>11, <4>2
        <5> QED
          BY <4>2, <5>1, Receipts
      <4> QED
        BY <1>2, <2>3, <4>1, <4>2
    <3> QED
      BY <2>1, <2>3, <3>1
  <2> QED
    BY <1>2, <2>2, <2>3
<1> QED
  BY <1>1, <1>5, <1>6, <1>7, <1>8, <1>9, <1>10, <1>12, Step

--------------------------------------------------------------------------------
(* Outcome                                                                    *)

\* An outcome that stays uncertain: the task is done and the reaper is there.
LEMMA UncertainKeeps ==
  ASSUME IInv, NEW t \in CallTasks, pc("caller") \notin {"fence", "admit"}, Uncertain(t),
         work' \in {"none", "pending", "claimed"} \cup TerminalWork,
         work \in TerminalWork => work' \in TerminalWork,
         work = "claimed" => work' \in {"claimed"} \cup TerminalWork,
         UNCHANGED <<channel, page, torn>>
  PROVE  IInv'
<1>1. /\ entry' \in EntryTypes /\ entry'.claim = entry.claim
      /\ entry'.dispatched = entry.dispatched /\ entry'.result = entry.result
      /\ entry'.ack = entry.ack /\ entry'.terminal = entry.terminal
      /\ entry'.completed = entry.completed /\ entry'.cancelling = entry.cancelling
  BY Typed DEF Uncertain, EntryTypes
<1> DEFINE ts == At(t, "done")
<1>2. /\ ts \in [CallTasks -> TaskTypes] /\ ts[t].pc = "done"
      /\ \A u \in CallTasks : ts[u].verdict = task[u].verdict
      /\ \A u \in CallTasks \ {t} : ts[u] = task[u]
  <2>1. "done" \in Places /\ task \in [CallTasks -> TaskTypes]
    BY Typed DEF Places
  <2>2. /\ ts \in [CallTasks -> TaskTypes] /\ ts[t].pc = "done"
        /\ ts[t].verdict = task[t].verdict
        /\ \A u \in CallTasks \ {t} : ts[u] = task[u]
    BY <2>1, Moves
  <2> QED
    BY <2>2
<1>3. task' = WithReaper(ts)
  BY DEF Uncertain
<1> HIDE DEF ts
<1>4. /\ task' \in [CallTasks -> TaskTypes]
      /\ \A u \in CallTasks : task'[u].verdict = task[u].verdict
      /\ \A u \in CallTasks : task'[u].pc \in {"done", "sleep", task[u].pc}
      /\ task'["caller"].pc \in {"done", task["caller"].pc}
  BY <1>2, <1>3, Reaps, Typed
<1>5. LockOK'
  BY <1>1, <1>4, Typed, LockStays DEF Locked
<1>6. \/ task'["caller"].pc = task["caller"].pc
      \/ task'["caller"].pc \in Past
  BY <1>4 DEF Past
<1>7. CallerOK'
  BY <1>1, <1>6, CallerStays
<1>8. \A u \in CallTasks :
        /\ task'[u].verdict = task[u].verdict
        /\ task'[u].pc \in {"finalize", "settle", "store"} => task'[u].verdict \in Verdicts
        /\ task'[u].pc = "store" => task[u].pc = "store"
  BY <1>4, Typed
<1> QED
  BY <1>1, <1>4, <1>5, <1>6, <1>7, <1>8, Typed, LaterStep

\* A task takes finalize_lock: the receipt is not there yet.
LEMMA LockKeeps ==
  ASSUME IInv, NEW t \in CallTasks, pc("caller") \notin {"fence", "admit"},
         FinalizeFree, ~Terminal, NEW l \in {"settle", "close"}, Move(t, l),
         t = "caller" => l \in Past, l = "settle" => task[t].verdict \in Verdicts,
         UNCHANGED <<entry, work, channel, page, torn>>
  PROVE  IInv'
<1>1. /\ task' \in [CallTasks -> TaskTypes]
      /\ task'[t].pc = l /\ task'[t].verdict = task[t].verdict
      /\ \A u \in CallTasks \ {t} : task'[u] = task[u]
  BY SMTT(60), Typed, Moves DEF Move, Places
<1>2. LockOK'
  BY <1>1, Typed, LockTaken
<1>3. \/ task'["caller"].pc = task["caller"].pc
      \/ task'["caller"].pc \in Past
  BY <1>1, Typed
<1>4. CallerOK'
  BY <1>3, CallerStays
<1>5. \A u \in CallTasks :
        /\ task'[u].verdict = task[u].verdict
        /\ task'[u].pc \in {"finalize", "settle", "store"} => task'[u].verdict \in Verdicts
        /\ task'[u].pc = "store" => task[u].pc = "store"
  BY <1>1, Typed
<1> QED
  BY <1>1, <1>2, <1>3, <1>4, <1>5, Typed, LaterStep

\* _finalize takes its lock.
LEMMA TakeFinalizeLockKeeps ==
  ASSUME IInv, NEW t \in CallTasks, TakeFinalizeLock(t)
  PROVE  IInv'
<1>1. pc("caller") \notin {"fence", "admit"} /\ task[t].verdict \in Verdicts
  BY PastAdmission, Typed DEF TakeFinalizeLock, pc
<1>2. CASE Terminal /\ Move(t, "done") /\ entry' = entry
  <2>1. /\ "done" \in Places /\ "done" \in Past /\ "done" \notin Locked \cup {"finalize"}
        /\ UNCHANGED <<work, channel, page, torn>>
    BY DEF Places, Past, Locked, TakeFinalizeLock
  <2> QED
    BY <1>1, <1>2, <2>1, Typed, MoveKeeps
<1>3. CASE ~Terminal /\ Move(t, "settle") /\ entry' = entry
  BY <1>1, <1>3, LockKeeps DEF TakeFinalizeLock, Past
<1>4. CASE Uncertain(t)
  <2>1. UNCHANGED <<work, channel, page, torn>>
    BY DEF TakeFinalizeLock
  <2> QED
    BY <1>1, <1>4, <2>1, Typed, UncertainKeeps
<1> QED
  BY <1>2, <1>3, <1>4 DEF TakeFinalizeLock

\* What the engine makes of the item never takes it from its end, and ends it
\* when the outcome is known and no cancellation was refused.
LEMMA AfterSettleEnds ==
  ASSUME IInv, NEW t \in CallTasks, task[t].verdict \in Verdicts
  PROVE  /\ AfterSettle(t) \in {"none", "pending", "claimed"} \cup TerminalWork
         /\ work \in TerminalWork => AfterSettle(t) \in TerminalWork
         /\ work = "claimed" => AfterSettle(t) \in {"claimed"} \cup TerminalWork
         /\ task[t].verdict.status # "unknown" /\ (Cancels(t) => WasCancelled) =>
              AfterSettle(t) \in TerminalWork
<1>1. task[t].verdict.status \in {"unknown"} \cup TerminalWork
  BY DEF Verdicts, Unknown, CancelledUntouched, CommittedEffect, FailedUntouched,
         Receipt, TerminalWork
<1>2. /\ task[t].verdict.status = "succeeded" => task[t].verdict = CommittedEffect
      /\ task[t].verdict.status = "failed" => task[t].verdict = FailedUntouched
  BY DEF Verdicts, Unknown, CancelledUntouched, CommittedEffect, FailedUntouched, Receipt
<1>3. task[t].verdict.status \in {"succeeded", "failed"} => entry.claim
  BY <1>2 DEF IInv, VerdictsOK, Honest, PageOK
<1>4. entry.claim => work \in {"claimed"} \cup TerminalWork
  BY DEF IInv, WorkOK
<1>5. CASE entry.claim
  BY <1>1, <1>4, <1>5, Typed DEF AfterSettle, Commits, Cancels, Committed, TerminalWork
<1>6. CASE ~entry.claim
  BY <1>1, <1>3, <1>6, Typed
     DEF AfterSettle, Commits, Cancels, WasCancelled, TerminalWork
<1> QED
  BY <1>5, <1>6

\* _terminalize_work_item.
LEMMA SettleKeeps ==
  ASSUME IInv, NEW t \in CallTasks, Settle(t)
  PROVE  IInv'
<1>1. /\ pc("caller") \notin {"fence", "admit"} /\ task[t].verdict \in Verdicts
      /\ UNCHANGED <<channel, page, torn>> /\ task[t].pc = "settle"
  BY PastAdmission, Typed DEF Settle, pc
<1>2. /\ AfterSettle(t) \in {"none", "pending", "claimed"} \cup TerminalWork
      /\ work \in TerminalWork => AfterSettle(t) \in TerminalWork
      /\ work = "claimed" => AfterSettle(t) \in {"claimed"} \cup TerminalWork
      /\ task[t].verdict.status # "unknown" /\ (Cancels(t) => WasCancelled) =>
           AfterSettle(t) \in TerminalWork
  BY <1>1, AfterSettleEnds
<1>3. CASE /\ task[t].verdict.status # "unknown" /\ (Cancels(t) => WasCancelled)
           /\ work' = AfterSettle(t) /\ Move(t, "store") /\ entry' = entry
  <2>1. /\ task' \in [CallTasks -> TaskTypes]
        /\ task'[t].pc = "store" /\ task'[t].verdict = task[t].verdict
        /\ \A u \in CallTasks \ {t} : task'[u] = task[u]
    BY SMTT(60), <1>3, Typed, Moves DEF Move, Places
  <2>2. \A u \in CallTasks : task'[u].pc \in Locked => task[u].pc \in Locked
    BY <1>1, <2>1 DEF Locked
  <2>3. LockOK'
    BY <1>3, <2>2, Typed, LockStays
  <2>4. \/ task'["caller"].pc = task["caller"].pc
        \/ task'["caller"].pc \in Past
    BY <2>1, Typed DEF Past
  <2>5. CallerOK'
    BY <1>1, <1>3, <2>4, CallerStays
  <2>6. work' \in TerminalWork
    BY <1>2, <1>3
  <2>7. \A u \in CallTasks :
          /\ task'[u].verdict = task[u].verdict
          /\ task'[u].pc \in {"finalize", "settle", "store"} => task'[u].verdict \in Verdicts
    BY <1>1, <2>1, Typed
  <2> QED
    BY <1>1, <1>3, <2>1, <2>3, <2>4, <2>5, <2>6, <2>7, Typed, LaterStep
<1>4. CASE work' \in Unanswered(t) /\ Uncertain(t)
  <2>1. work' \in {work, AfterSettle(t)}
    BY <1>1, <1>4 DEF Unanswered, pc
  <2>2. /\ work' \in {"none", "pending", "claimed"} \cup TerminalWork
        /\ work \in TerminalWork => work' \in TerminalWork
        /\ work = "claimed" => work' \in {"claimed"} \cup TerminalWork
    BY <1>2, <2>1, Typed
  <2> QED
    BY <1>1, <1>4, <2>2, UncertainKeeps
<1> QED
  BY <1>3, <1>4 DEF Settle

\* _store_terminal: the receipt is the one that the task made durable.
LEMMA StoreTerminalKeeps ==
  ASSUME IInv, NEW t \in CallTasks, StoreTerminal(t)
  PROVE  IInv'
<1>1. /\ pc("caller") \notin {"fence", "admit"} /\ task[t].verdict \in Verdicts
      /\ UNCHANGED <<work, channel, page, torn>> /\ task[t].pc = "store" /\ ~Sending
      /\ work \in TerminalWork
  BY PastAdmission, Typed DEF StoreTerminal, pc, IInv, WorkOK
<1>2. t \in Finalizing /\ ~Terminal /\ Finalizing = {t}
  BY <1>1, Typed DEF Finalizing, pc, LockOK
<1>3. PICK r \in Verdicts : r = task[t].verdict
  BY <1>1
<1>4. /\ entry' \in EntryTypes /\ entry'.claim = entry.claim
      /\ entry'.dispatched = entry.dispatched /\ entry'.result = entry.result
      /\ entry'.ack = entry.ack /\ entry'.cancelling = entry.cancelling
      /\ entry'.terminal = r /\ entry'.completed = r
  BY <1>2, <1>3, Typed DEF StoreTerminal, EntryTypes
<1>5. /\ task' \in [CallTasks -> TaskTypes]
      /\ \A u \in CallTasks : task'[u].verdict = task[u].verdict
      /\ \A u \in CallTasks : task'[u].pc \in {task[u].pc, "done"}
      /\ task'[t].pc = "done"
  BY Typed DEF StoreTerminal, TaskTypes, Places
<1>6. Finalizing' = {}
  BY <1>2, <1>5 DEF Finalizing, pc
<1>7. LockOK'
  BY <1>4, <1>6 DEF LockOK
<1>8. \/ task'["caller"].pc = task["caller"].pc
      \/ task'["caller"].pc \in Past
  BY <1>5, Typed DEF Past
<1>9. CallerOK'
  BY <1>1, <1>4, <1>8, CallerStays
<1>10. Types'
  BY <1>1, <1>4, <1>5 DEF IInv, Types
<1>11. PageOK'
  BY <1>1, <1>4 DEF IInv, PageOK
<1>12. WorkOK'
  BY <1>1 DEF WorkOK
<1>13. NeverActs => NeverActs'
  BY <1>1, <1>4, <1>8 DEF NeverActs, Sending, pc, Past
<1>14. ASSUME NEW q, Honest(q) PROVE Honest(q)'
  BY <1>1, <1>13, <1>14 DEF Honest
<1>15. VerdictsOK'
  <2>1. Honest(entry.terminal)'
    <3>1. Honest(r)'
      BY <1>3, <1>14 DEF IInv, VerdictsOK
    <3> QED
      BY <1>4, <3>1 DEF Honest
  <2>2. ASSUME NEW u \in CallTasks PROVE Honest(task[u].verdict)'
    <3>1. PICK q : q = task[u].verdict
      OBVIOUS
    <3>2. Honest(q)'
      BY <1>14, <2>2, <3>1 DEF IInv, VerdictsOK
    <3> QED
      BY <1>5, <2>2, <3>1, <3>2 DEF Honest
  <2>3. \A u \in CallTasks :
          task'[u].pc \in {"finalize", "settle", "store"} => task'[u].verdict \in Verdicts
    BY <1>5, Typed
  <2> QED
    BY <2>1, <2>2, <2>3 DEF VerdictsOK, pc
<1> QED
  BY <1>7, <1>9, <1>10, <1>11, <1>12, <1>15 DEF IInv

\* _reap_unknown_call and _close_reaped_work_item.
LEMMA ReaperKeeps ==
  ASSUME IInv, Reap \/ Close \/ CloseFails
  PROVE  IInv'
<1>1. /\ "reaper" \in CallTasks /\ pc("caller") \notin {"fence", "admit"}
      /\ UNCHANGED <<entry, channel, page, torn>>
  BY Typed, PastAdmission DEF Reap, Close, CloseFails
<1>2. {"done", "sleep"} \subseteq Places
      /\ {"done", "sleep"} \cap (Locked \cup {"finalize"}) = {}
  BY DEF Places, Locked
<1>3. CASE Reap
  <2>1. work' = work /\ FinalizeFree
    BY <1>3 DEF Reap
  <2>2. CASE Move("reaper", "done")
    BY <1>1, <1>2, <2>1, <2>2, Typed, MoveKeeps
  <2>3. CASE Move("reaper", "close") /\ ~Terminal
    BY <1>1, <2>1, <2>3, LockKeeps
  <2> QED
    BY <1>3, <2>2, <2>3 DEF Reap
<1>4. entry.claim => work \in {"claimed"} \cup TerminalWork
  BY DEF IInv, WorkOK
<1>5. CASE Close
  <2>1. work' \in TerminalWork
    BY <1>4, <1>5, Typed
       DEF Close, Committed, ClosedUnclaimed, WasCancelled, TerminalWork
  <2>2. PICK r \in Verdicts : r = Unknown
    BY Receipts
  <2>3. /\ task' \in [CallTasks -> TaskTypes]
        /\ task'["reaper"].pc = "store" /\ task'["reaper"].verdict = r
        /\ \A u \in CallTasks \ {"reaper"} : task'[u] = task[u]
    BY <1>5, <2>2, Typed DEF Close, TaskTypes, Places
  <2>4. Honest(r)'
    BY <2>2, Receipts DEF Honest
  <2>5. \A u \in CallTasks : task'[u].pc \in Locked => task[u].pc \in Locked
    BY <1>5, <2>3 DEF Close, pc, Locked
  <2>6. LockOK'
    BY <1>1, <2>5, Typed, LockStays
  <2>7. task'["caller"].pc = task["caller"].pc
    BY <2>3, Typed
  <2>8. CallerOK'
    BY <1>1, <2>7, CallerStays
  <2>9. \A u \in CallTasks :
          /\ \/ task'[u].verdict = task[u].verdict
             \/ \E q \in Verdicts : task'[u].verdict = q /\ Honest(q)'
          /\ task'[u].pc \in {"finalize", "settle", "store"} => task'[u].verdict \in Verdicts
    BY <2>3, <2>4, Typed
  <2> QED
    BY <1>1, <2>1, <2>3, <2>6, <2>7, <2>8, <2>9, Typed, LaterStep
<1>6. CASE CloseFails
  <2>1. /\ work' \in {"none", "pending", "claimed"} \cup TerminalWork
        /\ work \in TerminalWork => work' \in TerminalWork
        /\ work = "claimed" => work' \in {"claimed"} \cup TerminalWork
    BY <1>4, <1>6, Typed DEF CloseFails, Committed, TerminalWork
  <2>2. Move("reaper", "sleep")
    BY <1>6 DEF CloseFails
  <2> QED
    BY <1>1, <1>2, <2>1, <2>2, Typed, MoveKeeps
<1> QED
  BY <1>3, <1>5, <1>6

--------------------------------------------------------------------------------
(* The caller                                                                 *)

\* The caller moves on or is done, and its abort or the reaper may be started.
CallerGoes(l) ==
  /\ task' \in [CallTasks -> TaskTypes] /\ task'["caller"].pc = l
  /\ \A u \in CallTasks : task'[u].verdict = task[u].verdict
  /\ \A u \in CallTasks \ {"caller"} :
       task'[u].pc \in {"recover", "adopt", "sleep", task[u].pc}

\* The caller moves on, and nothing else does.
LEMMA CallerMoves ==
  ASSUME IInv, NEW l \in Places, Move("caller", l)
  PROVE  CallerGoes(l) /\ \A u \in CallTasks \ {"caller"} : task'[u] = task[u]
<1>1. "caller" \in CallTasks /\ "abort" \in CallTasks /\ task \in [CallTasks -> TaskTypes]
  BY Typed
<1>2. /\ task' \in [CallTasks -> TaskTypes]
      /\ task'["caller"].pc = l /\ task'["caller"].verdict = task["caller"].verdict
      /\ \A u \in CallTasks \ {"caller"} : task'[u] = task[u]
  BY <1>1, Moves DEF Move
<1> QED
  BY <1>1, <1>2 DEF CallerGoes

\* The caller is done and leaves the call to its abort.
LEMMA CallerAborts ==
  ASSUME IInv, NEW l \in {"recover", "adopt"},
         task' = WithAbort(At("caller", "done"), l)
  PROVE  CallerGoes("done")
<1> DEFINE ts == At("caller", "done")
<1>1. "done" \in Places /\ task \in [CallTasks -> TaskTypes] /\ "caller" \in CallTasks
  BY Typed DEF Places
<1>2. /\ ts \in [CallTasks -> TaskTypes] /\ ts["caller"].pc = "done"
      /\ ts["caller"].verdict = task["caller"].verdict
      /\ \A u \in CallTasks \ {"caller"} : ts[u] = task[u]
  BY <1>1, Moves
<1> HIDE DEF ts
<1>3. task' = WithAbort(ts, l)
  BY DEF ts
<1> QED
  BY <1>2, <1>3, Typed, Aborts DEF CallerGoes

\* A step of the caller that takes no lock and calls no _finalize.
LEMMA CallerStep ==
  ASSUME IInv, NEW l \in Places, l \notin Locked \cup {"finalize"}, CallerGoes(l),
         CallerOK', PageOK', entry' \in EntryTypes,
         entry'.terminal = entry.terminal, entry'.completed = entry.completed,
         work' \in {"none", "pending", "claimed"} \cup TerminalWork,
         work \in TerminalWork => work' \in TerminalWork,
         entry'.claim \/ l = "granted" => work' \in {"claimed"} \cup TerminalWork,
         NeverActs => NeverActs',
         page' \in PageTypes, page'.did = page.did, torn' \in BOOLEAN, channel' = channel
  PROVE  IInv'
<1>1. Types'
  BY Typed DEF Types, CallerGoes
<1>2. \A u \in CallTasks : task'[u].pc \in Locked => task[u].pc \in Locked
  BY Typed DEF CallerGoes, Locked
<1>3. LockOK'
  BY <1>2, Typed, LockStays
<1>4. \A u \in CallTasks :
        /\ task'[u].verdict = task[u].verdict
        /\ task'[u].pc \in {"finalize", "settle", "store"} => task'[u].verdict \in Verdicts
        /\ task'[u].pc = "store" => task[u].pc = "store"
  BY Typed DEF CallerGoes, Locked
<1>5. entry'.claim \/ task'["caller"].pc = "granted" =>
        work' \in {"claimed"} \cup TerminalWork
  BY DEF CallerGoes
<1> QED
  BY <1>1, <1>3, <1>4, <1>5, Step

\* A step of the caller that leaves the entry, the item and the page alone.
LEMMA CallerWalks ==
  ASSUME IInv, NEW l \in Places, Move("caller", l),
         UNCHANGED <<entry, work, channel, page, torn>>,
         l \in {"claim", "sending", "await", "done"},
         l = "claim" => pc("caller") = "confirm",
         l = "sending" => pc("caller") = "ready" /\ ~entry.cancelling,
         l = "await" => pc("caller") = "sent",
         l = "done" => pc("caller") \notin {"fence", "admit"}
  PROVE  IInv'
<1>1. CallerGoes(l)
  BY CallerMoves
<1>2. CallerOK'
  BY <1>1 DEF CallerOK, CallerGoes, IInv, pc, Unsent, Unclaimed, Past
<1>3. PageOK'
  BY DEF IInv, PageOK
<1>4. NeverActs => NeverActs'
  BY <1>1 DEF NeverActs, Sending, pc, Past, CallerGoes
<1>5. entry'.claim \/ l = "granted" => work' \in {"claimed"} \cup TerminalWork
  BY DEF IInv, WorkOK
<1> QED
  BY <1>1, <1>2, <1>3, <1>4, <1>5, Typed, CallerStep DEF Locked

\* _submit_fence, and the admission of the call.
LEMMA AdmissionKeeps ==
  ASSUME IInv, SubmitFence \/ Admit
  PROVE  IInv'
<1>1. /\ pc("caller") \in {"fence", "admit"} /\ ~page.got /\ ~entry.dispatched
      /\ ~entry.claim /\ ~entry.live
      /\ UNCHANGED <<channel, page, torn>>
  BY DEF SubmitFence, Admit, IInv, CallerOK, Unsent, Unclaimed
<1>2. CASE SubmitFence
  <2>1. work = "none" /\ entry' = entry /\ work' \in {"none", "pending"}
        /\ pc("caller") = "fence" /\ "none" \notin TerminalWork
    BY <1>2 DEF SubmitFence, Unanswered, IInv, CallerOK, TerminalWork
  <2>2. PageOK'
    BY <1>1, <2>1 DEF IInv, PageOK
  <2>3. CASE Move("caller", "admit") /\ work' = "pending"
    <3>1. /\ CallerGoes("admit") /\ "admit" \in Places
          /\ \A u \in CallTasks \ {"caller"} : task'[u] = task[u]
      BY <2>3, CallerMoves DEF Places
    <3>2. CallerOK'
      BY <1>1, <2>1, <3>1 DEF CallerOK, CallerGoes, IInv, pc, Unsent, Unclaimed, Past
    <3>3. NeverActs => NeverActs'
      BY <1>1, <2>1, <3>1 DEF NeverActs, Sending, pc, Past, CallerGoes
    <3> QED
      BY <1>1, <2>1, <2>2, <3>1, <3>2, <3>3, Typed, CallerStep DEF Locked
  <2>4. CASE task' = WithAbort(At("caller", "done"), "recover")
    <3>1. CallerGoes("done") /\ "done" \in Places
      BY <2>4, CallerAborts DEF Places
    <3>2. CallerOK'
      BY <3>1 DEF CallerOK, CallerGoes, pc, Unsent, Unclaimed, Past
    <3>3. NeverActs'
      BY <1>1, <3>1 DEF NeverActs, Sending, pc, Past, CallerGoes
    <3> QED
      BY <1>1, <2>1, <2>2, <3>1, <3>2, <3>3, Typed, CallerStep DEF Locked
  <2> QED
    BY <1>2, <2>3, <2>4 DEF SubmitFence
<1>3. CASE Admit
  <2>1. work' = work /\ pc("caller") = "admit"
    BY <1>3 DEF Admit
  <2>2. CASE entry' = [entry EXCEPT !.live = TRUE] /\ Move("caller", "confirm")
    <3>1. /\ entry' \in EntryTypes /\ entry'.claim = entry.claim
          /\ entry'.dispatched = entry.dispatched /\ entry'.result = entry.result
          /\ entry'.ack = entry.ack /\ entry'.cancelling = entry.cancelling
          /\ entry'.terminal = entry.terminal /\ entry'.completed = entry.completed
      BY <2>2, Typed DEF EntryTypes
    <3>2. CallerGoes("confirm") /\ "confirm" \in Places
      BY <2>2, CallerMoves DEF Places
    <3>3. CallerOK'
      BY <1>1, <3>1, <3>2 DEF CallerOK, CallerGoes, pc, Unsent, Unclaimed, Past
    <3>4. PageOK'
      BY <1>1, <3>1 DEF IInv, PageOK
    <3>5. NeverActs => NeverActs'
      BY <1>1, <2>1, <3>1, <3>2 DEF NeverActs, Sending, pc, Past, CallerGoes
    <3> QED
      BY <1>1, <2>1, <3>1, <3>2, <3>3, <3>4, <3>5, Typed, CallerStep DEF Locked
  <2>3. CASE task' = WithAbort(At("caller", "done"), "adopt") /\ entry' = entry
    <3>1. CallerGoes("done") /\ "done" \in Places
      BY <2>3, CallerAborts DEF Places
    <3>2. CallerOK'
      BY <3>1 DEF CallerOK, CallerGoes, pc, Unsent, Unclaimed, Past
    <3>3. PageOK'
      BY <1>1, <2>3 DEF IInv, PageOK
    <3>4. NeverActs'
      BY <1>1, <3>1 DEF NeverActs, Sending, pc, Past, CallerGoes
    <3> QED
      BY <1>1, <2>1, <2>3, <3>1, <3>2, <3>3, <3>4, Typed, CallerStep DEF Locked
  <2> QED
    BY <1>3, <2>2, <2>3 DEF Admit
<1> QED
  BY <1>2, <1>3

\* The caller calls _finalize.
LEMMA CallerFinalizes ==
  ASSUME IInv, NEW r \in Verdicts, Finalize("caller", r), Honest(r)',
         PageOK', entry' \in EntryTypes,
         entry'.terminal = entry.terminal, entry'.completed = entry.completed,
         work' \in {"none", "pending", "claimed"} \cup TerminalWork,
         work \in TerminalWork => work' \in TerminalWork,
         entry'.claim => work' \in {"claimed"} \cup TerminalWork,
         NeverActs => NeverActs',
         page' \in PageTypes, page'.did = page.did, torn' \in BOOLEAN, channel' = channel
  PROVE  IInv'
<1>1. /\ task' \in [CallTasks -> TaskTypes]
      /\ task'["caller"].pc = "finalize" /\ task'["caller"].verdict = r
      /\ \A u \in CallTasks \ {"caller"} : task'[u] = task[u]
  BY Typed, Finalizes
<1>2. Types'
  BY <1>1, Typed DEF Types
<1>3. \A u \in CallTasks : task'[u].pc \in Locked => task[u].pc \in Locked
  BY <1>1 DEF Locked
<1>4. LockOK'
  BY <1>3, Typed, LockStays
<1>5. CallerOK'
  BY <1>1 DEF CallerOK, pc, Past, Unsent, Unclaimed
<1>6. \A u \in CallTasks :
        /\ \/ task'[u].verdict = task[u].verdict
           \/ \E q \in Verdicts : task'[u].verdict = q /\ Honest(q)'
        /\ task'[u].pc \in {"finalize", "settle", "store"} => task'[u].verdict \in Verdicts
        /\ task'[u].pc = "store" => task[u].pc = "store"
  BY <1>1, Typed
<1>7. entry'.claim \/ task'["caller"].pc = "granted" =>
        work' \in {"claimed"} \cup TerminalWork
  BY <1>1
<1> QED
  BY <1>2, <1>4, <1>5, <1>6, <1>7, Step

\* A timeout of the caller: it goes on to _cancel_active; the engine may still do
\* what it was asked for, and the page may have got the call.
LEMMA TimesOutKeeps ==
  ASSUME IInv, TimesOut
  PROVE  IInv'
<1>1. "enter" \in Places /\ "enter" \in Past /\ "enter" \notin Locked \cup {"finalize"}
  BY DEF Places, Past, Locked
<1>2. /\ entry' \in EntryTypes /\ entry'.claim = entry.claim
      /\ entry'.dispatched = entry.dispatched /\ entry'.result = entry.result
      /\ entry'.ack = entry.ack /\ entry'.terminal = entry.terminal
      /\ entry'.completed = entry.completed /\ entry'.cancelling = entry.cancelling
      /\ channel' = channel
  BY Typed DEF TimesOut, EntryTypes
<1>3. /\ work' \in {"none", "pending", "claimed"} \cup TerminalWork
      /\ work \in TerminalWork => work' \in TerminalWork
      /\ work = "claimed" => work' \in {"claimed"} \cup TerminalWork
  <2>1. pc("caller") \notin {"fence", "settle"} /\ work' \in Unanswered("caller")
    BY DEF TimesOut
  <2>2. work' = work \/ (work = "pending" /\ work' = "claimed")
    BY <2>1 DEF Unanswered
  <2>3. "pending" \notin TerminalWork
    BY DEF TerminalWork
  <2> QED
    BY <2>2, <2>3, Typed
<1>4. CallerGoes("enter")
  BY <1>1, CallerMoves DEF TimesOut
<1>5. CallerOK'
  BY <1>4 DEF CallerOK, CallerGoes, pc, Unsent, Unclaimed, Past
<1>6. entry'.claim => work' \in {"claimed"} \cup TerminalWork
  BY <1>2, <1>3 DEF IInv, WorkOK
<1>7. CASE UNCHANGED <<page, torn>>
  <2>1. PageOK'
    BY <1>2, <1>7 DEF IInv, PageOK
  <2>2. NeverActs => NeverActs'
    BY <1>4, <1>7 DEF NeverActs, Sending, pc, Past, CallerGoes
  <2> QED
    BY <1>1, <1>2, <1>3, <1>4, <1>5, <1>6, <1>7, <2>1, <2>2, Typed, CallerStep
<1>8. CASE Sending /\ page' = [page EXCEPT !.got = TRUE] /\ torn' = TRUE
  <2>1. entry.claim
    BY <1>8 DEF IInv, CallerOK, Sending
  <2>2. page' \in PageTypes /\ page'.did = page.did /\ page'.got
    BY <1>8, Typed DEF PageTypes
  <2>3. PageOK'
    BY <1>2, <1>8, <2>1, <2>2 DEF IInv, PageOK
  <2>4. NeverActs'
    BY <1>8 DEF NeverActs
  <2> QED
    BY <1>1, <1>2, <1>3, <1>4, <1>5, <1>6, <1>8, <2>2, <2>3, <2>4, Typed, CallerStep
<1> QED
  BY <1>7, <1>8 DEF TimesOut

\* The caller waits for the user, the audit or the result, or is told to stop.
LEMMA WaitsKeep ==
  ASSUME IInv, TimesOut \/ DispatchRaises \/ Confirm \/ AuditDispatched \/ AwaitResult
  PROVE  IInv'
<1>1. {"enter", "done", "claim", "await"} \subseteq Places /\ "caller" \in CallTasks
  BY Typed DEF Places
<1>2. CASE TimesOut
  BY <1>2, TimesOutKeeps
<1>3. CASE DispatchRaises
  <2>1. /\ pc("caller") \in {"confirm", "ready", "sent"}
        /\ UNCHANGED <<entry, work, channel, page, torn>>
    BY <1>3 DEF DispatchRaises
  <2>2. CASE entry.claim
    BY <1>1, <1>3, <2>1, <2>2, UnknownKeeps DEF DispatchRaises
  <2>3. CASE ~entry.claim
    <3>1. pc("caller") \in Unsent \ {"fence", "admit", "sending"}
      BY <2>1, <2>3 DEF IInv, CallerOK, Unsent, Unclaimed
    <3> QED
      BY <1>3, <2>1, <2>3, <3>1, Typed, UntouchedKeeps DEF DispatchRaises
  <2> QED
    BY <2>2, <2>3
<1>4. CASE Confirm
  BY <1>1, <1>4, CallerWalks DEF Confirm
<1>5. CASE AuditDispatched
  BY <1>1, <1>5, CallerWalks DEF AuditDispatched
<1>6. CASE AwaitResult
  <2>1. pc("caller") = "await" /\ UNCHANGED <<entry, work, channel, page, torn>>
    BY <1>6 DEF AwaitResult
  <2>2. CASE Move("caller", "done")
    BY <1>1, <2>1, <2>2, CallerWalks
  <2>3. CASE entry.result # "none" /\ Finalize("caller", ResultReceipt)
    BY <1>1, <2>1, <2>3, ResultKeeps
  <2> QED
    BY <1>6, <2>2, <2>3 DEF AwaitResult
<1> QED
  BY <1>2, <1>3, <1>4, <1>5, <1>6

\* claim_specific: the item is held, or was not to be had, or it is not known.
LEMMA ClaimItemKeeps ==
  ASSUME IInv, ClaimItem
  PROVE  IInv'
<1>1. /\ pc("caller") = "claim" /\ ~page.got /\ ~entry.dispatched /\ ~entry.claim
      /\ UNCHANGED <<entry, channel, page, torn>>
      /\ {"granted", "refused"} \subseteq Places
      /\ {"granted", "refused"} \cap (Locked \cup {"finalize"}) = {}
  BY DEF ClaimItem, IInv, CallerOK, Unsent, Unclaimed, Places, Locked
<1>2. PageOK'
  BY <1>1 DEF IInv, PageOK
<1>3. ASSUME NEW l \in {"granted", "refused"}, Move("caller", l),
             work' \in {"none", "pending", "claimed"} \cup TerminalWork,
             work \in TerminalWork => work' \in TerminalWork,
             l = "granted" => work' \in {"claimed"} \cup TerminalWork
      PROVE  IInv'
  <2>1. CallerGoes(l)
    BY <1>1, <1>3, CallerMoves
  <2>2. CallerOK'
    BY <1>1, <1>3, <2>1 DEF CallerOK, CallerGoes, pc, Unsent, Unclaimed, Past
  <2>3. NeverActs => NeverActs'
    BY <1>1, <1>3, <2>1 DEF NeverActs, Sending, pc, Past, CallerGoes
  <2> QED
    BY <1>1, <1>2, <1>3, <2>1, <2>2, <2>3, Typed, CallerStep
<1>4. CASE work = "pending" /\ work' = "claimed" /\ Move("caller", "granted")
  BY <1>3, <1>4 DEF TerminalWork
<1>5. CASE work' = work /\ Move("caller", "refused")
  BY <1>3, <1>5, Typed
<1>6. CASE work' \in Unanswered("caller") /\ Finalize("caller", CancelledUntouched)
  <2>1. /\ work' \in {"none", "pending", "claimed"} \cup TerminalWork
        /\ work \in TerminalWork => work' \in TerminalWork
    BY <1>1, <1>6, Typed DEF Unanswered, TerminalWork
  <2>2. pc("caller")' = "finalize"
    BY <1>6, Finalizes, Receipts, Typed DEF pc
  <2>3. NeverActs'
    BY <1>1, <2>2 DEF NeverActs, Sending, Past
  <2>4. PICK r \in Verdicts : r = CancelledUntouched /\ Honest(r)'
    BY <2>3, Receipts DEF Honest
  <2>5. Finalize("caller", r)
    BY <1>6, <2>4
  <2> QED
    BY <1>1, <1>2, <2>1, <2>3, <2>4, <2>5, Typed, CallerFinalizes
<1> QED
  BY <1>4, <1>5, <1>6 DEF ClaimItem

\* _dispatch_and_wait goes on with its claim, or without one.
LEMMA ClaimAnsweredKeeps ==
  ASSUME IInv, ClaimAnswered
  PROVE  IInv'
<1>1. /\ pc("caller") \in {"granted", "refused"} /\ ~page.got /\ ~entry.dispatched
      /\ UNCHANGED <<work, channel, page, torn>> /\ "caller" \in CallTasks
      /\ {"done", "ready"} \subseteq Places /\ "ready" \notin Locked \cup {"finalize"}
  BY Typed DEF ClaimAnswered, IInv, CallerOK, Unsent, Unclaimed, Places, Locked
<1>2. CASE pc("caller") = "refused"
  <2>1. entry' = entry
    BY <1>2 DEF ClaimAnswered
  <2>2. CASE Move("caller", "done")
    BY <1>1, <1>2, <2>1, <2>2, CallerWalks
  <2>3. CASE Finalize("caller", Unknown)
    BY <1>1, <1>2, <2>1, <2>3, UnknownKeeps
  <2> QED
    BY <1>2, <2>2, <2>3 DEF ClaimAnswered
<1>3. CASE pc("caller") = "granted"
  <2>1. /\ entry' \in EntryTypes /\ entry'.claim
        /\ entry'.dispatched = entry.dispatched /\ entry'.result = entry.result
        /\ entry'.ack = entry.ack /\ entry'.terminal = entry.terminal
        /\ entry'.completed = entry.completed /\ entry'.cancelling = entry.cancelling
    BY <1>3, Typed DEF ClaimAnswered, EntryTypes
  <2>2. work' \in {"claimed"} \cup TerminalWork
    BY <1>1, <1>3 DEF IInv, WorkOK
  <2>3. PageOK'
    BY <1>1, <2>1 DEF IInv, PageOK
  <2>4. CASE Move("caller", "ready")
    <3>1. CallerGoes("ready")
      BY <1>1, <2>4, CallerMoves
    <3>2. CallerOK'
      BY <1>1, <2>1, <3>1 DEF CallerOK, CallerGoes, pc, Unsent, Unclaimed, Past
    <3>3. NeverActs => NeverActs'
      BY <1>1, <1>3, <2>1, <3>1 DEF NeverActs, Sending, pc, Past, CallerGoes
    <3> QED
      BY <1>1, <2>1, <2>2, <2>3, <3>1, <3>2, <3>3, Typed, CallerStep
  <2>5. CASE Finalize("caller", CancelledUntouched)
    <3>1. pc("caller")' = "finalize"
      BY <2>5, Finalizes, Receipts, Typed DEF pc
    <3>2. NeverActs'
      BY <1>1, <3>1 DEF NeverActs, Sending, Past
    <3>3. PICK r \in Verdicts : r = CancelledUntouched /\ Honest(r)'
      BY <3>2, Receipts DEF Honest
    <3>4. Finalize("caller", r)
      BY <2>5, <3>3
    <3> QED
      BY <1>1, <2>1, <2>2, <2>3, <3>2, <3>3, <3>4, Typed, CallerFinalizes
  <2> QED
    BY <1>3, <2>4, <2>5 DEF ClaimAnswered
<1> QED
  BY <1>1, <1>2, <1>3

\* _dispatch, up to the send.
LEMMA BeginSendKeeps ==
  ASSUME IInv, BeginSend
  PROVE  IInv'
<1>1. /\ pc("caller") = "ready" /\ UNCHANGED <<entry, work, channel, page, torn>>
      /\ "caller" \in CallTasks /\ {"done", "sending"} \subseteq Places
      /\ pc("caller") \in Unsent \ {"fence", "admit", "sending"}
  BY Typed DEF BeginSend, Places, Unsent
<1>2. CASE StillWanted /\ Move("caller", "sending")
  BY <1>1, <1>2, CallerWalks DEF StillWanted
<1>3. CASE Finalize("caller", Unknown)
  BY <1>1, <1>3, UnknownKeeps
<1>4. CASE Move("caller", "done")
  BY <1>1, <1>4, CallerWalks
<1>5. CASE Finalize("caller", CancelledUntouched)
  BY <1>1, <1>5, Typed, UntouchedKeeps
<1> QED
  BY <1>2, <1>3, <1>4, <1>5 DEF BeginSend

\* The send returns or raises.
LEMMA EndSendKeeps ==
  ASSUME IInv, EndSend
  PROVE  IInv'
<1>1. PICK got \in BOOLEAN :
        /\ page' = [page EXCEPT !.got = got]
        /\ \/ /\ entry' = [entry EXCEPT !.dispatched = TRUE]
              /\ Move("caller", "sent") /\ torn' = torn
           \/ /\ Finalize("caller", Unknown) /\ torn' = got /\ entry' = entry
  BY DEF EndSend
<1>2. /\ pc("caller") = "sending" /\ Sending /\ ~page.got /\ entry.claim
      /\ UNCHANGED <<work, channel>> /\ page.did = "nothing"
      /\ "sent" \in Places /\ "sent" \notin Locked \cup {"finalize"}
      /\ work \in {"claimed"} \cup TerminalWork
  BY Typed DEF EndSend, Sending, IInv, CallerOK, PageOK, WorkOK, Unsent, Places, Locked
<1>3. /\ page' \in PageTypes /\ page'.did = page.did /\ page'.got = got
  BY <1>1, Typed DEF PageTypes
<1>4. NeverActs => torn
  BY <1>2 DEF NeverActs
<1>5. CASE /\ entry' = [entry EXCEPT !.dispatched = TRUE]
           /\ Move("caller", "sent") /\ torn' = torn
  <2>1. /\ entry' \in EntryTypes /\ entry'.claim = entry.claim
        /\ entry'.dispatched /\ entry'.result = entry.result
        /\ entry'.ack = entry.ack /\ entry'.terminal = entry.terminal
        /\ entry'.completed = entry.completed
    BY <1>5, Typed DEF EntryTypes
  <2>2. CallerGoes("sent")
    BY <1>2, <1>5, CallerMoves
  <2>3. CallerOK'
    BY <1>2, <2>1, <2>2 DEF CallerOK, CallerGoes, pc, Unsent, Unclaimed, Past
  <2>4. PageOK'
    BY <1>2, <1>3, <2>1 DEF IInv, PageOK
  <2>5. NeverActs => NeverActs'
    BY <1>4, <1>5 DEF NeverActs
  <2> QED
    BY <1>2, <1>3, <1>5, <2>1, <2>2, <2>3, <2>4, <2>5, Typed, CallerStep
<1>6. CASE Finalize("caller", Unknown) /\ torn' = got /\ entry' = entry
  <2>1. PageOK'
    BY <1>2, <1>3, <1>6 DEF IInv, PageOK
  <2>2. pc("caller")' = "finalize"
    BY <1>6, Finalizes, Receipts, Typed DEF pc
  <2>3. NeverActs'
    BY <1>3, <1>6, <2>2 DEF NeverActs, Sending, Past
  <2>4. PICK r \in Verdicts : r = Unknown
    BY Receipts
  <2>5. Honest(r)'
    BY <2>4, Receipts DEF Honest
  <2>6. Finalize("caller", r)
    BY <1>6, <2>4
  <2> QED
    BY <1>2, <1>3, <1>6, <2>1, <2>3, <2>5, <2>6, Typed, CallerFinalizes
<1> QED
  BY <1>1, <1>5, <1>6

--------------------------------------------------------------------------------
(* Tasks that are cut off                                                     *)

\* Only the caller submits, claims and sends.
Shared == {"idle", "recover", "adopt", "enter", "ack", "finalize", "settle", "store",
           "sleep", "close", "done"}
OthersOK == \A t \in CallTasks \ {"caller"} : pc(t) \in Shared

\* What became of an engine call that was not answered.
LEMMA UnansweredEnds ==
  ASSUME IInv, OthersOK, NEW t \in CallTasks, work' \in Unanswered(t)
  PROVE  /\ work' \in {"none", "pending", "claimed"} \cup TerminalWork
         /\ work \in TerminalWork => work' \in TerminalWork
         /\ work = "claimed" => work' \in {"claimed"} \cup TerminalWork
<1>1. CASE pc(t) = "fence"
  <2>1. work = "none" /\ "none" \notin TerminalWork
    BY <1>1 DEF OthersOK, Shared, IInv, CallerOK, TerminalWork
  <2> QED
    BY <1>1, <2>1 DEF Unanswered
<1>2. CASE pc(t) = "claim"
  BY <1>2, Typed DEF Unanswered, TerminalWork
<1>3. CASE pc(t) = "settle"
  <2>1. task[t].verdict \in Verdicts
    BY <1>3, Typed DEF pc
  <2>2. work' \in {work, AfterSettle(t)}
    BY <1>3 DEF Unanswered
  <2> QED
    BY <2>1, <2>2, AfterSettleEnds, Typed
<1>4. CASE pc(t) \notin {"fence", "claim", "settle"}
  BY <1>4, Typed DEF Unanswered
<1> QED
  BY <1>1, <1>2, <1>3, <1>4

\* A caller that is cut off is done; its abort, and the reaper of an outcome that
\* was being stored, go on.
LEMMA CutOffGoes ==
  ASSUME IInv, CutOff("caller")
  PROVE  CallerGoes("done")
<1> DEFINE ts == At("caller", "done")
<1> DEFINE rs == WithReaper(ts)
<1>1. "done" \in Places /\ task \in [CallTasks -> TaskTypes] /\ "caller" \in CallTasks
      /\ "reaper" \in CallTasks /\ "abort" \in CallTasks
  BY Typed DEF Places
<1>2. /\ ts \in [CallTasks -> TaskTypes] /\ ts["caller"].pc = "done"
      /\ ts["caller"].verdict = task["caller"].verdict
      /\ \A u \in CallTasks \ {"caller"} : ts[u] = task[u]
  BY <1>1, Moves
<1>3. PICK l \in {"recover", "adopt"} : task' \in {WithAbort(ts, l), WithAbort(rs, l)}
  BY DEF CutOff
<1> HIDE DEF ts
<1>4. /\ rs \in [CallTasks -> TaskTypes]
      /\ rs["reaper"].pc \in {"sleep", ts["reaper"].pc}
      /\ rs["reaper"].verdict = ts["reaper"].verdict
      /\ \A u \in CallTasks \ {"reaper"} : rs[u] = ts[u]
  BY <1>2, Reaps
<1> HIDE DEF rs
<1>5. PICK qs \in {ts, rs} : task' = WithAbort(qs, l)
  BY <1>3
<1>6. /\ qs \in [CallTasks -> TaskTypes] /\ qs["caller"].pc = "done"
      /\ \A u \in CallTasks : qs[u].verdict = task[u].verdict
      /\ \A u \in CallTasks \ {"caller"} : qs[u].pc \in {"sleep", task[u].pc}
  BY <1>1, <1>2, <1>4, <1>5
<1>7. /\ task' \in [CallTasks -> TaskTypes]
      /\ task'["abort"].pc \in {l, qs["abort"].pc}
      /\ task'["abort"].verdict = qs["abort"].verdict
      /\ \A u \in CallTasks \ {"abort"} : task'[u] = qs[u]
  BY <1>5, <1>6, Aborts
<1> QED
  BY <1>1, <1>6, <1>7 DEF CallerGoes

\* A caller, a client or the disconnect is cut off.
LEMMA CutOffKeeps ==
  ASSUME IInv, OthersOK, NEW t \in CallTasks, CutOff(t)
  PROVE  IInv'
<1>1. /\ work' \in {"none", "pending", "claimed"} \cup TerminalWork
      /\ work \in TerminalWork => work' \in TerminalWork
      /\ work = "claimed" => work' \in {"claimed"} \cup TerminalWork
  BY UnansweredEnds DEF CutOff
<1>2. /\ entry' \in EntryTypes /\ entry'.claim = entry.claim
      /\ entry'.dispatched = entry.dispatched /\ entry'.result = entry.result
      /\ entry'.ack = entry.ack /\ entry'.terminal = entry.terminal
      /\ entry'.completed = entry.completed /\ entry'.cancelling = entry.cancelling
      /\ channel' = channel
  BY Typed DEF CutOff, EntryTypes
<1>3. "done" \in Places /\ "done" \notin Locked \cup {"finalize"}
  BY DEF Places, Locked
<1>4. CASE t # "caller"
  <2>1. pc(t) # "sending" /\ pc(t) \notin {"idle", "done"}
    BY <1>4 DEF CutOff, OthersOK, Shared
  <2>2. UNCHANGED <<channel, page, torn>> /\ pc("caller") \notin {"fence", "admit"}
    BY <1>4, <2>1, PastAdmission DEF CutOff
  <2>3. CASE pc(t) \in {"settle", "store"}
    <3>1. Uncertain(t)
      BY <1>4, <2>3 DEF CutOff, Uncertain
    <3> QED
      BY <1>1, <2>2, <3>1, UncertainKeeps
  <2>4. CASE pc(t) \notin {"settle", "store"}
    <3>1. Move(t, "done")
      BY <1>4, <2>4 DEF CutOff, Move
    <3> QED
      BY <1>1, <1>2, <1>3, <1>4, <2>2, <3>1, Typed, MoveKeeps
  <2> QED
    BY <2>3, <2>4
<1>5. CASE t = "caller"
  <2>1. CallerGoes("done")
    BY <1>5, CutOffGoes
  <2>2. CallerOK'
    BY <2>1 DEF CallerOK, CallerGoes, pc, Unsent, Unclaimed, Past
  <2>3. entry'.claim => work' \in {"claimed"} \cup TerminalWork
    BY <1>1, <1>2 DEF IInv, WorkOK
  <2>4. CASE UNCHANGED <<page, torn>>
    <3>1. PageOK'
      BY <1>2, <2>4 DEF IInv, PageOK
    <3>2. NeverActs => NeverActs'
      BY <2>1, <2>4 DEF NeverActs, Sending, pc, Past, CallerGoes
    <3> QED
      BY <1>1, <1>2, <1>3, <2>1, <2>2, <2>3, <2>4, <3>1, <3>2, Typed, CallerStep
  <2>5. CASE pc(t) = "sending" /\ page' = [page EXCEPT !.got = TRUE] /\ torn' = TRUE
    <3>1. entry.claim
      BY <1>5, <2>5 DEF IInv, CallerOK
    <3>2. page' \in PageTypes /\ page'.did = page.did /\ page'.got
      BY <2>5, Typed DEF PageTypes
    <3>3. PageOK'
      BY <1>2, <2>5, <3>1, <3>2 DEF IInv, PageOK
    <3>4. NeverActs'
      BY <2>5 DEF NeverActs
    <3> QED
      BY <1>1, <1>2, <1>3, <2>1, <2>2, <2>3, <2>5, <3>2, <3>3, <3>4, Typed, CallerStep
  <2> QED
    BY <2>4, <2>5 DEF CutOff
<1> QED
  BY <1>4, <1>5

\* A task moves, or calls _finalize.
LEMMA OthersMove ==
  ASSUME IInv, OthersOK, NEW t \in CallTasks,
         \/ \E l : Move(t, l) /\ (t = "caller" \/ l \in Shared)
         \/ \E r : Finalize(t, r)
  PROVE  OthersOK'
<1>1. task \in [CallTasks -> TaskTypes]
  BY Typed
<1>2. CASE \E l : Move(t, l) /\ (t = "caller" \/ l \in Shared)
  BY <1>1, <1>2 DEF OthersOK, pc, Move, At, TaskTypes
<1>3. CASE \E r : Finalize(t, r)
  BY <1>1, <1>3 DEF OthersOK, pc, Finalize, Shared
<1> QED
  BY <1>2, <1>3

\* The other tasks stay within their places.
LEMMA OthersStay ==
  ASSUME IInv, OthersOK, CallNext \/ UNCHANGED callVars
  PROVE  OthersOK'
<1>1. {"caller", "abort", "disconnect", "late", "reaper"} \subseteq CallTasks
      /\ task \in [CallTasks -> TaskTypes]
  BY Typed
<1>2. ASSUME NEW l, CallerGoes(l) PROVE OthersOK'
  BY <1>2 DEF CallerGoes, OthersOK, pc, Shared
<1>3. CASE SubmitFence \/ Admit
  <2>1. CASE \E l \in {"recover", "adopt"} : task' = WithAbort(At("caller", "done"), l)
    BY <1>2, <2>1, CallerAborts
  <2>2. CASE \E l : Move("caller", l)
    BY <1>1, <2>2, OthersMove
  <2> QED
    BY <1>3, <2>1, <2>2 DEF SubmitFence, Admit
<1>4. CASE TimesOut \/ DispatchRaises \/ Confirm \/ ClaimItem \/ ClaimAnswered
           \/ BeginSend \/ EndSend \/ AuditDispatched \/ AwaitResult
  BY <1>1, <1>4, OthersMove
     DEF TimesOut, DispatchRaises, Confirm, ClaimItem, ClaimAnswered, BeginSend, EndSend,
         AuditDispatched, AwaitResult
<1>5. CASE AbortSteps \/ Disconnect
  BY <1>1, <1>5, OthersMove DEF AbortSteps, RecoverFence, Adopt, Disconnect, Shared
<1>6. CASE PageSteps \/ ExpireClaim \/ UNCHANGED callVars
  <2>1. CASE task' = task
    BY <2>1 DEF OthersOK, pc
  <2>2. CASE \E r : Finalize("late", r)
    BY <1>1, <2>2, OthersMove
  <2> QED
    BY <1>6, <2>1, <2>2 DEF PageSteps, PageActs, ReceiveResult, ReceiveCancellation,
                            ExpireClaim, callVars
<1>7. CASE Reap \/ CloseFails
  BY <1>1, <1>7, OthersMove DEF Reap, CloseFails, Shared
<1>8. CASE Close
  BY <1>1, <1>8 DEF Close, OthersOK, pc, Shared
<1>9. ASSUME NEW k \in Clients, ClientAsks(k) PROVE OthersOK'
  BY <1>9, OthersMove DEF ClientAsks, CallTasks, Shared
<1>10. ASSUME NEW t \in CallTasks, CancelActive(t) \/ EffectKnown(t) PROVE OthersOK'
  BY <1>10, OthersMove DEF CancelActive, EffectKnown, Conclude, Shared
<1>11. ASSUME NEW t \in CallTasks, task' = WithReaper(At(t, "done")) PROVE OthersOK'
  <2> DEFINE ts == At(t, "done")
  <2>1. /\ ts \in [CallTasks -> TaskTypes] /\ ts[t].pc = "done"
        /\ \A u \in CallTasks \ {t} : ts[u] = task[u]
    BY <1>1, <1>11, Moves DEF Places
  <2> HIDE DEF ts
  <2>2. task' = WithReaper(ts)
    BY <1>11 DEF ts
  <2>3. \A u \in CallTasks : task'[u].pc \in {"sleep", "done", task[u].pc}
    BY <2>1, <2>2, Reaps
  <2> QED
    BY <2>3 DEF OthersOK, pc, Shared
<1>12. ASSUME NEW t \in CallTasks, TakeFinalizeLock(t) \/ Settle(t) PROVE OthersOK'
  <2>1. CASE Uncertain(t)
    BY <1>11, <2>1 DEF Uncertain
  <2>2. CASE \E l \in Shared : Move(t, l)
    BY <1>12, <2>2, OthersMove
  <2> QED
    BY <1>12, <2>1, <2>2 DEF TakeFinalizeLock, Settle, Shared
<1>13. ASSUME NEW t \in CallTasks, StoreTerminal(t) PROVE OthersOK'
  BY <1>1, <1>13 DEF StoreTerminal, OthersOK, pc, Shared, TaskTypes
<1>14. ASSUME NEW t \in CallTasks, CutOff(t) PROVE OthersOK'
  <2>1. CASE t = "caller"
    BY <1>2, <1>14, <2>1, CutOffGoes
  <2>2. CASE task' = WithReaper(At(t, "done"))
    BY <1>11, <1>14, <2>2
  <2>3. CASE Move(t, "done")
    BY <1>14, <2>3, OthersMove DEF Shared
  <2> QED
    BY <1>14, <2>1, <2>2, <2>3 DEF CutOff, Move
<1> QED
  BY <1>3, <1>4, <1>5, <1>6, <1>7, <1>8, <1>9, <1>10, <1>12, <1>13, <1>14
     DEF CallNext, CallerSteps, TaskSteps

--------------------------------------------------------------------------------
(* The theorems                                                               *)

\* The call starts with nothing submitted, sent or settled.
LEMMA InitHolds ==
  ASSUME CallInit
  PROVE  IInv /\ OthersOK
<1>1. /\ entry.claim = FALSE /\ entry.dispatched = FALSE /\ entry.timedOut = FALSE
      /\ entry.cancelling = FALSE /\ entry.result = "none" /\ entry.ack = "pending"
      /\ entry.terminal = NoReceipt /\ entry.completed = NoReceipt /\ entry.live = FALSE
      /\ page.got = FALSE /\ page.did = "nothing" /\ torn = FALSE /\ work = "none"
  BY DEF CallInit
<1>2. /\ "caller" \in CallTasks /\ pc("caller") = "fence"
      /\ \A t \in CallTasks \ {"caller"} : pc(t) = "idle"
      /\ \A t \in CallTasks : task[t].verdict = NoReceipt
  BY DEF CallInit, pc, CallTasks
<1>3. Types
  <2>1. entry \in EntryTypes
    BY DEF CallInit, EntryTypes
  <2>2. task \in [CallTasks -> TaskTypes]
    BY DEF CallInit, TaskTypes, Places
  <2>3. channel \in BOOLEAN /\ page \in PageTypes /\ torn \in BOOLEAN
    BY DEF CallInit, PageTypes
  <2> QED
    BY <1>1, <2>1, <2>2, <2>3 DEF Types
<1>4. CallerOK
  BY <1>1, <1>2 DEF CallerOK, Unsent, Unclaimed
<1>5. PageOK
  BY <1>1 DEF PageOK
<1>6. \A t \in CallTasks : pc(t) \in {"fence", "idle"}
  BY <1>2
<1>7. WorkOK
  BY <1>1, <1>2, <1>6 DEF WorkOK, Terminal
<1>8. LockOK
  BY <1>1, <1>6 DEF LockOK, Terminal, Finalizing
<1>9. Honest(NoReceipt)
  BY Receipts DEF Honest
<1>10. VerdictsOK
  BY <1>1, <1>2, <1>6, <1>9 DEF VerdictsOK
<1>11. OthersOK
  BY <1>2 DEF OthersOK, Shared
<1> QED
  BY <1>3, <1>4, <1>5, <1>7, <1>8, <1>10, <1>11 DEF IInv

\* A step that changes nothing.
LEMMA StutterKeeps ==
  ASSUME IInv, UNCHANGED callVars
  PROVE  IInv'
<1>1. Types' /\ CallerOK' /\ PageOK' /\ LockOK' /\ (NeverActs => NeverActs')
  BY DEF IInv, callVars, Types, CallerOK, PageOK, LockOK, NeverActs, pc, Terminal,
         Finalizing, Sending
<1>2. /\ entry' = entry /\ work' = work /\ task' = task /\ page' = page
      /\ entry.claim \/ task["caller"].pc = "granted" => work \in {"claimed"} \cup TerminalWork
  BY DEF callVars, IInv, WorkOK, pc
<1> QED
  BY <1>1, <1>2, Typed, Step

\* Every step keeps the invariant.
LEMMA StepKeeps ==
  ASSUME IInv, OthersOK, CallNext \/ UNCHANGED callVars
  PROVE  IInv' /\ OthersOK'
<1>1. OthersOK'
  BY OthersStay
<1>2. CASE CallerSteps
  BY <1>1, <1>2, AdmissionKeeps, WaitsKeep, ClaimItemKeeps, ClaimAnsweredKeeps,
     BeginSendKeeps, EndSendKeeps DEF CallerSteps
<1>3. CASE AbortSteps
  BY <1>1, <1>3, AbortStepsKeep
<1>4. CASE PageSteps
  BY <1>1, <1>4, PageActsKeeps, ReceiveKeeps DEF PageSteps
<1>5. CASE Disconnect \/ Reap \/ Close \/ CloseFails \/ ExpireClaim
  BY <1>1, <1>5, DisconnectKeeps, ReaperKeeps, ExpireClaimKeeps
<1>6. ASSUME NEW k \in Clients, ClientAsks(k) PROVE IInv'
  BY <1>6, ClientAsksKeeps
<1>7. ASSUME NEW t \in CallTasks, TaskSteps(t) \/ CutOff(t) PROVE IInv'
  BY <1>7, CancelActiveKeeps, EffectKnownKeeps, TakeFinalizeLockKeeps, SettleKeeps,
     StoreTerminalKeeps, CutOffKeeps DEF TaskSteps
<1> QED
  BY <1>1, <1>2, <1>3, <1>4, <1>5, <1>6, <1>7, StutterKeeps DEF CallNext

\* The invariant holds in every state of a call.
THEOREM InvariantHolds == CallSpec => [](IInv /\ OthersOK)
<1>1. CallInit => IInv /\ OthersOK
  BY InitHolds
<1>2. (IInv /\ OthersOK) /\ [CallNext]_callVars => (IInv /\ OthersOK)'
  BY StepKeeps
<1> QED
  BY <1>1, <1>2, PTL DEF CallSpec

\* A set without two members has at most one.
LEMMA AtMostOne ==
  ASSUME NEW S, \A x, y \in S : x = y
  PROVE  Cardinality(S) <= 1
<1>1. CASE S = {}
  BY <1>1, FS_EmptySet
<1>2. CASE S # {}
  <2>1. PICK x \in S : TRUE
    BY <1>2
  <2>2. S = {x}
    BY <2>1
  <2> QED
    BY <2>2, FS_Singleton
<1> QED
  BY <1>1, <1>2

\* The types, a call that is sent only under a claim, and one task at a time that
\* settles the outcome under finalize_lock.
THEOREM TypeCorrect == CallSpec => []CallTypeOK
<1>1. IInv => CallTypeOK
  <2> SUFFICES ASSUME IInv PROVE CallTypeOK
    OBVIOUS
  <2>1. Cardinality(Finalizing) <= 1
    BY Typed, AtMostOne DEF LockOK
  <2>2. entry.dispatched \/ Sending => entry.claim
    BY DEF IInv, PageOK, CallerOK, Sending
  <2>3. Verdicts \cup {NoReceipt} \subseteq
          [status : {"none", "unknown"} \cup TerminalWork,
           effect : {"none", "committed", "unknown"}]
    BY DEF Verdicts, NoReceipt, Unknown, CancelledUntouched, CommittedEffect,
           FailedUntouched, Receipt, TerminalWork
  <2>4. entry \in [claim : BOOLEAN, dispatched : BOOLEAN, timedOut : BOOLEAN,
                   cancelling : BOOLEAN, result : {"none", "succeeded", "failed"},
                   ack : {"pending", "none", "committed", "unknown"},
                   terminal : [status : {"none", "unknown"} \cup TerminalWork,
                               effect : {"none", "committed", "unknown"}],
                   completed : [status : {"none", "unknown"} \cup TerminalWork,
                                effect : {"none", "committed", "unknown"}],
                   live : BOOLEAN]
    BY <2>3, Typed DEF EntryTypes
  <2> QED
    BY <2>1, <2>2, <2>4, Typed DEF CallTypeOK, PageTypes
<1> QED
  BY <1>1, InvariantHolds, PTL

\* _store_terminal: once there is a receipt the WorkItem is at its end, and
\* terminal_future and _completed hold the same one, whoever finalized the call.
THEOREM ReceiptHasItsFence == CallSpec => []ReceiptIsBacked
<1>1. IInv => ReceiptIsBacked
  BY DEF IInv, WorkOK, LockOK, ReceiptIsBacked
<1> QED
  BY <1>1, InvariantHolds, PTL

\* cancel_call: a receipt reports the effect that the page had, has or will have,
\* whoever cancelled, timed out or was cut off, unless the send was torn.
THEOREM ReceiptTellsTheEffect == CallSpec => []EffectAsReported
<1>1. IInv => EffectAsReported
  <2> SUFFICES ASSUME IInv PROVE EffectAsReported
    OBVIOUS
  <2>1. entry.terminal \in Verdicts \cup {NoReceipt} /\ Honest(entry.terminal) /\ PageOK
    BY Typed DEF EntryTypes, IInv, VerdictsOK
  <2>2. CASE entry.terminal \in {NoReceipt, Unknown}
    <3>1. entry.terminal = NoReceipt \/ entry.terminal.effect = "unknown"
      BY <2>2 DEF Unknown, Receipt
    <3>2. entry.terminal.effect # "committed"
      BY <2>2 DEF NoReceipt, Unknown, Receipt
    <3> QED
      BY <3>1, <3>2 DEF EffectAsReported, Terminal
  <2>3. CASE entry.terminal = CancelledUntouched
    <3>1. entry.terminal.effect = "none"
      BY <2>3 DEF CancelledUntouched, Receipt
    <3>2. ~torn => page.did # "effect"
      BY <2>1, <2>3 DEF Honest, NeverActs, PageOK
    <3> QED
      BY <3>1, <3>2 DEF EffectAsReported
  <2>4. CASE entry.terminal = CommittedEffect
    <3>1. page.did = "effect" /\ entry.terminal.effect = "committed"
      BY <2>1, <2>4 DEF CommittedEffect, Receipt, Honest
    <3> QED
      BY <3>1 DEF EffectAsReported
  <2>5. CASE entry.terminal = FailedUntouched
    <3>1. page.did = "stopped" /\ entry.terminal.effect = "none"
      BY <2>1, <2>5 DEF FailedUntouched, Receipt, Honest
    <3> QED
      BY <3>1 DEF EffectAsReported
  <2> QED
    BY <2>1, <2>2, <2>3, <2>4, <2>5 DEF Verdicts
<1> QED
  BY <1>1, InvariantHolds, PTL
================================================================================
