--------------------------------- MODULE Inbox ---------------------------------
(***************************************************************************)
(* The durable inbox of arbora/messaging/inbox.py and its reaper, the       *)
(* _inbox_reaper_loop of router.py.                                         *)
(*                                                                          *)
(* A turn records its message in epistemic-graph (EG), replies, and marks   *)
(* the row answered; the reaper scans the rows that are pending and past    *)
(* the grace window and replies itself, waiting for one reply at a time     *)
(* while turns go on.  Every write to EG replaces the whole row, and a      *)
(* write that fails is only logged.                                         *)
(***************************************************************************)
EXTENDS Naturals, FiniteSets

CONSTANTS
  Messages,      \* inbound messages, by the content their row is named after
  MaxAttempts,   \* MAX_ATTEMPTS
  Limit,         \* rows a scan returns at most
  MaxRecords     \* bound: how often the platform delivers a message, old or new

ASSUME InboxAssumption ==
  MaxAttempts \in Nat /\ Limit \in Nat \ {0} /\ MaxRecords \in Nat \ {0}

VARIABLES
  row,        \* row[m]: the InboundMessage node of message m
  turn,       \* turn[m]: the turn that answers m
  reaper,     \* the reaper loop
  recorded,   \* history: how often a message was delivered
  replied,    \* history: a reply to m was delivered
  tried       \* history: the reaper's attempts to answer m, up to MaxAttempts

inboxVars == <<row, turn, reaper, recorded, replied, tried>>

\* old: past the grace window; whole: platform, channel, text and session are
\* there, which a reply needs.
RowTypes ==
  [status : {"absent", "pending", "answered", "dead_letter"},
   attempts : 0..MaxAttempts, old : BOOLEAN, whole : BOOLEAN]

\* What a scan returns of a row.
FoundTypes == [id : Messages, attempts : 0..MaxAttempts]

ReaperTypes ==
  [pc : {"asleep", "pass", "replying", "replied"}, todo : SUBSET FoundTypes,
   at : SUBSET FoundTypes]

InboxTypeOK ==
  /\ row \in [Messages -> RowTypes]
  /\ turn \in [Messages -> {"none", "replying", "replied", "unrecorded"}]
  /\ reaper \in ReaperTypes /\ Cardinality(reaper.at) <= 1
  /\ recorded \in 0..MaxRecords
  /\ replied \in [Messages -> BOOLEAN]
  /\ tried \in [Messages -> 0..MaxAttempts]

Asleep == [pc |-> "asleep", todo |-> {}, at |-> {}]

InboxInit ==
  /\ row = [m \in Messages |-> [status |-> "absent", attempts |-> 0,
                                old |-> FALSE, whole |-> FALSE]]
  /\ turn = [m \in Messages |-> "none"]
  /\ reaper = Asleep
  /\ recorded = 0
  /\ replied = [m \in Messages |-> FALSE]
  /\ tried = [m \in Messages |-> 0]

-------------------------------------------------------------------------------
(* The turn of a message (the turn handler is not part of the repository).  *)

\* record_inbound, also of a message that the platform delivers again.
RecordInbound(m) ==
  /\ recorded < MaxRecords
  /\ row' = [row EXCEPT ![m] = [status |-> "pending", attempts |-> 0,
                                old |-> FALSE, whole |-> TRUE]]
  /\ turn' = [turn EXCEPT ![m] = "replying"]
  /\ recorded' = recorded + 1
  /\ UNCHANGED <<reaper, replied, tried>>

\* The record fails: the turn goes on, and has no row to mark afterwards.
RecordFails(m) ==
  /\ recorded < MaxRecords
  /\ turn' = [turn EXCEPT ![m] = "unrecorded"]
  /\ recorded' = recorded + 1
  /\ UNCHANGED <<row, reaper, replied, tried>>

TurnReplies(m) ==
  /\ turn[m] \in {"replying", "unrecorded"}
  /\ turn' = [turn EXCEPT ![m] = IF @ = "replying" THEN "replied" ELSE "none"]
  /\ replied' = [replied EXCEPT ![m] = TRUE]
  /\ UNCHANGED <<row, reaper, recorded, tried>>

TurnFails(m) ==
  /\ turn[m] \in {"replying", "unrecorded"}
  /\ turn' = [turn EXCEPT ![m] = "none"]
  /\ UNCHANGED <<row, reaper, recorded, replied, tried>>

\* mark_answered: what is written is the status alone.
Answered == [status |-> "answered", attempts |-> 0, old |-> TRUE, whole |-> FALSE]

TurnMarks(m) ==
  /\ turn[m] = "replied"
  /\ turn' = [turn EXCEPT ![m] = "none"]
  /\ row' = [row EXCEPT ![m] = Answered]
  /\ UNCHANGED <<reaper, recorded, replied, tried>>

TurnMarkLost(m) ==
  /\ turn[m] = "replied"
  /\ turn' = [turn EXCEPT ![m] = "none"]
  /\ UNCHANGED <<row, reaper, recorded, replied, tried>>

GraceEnds(m) ==
  /\ row[m].status = "pending" /\ ~row[m].old
  /\ row' = [row EXCEPT ![m].old = TRUE]
  /\ UNCHANGED <<turn, reaper, recorded, replied, tried>>

-------------------------------------------------------------------------------
(* The reaper.                                                              *)

Found(S) == {[id |-> m, attempts |-> row[m].attempts] : m \in {n \in S : row[n].old}}

\* pending_unanswered: EG returns any Limit pending rows, and those within
\* their grace window are skipped afterwards.
PendingUnanswered ==
  LET pendingRows == {m \in Messages : row[m].status = "pending"} IN
  /\ reaper.pc = "asleep"
  /\ \E S \in SUBSET pendingRows :
       /\ Cardinality(S) <= Limit
       /\ Cardinality(S) = Limit \/ S = pendingRows
       /\ reaper' = [pc |-> "pass", todo |-> Found(S), at |-> {}]
  /\ UNCHANGED <<row, turn, recorded, replied, tried>>

EndPass ==
  /\ reaper.pc = "pass" /\ reaper.todo = {}
  /\ reaper' = Asleep
  /\ UNCHANGED <<row, turn, recorded, replied, tried>>

Handled(f) == [pc |-> "pass", todo |-> reaper.todo \ {f}, at |-> {}]

Spent(f) == f.attempts >= MaxAttempts

\* The next row of the scan gets its reply, or has had all its attempts.
RetryUnanswered(f) ==
  /\ reaper.pc = "pass" /\ f \in reaper.todo /\ ~Spent(f)
  /\ reaper' = [reaper EXCEPT !.pc = "replying", !.at = {f}]
  /\ tried' = [tried EXCEPT ![f.id] = IF @ < MaxAttempts THEN @ + 1 ELSE @]
  /\ UNCHANGED <<row, turn, recorded, replied>>

DeadLetter(f) ==
  /\ reaper.pc = "pass" /\ f \in reaper.todo /\ Spent(f)
  /\ reaper' = Handled(f)
  /\ row' = [row EXCEPT ![f.id] = [status |-> "dead_letter", old |-> TRUE,
                                   attempts |-> f.attempts, whole |-> FALSE]]
  /\ UNCHANGED <<turn, recorded, replied, tried>>

\* _reply_send has delivered the reply.
ReplySent(f) ==
  /\ reaper.pc = "replying" /\ reaper.at = {f}
  /\ reaper' = [reaper EXCEPT !.pc = "replied"]
  /\ replied' = [replied EXCEPT ![f.id] = TRUE]
  /\ UNCHANGED <<row, turn, recorded, tried>>

\* Mutant: the row is marked whether the reply was delivered or not.
MarkAnsweredAlways(f) ==
  /\ reaper.pc \in {"replying", "replied"} /\ reaper.at = {f}
  /\ reaper' = Handled(f)
  /\ row' = [row EXCEPT ![f.id] = Answered]
  /\ UNCHANGED <<turn, recorded, replied, tried>>

MarkAnswered(f) ==
  /\ reaper.pc = "replied" /\ reaper.at = {f}
  /\ reaper' = Handled(f)
  /\ row' = [row EXCEPT ![f.id] = Answered]
  /\ UNCHANGED <<turn, recorded, replied, tried>>

\* Mutant: the row is put back as it was found.
TriedUncounted(f) ==
  [status |-> "pending", attempts |-> f.attempts, old |-> TRUE, whole |-> TRUE]

\* The row that is put back after a failed attempt: the one the scan found.
Tried(f) ==
  [status |-> "pending", attempts |-> f.attempts + 1, old |-> TRUE, whole |-> TRUE]

\* No reply, or an error, even after the reply was delivered.
ReplyFails(f) ==
  /\ reaper.pc \in {"replying", "replied"} /\ reaper.at = {f}
  /\ reaper' = Handled(f)
  /\ row' = [row EXCEPT ![f.id] = Tried(f)]
  /\ UNCHANGED <<turn, recorded, replied, tried>>

\* A write of the reaper fails, and the row stays as it is.
ReaperWriteLost(f) ==
  /\ \/ reaper.pc = "pass" /\ f \in reaper.todo /\ Spent(f)
     \/ reaper.pc \in {"replying", "replied"} /\ reaper.at = {f}
  /\ reaper' = Handled(f)
  /\ UNCHANGED <<row, turn, recorded, replied, tried>>

\* The process crashes and starts again: turns and the pass are gone.
Restart ==
  /\ reaper # Asleep \/ \E m \in Messages : turn[m] # "none"
  /\ turn' = [m \in Messages |-> "none"]
  /\ reaper' = Asleep
  /\ UNCHANGED <<row, recorded, replied, tried>>

-------------------------------------------------------------------------------

Turn(m) ==
  \/ RecordInbound(m) \/ RecordFails(m) \/ TurnReplies(m) \/ TurnFails(m)
  \/ TurnMarks(m) \/ TurnMarkLost(m) \/ GraceEnds(m)

\* What the reaper does with one row when EG takes its writes.
Reap(f) == RetryUnanswered(f) \/ DeadLetter(f) \/ ReplySent(f) \/ MarkAnswered(f)
             \/ ReplyFails(f)

Reaper ==
  PendingUnanswered \/ EndPass \/ \E f \in FoundTypes : Reap(f) \/ ReaperWriteLost(f)

InboxNext == Restart \/ Reaper \/ \E m \in Messages : Turn(m)

Retries(m) == \E f \in FoundTypes : f.id = m /\ RetryUnanswered(f)

Writes(m) ==
  \E f \in FoundTypes :
    f.id = m /\ (DeadLetter(f) \/ MarkAnswered(f) \/ ReplyFails(f))

\* The reaper is scheduled and gets round to a row again and again; a row it
\* keeps finding is not for ever left without a write because EG is down, nor
\* is every pass cut short by a crash.
InboxFair ==
  /\ WF_inboxVars(Reaper)
  /\ \A m \in Messages :
       /\ WF_inboxVars(GraceEnds(m))
       /\ SF_inboxVars(Retries(m))
       /\ SF_inboxVars(Writes(m))

InboxSpec == InboxInit /\ [][InboxNext]_inboxVars /\ InboxFair

-------------------------------------------------------------------------------

\* A row says what happened, through lost writes, crashes, repeated deliveries,
\* late writes over newer ones and turns that race the reaper: "answered" means
\* that a reply was delivered, a dead letter has had all its attempts, and a row
\* that waits for a retry has everything the retry needs.
RowTellsTheTruth ==
  \A m \in Messages :
    /\ row[m].status = "answered" => replied[m]
    /\ row[m].status = "dead_letter" => tried[m] = MaxAttempts
    /\ row[m].status = "pending" => row[m].whole

\* Nothing goes unanswered silently: a recorded message is answered or becomes
\* a dead letter.
EveryMessageSettles ==
  \A m \in Messages :
    row[m].status = "pending" ~> row[m].status \in {"answered", "dead_letter"}
================================================================================
