--------------------------------- MODULE Turns ---------------------------------
(***************************************************************************)
(* What becomes of an inbound message: the listeners and the dispatch of    *)
(* arbora/messaging/router.py, the handler of planner_handler.py, the burst *)
(* coalescer of coalescer.py and the awaited replies of service.py.         *)
(*                                                                          *)
(* A backend's listener task hands over one message at a time.  A message   *)
(* answers a goal loop that waits on its channel, is a built-in command, or *)
(* joins the channel's burst.  A burst is given to the agent as one turn    *)
(* when its timer fires, by the timer's task, or when it is too old, by the *)
(* listener itself.                                                         *)
(*                                                                          *)
(* Time is counted per channel, in units in which an event loop that is not *)
(* blocked serves every timer that is due (see Pause).                      *)
(***************************************************************************)
EXTENDS Integers, Sequences, Functions

CONSTANTS
  Backends,      \* connected messaging backends
  Channels,      \* chat channels
  BackendOf,     \* the backend each channel belongs to
  Waiters,       \* calls of reach_user_and_wait
  Window,        \* MESSAGING_BURST_WINDOW_S
  MaxWait,       \* MESSAGING_BURST_MAX_S
  MaxMessages    \* bound: messages received

ASSUME TurnsAssumption ==
  /\ BackendOf \in [Channels -> Backends]
  /\ Window \in Nat /\ MaxWait \in Nat /\ Window <= MaxWait
  /\ MaxMessages \in Nat
  /\ "none" \notin Waiters /\ "turn" \notin Waiters /\ "command" \notin Waiters

VARIABLES
  router,      \* "running", "stopped", and "gone" when its event loop has ended
  listener,    \* listener[b]: what the listener task of backend b is doing
  inbound,     \* history: every message received and whom it was given to
  burst,       \* burst[c]: the coalescer's buffer, timer and age of the burst
  turns,       \* turns[c]: the turns started for channel c
  waiter,      \* waiter[w]: the awaited reply of call w
  pending,     \* pending[c]: the call registered for channel c
  handoff      \* handoff[w]: replies scheduled on the loop of call w

turnVars == <<router, listener, inbound, burst, turns, waiter, pending, handoff>>

\* timer: the task in _timers, asleep or (never, if all is well) in a turn.
BurstTypes ==
  [buffer : Seq(1..MaxMessages), age : 0..(MaxWait + Window),
   timer : {"none", "asleep", "turn"}, left : 0..Window]

TurnTypes ==
  [items : Seq(1..MaxMessages), by : {"timer", "listener"},
   state : {"running", "over", "cut"}]

\* since: how many messages had been received when the question was asked.
WaiterTypes ==
  [pc : {"idle", "asking", "waiting", "ended"}, channel : Channels \cup {"none"},
   future : {"none", "open", "set", "cancelled"}, since : 0..MaxMessages,
   heard : 0..MaxMessages]

TurnsTypeOK ==
  /\ router \in {"running", "stopped", "gone"}
  /\ listener \in [Backends -> {"listening", "backoff", "command", "flush", "off"}]
  /\ inbound \in Seq([channel : Channels, to : Waiters \cup {"turn", "command"}])
  /\ burst \in [Channels -> BurstTypes]
  /\ turns \in [Channels -> Seq(TurnTypes)]
  /\ waiter \in [Waiters -> WaiterTypes]
  /\ pending \in [Channels -> Waiters \cup {"none"}]
  /\ handoff \in [Waiters -> Seq(1..MaxMessages)]

NoBurst == [buffer |-> <<>>, age |-> 0, timer |-> "none", left |-> 0]

NoWaiter == [pc |-> "idle", channel |-> "none", future |-> "none", since |-> 0,
             heard |-> 0]

TurnsInit ==
  /\ router = "running"
  /\ listener = [b \in Backends |-> "listening"]
  /\ inbound = <<>>
  /\ burst = [c \in Channels |-> NoBurst]
  /\ turns = [c \in Channels |-> <<>>]
  /\ waiter = [w \in Waiters |-> NoWaiter]
  /\ pending = [c \in Channels |-> "none"]
  /\ handoff = [w \in Waiters |-> <<>>]

-------------------------------------------------------------------------------
(* The coalescer.                                                           *)

\* The turns of channel c after the task in its timer was cancelled.
TimerCancelled(c) ==
  IF burst[c].timer = "turn"
    THEN [k \in DOMAIN turns[c] |->
            IF turns[c][k].by = "timer" /\ turns[c][k].state = "running"
              THEN [turns[c][k] EXCEPT !.state = "cut"]
              ELSE turns[c][k]]
    ELSE turns[c]

NewTurn(items, by) == [items |-> items, by |-> by, state |-> "running"]

\* Mutant: the timer stays registered while its own task runs the turn.
FlushKeepsTimer(c, items, by) ==
  /\ burst' = [burst EXCEPT ![c] =
                 [NoBurst EXCEPT !.timer = IF by = "timer" THEN "turn" ELSE "none"]]
  /\ turns' = [turns EXCEPT ![c] =
                 Append(IF by = "timer" THEN @ ELSE TimerCancelled(c),
                        NewTurn(items, by))]

\* Mutant: the buffer is emptied when the turn is over.
FlushKeepsBuffer(c, items, by) ==
  /\ burst' = [burst EXCEPT ![c] = [NoBurst EXCEPT !.buffer = items]]
  /\ turns' = [turns EXCEPT ![c] = Append(@, NewTurn(items, by))]

\* _flush, up to the call of on_flush: a timer other than the running task is
\* cancelled.
Flush(c, items, by) ==
  /\ burst' = [burst EXCEPT ![c] = NoBurst]
  /\ turns' = [turns EXCEPT ![c] =
                 Append(IF by = "timer" THEN @ ELSE TimerCancelled(c),
                        NewTurn(items, by))]

\* The batch is as old as it may get when message m is added to it.
TooOld(c) == burst[c].age >= MaxWait

\* Mutant: every message restarts the quiet window, however old the burst is.
SubmitUncapped(c, m) ==
  /\ burst' = [burst EXCEPT ![c] =
                 [buffer |-> Append(@.buffer, m), age |-> @.age,
                  timer |-> "asleep", left |-> Window]]
  /\ turns' = [turns EXCEPT ![c] = TimerCancelled(c)]
  /\ UNCHANGED listener

\* submit
Submit(c, m) ==
  IF TooOld(c)
    THEN /\ Flush(c, Append(burst[c].buffer, m), "listener")
         /\ listener' = [listener EXCEPT ![BackendOf[c]] = "flush"]
    ELSE /\ burst' = [burst EXCEPT ![c] =
                        [buffer |-> Append(@.buffer, m), age |-> @.age,
                         timer |-> "asleep", left |-> Window]]
         /\ turns' = [turns EXCEPT ![c] = TimerCancelled(c)]
         /\ UNCHANGED listener

\* _wait_and_flush, after its sleep.
TimerFires(c) ==
  /\ router # "gone"
  /\ burst[c].timer = "asleep" /\ burst[c].left = 0
  /\ Flush(c, burst[c].buffer, "timer")
  /\ UNCHANGED <<router, listener, inbound, waiter, pending, handoff>>

\* reply_to_burst returns or fails: the turn handler, then the reply.
TurnOver(c, k) ==
  /\ turns[c][k].state = "running"
  /\ turns' = [turns EXCEPT ![c][k].state = "over"]
  /\ listener' = IF turns[c][k].by = "listener"
                   THEN [listener EXCEPT ![BackendOf[c]] = "listening"]
                   ELSE listener
  /\ UNCHANGED <<router, inbound, burst, waiter, pending, handoff>>

\* A unit of time, in which no timer that is due is left waiting.
Pause ==
  /\ router # "gone"
  /\ \E c \in Channels : burst[c].buffer # <<>>
  /\ \A c \in Channels : burst[c].timer = "asleep" => burst[c].left > 0
  /\ burst' = [c \in Channels |->
                 IF burst[c].buffer = <<>> THEN burst[c]
                 ELSE [burst[c] EXCEPT !.age = @ + 1,
                                       !.left = IF @ = 0 THEN 0 ELSE @ - 1]]
  /\ UNCHANGED <<router, listener, inbound, turns, waiter, pending, handoff>>

-------------------------------------------------------------------------------
(* Listeners and the inbound handler.                                       *)

Future(w) == IF w = "none" THEN "none" ELSE waiter[w].future

\* deliver_reply: the call registered for the channel takes the message.
Taken(c) == Future(pending[c]) = "open"

Received(c, to) == inbound' = Append(inbound, [channel |-> c, to |-> to])

DeliverReply(c, m) ==
  /\ Taken(c)
  /\ handoff' = [handoff EXCEPT ![pending[c]] = Append(@, m)]
  /\ Received(c, pending[c])
  /\ UNCHANGED <<listener, burst, turns>>

\* handle_command has an answer, which the listener sends.
HandleCommand(c) ==
  /\ ~Taken(c)
  /\ Received(c, "command")
  /\ listener' = [listener EXCEPT ![BackendOf[c]] = "command"]
  /\ UNCHANGED <<burst, turns, handoff>>

JoinBurst(c, m) ==
  /\ ~Taken(c)
  /\ Received(c, "turn")
  /\ Submit(c, m)
  /\ UNCHANGED handoff

\* _listen_loop, _dispatch and planner_handler, up to its first await.
Receive(c) ==
  LET m == Len(inbound) + 1 IN
  /\ m <= MaxMessages
  /\ listener[BackendOf[c]] = "listening"
  /\ DeliverReply(c, m) \/ HandleCommand(c) \/ JoinBurst(c, m)
  /\ UNCHANGED <<router, waiter, pending>>

CommandSent(b) ==
  /\ listener[b] = "command"
  /\ listener' = [listener EXCEPT ![b] = "listening"]
  /\ UNCHANGED <<router, inbound, burst, turns, waiter, pending, handoff>>

\* listen() fails or its stream closes, and _supervise_backend starts it again
\* after a pause; or the backend cannot listen at all.
ListenFails(b) ==
  /\ listener[b] = "listening"
  /\ \E next \in {"backoff", "off"} : listener' = [listener EXCEPT ![b] = next]
  /\ UNCHANGED <<router, inbound, burst, turns, waiter, pending, handoff>>

ListenAgain(b) ==
  /\ listener[b] = "backoff"
  /\ listener' = [listener EXCEPT ![b] = "listening"]
  /\ UNCHANGED <<router, inbound, burst, turns, waiter, pending, handoff>>

\* Cancelling the listener tasks of S cuts the turns they run themselves.
CancelListeners(S) ==
  /\ listener' = [b \in Backends |-> IF b \in S THEN "off" ELSE listener[b]]
  /\ turns' = [c \in Channels |->
                 [k \in DOMAIN turns[c] |->
                    IF /\ BackendOf[c] \in S
                       /\ turns[c][k].by = "listener"
                       /\ turns[c][k].state = "running"
                      THEN [turns[c][k] EXCEPT !.state = "cut"]
                      ELSE turns[c][k]]]

\* _drop_platform: the lease of the backend's platform was lost.
DropBackend(b) ==
  /\ router = "running" /\ listener[b] # "off"
  /\ CancelListeners({b})
  /\ UNCHANGED <<router, inbound, burst, waiter, pending, handoff>>

\* InboundRouter.stop
StopRouter ==
  /\ router = "running"
  /\ router' = "stopped"
  /\ CancelListeners(Backends)
  /\ UNCHANGED <<inbound, burst, waiter, pending, handoff>>

\* The event loop of the intake ends and cancels every task that is left.
EndLoop ==
  /\ router = "stopped"
  /\ router' = "gone"
  /\ burst' = [c \in Channels |-> [burst[c] EXCEPT !.timer = "none", !.left = 0]]
  /\ turns' = [c \in Channels |->
                 [k \in DOMAIN turns[c] |->
                    IF turns[c][k].state = "running"
                      THEN [turns[c][k] EXCEPT !.state = "cut"]
                      ELSE turns[c][k]]]
  /\ UNCHANGED <<listener, inbound, waiter, pending, handoff>>

-------------------------------------------------------------------------------
(* reach_user_and_wait                                                      *)

Ask(w, c) ==
  /\ waiter[w].pc = "idle"
  /\ waiter' = [waiter EXCEPT ![w] = [pc |-> "asking", channel |-> c, heard |-> 0,
                                      future |-> "open", since |-> Len(inbound)]]
  /\ pending' = [pending EXCEPT ![c] = w]
  /\ UNCHANGED <<router, listener, inbound, burst, turns, handoff>>

Asked(w) ==
  /\ waiter[w].pc = "asking"
  /\ waiter' = [waiter EXCEPT ![w].pc = "waiting"]
  /\ UNCHANGED <<router, listener, inbound, burst, turns, pending, handoff>>

\* The call ends: whatever is registered for its channel is removed.
EndWait(w, future, heard) ==
  /\ waiter' = [waiter EXCEPT ![w].pc = "ended", ![w].future = future,
                              ![w].heard = heard]
  /\ pending' = [pending EXCEPT ![waiter[w].channel] = "none"]
  /\ UNCHANGED <<router, listener, inbound, burst, turns, handoff>>

\* The question could not be sent.
AskFails(w) == waiter[w].pc = "asking" /\ EndWait(w, waiter[w].future, 0)

\* Sending raises or is cancelled, outside the try: the call ends and stays
\* registered, with a future for which nobody waits.
AskRaises(w) ==
  /\ waiter[w].pc = "asking"
  /\ waiter' = [waiter EXCEPT ![w].pc = "ended"]
  /\ UNCHANGED <<router, listener, inbound, burst, turns, pending, handoff>>

HearReply(w) ==
  /\ waiter[w].pc = "waiting" /\ waiter[w].future = "set"
  /\ EndWait(w, "set", waiter[w].heard)

WaitTimesOut(w) ==
  /\ waiter[w].pc = "waiting" /\ waiter[w].future = "open"
  /\ EndWait(w, "cancelled", 0)

\* Mutant: a later reply replaces the one the call has.
SafeSetReplaces(w) ==
  /\ handoff[w] # <<>>
  /\ waiter' = IF waiter[w].future \in {"open", "set"}
                 THEN [waiter EXCEPT ![w].future = "set",
                                     ![w].heard = Head(handoff[w])]
                 ELSE waiter
  /\ handoff' = [handoff EXCEPT ![w] = Tail(@)]
  /\ UNCHANGED <<router, listener, inbound, burst, turns, pending>>

\* _safe_set, on the loop of the call.
SafeSet(w) ==
  /\ handoff[w] # <<>>
  /\ waiter' = IF waiter[w].future = "open"
                 THEN [waiter EXCEPT ![w].future = "set",
                                     ![w].heard = Head(handoff[w])]
                 ELSE waiter
  /\ handoff' = [handoff EXCEPT ![w] = Tail(@)]
  /\ UNCHANGED <<router, listener, inbound, burst, turns, pending>>

-------------------------------------------------------------------------------

Intaking ==
  \/ Pause \/ StopRouter \/ EndLoop
  \/ \E c \in Channels :
       \/ Receive(c) \/ TimerFires(c)
       \/ \E k \in DOMAIN turns[c] : TurnOver(c, k)
  \/ \E b \in Backends :
       CommandSent(b) \/ ListenFails(b) \/ ListenAgain(b) \/ DropBackend(b)

Waiting ==
  \E w \in Waiters :
    \/ \E c \in Channels : Ask(w, c)
    \/ Asked(w) \/ AskFails(w) \/ AskRaises(w)
    \/ HearReply(w) \/ WaitTimesOut(w) \/ SafeSet(w)

TurnsNext == Intaking \/ Waiting

TurnsSpec == TurnsInit /\ [][TurnsNext]_turnVars

-------------------------------------------------------------------------------

\* What channel c has handed over, turn by turn, and what its buffer holds.
Batches(c) ==
  Append([k \in DOMAIN turns[c] |-> turns[c][k].items], burst[c].buffer)

\* The messages of channel c that are for the agent.
ForAgent(c) ==
  {m \in DOMAIN inbound : inbound[m].channel = c /\ inbound[m].to = "turn"}

\* The batches hold the messages in S, each of them once and in their order.
Intact(batches, S) ==
  /\ \A k \in DOMAIN batches : \A x, y \in DOMAIN batches[k] :
       x < y => batches[k][x] < batches[k][y]
  /\ \A k, l \in DOMAIN batches :
       k < l => \A m \in Range(batches[k]), n \in Range(batches[l]) : m < n
  /\ UNION {Range(batches[k]) : k \in DOMAIN batches} = S

\* No message is lost, repeated or reordered between a channel and the agent:
\* the turns of a channel, followed by its buffer, are its messages in the
\* order in which they came in, whatever the timer, the age limit, commands,
\* awaited replies and cancelled listeners do in between.
ConversationIntact ==
  \A c \in Channels : Intact(Batches(c), ForAgent(c))

\* A turn that was started ends by itself: a message that arrives during the
\* turn does not cancel it.  Only the end of the intake, or of the listener
\* that runs the turn, cuts it short.
TurnsRunToTheirEnd ==
  \A c \in Channels : \A k \in DOMAIN turns[c] :
    turns[c][k].state = "cut" =>
      \/ router # "running"
      \/ turns[c][k].by = "listener" /\ listener[BackendOf[c]] = "off"

\* A user who never pauses is answered as well: the oldest message of a burst
\* waits less than the age limit and one quiet window.
WaitIsBounded ==
  \A c \in Channels :
    burst[c].buffer # <<>> /\ router # "gone" =>
      burst[c].age < MaxWait + Window

\* A waiting call hears the first message that it was given after it asked,
\* however many follow before its own loop has taken over the first.
HearsFirstReply ==
  \A w \in Waiters :
    waiter[w].heard > 0 =>
      /\ waiter[w].heard > waiter[w].since
      /\ inbound[waiter[w].heard].to = w
      /\ inbound[waiter[w].heard].channel = waiter[w].channel
      /\ \A m \in 1..(waiter[w].heard - 1) : inbound[m].to # w

\* service.py says that the call "resolves when the inbound router delivers the
\* next message on that channel": the first message that comes in on the
\* channel of a waiting call is given to that call.
NextMessageResolves ==
  \A w \in Waiters, m \in DOMAIN inbound :
    /\ waiter[w].pc = "waiting"
    /\ inbound[m].channel = waiter[w].channel
    /\ \A n \in DOMAIN inbound :
         inbound[n].channel = waiter[w].channel /\ n > waiter[w].since => n >= m
    /\ m > waiter[w].since
    => inbound[m].to = w
================================================================================
