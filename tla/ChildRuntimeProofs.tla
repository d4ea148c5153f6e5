------------------------- MODULE ChildRuntimeProofs -------------------------
(***************************************************************************)
(* Proofs about the runtime of one fleet child, for any number of calls and *)
(* ways to make them, any limit on slots, breaker threshold, restart budget *)
(* and number of generations.                                               *)
(***************************************************************************)
EXTENDS ChildRuntime, FiniteSetTheorems, TLAPS

\* The lifecycle: the open sessions are those of the last generation; nothing
\* has happened before the start; a supervisor that can go on to restart has
\* some of its budget left; a ready child, and a child whose ready event is
\* still to be noticed by a call, has been announced.
Lifecycle ==
  /\ child.sessions \in {0, child.generation}
  /\ child.state = "starting" => child.restarts = 0
  /\ child.state = "starting" /\ sv = "none" =>
       child.generation = 0 /\ published = {}
  /\ sv \in {"connecting", "notifying", "serving", "backoff"} =>
       child.restarts <= MaxRestarts
  /\ child.ready => child.generation \in published
  /\ \A c \in Calls : call[c].woken => child.generation \in published

\* A probe is in flight only while the breaker is half open.
ProbeIsHalfOpen == breaker.probe => Threshold > 0 /\ breaker.state = "half_open"

Early  == {"idle", "renew", "begin"}
Routed == {"gate", "gated", "reserve", "queued", "select"}

\* A fresh attempt.
Fresh(c, i) == try[c][i].stage = "none" /\ ~try[c][i].sent

\* What is known of a call and its attempts from where the caller is.
CallOK(c) ==
  /\ \A i \in {0, 1} : try[c][i].stage = "none" => ~try[c][i].sent
  /\ at(c) = 0 => try[c][1].stage = "none" /\ ~try[c][1].probe
  /\ at(c) = 1 =>
       \/ try[c][0].stage = "none"
       \/ Shape[c].retry /\ try[c][0].stage \in {"dead", "group"}
  /\ call[c].pc \in Early \cup Routed => Try(c).stage = "none"
  /\ call[c].pc \in Early => ~Try(c).probe
  /\ call[c].pc \in {"idle", "renew"} => at(c) = 0
  /\ call[c].pc = "await" => Try(c).stage # "none"
  /\ call[c].pc \in {"again", "recover"} =>
       /\ at(c) = 0 /\ Shape[c].retry
       /\ try[c][0].stage \in {"dead", "group"}

\* The generations a call refers to: its marker is not ahead of the child, and
\* past the gate not ahead of the generation that let it through, which was
\* announced.
RouteOK(c) ==
  /\ call[c].marker <= child.generation
  /\ call[c].pc \in {"reserve", "queued", "select"} =>
       /\ call[c].marker <= call[c].snapshot
       /\ call[c].snapshot <= child.generation
       /\ call[c].snapshot \in published
  /\ \A i \in {0, 1} :
       Fenced(c) /\ try[c][i].stage # "none" => try[c][i].session \in published
  /\ Shape[c].marked /\ Try(c).stage # "none" => Try(c).session = call[c].marker

OpenAttempts == {a \in Attempts : try[a[1]][a[2]].stage \in Open}
Selecting == {c \in Calls : call[c].pc = "select"}

Slots ==
  /\ IsFiniteSet(OpenAttempts) /\ IsFiniteSet(Selecting)
  /\ SlotsConserved

\* An attempt that has a probe to settle.
Owes(c, i) ==
  /\ try[c][i].probe
  /\ \/ at(c) = i /\ call[c].pc \in Routed
     \/ try[c][i].stage \in Open \cup {"app", "group"}

ProbeOwed == breaker.probe => \E c \in Calls, i \in {0, 1} : Owes(c, i)

IInv ==
  /\ TypeOK /\ Lifecycle /\ ProbeIsHalfOpen
  /\ \A c \in Calls : CallOK(c) /\ RouteOK(c)
  /\ Slots /\ ProbeOwed

BreakerTypes ==
  [state : {"closed", "open", "half_open"}, failures : 0..Threshold, probe : BOOLEAN]
ChildTypes ==
  [state : {"starting", "up", "restarting", "failed", "closed"},
   ready : BOOLEAN, sessions : Generations, generation : Generations,
   stop : BOOLEAN, recycle : BOOLEAN, restarts : 0..(MaxRestarts + 1),
   closed : BOOLEAN]
CallTypes ==
  [pc : {"idle", "done"} \cup Waits \cup Runs, attempt : {0, 1},
   marker : Generations, snapshot : Generations, woken : BOOLEAN]
AttemptTypes ==
  [stage : {"none"} \cup Open \cup Ended, session : Generations, probe : BOOLEAN,
   abandoned : BOOLEAN, sent : BOOLEAN]

-----------------------------------------------------------------------------
(* Slots                                                                     *)

\* Who is choosing and what is open are as they were, and so are the slots.
LEMMA SlotsSame ==
  ASSUME Slots, permits' = permits,
         \A d \in Calls : call'[d].pc = "select" <=> call[d].pc = "select",
         \A d \in Calls, j \in {0, 1} :
           try'[d][j].stage \in Open <=> try[d][j].stage \in Open
  PROVE  Slots'
<1>1. OpenAttempts' = OpenAttempts
  BY DEF OpenAttempts, Attempts
<1>2. Selecting' = Selecting
  BY DEF Selecting
<1> QED
  BY <1>1, <1>2 DEF Slots, SlotsConserved, OpenAttempts, Selecting

\* A caller takes a slot.
LEMMA SlotTaken ==
  ASSUME Slots, permits \in Nat, NEW c \in Calls, permits' = permits - 1,
         call[c].pc # "select", call'[c].pc = "select",
         \A d \in Calls \ {c} : call'[d] = call[d], try' = try
  PROVE  Slots'
<1>1. OpenAttempts' = OpenAttempts
  BY DEF OpenAttempts, Attempts
<1>2. Selecting' = Selecting \cup {c} /\ c \notin Selecting
  BY DEF Selecting
<1>3. IsFiniteSet(Selecting') /\ Cardinality(Selecting') = Cardinality(Selecting) + 1
  BY <1>2, FS_AddElement DEF Slots
<1>4. Cardinality(Selecting) \in Nat /\ Cardinality(OpenAttempts) \in Nat
  BY FS_CardinalityType DEF Slots
<1> QED
  BY <1>1, <1>3, <1>4, ChildRuntimeAssumption
     DEF Slots, SlotsConserved, OpenAttempts, Selecting

\* A caller gives its slot back.
LEMMA SlotReturned ==
  ASSUME Slots, permits \in Nat, NEW c \in Calls, permits' = permits + 1,
         call[c].pc = "select", call'[c].pc # "select",
         \A d \in Calls \ {c} : call'[d] = call[d], try' = try
  PROVE  Slots'
<1>1. OpenAttempts' = OpenAttempts
  BY DEF OpenAttempts, Attempts
<1>2. Selecting' = Selecting \ {c} /\ c \in Selecting
  BY DEF Selecting
<1>3. /\ IsFiniteSet(Selecting')
      /\ Cardinality(Selecting') = Cardinality(Selecting) - 1
  BY <1>2, FS_RemoveElement DEF Slots
<1>4. Cardinality(Selecting) \in Nat /\ Cardinality(OpenAttempts) \in Nat
  BY FS_CardinalityType DEF Slots
<1> QED
  BY <1>1, <1>3, <1>4, ChildRuntimeAssumption
     DEF Slots, SlotsConserved, OpenAttempts, Selecting

\* The slot of a caller goes to its inner task.
LEMMA SlotMoved ==
  ASSUME Slots, permits \in Nat, NEW c \in Calls, NEW i \in {0, 1},
         permits' = permits, call[c].pc = "select", call'[c].pc # "select",
         \A d \in Calls \ {c} : call'[d] = call[d],
         try[c][i].stage \notin Open, try'[c][i].stage \in Open,
         \A d \in Calls, j \in {0, 1} :
           <<d, j>> # <<c, i>> => try'[d][j].stage = try[d][j].stage
  PROVE  Slots'
<1>1. OpenAttempts' = OpenAttempts \cup {<<c, i>>} /\ <<c, i>> \notin OpenAttempts
  BY DEF OpenAttempts, Attempts
<1>2. Selecting' = Selecting \ {c} /\ c \in Selecting
  BY DEF Selecting
<1>3. /\ IsFiniteSet(Selecting')
      /\ Cardinality(Selecting') = Cardinality(Selecting) - 1
  BY <1>2, FS_RemoveElement DEF Slots
<1>4. /\ IsFiniteSet(OpenAttempts')
      /\ Cardinality(OpenAttempts') = Cardinality(OpenAttempts) + 1
  BY <1>1, FS_AddElement DEF Slots
<1>5. Cardinality(Selecting) \in Nat /\ Cardinality(OpenAttempts) \in Nat
  BY FS_CardinalityType DEF Slots
<1> QED
  BY SMTT(60), <1>3, <1>4, <1>5, ChildRuntimeAssumption
     DEF Slots, SlotsConserved, OpenAttempts, Selecting

\* An inner task ends and frees its slot.
LEMMA SlotFreed ==
  ASSUME Slots, permits \in Nat, NEW c \in Calls, NEW i \in {0, 1},
         permits' = permits + 1, call' = call,
         try[c][i].stage \in Open, try'[c][i].stage \notin Open,
         \A d \in Calls, j \in {0, 1} :
           <<d, j>> # <<c, i>> => try'[d][j].stage = try[d][j].stage
  PROVE  Slots'
<1>1. OpenAttempts' = OpenAttempts \ {<<c, i>>} /\ <<c, i>> \in OpenAttempts
  BY DEF OpenAttempts, Attempts
<1>2. Selecting' = Selecting
  BY DEF Selecting
<1>3. /\ IsFiniteSet(OpenAttempts')
      /\ Cardinality(OpenAttempts') = Cardinality(OpenAttempts) - 1
  BY <1>1, FS_RemoveElement DEF Slots
<1>4. Cardinality(Selecting) \in Nat /\ Cardinality(OpenAttempts) \in Nat
  BY FS_CardinalityType DEF Slots
<1> QED
  BY SMTT(60), <1>2, <1>3, <1>4, ChildRuntimeAssumption
     DEF Slots, SlotsConserved, OpenAttempts, Selecting

\* There are never more free slots than the limit.
LEMMA SlotsBounded ==
  ASSUME Slots', permits' \in Nat
  PROVE  permits' \in 0..MaxConc
<1>1. Cardinality(Selecting') \in Nat /\ Cardinality(OpenAttempts') \in Nat
  BY FS_CardinalityType DEF Slots
<1> QED
  BY <1>1, ChildRuntimeAssumption DEF Slots, SlotsConserved, OpenAttempts, Selecting

-----------------------------------------------------------------------------
(* The breaker                                                               *)

\* The methods of the breaker keep its type and what a probe in flight means;
\* an outcome that is recorded leaves no probe.
LEMMA BreakerKeeps ==
  ASSUME NEW b \in BreakerTypes, b.probe => Threshold > 0 /\ b.state = "half_open"
  PROVE  /\ RecordSuccess(b) \in BreakerTypes /\ ~RecordSuccess(b).probe
         /\ RecordFailure(b) \in BreakerTypes /\ ~RecordFailure(b).probe
         /\ BeforeCall(b) \in BreakerTypes
         /\ BeforeCall(b).probe =>
              Threshold > 0 /\ BeforeCall(b).state = "half_open"
<1>1. RecordSuccess(b) \in BreakerTypes /\ ~RecordSuccess(b).probe
  BY ChildRuntimeAssumption DEF RecordSuccess, BreakerTypes
<1>2. RecordFailure(b) \in BreakerTypes /\ ~RecordFailure(b).probe
  BY ChildRuntimeAssumption DEF RecordFailure, BreakerTypes
<1>3. BeforeCall(b) \in BreakerTypes
  BY ChildRuntimeAssumption DEF BeforeCall, BreakerTypes
<1>4. BeforeCall(b).probe => Threshold > 0 /\ BeforeCall(b).state = "half_open"
  BY ChildRuntimeAssumption DEF BeforeCall, BreakerTypes
<1> QED
  BY <1>1, <1>2, <1>3, <1>4

-----------------------------------------------------------------------------
(* A step of one call                                                        *)

\* What a step of call c, or of one of its inner tasks, has to show: it does
\* not touch the other calls, and it may ask for a restart of the child.
LEMMA CallerStep ==
  ASSUME IInv, NEW c \in Calls,
         call' \in [Calls -> CallTypes], try' \in [Calls -> [{0, 1} -> AttemptTypes]],
         permits' \in Nat, loop' \in Calls \cup {None},
         breaker' \in BreakerTypes, ProbeIsHalfOpen',
         child' \in {child, RequestRestart(child), RequestRecycle(child)},
         UNCHANGED <<sv, first, published>>,
         \A d \in Calls \ {c} : call'[d] = call[d] /\ try'[d] = try[d],
         call'[c].woken => call[c].woken,
         CallOK(c)', RouteOK(c)', Slots',
         \/ ~breaker'.probe
         \/ \E i \in {0, 1} : Owes(c, i)'
         \/ breaker.probe /\ \A i \in {0, 1} : Owes(c, i) => Owes(c, i)'
  PROVE  IInv'
<1> USE DEF IInv
<1>1. /\ child' \in ChildTypes /\ child'.generation = child.generation
      /\ child'.sessions = child.sessions /\ child'.restarts = child.restarts
      /\ child'.ready => child.ready
      /\ child'.state = "starting" => child.state = "starting"
  <2>1. child \in ChildTypes
    BY DEF TypeOK, ChildTypes
  <2>2. CASE child' = child
    BY <2>1, <2>2
  <2>3. CASE child' = RequestRestart(child)
    BY <2>1, <2>3 DEF ChildTypes, RequestRestart
  <2>4. CASE child' = RequestRecycle(child)
    BY <2>1, <2>4 DEF ChildTypes, RequestRecycle
  <2> QED
    BY <2>2, <2>3, <2>4
<1>2. TypeOK'
  BY <1>1, SlotsBounded DEF TypeOK, BreakerTypes, ChildTypes, CallTypes, AttemptTypes
<1>3. Lifecycle'
  <2>1. \A d \in Calls : call'[d].woken => call[d].woken
    OBVIOUS
  <2> QED
    BY <1>1, <2>1 DEF Lifecycle
<1>4. ASSUME NEW d \in Calls \ {c} PROVE CallOK(d)' /\ RouteOK(d)'
  BY <1>1, <1>4 DEF CallOK, RouteOK, Try, at, Fenced
<1>5. ProbeOwed'
  <2>1. \A d \in Calls \ {c}, i \in {0, 1} : Owes(d, i)' <=> Owes(d, i)
    BY DEF Owes, at
  <2> QED
    BY <2>1 DEF ProbeOwed
<1> QED
  BY <1>2, <1>3, <1>4, <1>5

\* The types of the variables that the calls share, by the names used here.
LEMMA Typed ==
  ASSUME IInv
  PROVE  /\ call \in [Calls -> CallTypes] /\ try \in [Calls -> [{0, 1} -> AttemptTypes]]
         /\ breaker \in BreakerTypes /\ child \in ChildTypes
         /\ permits \in Nat /\ loop \in Calls \cup {None}
         /\ child.generation \in Nat
  BY ChildRuntimeAssumption
     DEF IInv, TypeOK, CallTypes, AttemptTypes, BreakerTypes, ChildTypes, Generations

\* A caller moves from one place to another, neither of them with a slot in
\* hand, and its attempts stay as they are.
LEMMA Walks ==
  ASSUME IInv, NEW c \in Calls, NEW k \in CallTypes,
         call' = [call EXCEPT ![c] = k], k.woken => call[c].woken,
         call[c].pc # "select", k.pc # "select",
         UNCHANGED <<try, sv, first, permits, published>>,
         loop' \in Calls \cup {None},
         breaker' \in BreakerTypes, ProbeIsHalfOpen',
         child' \in {child, RequestRestart(child), RequestRecycle(child)},
         CallOK(c)', RouteOK(c)',
         \/ ~breaker'.probe
         \/ breaker.probe /\ \A i \in {0, 1} : Owes(c, i) => Owes(c, i)'
  PROVE  IInv'
<1>1. call \in [Calls -> CallTypes] /\ try \in [Calls -> [{0, 1} -> AttemptTypes]]
      /\ permits \in Nat
  BY Typed
<1>2. /\ call' \in [Calls -> CallTypes] /\ call'[c] = k
      /\ \A d \in Calls \ {c} : call'[d] = call[d]
  BY <1>1
<1>3. Slots'
  BY <1>1, <1>2, SlotsSame DEF IInv
<1> QED
  BY <1>1, <1>2, <1>3, CallerStep

\* An attempt that ends before it has a slot settles the probe it claimed.
LEMMA AbortKeeps ==
  ASSUME IInv, NEW c \in Calls, Abort(c), call[c].pc \in {"gate", "gated", "queued"}
  PROVE  IInv'
<1> DEFINE k == [call[c] EXCEPT !.pc = "done", !.woken = FALSE]
<1>1. /\ call \in [Calls -> CallTypes] /\ breaker \in BreakerTypes
      /\ try \in [Calls -> [{0, 1} -> AttemptTypes]]
      /\ CallOK(c) /\ RouteOK(c)
  BY Typed DEF IInv
<1>2. /\ k \in CallTypes /\ k.pc = "done" /\ ~k.woken /\ k.attempt = call[c].attempt
      /\ k.marker = call[c].marker /\ k.snapshot = call[c].snapshot
  BY <1>1 DEF CallTypes
<1>3. call' = [call EXCEPT ![c] = k]
  BY DEF Abort, Goto
<1> HIDE DEF k
<1>4. call'[c] = k
  BY <1>1, <1>3
<1>5. /\ loop' \in Calls \cup {None} /\ child' = child
      /\ UNCHANGED <<try, sv, first, permits, published>>
  BY DEF Abort, Goto, Runs
<1>6. /\ breaker' \in BreakerTypes /\ ProbeIsHalfOpen'
      /\ breaker'.probe => breaker.probe /\ ~Try(c).probe
  <2>1. CASE Try(c).probe
    BY <1>1, <2>1, BreakerKeeps DEF Abort, IInv, ProbeIsHalfOpen
  <2>2. CASE ~Try(c).probe
    BY <1>1, <2>2 DEF Abort, IInv, ProbeIsHalfOpen
  <2> QED
    BY <2>1, <2>2
<1>7. CallOK(c)'
  BY <1>1, <1>2, <1>4, <1>5 DEF CallOK, at, Try, Early, Routed
<1>8. RouteOK(c)'
  BY <1>1, <1>2, <1>4, <1>5 DEF RouteOK, at, Try, Fenced
<1>9. \/ ~breaker'.probe
      \/ breaker.probe /\ \A i \in {0, 1} : Owes(c, i) => Owes(c, i)'
  BY <1>1, <1>2, <1>4, <1>5, <1>6 DEF Owes, at, Try, Routed
<1> QED
  BY <1>2, <1>3, <1>5, <1>6, <1>7, <1>8, <1>9, Walks

\* A call that passes the gate is bound to a generation that was announced.
LEMMA SnapshotKeeps ==
  ASSUME IInv, NEW c \in Calls, Snapshot(c), call[c].pc \in {"gate", "gated"},
         child.generation \in published
  PROVE  IInv'
<1> DEFINE k == [call[c] EXCEPT !.pc = "reserve", !.woken = FALSE,
                                !.snapshot = child.generation]
<1>1. /\ call \in [Calls -> CallTypes] /\ breaker \in BreakerTypes
      /\ child \in ChildTypes
      /\ try \in [Calls -> [{0, 1} -> AttemptTypes]]
      /\ CallOK(c) /\ RouteOK(c) /\ child.generation \in Nat
  BY Typed DEF IInv
<1>2. /\ k \in CallTypes /\ k.pc = "reserve" /\ ~k.woken
      /\ k.attempt = call[c].attempt
      /\ k.marker = call[c].marker /\ k.snapshot = child.generation
  BY <1>1 DEF CallTypes, Runs, ChildTypes
<1>3. call' = [call EXCEPT ![c] = k]
  BY DEF Snapshot
<1> HIDE DEF k
<1>4. call'[c] = k
  BY <1>1, <1>3
<1>5. /\ loop' \in Calls \cup {None} /\ child' = child /\ breaker' = breaker
      /\ UNCHANGED <<try, sv, first, permits, published>>
  BY DEF Snapshot
<1>6. breaker' \in BreakerTypes /\ ProbeIsHalfOpen'
  BY <1>1, <1>5 DEF IInv, ProbeIsHalfOpen
<1>7. CallOK(c)'
  BY <1>1, <1>2, <1>4, <1>5 DEF CallOK, at, Try, Early, Routed
<1>8. RouteOK(c)'
  BY <1>1, <1>2, <1>4, <1>5 DEF RouteOK, at, Try, Fenced
<1>9. \/ ~breaker'.probe
      \/ breaker.probe /\ \A i \in {0, 1} : Owes(c, i) => Owes(c, i)'
  BY <1>1, <1>2, <1>4, <1>5, <1>6 DEF Owes, at, Try, Routed
<1> QED
  BY <1>2, <1>3, <1>5, <1>6, <1>7, <1>8, <1>9, Walks

\* The plain moves of a caller.
Plain == {<<"renew", "begin">>, <<"begin", "done">>, <<"gate", "gated">>,
          <<"reserve", "queued">>, <<"renew", "done">>, <<"recover", "done">>,
          <<"await", "done">>, <<"await", "again">>, <<"await", "recover">>}

\* A caller moves on and changes nothing else, but may ask for a restart.
LEMMA GotoKeeps ==
  ASSUME IInv, NEW c \in Calls, NEW p, <<call[c].pc, p>> \in Plain, Goto(c, p),
         p \in {"again", "recover"} =>
           /\ at(c) = 0 /\ Shape[c].retry
           /\ try[c][0].stage \in {"dead", "group"},
         child' \in {child, RequestRestart(child)},
         UNCHANGED <<breaker, try, sv, first, permits, published>>
  PROVE  IInv'
<1> DEFINE k == [call[c] EXCEPT !.pc = p, !.woken = FALSE]
<1>1. /\ call \in [Calls -> CallTypes] /\ breaker \in BreakerTypes
      /\ child \in ChildTypes
      /\ try \in [Calls -> [{0, 1} -> AttemptTypes]]
      /\ CallOK(c) /\ RouteOK(c) /\ child.generation \in Nat
  BY Typed DEF IInv
<1>2. /\ k \in CallTypes /\ k.pc = p /\ ~k.woken
      /\ k.attempt = call[c].attempt
      /\ k.marker = call[c].marker /\ k.snapshot = call[c].snapshot
  BY <1>1 DEF CallTypes, Runs, Waits, Plain
<1>3. call' = [call EXCEPT ![c] = k]
  BY DEF Goto
<1> HIDE DEF k
<1>4. call'[c] = k
  BY <1>1, <1>3
<1>5. /\ loop' \in Calls \cup {None}
      /\ child'.generation = child.generation
      /\ UNCHANGED <<breaker, try, sv, first, permits, published>>
  BY <1>1 DEF Goto, RequestRestart, ChildTypes
<1>6. breaker' \in BreakerTypes /\ ProbeIsHalfOpen'
  BY <1>1, <1>5 DEF IInv, ProbeIsHalfOpen
<1>7. CallOK(c)'
  BY <1>1, <1>2, <1>4, <1>5 DEF CallOK, at, Try, Early, Routed, Plain
<1>8. RouteOK(c)'
  BY <1>1, <1>2, <1>4, <1>5 DEF RouteOK, at, Try, Fenced, Plain
<1>9. \/ ~breaker'.probe
      \/ breaker.probe /\ \A i \in {0, 1} : Owes(c, i) => Owes(c, i)'
  BY <1>1, <1>2, <1>4, <1>5, <1>6 DEF Owes, at, Try, Routed, Plain
<1> QED
  BY <1>2, <1>3, <1>5, <1>6, <1>7, <1>8, <1>9, Walks DEF Plain

\* A call is made, with the marker of a generation that has been.
LEMMA AskKeeps ==
  ASSUME IInv, NEW c \in Calls, NEW m \in Generations, Ask(c, m) \/ AskStale(c, m)
  PROVE  IInv'
<1>1. /\ call \in [Calls -> CallTypes] /\ breaker \in BreakerTypes
      /\ child \in ChildTypes
      /\ try \in [Calls -> [{0, 1} -> AttemptTypes]]
      /\ CallOK(c) /\ RouteOK(c) /\ child.generation \in Nat
  BY Typed DEF IInv
<1>2. PICK p \in {"begin", "renew"} :
        call' = [call EXCEPT ![c] = [call[c] EXCEPT !.pc = p, !.marker = m]]
  <2>1. CASE Ask(c, m)
    BY <2>1 DEF Ask
  <2>2. CASE AskStale(c, m)
    BY <2>2 DEF AskStale
  <2> QED
    BY <2>1, <2>2
<1> DEFINE k == [call[c] EXCEPT !.pc = p, !.marker = m]
<1>3. call[c].pc = "idle" /\ m <= child.generation
  BY <1>1 DEF Ask, AskStale, Waiting
<1>4. /\ k \in CallTypes /\ k.pc = p /\ k.woken = call[c].woken
      /\ k.attempt = call[c].attempt
      /\ k.marker = m /\ k.snapshot = call[c].snapshot
  BY <1>1, <1>2 DEF CallTypes, Runs, Waits
<1>11. call' = [call EXCEPT ![c] = k]
  BY <1>2
<1> HIDE DEF k
<1>5. call'[c] = k
  BY <1>1, <1>11
<1>6. /\ loop' \in Calls \cup {None} /\ child' \in {child, RequestRecycle(child)}
      /\ child'.generation = child.generation
      /\ UNCHANGED <<breaker, try, sv, first, permits, published>>
  BY <1>1, Typed DEF Ask, AskStale, Goto, RequestRecycle, ChildTypes
<1>7. breaker' \in BreakerTypes /\ ProbeIsHalfOpen'
  BY <1>1, <1>6 DEF IInv, ProbeIsHalfOpen
<1>8. CallOK(c)'
  BY <1>1, <1>2, <1>3, <1>4, <1>5, <1>6 DEF CallOK, at, Try, Early, Routed
<1>9. RouteOK(c)'
  BY <1>1, <1>2, <1>3, <1>4, <1>5, <1>6 DEF RouteOK, CallOK, Early, at, Try, Fenced
<1>10. \/ ~breaker'.probe
       \/ breaker.probe /\ \A i \in {0, 1} : Owes(c, i) => Owes(c, i)'
  BY <1>1, <1>2, <1>3, <1>4, <1>5, <1>6 DEF Owes, at, Try, Routed
<1> QED
  BY <1>2, <1>3, <1>4, <1>6, <1>7, <1>8, <1>9, <1>10, <1>11, Walks

\* A retry begins: the attempt before has ended with the death of the child.
LEMMA RecoveredKeeps ==
  ASSUME IInv, NEW c \in Calls, Recovered(c)
  PROVE  IInv'
<1> DEFINE m == IF Shape[c].tool THEN child.generation ELSE call[c].marker
           k == [call[c] EXCEPT !.attempt = 1, !.pc = "begin", !.marker = m]
<1>1. /\ call \in [Calls -> CallTypes] /\ breaker \in BreakerTypes
      /\ child \in ChildTypes
      /\ try \in [Calls -> [{0, 1} -> AttemptTypes]]
      /\ CallOK(c) /\ RouteOK(c) /\ child.generation \in Nat
  BY Typed DEF IInv
<1>2. call' = [call EXCEPT ![c] = k]
  BY <1>1 DEF Recovered
<1>3. call[c].pc \in {"again", "recover"}
  BY <1>1 DEF Recovered, Waiting, Running
<1>4. m \in Generations /\ m <= child.generation
  BY <1>1 DEF CallTypes, ChildTypes, RouteOK
<1> HIDE DEF m
<1>5. /\ k \in CallTypes /\ k.pc = "begin" /\ k.woken = call[c].woken
      /\ k.attempt = 1 /\ k.marker = m /\ k.snapshot = call[c].snapshot
  BY <1>1, <1>4 DEF CallTypes, Runs, Waits
<1> HIDE DEF k
<1>6. call'[c] = k
  BY <1>1, <1>2
<1>7. /\ loop' \in Calls \cup {None} /\ child' = child
      /\ UNCHANGED <<breaker, try, sv, first, permits, published>>
  BY DEF Recovered
<1>8. breaker' \in BreakerTypes /\ ProbeIsHalfOpen'
  BY <1>1, <1>7 DEF IInv, ProbeIsHalfOpen
<1>9. CallOK(c)'
  BY <1>1, <1>3, <1>5, <1>6, <1>7 DEF CallOK, at, Try, Early, Routed
<1>10. RouteOK(c)'
  BY <1>1, <1>3, <1>4, <1>5, <1>6, <1>7 DEF RouteOK, CallOK, at, Try, Fenced
<1>11. \/ ~breaker'.probe
       \/ breaker.probe /\ \A i \in {0, 1} : Owes(c, i) => Owes(c, i)'
  BY <1>1, <1>3, <1>5, <1>6, <1>7 DEF Owes, CallOK, at, Try, Routed
<1> QED
  BY <1>2, <1>3, <1>5, <1>7, <1>8, <1>9, <1>10, <1>11, Walks

\* A caller takes a slot and goes on to choose a session.
LEMMA TakesSlotKeeps ==
  ASSUME IInv, NEW c \in Calls, call[c].pc \in {"reserve", "queued"},
         permits > 0, permits' = permits - 1, Goto(c, "select"),
         UNCHANGED <<breaker, child, sv, first, try, published>>
  PROVE  IInv'
<1> DEFINE k == [call[c] EXCEPT !.pc = "select", !.woken = FALSE]
<1>1. /\ call \in [Calls -> CallTypes] /\ breaker \in BreakerTypes
      /\ child \in ChildTypes /\ permits \in Nat
      /\ try \in [Calls -> [{0, 1} -> AttemptTypes]]
      /\ CallOK(c) /\ RouteOK(c) /\ child.generation \in Nat
  BY Typed DEF IInv
<1>2. /\ k \in CallTypes /\ k.pc = "select" /\ ~k.woken
      /\ k.attempt = call[c].attempt
      /\ k.marker = call[c].marker /\ k.snapshot = call[c].snapshot
  BY <1>1 DEF CallTypes, Runs
<1>3. call' = [call EXCEPT ![c] = k] /\ loop' \in Calls \cup {None}
  BY DEF Goto
<1> HIDE DEF k
<1>4. /\ call'[c] = k /\ call' \in [Calls -> CallTypes]
      /\ \A d \in Calls \ {c} : call'[d] = call[d] /\ try'[d] = try[d]
  BY <1>1, <1>2, <1>3
<1>5. breaker' \in BreakerTypes /\ ProbeIsHalfOpen' /\ permits' \in Nat
  BY <1>1 DEF IInv, ProbeIsHalfOpen
<1>6. CallOK(c)'
  BY <1>1, <1>2, <1>4 DEF CallOK, at, Try, Early, Routed
<1>7. RouteOK(c)'
  BY <1>1, <1>2, <1>4 DEF RouteOK, at, Try, Fenced
<1>8. Slots'
  BY <1>1, <1>2, <1>4, SlotTaken DEF IInv
<1>9. \/ ~breaker'.probe
      \/ breaker.probe /\ \A i \in {0, 1} : Owes(c, i) => Owes(c, i)'
  BY <1>1, <1>2, <1>4 DEF Owes, at, Try, Routed
<1> QED
  BY <1>1, <1>2, <1>3, <1>4, <1>5, <1>6, <1>7, <1>8, <1>9, CallerStep

\* A caller gives its slot back, with the probe it may have claimed; it is
\* over, or begins again with its second attempt.
LEMMA GivesBackKeeps ==
  ASSUME IInv, NEW c \in Calls, Outdated(c) \/ Refused(c)
  PROVE  IInv'
<1>1. /\ call \in [Calls -> CallTypes] /\ breaker \in BreakerTypes
      /\ child \in ChildTypes /\ permits \in Nat
      /\ try \in [Calls -> [{0, 1} -> AttemptTypes]]
      /\ CallOK(c) /\ RouteOK(c) /\ child.generation \in Nat
  BY Typed DEF IInv
<1>2. /\ call[c].pc = "select" /\ GiveBack(c)
      /\ UNCHANGED <<child, sv, first, try, published>> /\ permits' = permits + 1
  BY DEF Outdated, Refused, GiveBack, Running
<1>3. PICK k \in CallTypes :
        /\ call' = [call EXCEPT ![c] = k]
        /\ k.marker = call[c].marker /\ k.snapshot = call[c].snapshot
        /\ k.woken => call[c].woken
        /\ \/ k.pc = "done" /\ k.attempt = call[c].attempt
           \/ k.pc = "begin" /\ k.attempt = 1 /\ call[c].attempt = 0
  <2>1. CASE Goto(c, "done")
    <3> DEFINE k == [call[c] EXCEPT !.pc = "done", !.woken = FALSE]
    <3>1. /\ k \in CallTypes /\ k.pc = "done" /\ ~k.woken
          /\ k.marker = call[c].marker /\ k.snapshot = call[c].snapshot
          /\ k.attempt = call[c].attempt
      BY <1>1 DEF CallTypes
    <3>2. call' = [call EXCEPT ![c] = k]
      BY <2>1 DEF Goto
    <3> HIDE DEF k
    <3> QED
      BY <3>1, <3>2
  <2>2. CASE call' = [call EXCEPT ![c].attempt = 1, ![c].pc = "begin"] /\ at(c) = 0
    <3> DEFINE k == [call[c] EXCEPT !.attempt = 1, !.pc = "begin"]
    <3>1. /\ k \in CallTypes /\ k.pc = "begin" /\ k.woken = call[c].woken
          /\ k.marker = call[c].marker /\ k.snapshot = call[c].snapshot
          /\ k.attempt = 1
      BY <1>1 DEF CallTypes, Runs
    <3>2. call' = [call EXCEPT ![c] = k]
      BY <2>2
    <3> HIDE DEF k
    <3> QED
      BY <2>2, <3>1, <3>2 DEF at
  <2> QED
    BY <2>1, <2>2 DEF Outdated, Refused
<1>4. /\ call'[c] = k /\ call' \in [Calls -> CallTypes]
      /\ \A d \in Calls \ {c} : call'[d] = call[d] /\ try'[d] = try[d]
  BY <1>1, <1>2, <1>3
<1>10. loop' \in Calls \cup {None}
  BY DEF Outdated, Refused, Goto
<1>5. /\ breaker' \in BreakerTypes /\ ProbeIsHalfOpen'
      /\ breaker'.probe => breaker.probe /\ ~Try(c).probe
  <2>1. CASE Try(c).probe
    BY <1>1, <1>2, <2>1, BreakerKeeps DEF GiveBack, IInv, ProbeIsHalfOpen
  <2>2. CASE ~Try(c).probe
    BY <1>1, <1>2, <2>2 DEF GiveBack, IInv, ProbeIsHalfOpen
  <2> QED
    BY <2>1, <2>2
<1>6. CallOK(c)'
  BY <1>1, <1>2, <1>3, <1>4 DEF CallOK, at, Try, Early, Routed
<1>7. RouteOK(c)'
  BY <1>1, <1>2, <1>3, <1>4 DEF RouteOK, CallOK, at, Try, Fenced
<1>8. Slots'
  BY <1>1, <1>2, <1>3, <1>4, SlotReturned DEF IInv
<1>9. \/ ~breaker'.probe
      \/ breaker.probe /\ \A i \in {0, 1} : Owes(c, i) => Owes(c, i)'
  BY <1>1, <1>2, <1>3, <1>4, <1>5 DEF Owes, CallOK, at, Try, Routed
<1> QED
  BY <1>1, <1>2, <1>3, <1>4, <1>5, <1>6, <1>7, <1>8, <1>9, <1>10, CallerStep

-----------------------------------------------------------------------------
(* A step that changes an attempt                                            *)

\* One attempt is replaced; all the others are as they were.
LEMMA OneAttempt ==
  ASSUME IInv, NEW c \in Calls, NEW i \in {0, 1}, NEW t \in AttemptTypes,
         try' = [try EXCEPT ![c][i] = t]
  PROVE  /\ try' \in [Calls -> [{0, 1} -> AttemptTypes]] /\ try'[c][i] = t
         /\ \A d \in Calls \ {c} : try'[d] = try[d]
         /\ \A d \in Calls, j \in {0, 1} : <<d, j>> # <<c, i>> => try'[d][j] = try[d][j]
  BY Typed

\* _begin_request: an attempt that claims the probe owes its outcome.
LEMMA BeginRequestKeeps ==
  ASSUME IInv, NEW c \in Calls, BeginRequest(c)
  PROVE  IInv'
<1> DEFINE i == at(c)
           k == [call[c] EXCEPT !.pc = "gate", !.woken = FALSE]
<1> PICK p \in BOOLEAN : p = (breaker'.state = "half_open")
  OBVIOUS
<1> DEFINE t == [try[c][i] EXCEPT !.probe = p]
<1>1. /\ call \in [Calls -> CallTypes] /\ breaker \in BreakerTypes
      /\ child \in ChildTypes /\ permits \in Nat
      /\ try \in [Calls -> [{0, 1} -> AttemptTypes]]
      /\ CallOK(c) /\ RouteOK(c) /\ child.generation \in Nat
  BY Typed DEF IInv
<1>2. i \in {0, 1} /\ call[c].pc = "begin" /\ try[c][i] \in AttemptTypes
  BY <1>1 DEF CallTypes, at, BeginRequest, Running
<1>3. /\ k \in CallTypes /\ k.pc = "gate" /\ ~k.woken
      /\ k.attempt = i
      /\ k.marker = call[c].marker /\ k.snapshot = call[c].snapshot
  BY <1>1 DEF CallTypes, Runs, at
<1> HIDE DEF i
<1>4. /\ t \in AttemptTypes /\ t.stage = try[c][i].stage /\ t.sent = try[c][i].sent
      /\ t.session = try[c][i].session /\ t.probe = p
  BY <1>1, <1>2 DEF AttemptTypes
<1>5. /\ call' = [call EXCEPT ![c] = k] /\ try' = [try EXCEPT ![c][i] = t]
      /\ loop' \in Calls \cup {None}
      /\ UNCHANGED <<child, sv, first, permits, published>>
  BY DEF BeginRequest, Goto, i
<1> HIDE DEF k, t
<1>6. /\ call'[c] = k /\ call' \in [Calls -> CallTypes]
      /\ \A d \in Calls \ {c} : call'[d] = call[d]
  BY <1>1, <1>3, <1>5
<1>7. /\ try' \in [Calls -> [{0, 1} -> AttemptTypes]] /\ try'[c][i] = t
      /\ \A d \in Calls \ {c} : try'[d] = try[d]
      /\ \A d \in Calls, j \in {0, 1} : <<d, j>> # <<c, i>> => try'[d][j] = try[d][j]
  BY ZenonT(60), <1>2, <1>4, <1>5, OneAttempt
<1>8. /\ breaker' \in BreakerTypes /\ ProbeIsHalfOpen'
  BY <1>1, BreakerKeeps DEF BeginRequest, IInv, ProbeIsHalfOpen
<1>9. call[c].attempt = i
  BY DEF i, at
<1>10. CallOK(c)'
  BY <1>1, <1>2, <1>3, <1>4, <1>6, <1>7, <1>9 DEF CallOK, at, Try, Early, Routed
<1>11. RouteOK(c)'
  BY <1>1, <1>2, <1>3, <1>4, <1>5, <1>6, <1>7, <1>9 DEF RouteOK, at, Try, Fenced
<1>12. Slots'
  <2>1. \A d \in Calls : call'[d].pc = "select" <=> call[d].pc = "select"
    BY <1>2, <1>3, <1>6
  <2>2. \A d \in Calls, j \in {0, 1} :
          try'[d][j].stage \in Open <=> try[d][j].stage \in Open
    BY <1>4, <1>7
  <2> QED
    BY <1>5, <2>1, <2>2, SlotsSame DEF IInv
<1>13. ~breaker'.probe \/ \E j \in {0, 1} : Owes(c, j)'
  BY <1>2, <1>3, <1>4, <1>6, <1>7, <1>8 DEF Owes, at, Routed, ProbeIsHalfOpen
<1> QED
  BY <1>1, <1>3, <1>5, <1>6, <1>7, <1>8, <1>10, <1>11, <1>12, <1>13, CallerStep

\* The inner task is created on a session of the generation that the request
\* was made for: that generation was announced.
LEMMA SendKeeps ==
  ASSUME IInv, NEW c \in Calls, Send(c)
  PROVE  IInv'
<1> DEFINE i == at(c)
           k == [call[c] EXCEPT !.pc = "await", !.woken = FALSE]
           t == [try[c][i] EXCEPT !.session = child.sessions,
                   !.stage = IF Shape[c].preflight THEN "preflight" ELSE "created"]
<1>1. /\ call \in [Calls -> CallTypes] /\ breaker \in BreakerTypes
      /\ child \in ChildTypes /\ permits \in Nat
      /\ try \in [Calls -> [{0, 1} -> AttemptTypes]]
      /\ CallOK(c) /\ RouteOK(c) /\ child.generation \in Nat
  BY Typed DEF IInv
<1>2. i \in {0, 1} /\ call[c].pc = "select" /\ try[c][i] \in AttemptTypes
  BY <1>1 DEF CallTypes, at, Send, Running
<1>3. /\ k \in CallTypes /\ k.pc = "await" /\ ~k.woken
      /\ k.attempt = i
      /\ k.marker = call[c].marker /\ k.snapshot = call[c].snapshot
  BY <1>1 DEF CallTypes, Waits, at
<1> HIDE DEF i
<1>4. /\ t \in AttemptTypes /\ t.stage \in Open /\ t.sent = try[c][i].sent
      /\ t.session = child.sessions /\ t.probe = try[c][i].probe
  BY <1>1, <1>2 DEF AttemptTypes, Open, ChildTypes
<1>5. /\ call' = [call EXCEPT ![c] = k] /\ try' = [try EXCEPT ![c][i] = t]
      /\ loop' \in Calls \cup {None}
      /\ UNCHANGED <<breaker, child, sv, first, permits, published>>
  BY DEF Send, Goto, i
<1> HIDE DEF k, t
<1>6. /\ call'[c] = k /\ call' \in [Calls -> CallTypes]
      /\ \A d \in Calls \ {c} : call'[d] = call[d]
  BY <1>1, <1>3, <1>5
<1>7. /\ try' \in [Calls -> [{0, 1} -> AttemptTypes]] /\ try'[c][i] = t
      /\ \A d \in Calls \ {c} : try'[d] = try[d]
      /\ \A d \in Calls, j \in {0, 1} : <<d, j>> # <<c, i>> => try'[d][j] = try[d][j]
  BY ZenonT(60), <1>2, <1>4, <1>5, OneAttempt
<1>8. breaker' \in BreakerTypes /\ ProbeIsHalfOpen'
  BY <1>1, <1>5 DEF IInv, ProbeIsHalfOpen
<1>9. call[c].attempt = i /\ try[c][i].stage = "none" /\ "none" \notin Open
  BY <1>1, <1>2 DEF i, at, CallOK, Try, Routed, Open
<1>10. CallOK(c)'
  BY <1>1, <1>2, <1>3, <1>4, <1>6, <1>7, <1>9 DEF CallOK, at, Try, Early, Routed
<1>11. Fenced(c) => /\ child.sessions \in published
                    /\ Shape[c].marked => child.sessions = call[c].marker
  <2>1. child.sessions = child.generation
    BY DEF Send, IInv, Lifecycle
  <2>2. Fenced(c) => child.generation = Expected(c)
    BY DEF Send
  <2>3. call[c].marker \in Nat /\ call[c].snapshot \in Nat
    BY <1>1 DEF CallTypes, Generations
  <2> QED
    BY <1>1, <1>2, <2>1, <2>2, <2>3 DEF RouteOK, Expected
<1>12. RouteOK(c)'
  BY <1>1, <1>2, <1>3, <1>4, <1>5, <1>6, <1>7, <1>9, <1>11
     DEF RouteOK, at, Try, Fenced
<1>13. Slots'
  BY <1>1, <1>2, <1>3, <1>4, <1>5, <1>6, <1>7, <1>9, SlotMoved DEF IInv
<1>14. \/ ~breaker'.probe
       \/ breaker.probe /\ \A j \in {0, 1} : Owes(c, j) => Owes(c, j)'
  BY <1>2, <1>3, <1>4, <1>5, <1>6, <1>7, <1>8, <1>9 DEF Owes, at, Routed
<1> QED
  BY <1>1, <1>3, <1>5, <1>6, <1>7, <1>8, <1>10, <1>12, <1>13, <1>14, CallerStep

\* A caller that gives up leaves its inner task behind, with its slot and with
\* the probe.
LEMMA GivesUpKeeps ==
  ASSUME IInv, NEW c \in Calls, Timeout(c) \/ CancelAwait(c)
  PROVE  IInv'
<1> DEFINE i == at(c)
           k == [call[c] EXCEPT !.pc = "done", !.woken = FALSE]
           t == [try[c][i] EXCEPT !.abandoned = TRUE]
<1>1. /\ call \in [Calls -> CallTypes] /\ breaker \in BreakerTypes
      /\ child \in ChildTypes /\ permits \in Nat
      /\ try \in [Calls -> [{0, 1} -> AttemptTypes]]
      /\ CallOK(c) /\ RouteOK(c) /\ child.generation \in Nat
  BY Typed DEF IInv
<1>2. i \in {0, 1} /\ call[c].pc = "await" /\ try[c][i] \in AttemptTypes
  BY <1>1 DEF CallTypes, at, Timeout, CancelAwait, Waiting
<1>3. /\ k \in CallTypes /\ k.pc = "done" /\ ~k.woken
      /\ k.attempt = i
      /\ k.marker = call[c].marker /\ k.snapshot = call[c].snapshot
  BY <1>1 DEF CallTypes, at
<1> HIDE DEF i
<1>4. /\ t \in AttemptTypes /\ t.stage = try[c][i].stage /\ t.sent = try[c][i].sent
      /\ t.session = try[c][i].session /\ t.probe = try[c][i].probe
  BY <1>1, <1>2 DEF AttemptTypes
<1>5. /\ call' = [call EXCEPT ![c] = k] /\ try' = [try EXCEPT ![c][i] = t]
      /\ loop' \in Calls \cup {None}
      /\ UNCHANGED <<child, sv, first, permits, published>>
  BY DEF Timeout, CancelAwait, Goto, i
<1> HIDE DEF k, t
<1>6. /\ call'[c] = k /\ call' \in [Calls -> CallTypes]
      /\ \A d \in Calls \ {c} : call'[d] = call[d]
  BY <1>1, <1>3, <1>5
<1>7. /\ try' \in [Calls -> [{0, 1} -> AttemptTypes]] /\ try'[c][i] = t
      /\ \A d \in Calls \ {c} : try'[d] = try[d]
      /\ \A d \in Calls, j \in {0, 1} : <<d, j>> # <<c, i>> => try'[d][j] = try[d][j]
  BY ZenonT(60), <1>2, <1>4, <1>5, OneAttempt
<1>8. /\ breaker' \in BreakerTypes /\ ProbeIsHalfOpen'
      /\ breaker'.probe => breaker.probe
  <2>1. breaker' \in {breaker, RecordFailure(breaker)}
    BY DEF Timeout, CancelAwait
  <2> QED
    BY <1>1, <2>1, BreakerKeeps DEF IInv, ProbeIsHalfOpen
<1>9. call[c].attempt = i
  BY DEF i, at
<1>10. CallOK(c)'
  BY <1>1, <1>2, <1>3, <1>4, <1>6, <1>7, <1>9 DEF CallOK, at, Try, Early, Routed
<1>11. RouteOK(c)'
  BY <1>1, <1>2, <1>3, <1>4, <1>5, <1>6, <1>7, <1>9 DEF RouteOK, at, Try, Fenced
<1>12. Slots'
  <2>1. \A d \in Calls : call'[d].pc = "select" <=> call[d].pc = "select"
    BY <1>2, <1>3, <1>6
  <2>2. \A d \in Calls, j \in {0, 1} :
          try'[d][j].stage \in Open <=> try[d][j].stage \in Open
    BY <1>4, <1>7
  <2> QED
    BY <1>5, <2>1, <2>2, SlotsSame DEF IInv
<1>13. \/ ~breaker'.probe
       \/ breaker.probe /\ \A j \in {0, 1} : Owes(c, j) => Owes(c, j)'
  BY <1>1, <1>2, <1>3, <1>4, <1>6, <1>7, <1>8, <1>9 DEF Owes, at, Routed
<1> QED
  BY <1>1, <1>3, <1>5, <1>6, <1>7, <1>8, <1>10, <1>11, <1>12, <1>13, CallerStep

-----------------------------------------------------------------------------
(* Inner tasks                                                               *)

\* The request goes to the child.
LEMMA TransmitKeeps ==
  ASSUME IInv, NEW c \in Calls, NEW i \in {0, 1},
         Dispatch(c, i) \/ PreflightPasses(c, i)
  PROVE  IInv'
<1> DEFINE t == [try[c][i] EXCEPT !.stage = "sent", !.sent = TRUE]
<1>1. /\ call \in [Calls -> CallTypes] /\ breaker \in BreakerTypes
      /\ child \in ChildTypes /\ permits \in Nat /\ loop \in Calls \cup {None}
      /\ try \in [Calls -> [{0, 1} -> AttemptTypes]]
      /\ CallOK(c) /\ RouteOK(c) /\ child.generation \in Nat
      /\ call[c].attempt \in {0, 1}
  BY Typed DEF IInv, CallTypes
<1>2. try[c][i] \in AttemptTypes /\ try[c][i].stage \in {"created", "preflight"}
  BY <1>1 DEF Dispatch, PreflightPasses
<1>3. /\ t \in AttemptTypes /\ t.stage = "sent"
      /\ t.session = try[c][i].session /\ t.probe = try[c][i].probe
  BY <1>2 DEF AttemptTypes, Open
<1>11. try' = [try EXCEPT ![c][i] = t]
  BY ZenonT(60) DEF Dispatch, PreflightPasses
<1>4. UNCHANGED <<breaker, child, sv, first, permits, call, loop, published>>
  BY DEF Dispatch, PreflightPasses
<1> HIDE DEF t
<1>5. /\ try' \in [Calls -> [{0, 1} -> AttemptTypes]] /\ try'[c][i] = t
      /\ \A d \in Calls \ {c} : try'[d] = try[d]
      /\ \A d \in Calls, j \in {0, 1} : <<d, j>> # <<c, i>> => try'[d][j] = try[d][j]
  BY <1>1, <1>3, <1>11
<1>6. breaker' \in BreakerTypes /\ ProbeIsHalfOpen'
  BY <1>1, <1>4 DEF IInv, ProbeIsHalfOpen
<1>7. CallOK(c)'
  BY <1>1, <1>2, <1>3, <1>4, <1>5 DEF CallOK, at, Try, Early, Routed
<1>8. RouteOK(c)'
  BY <1>1, <1>2, <1>3, <1>4, <1>5 DEF RouteOK, at, Try, Fenced
<1>9. Slots'
  <2>1. \A d \in Calls, j \in {0, 1} :
          try'[d][j].stage \in Open <=> try[d][j].stage \in Open
    BY <1>2, <1>3, <1>5 DEF Open
  <2> QED
    BY <1>4, <2>1, SlotsSame DEF IInv
<1>10. \/ ~breaker'.probe
       \/ breaker.probe /\ \A j \in {0, 1} : Owes(c, j) => Owes(c, j)'
  BY <1>1, <1>2, <1>3, <1>4, <1>5 DEF Owes, at, Open
<1> QED
  BY <1>1, <1>4, <1>5, <1>6, <1>7, <1>8, <1>9, <1>10, CallerStep

\* The end of an inner task, and _finish_call: an end that is not an error of
\* the application, or is one of the preflight, settles the probe.
LEMMA FinishKeeps ==
  ASSUME IInv, NEW c \in Calls, NEW i \in {0, 1}, NEW end \in Ended,
         PreflightFails(c, i, end) \/ Answer(c, i, end)
  PROVE  IInv'
<1> DEFINE t == [try[c][i] EXCEPT !.stage = end]
<1>1. /\ call \in [Calls -> CallTypes] /\ breaker \in BreakerTypes
      /\ child \in ChildTypes /\ permits \in Nat /\ loop \in Calls \cup {None}
      /\ try \in [Calls -> [{0, 1} -> AttemptTypes]]
      /\ CallOK(c) /\ RouteOK(c) /\ child.generation \in Nat
      /\ call[c].attempt \in {0, 1}
  BY Typed DEF IInv, CallTypes
<1>2. try[c][i] \in AttemptTypes /\ try[c][i].stage \in Open /\ end \notin Open
  BY <1>1 DEF PreflightFails, Answer, Open, Ended
<1>3. /\ t \in AttemptTypes /\ t.stage = end /\ t.sent = try[c][i].sent
      /\ t.session = try[c][i].session /\ t.probe = try[c][i].probe
  BY <1>2 DEF AttemptTypes
<1>4. /\ try' = [try EXCEPT ![c][i] = t] /\ permits' = permits + 1
      /\ child' \in {child, RequestRestart(child)}
      /\ UNCHANGED <<sv, first, call, loop, published>>
  BY DEF PreflightFails, Answer, FinishCall
<1> HIDE DEF t
<1>5. /\ try' \in [Calls -> [{0, 1} -> AttemptTypes]] /\ try'[c][i] = t
      /\ \A d \in Calls \ {c} : try'[d] = try[d]
      /\ \A d \in Calls, j \in {0, 1} : <<d, j>> # <<c, i>> => try'[d][j] = try[d][j]
  BY ZenonT(60), <1>3, <1>4, OneAttempt
<1>6. child'.generation = child.generation
  BY <1>1, <1>4 DEF RequestRestart, ChildTypes
<1>7. /\ breaker' \in BreakerTypes /\ ProbeIsHalfOpen'
      /\ breaker'.probe => breaker.probe /\ (end \in {"app", "group"} \/ ~try[c][i].probe)
  <2>1. CASE Answer(c, i, end)
    <3>1. breaker' = Settled(breaker, end) /\ end \in {"ok", "app", "dead", "group"}
      BY <2>1 DEF Answer, FinishCall
    <3>2. /\ end = "ok" => breaker' = RecordSuccess(breaker)
          /\ end = "dead" => breaker' = RecordFailure(breaker)
          /\ end \in {"app", "group"} => breaker' = breaker
      BY <3>1 DEF Settled
    <3> QED
      BY <1>1, <3>1, <3>2, BreakerKeeps DEF IInv, ProbeIsHalfOpen
  <2>2. CASE PreflightFails(c, i, end)
    <3> DEFINE b == SettledPreflight(breaker, end, try[c][i].probe)
    <3>1. breaker' = Settled(b, end) /\ end # "ok"
      BY <2>2 DEF PreflightFails, FinishCall
    <3>2. b \in {breaker, RecordFailure(breaker)}
      BY DEF SettledPreflight
    <3>3. b = breaker => ~try[c][i].probe \/ ~breaker.probe
      <4>1. CASE try[c][i].probe /\ breaker.probe
        <5>1. b = RecordFailure(breaker)
          BY <4>1 DEF SettledPreflight, IInv, ProbeIsHalfOpen
        <5> QED
          BY <1>1, <4>1, <5>1, BreakerKeeps DEF IInv, ProbeIsHalfOpen
      <4> QED
        BY <4>1
    <3>4. b \in BreakerTypes /\ (b.probe => Threshold > 0 /\ b.state = "half_open")
          /\ (b.probe => b = breaker)
      BY <1>1, <3>2, BreakerKeeps DEF IInv, ProbeIsHalfOpen
    <3> HIDE DEF b
    <3>5. breaker' \in {b, RecordFailure(b)}
      BY <3>1 DEF Settled
    <3> QED
      BY <1>1, <3>3, <3>4, <3>5, BreakerKeeps DEF ProbeIsHalfOpen
  <2> QED
    BY <2>1, <2>2
<1>8. CallOK(c)'
  <2>1. end # "none" /\ try[c][i].stage \notin {"none", "dead", "group"}
    BY <1>2 DEF Ended, Open
  <2> QED
    BY <1>1, <1>2, <1>3, <1>4, <1>5, <2>1 DEF CallOK, at, Try, Early, Routed
<1>9. RouteOK(c)'
  <2>1. try[c][i].stage # "none"
    BY <1>2 DEF Open
  <2> QED
    BY <1>1, <1>2, <1>3, <1>4, <1>5, <1>6, <2>1 DEF RouteOK, at, Try, Fenced
<1>10. Slots'
  BY <1>1, <1>2, <1>3, <1>4, <1>5, SlotFreed DEF IInv
<1>11. \/ ~breaker'.probe
       \/ breaker.probe /\ \A j \in {0, 1} : Owes(c, j) => Owes(c, j)'
  BY <1>1, <1>2, <1>3, <1>4, <1>5, <1>7 DEF Owes, at
<1> QED
  BY <1>1, <1>4, <1>5, <1>7, <1>8, <1>9, <1>10, <1>11, CallerStep

-----------------------------------------------------------------------------
(* Callers                                                                   *)

\* Every step of a caller keeps the invariant.
LEMMA CallerKeeps ==
  ASSUME IInv, NEW c \in Calls, Caller(c)
  PROVE  IInv'
<1>1. CASE \E m \in Generations : Ask(c, m) \/ AskStale(c, m)
  BY <1>1, AskKeeps
<1>2. CASE Renewed(c)
  <2>1. /\ <<call[c].pc, "begin">> \in Plain /\ Goto(c, "begin") /\ child' = child
        /\ UNCHANGED <<breaker, try, sv, first, permits, published>>
    BY <1>2 DEF Renewed, Waiting, Plain
  <2> QED
    BY <2>1, GotoKeeps
<1>3. CASE ShortCircuit(c)
  <2>1. /\ <<call[c].pc, "done">> \in Plain /\ Goto(c, "done") /\ child' = child
        /\ UNCHANGED <<breaker, try, sv, first, permits, published>>
    BY <1>3 DEF ShortCircuit, Running, Plain
  <2> QED
    BY <2>1, GotoKeeps
<1>4. CASE BeginRequest(c)
  BY <1>4, BeginRequestKeeps
<1>5. CASE AwaitReady(c)
  <2>1. CASE child.state = "failed"
    BY <1>5, <2>1, AbortKeeps DEF AwaitReady, Running
  <2>2. CASE child.state # "failed" /\ child.ready
    BY <1>5, <2>2, SnapshotKeeps DEF AwaitReady, Running, IInv, Lifecycle
  <2>3. CASE child.state # "failed" /\ ~child.ready
    <3>1. /\ <<call[c].pc, "gated">> \in Plain /\ Goto(c, "gated") /\ child' = child
          /\ UNCHANGED <<breaker, try, sv, first, permits, published>>
      BY <1>5, <2>3 DEF AwaitReady, Running, Plain
    <3> QED
      BY <3>1, GotoKeeps
  <2> QED
    BY <2>1, <2>2, <2>3
<1>6. CASE ReadyReached(c)
  <2>1. CASE child.state = "failed"
    BY <1>6, <2>1, AbortKeeps DEF ReadyReached, Waiting
  <2>2. CASE child.state # "failed"
    BY <1>6, <2>2, SnapshotKeeps DEF ReadyReached, Waiting, IInv, Lifecycle
  <2> QED
    BY <2>1, <2>2
<1>7. CASE ReadyTimeout(c) \/ SlotTimeout(c)
  BY <1>7, AbortKeeps DEF ReadyTimeout, SlotTimeout, Waiting
<1>8. CASE AcquireSlot(c)
  <2>1. CASE Locked
    <3>1. /\ <<call[c].pc, "queued">> \in Plain /\ Goto(c, "queued") /\ child' = child
          /\ UNCHANGED <<breaker, try, sv, first, permits, published>>
      BY <1>8, <2>1 DEF AcquireSlot, Running, Plain
    <3> QED
      BY <3>1, GotoKeeps
  <2>2. CASE ~Locked
    <3>1. permits \in Nat /\ permits # 0
      BY <2>2, Typed DEF Locked
    <3> QED
      BY <1>8, <2>2, <3>1, TakesSlotKeeps DEF AcquireSlot, Running
  <2> QED
    BY <2>1, <2>2
<1>9. CASE SlotGranted(c)
  BY <1>9, TakesSlotKeeps DEF SlotGranted, Waiting
<1>10. CASE Outdated(c) \/ Refused(c)
  BY <1>10, GivesBackKeeps
<1>11. CASE Send(c)
  BY <1>11, SendKeeps
<1>12. CASE Returns(c)
  <2> DEFINE again == Transient(Try(c).stage) /\ Shape[c].retry /\ at(c) = 0
             p == IF ~again THEN "done" ELSE IF child'.ready THEN "again" ELSE "recover"
  <2>1. /\ call[c].pc = "await" /\ Goto(c, p)
        /\ child' \in {child, RequestRestart(child)}
        /\ UNCHANGED <<breaker, try, sv, first, permits, published>>
    BY <1>12 DEF Returns, Waiting
  <2>2. PICK q \in {"done", "again", "recover"} :
          q = p /\ (q # "done" => again)
    OBVIOUS
  <2>3. q \in {"again", "recover"} =>
          /\ at(c) = 0 /\ Shape[c].retry
          /\ try[c][0].stage \in {"dead", "group"}
    BY <2>2 DEF Transient, Try
  <2>4. <<call[c].pc, q>> \in Plain /\ Goto(c, q)
    <3>1. Goto(c, q)
      BY <2>1, <2>2
    <3> QED
      BY <2>1, <3>1 DEF Plain
  <2> HIDE DEF p, again
  <2> QED
    BY <2>1, <2>3, <2>4, GotoKeeps
<1>13. CASE Recovered(c)
  BY <1>13, RecoveredKeeps
<1>14. CASE Timeout(c) \/ CancelAwait(c)
  BY <1>14, GivesUpKeeps
<1>15. CASE CancelWait(c)
  <2>1. CASE Abort(c) /\ call[c].pc \in {"gated", "queued"}
    BY <2>1, AbortKeeps
  <2>2. CASE /\ call[c].pc \in {"renew", "recover"} /\ Goto(c, "done")
             /\ UNCHANGED <<breaker, child, sv, first, permits, try, published>>
    <3>1. <<call[c].pc, "done">> \in Plain
      BY <2>2 DEF Plain
    <3> QED
      BY <2>2, <3>1, GotoKeeps
  <2> QED
    BY <1>15, <2>1, <2>2 DEF CancelWait, Waiting
<1> QED
  BY <1>1, <1>2, <1>3, <1>4, <1>5, <1>6, <1>7, <1>8, <1>9, <1>10, <1>11, <1>12,
     <1>13, <1>14, <1>15 DEF Caller

-----------------------------------------------------------------------------
(* The supervisor                                                            *)

SupervisorPlaces == {"none", "connecting", "notifying", "serving", "backoff",
                     "ended", "crashed", "cancelled"}

\* What a step of the supervisor has to show: it goes on to later generations,
\* takes no announcement back, and does not touch the calls but to wake them.
LEMMA SupervisorStep ==
  ASSUME IInv, UNCHANGED <<permits, try, loop>>,
         breaker' \in {breaker, RecordSuccess(breaker)},
         child' \in ChildTypes, child.generation <= child'.generation,
         sv' \in SupervisorPlaces, first' \in BOOLEAN,
         published \subseteq published', published' \subseteq Generations,
         call' \in {call, Wake}, Lifecycle'
  PROVE  IInv'
<1>1. /\ call \in [Calls -> CallTypes] /\ breaker \in BreakerTypes
      /\ child \in ChildTypes /\ permits \in Nat /\ loop \in Calls \cup {None}
      /\ try \in [Calls -> [{0, 1} -> AttemptTypes]]
      /\ child.generation \in Nat
  BY Typed
<1>2. call' \in [Calls -> CallTypes]
  <2>1. ASSUME NEW c \in Calls
        PROVE  [call[c] EXCEPT !.woken = @ \/ call[c].pc = "gated"] \in CallTypes
    <3> DEFINE w == call[c].woken \/ call[c].pc = "gated"
    <3>1. w \in BOOLEAN /\ call[c] \in CallTypes
      BY <1>1, <2>1
    <3> HIDE DEF w
    <3>2. [call[c] EXCEPT !.woken = w] \in CallTypes
      BY <3>1 DEF CallTypes
    <3> QED
      BY <3>2 DEF w
  <2> QED
    BY <1>1, <2>1 DEF Wake
<1>3. \A c \in Calls : /\ call'[c].pc = call[c].pc
                       /\ call'[c].attempt = call[c].attempt
                       /\ call'[c].marker = call[c].marker
                       /\ call'[c].snapshot = call[c].snapshot
  BY <1>1 DEF Wake, CallTypes
<1>4. /\ breaker' \in BreakerTypes /\ ProbeIsHalfOpen'
      /\ breaker'.probe => breaker.probe
  BY <1>1, BreakerKeeps DEF IInv, ProbeIsHalfOpen
<1>5. TypeOK'
  BY <1>1, <1>2, <1>4
     DEF IInv, TypeOK, BreakerTypes, ChildTypes, CallTypes, AttemptTypes,
         SupervisorPlaces
<1>6. ASSUME NEW c \in Calls PROVE CallOK(c)'
  BY <1>3, <1>6 DEF IInv, CallOK, at, Try
<1>7. ASSUME NEW c \in Calls PROVE RouteOK(c)'
  <2>1. call[c].marker \in Nat /\ call[c].snapshot \in Nat /\ child'.generation \in Nat
    BY <1>1, <1>7, ChildRuntimeAssumption DEF CallTypes, ChildTypes, Generations
  <2> QED
    BY <1>1, <1>3, <1>7, <2>1 DEF IInv, RouteOK, at, Try, Fenced
<1>8. Slots'
  BY <1>3, SlotsSame DEF IInv
<1>9. ProbeOwed'
  <2>1. \A c \in Calls, i \in {0, 1} : Owes(c, i) => Owes(c, i)'
    BY <1>3 DEF Owes, at
  <2> QED
    BY <1>4, <2>1 DEF IInv, ProbeOwed
<1> QED
  BY <1>4, <1>5, <1>6, <1>7, <1>8, <1>9 DEF IInv

\* The facts about the lifecycle that the supervisor's steps start from.
LEMMA LifecycleTyped ==
  ASSUME IInv
  PROVE  /\ child \in ChildTypes /\ Lifecycle /\ sv \in SupervisorPlaces
         /\ first \in BOOLEAN /\ published \subseteq Generations
         /\ MaxRestarts \in Nat /\ MaxGen \in Nat \ {0}
         /\ {0, 1} \subseteq Generations
         /\ child.generation \in 0..MaxGen /\ child.restarts \in 0..(MaxRestarts + 1)
<1>1. {0, 1} \subseteq Generations /\ MaxRestarts \in Nat /\ MaxGen \in Nat \ {0}
  BY ChildRuntimeAssumption DEF Generations
<1>2. /\ child \in ChildTypes /\ Lifecycle /\ sv \in SupervisorPlaces
      /\ first \in BOOLEAN /\ published \subseteq Generations
  BY DEF IInv, TypeOK, ChildTypes, SupervisorPlaces
<1>3. child.generation \in 0..MaxGen /\ child.restarts \in 0..(MaxRestarts + 1)
  BY <1>2 DEF ChildTypes, Generations
<1> QED
  BY <1>1, <1>2, <1>3

\* What _supervise leaves of a generation.
LEMMA DownTyped ==
  ASSUME IInv
  PROVE  /\ Down(child) \in ChildTypes
         /\ Down(child).sessions = 0 /\ ~Down(child).ready
         /\ Down(child).generation = child.generation
         /\ Down(child).restarts = child.restarts
  BY LifecycleTyped DEF Down, ChildTypes

\* After a generation: a restart within the budget, or the child is parked.
LEMMA RestartKeeps ==
  ASSUME IInv, sv \in {"connecting", "serving"}, RestartPlan, first' \in BOOLEAN,
         UNCHANGED <<breaker, permits, call, try, loop, published>>
  PROVE  IInv'
<1>1. /\ child \in ChildTypes /\ Lifecycle /\ sv \in SupervisorPlaces
      /\ published \subseteq Generations
      /\ MaxRestarts \in Nat /\ child.restarts \in 0..MaxRestarts
      /\ child.generation \in Nat
  BY LifecycleTyped, Typed, ChildRuntimeAssumption DEF Lifecycle, ChildTypes
<1>2. /\ child' \in ChildTypes /\ child'.generation = child.generation
      /\ child'.sessions = 0 /\ ~child'.ready /\ child'.state # "starting"
      /\ sv' \in {"connecting", "backoff", "ended"}
      /\ sv' # "ended" => child'.restarts <= MaxRestarts
  <2> DEFINE d == Down(child)
  <2>0. /\ d \in ChildTypes /\ d.sessions = 0 /\ ~d.ready
        /\ d.generation = child.generation /\ d.restarts = child.restarts
    BY DownTyped
  <2>1. CASE child.recycle
    <3>1. child' = [d EXCEPT !.recycle = FALSE, !.state = "restarting"]
          /\ sv' = "connecting"
      BY <2>1 DEF RestartPlan
    <3> HIDE DEF d
    <3>2. child' \in ChildTypes
      BY <2>0, <3>1 DEF ChildTypes
    <3>3. /\ child'.generation = d.generation /\ child'.sessions = d.sessions
          /\ child'.ready = d.ready /\ child'.restarts = d.restarts
          /\ child'.state = "restarting"
      BY <2>0, <3>1 DEF ChildTypes
    <3> QED
      BY <1>1, <2>0, <3>1, <3>2, <3>3
  <2>2. CASE ~child.recycle
    <3>1. PICK n \in 1..(child.restarts + 1) :
            IF n > MaxRestarts
              THEN child' = [d EXCEPT !.restarts = n, !.state = "failed"] /\ sv' = "ended"
              ELSE /\ child' = [d EXCEPT !.restarts = n, !.state = "restarting"]
                   /\ sv' = "backoff"
      BY <2>2 DEF RestartPlan
    <3>2. n \in 0..(MaxRestarts + 1) /\ n \in Nat
      BY <1>1
    <3> HIDE DEF d
    <3>3. CASE n > MaxRestarts
      <4>1. child' = [d EXCEPT !.restarts = n, !.state = "failed"] /\ sv' = "ended"
        BY <3>1, <3>3
      <4>2. child' \in ChildTypes
        BY <2>0, <3>2, <4>1 DEF ChildTypes
      <4>3. /\ child'.generation = d.generation /\ child'.sessions = d.sessions
            /\ child'.ready = d.ready /\ child'.restarts = n /\ child'.state = "failed"
        BY <2>0, <4>1 DEF ChildTypes
      <4> QED
        BY <1>1, <2>0, <3>2, <3>3, <4>1, <4>2, <4>3
    <3>4. CASE ~(n > MaxRestarts)
      <4>1. child' = [d EXCEPT !.restarts = n, !.state = "restarting"] /\ sv' = "backoff"
        BY <3>1, <3>4
      <4>2. child' \in ChildTypes
        BY <2>0, <3>2, <4>1 DEF ChildTypes
      <4>3. /\ child'.generation = d.generation /\ child'.sessions = d.sessions
            /\ child'.ready = d.ready /\ child'.restarts = n /\ child'.state = "restarting"
        BY <2>0, <4>1 DEF ChildTypes
      <4> QED
        BY <1>1, <2>0, <3>2, <3>4, <4>1, <4>2, <4>3
    <3> QED
      BY <3>3, <3>4
  <2> QED
    BY <2>1, <2>2
<1>3. Lifecycle'
  BY <1>1, <1>2 DEF Lifecycle
<1> QED
  BY <1>1, <1>2, <1>3, SupervisorStep DEF SupervisorPlaces

\* Every step of the supervisor, and of who starts and closes it, keeps the
\* invariant.
LEMMA SupervisorKeeps ==
  ASSUME IInv, Supervisor
  PROVE  IInv'
<1>1. /\ child \in ChildTypes /\ Lifecycle /\ sv \in SupervisorPlaces
      /\ first \in BOOLEAN /\ published \subseteq Generations
      /\ MaxRestarts \in Nat /\ MaxGen \in Nat \ {0} /\ {0, 1} \subseteq Generations
      /\ child.generation \in 0..MaxGen /\ child.restarts \in 0..(MaxRestarts + 1)
  BY LifecycleTyped
<1>2. CASE adopt_sessions
  <2>1. /\ child' \in ChildTypes /\ child'.generation = 1 /\ child'.sessions = 1
        /\ child'.state = "up" /\ child'.restarts = child.restarts
        /\ child.generation = 0 /\ published = {} /\ published' = {1}
        /\ UNCHANGED <<breaker, sv, first, permits, call, try, loop>> /\ sv = "none"
    BY <1>1, <1>2 DEF adopt_sessions, ChildTypes, Lifecycle
  <2>2. Lifecycle'
    BY <1>1, <2>1 DEF Lifecycle
  <2> QED
    BY <1>1, <2>1, <2>2, SupervisorStep
<1>3. CASE start
  <2>1. Lifecycle'
    BY <1>1, <1>3 DEF start, Lifecycle
  <2> QED
    BY <1>1, <1>3, <2>1, SupervisorStep DEF start, SupervisorPlaces
<1>4. CASE Connected
  <2> DEFINE g == child.generation + 1
  <2>1. /\ child' = [child EXCEPT !.sessions = g, !.generation = g,
                                  !.state = "up", !.stop = FALSE, !.ready = first]
        /\ published' = IF first THEN published \cup {g} ELSE published
        /\ breaker' = RecordSuccess(breaker) /\ Drained
        /\ sv' = IF first THEN "serving" ELSE "notifying"
        /\ sv = "connecting"
        /\ UNCHANGED <<first, permits, call, try, loop>>
    BY <1>4 DEF Connected
  <2>2. g \in 0..MaxGen /\ g \in Nat /\ child.generation <= g
    BY <1>1, <1>4 DEF Connected
  <2> HIDE DEF g
  <2>3. /\ child' \in ChildTypes /\ child'.generation = g /\ child'.sessions = g
        /\ child'.state = "up" /\ child'.restarts = child.restarts
        /\ child'.ready = first
    BY <1>1, <2>1, <2>2 DEF ChildTypes, Generations
  <2>4. published \subseteq published' /\ published' \subseteq Generations
        /\ (first => g \in published')
    BY <1>1, <2>1, <2>2 DEF Generations
  <2>5. Lifecycle'
    BY <1>1, <2>1, <2>3, <2>4 DEF Lifecycle, Drained
  <2>6. sv' \in SupervisorPlaces
    BY <2>1 DEF SupervisorPlaces
  <2>7. UNCHANGED <<permits, try, loop>> /\ breaker' \in {breaker, RecordSuccess(breaker)}
        /\ first' \in BOOLEAN /\ call' \in {call, Wake}
        /\ child.generation <= child'.generation
    BY <1>1, <2>1, <2>2, <2>3
  <2> QED
    BY <2>3, <2>4, <2>5, <2>6, <2>7, SupervisorStep
<1>5. CASE Notified
  <2>1. /\ child' \in ChildTypes /\ child'.generation = child.generation
        /\ child'.sessions = child.sessions /\ child'.state = child.state
        /\ child'.restarts = child.restarts
        /\ published' = published \cup {child.generation} /\ sv' = "serving"
        /\ sv = "notifying" /\ call' = Wake
        /\ UNCHANGED <<breaker, first, permits, try, loop>>
    BY <1>1, <1>5 DEF Notified, ChildTypes
  <2>2. Lifecycle'
    BY <1>1, <2>1 DEF Lifecycle
  <2>3. /\ published \subseteq published' /\ published' \subseteq Generations
        /\ child.generation <= child'.generation
    BY <1>1, <2>1 DEF ChildTypes
  <2> QED
    BY <1>1, <2>1, <2>2, <2>3, SupervisorStep DEF SupervisorPlaces
<1>6. CASE BootFails
  <2>1. /\ child' \in ChildTypes /\ child'.generation = child.generation
        /\ child'.sessions = 0 /\ child'.state = "failed" /\ ~child'.ready
        /\ sv' = "ended"
        /\ UNCHANGED <<breaker, first, permits, call, try, loop, published>>
    BY <1>1, <1>6, DownTyped DEF BootFails, ChildTypes
  <2>2. Lifecycle'
    BY <1>1, <2>1 DEF Lifecycle
  <2> QED
    BY <1>1, <2>1, <2>2, SupervisorStep DEF SupervisorPlaces
<1>7. CASE ReconnectFails
  BY <1>1, <1>7, RestartKeeps DEF ReconnectFails
<1>8. CASE GenerationEnds
  BY <1>1, <1>8, RestartKeeps DEF GenerationEnds
<1>9. CASE GenerationEndsBadly
  <2>1. CASE first
    <3>1. /\ child' \in ChildTypes /\ child'.generation = child.generation
          /\ child'.sessions = 0 /\ child'.state = "failed" /\ ~child'.ready
          /\ sv' = "crashed"
          /\ UNCHANGED <<breaker, first, permits, call, try, loop, published>>
      BY <1>1, <1>9, <2>1, DownTyped DEF GenerationEndsBadly, ChildTypes
    <3>2. Lifecycle'
      BY <1>1, <3>1 DEF Lifecycle
    <3> QED
      BY <1>1, <3>1, <3>2, SupervisorStep DEF SupervisorPlaces
  <2>2. CASE ~first
    BY <1>1, <1>9, <2>2, RestartKeeps DEF GenerationEndsBadly
  <2> QED
    BY <2>1, <2>2
<1>10. CASE BackoffOver
  <2>1. Lifecycle'
    BY <1>1, <1>10 DEF BackoffOver, Lifecycle
  <2> QED
    BY <1>1, <1>10, <2>1, SupervisorStep DEF BackoffOver, SupervisorPlaces
<1>11. CASE aclose
  <2>1. /\ child' \in ChildTypes /\ child'.generation = child.generation
        /\ child'.sessions \in {0, child.sessions} /\ ~child'.ready
        /\ child'.restarts = child.restarts
        /\ child'.state \in {"closed", child.state}
        /\ sv' \in {"none", "crashed", "cancelled"}
        /\ sv' = "none" => child'.state = "closed"
        /\ UNCHANGED <<breaker, first, permits, call, try, loop, published>>
    <3> DEFINE d == Closing
    <3>1. /\ d \in ChildTypes /\ d.generation = child.generation /\ ~d.ready
          /\ d.sessions = child.sessions /\ d.restarts = child.restarts
          /\ d.state = child.state
      BY <1>1 DEF Closing, ChildTypes
    <3> HIDE DEF d
    <3>2. /\ \/ child' = [d EXCEPT !.sessions = 0, !.state = "closed"] /\ sv' = "none"
             \/ child' = d /\ sv' \in {"crashed", "cancelled"}
          /\ UNCHANGED <<breaker, first, permits, call, try, loop, published>>
      BY <1>11 DEF aclose, d
    <3> QED
      BY <1>1, <3>1, <3>2 DEF ChildTypes
  <2>2. Lifecycle'
    BY <1>1, <2>1 DEF Lifecycle
  <2> QED
    BY <1>1, <2>1, <2>2, SupervisorStep DEF SupervisorPlaces
<1>12. CASE SupervisorCancelled
  <2>1. /\ child' \in ChildTypes /\ child'.generation = child.generation
        /\ child'.sessions = 0 /\ ~child'.ready
        /\ child'.state \in {"closed", "failed"}
        /\ sv' \in {"none", "crashed"}
        /\ UNCHANGED <<breaker, first, permits, call, try, loop, published>>
    BY <1>1, <1>12, DownTyped DEF SupervisorCancelled, ChildTypes
  <2>2. Lifecycle'
    BY <1>1, <2>1 DEF Lifecycle
  <2> QED
    BY <1>1, <2>1, <2>2, SupervisorStep DEF SupervisorPlaces
<1> QED
  BY <1>2, <1>3, <1>4, <1>5, <1>6, <1>7, <1>8, <1>9, <1>10, <1>11, <1>12
     DEF Supervisor

-----------------------------------------------------------------------------
(* The theorems                                                              *)

\* Nothing has been called and no slot is in use when the runtime is made.
LEMMA InitHolds == Init => IInv
<1> SUFFICES ASSUME Init PROVE IInv
  OBVIOUS
<1>1. TypeOK
  <2>1. /\ 0 \in Generations /\ 0 \in 0..Threshold /\ 0 \in 0..(MaxRestarts + 1)
        /\ MaxConc \in 0..MaxConc
    BY ChildRuntimeAssumption DEF Generations
  <2>2. breaker \in BreakerTypes
    BY <2>1 DEF Init, BreakerTypes
  <2>3. child \in ChildTypes
    BY <2>1 DEF Init, ChildTypes
  <2>4. call \in [Calls -> CallTypes]
    BY <2>1 DEF Init, CallTypes
  <2>5. try \in [Calls -> [{0, 1} -> AttemptTypes]]
    BY <2>1 DEF Init, AttemptTypes
  <2>6. first \in BOOLEAN /\ published \subseteq Generations /\ loop \in Calls \cup {None}
        /\ permits \in 0..MaxConc /\ sv = "none"
    BY <2>1 DEF Init
  <2> QED
    BY <2>2, <2>3, <2>4, <2>5, <2>6
       DEF TypeOK, BreakerTypes, ChildTypes, CallTypes, AttemptTypes
<1>2. Lifecycle /\ ProbeIsHalfOpen /\ ProbeOwed
  BY ChildRuntimeAssumption DEF Init, Lifecycle, ProbeIsHalfOpen, ProbeOwed
<1>3. ASSUME NEW c \in Calls PROVE CallOK(c) /\ RouteOK(c)
  BY <1>3 DEF Init, CallOK, RouteOK, at, Try, Early, Routed, Fenced
<1>4. Slots
  <2>1. OpenAttempts = {} /\ Selecting = {}
    BY DEF Init, OpenAttempts, Selecting, Attempts, Open
  <2>2. permits = MaxConc /\ MaxConc \in Nat
    BY ChildRuntimeAssumption DEF Init
  <2>3. /\ IsFiniteSet(OpenAttempts) /\ Cardinality(OpenAttempts) = 0
        /\ IsFiniteSet(Selecting) /\ Cardinality(Selecting) = 0
    BY <2>1, FS_EmptySet
  <2> QED
    BY <2>2, <2>3 DEF Slots, SlotsConserved, OpenAttempts, Selecting
<1> QED
  BY <1>1, <1>2, <1>3, <1>4 DEF IInv

\* Every step keeps the invariant.
LEMMA StepKeeps == IInv /\ [Next]_vars => IInv'
<1> SUFFICES ASSUME IInv, [Next]_vars PROVE IInv'
  OBVIOUS
<1>1. CASE Supervisor
  BY <1>1, SupervisorKeeps
<1>2. CASE \E c \in Calls : Caller(c)
  BY <1>2, CallerKeeps
<1>3. ASSUME NEW c \in Calls, NEW i \in {0, 1}, Inner(c, i) PROVE IInv'
  BY <1>3, TransmitKeeps, FinishKeeps DEF Inner
<1>4. CASE UNCHANGED vars
  BY SMTT(60), <1>4
     DEF vars, IInv, TypeOK, Lifecycle, ProbeIsHalfOpen, CallOK, RouteOK, at, Try,
         Fenced, Slots, SlotsConserved, OpenAttempts, Selecting, Attempts,
         ProbeOwed, Owes
<1> QED
  BY <1>1, <1>2, <1>3, <1>4 DEF Next

\* The invariant holds throughout.
THEOREM InvariantHolds == Spec => []IInv
  BY InitHolds, StepKeeps, PTL DEF Spec

\* Every field of the runtime, of its calls and of their attempts has its type,
\* and the supervisor never counts more restarts than the one past its budget
\* (_supervise).
THEOREM TypeCorrect == Spec => []TypeOK
<1>1. IInv => TypeOK
  BY DEF IInv
<1> QED
  BY <1>1, InvariantHolds, PTL

\* No slot is lost and none is counted twice: free slots, slots of unfinished
\* inner tasks and slots of callers that choose a session add up to
\* max_concurrency, whatever ends the attempts (_acquire_slot, _finish_call).
THEOREM NoSlotIsLost == Spec => []SlotsConserved
<1>1. IInv => SlotsConserved
  BY DEF IInv, Slots
<1> QED
  BY <1>1, InvariantHolds, PTL

\* A request reaches the child a second time only if the caller allowed it and
\* the first transmission ended with the death of the child (call_tool,
\* call_request and their retry loops).
THEOREM NoReplayOfALiveCall == Spec => []ReplayOnlyAfterDeath
<1>1. IInv => ReplayOnlyAfterDeath
  <2> SUFFICES ASSUME IInv, NEW c \in Calls, try[c][0].sent, try[c][1].sent
               PROVE  Shape[c].retry /\ try[c][0].stage \in {"dead", "group"}
    BY DEF ReplayOnlyAfterDeath
  <2>1. CallOK(c) /\ at(c) \in {0, 1}
    BY Typed DEF IInv, at, CallTypes
  <2> QED
    BY <2>1 DEF CallOK
<1> QED
  BY <1>1, InvariantHolds, PTL

\* A marked call is sent on a session of the generation it is marked with
\* (before_send and _GenerationChanged).
THEOREM MarkerIsKept == Spec => []SentOnMarkedGeneration
<1>1. IInv => SentOnMarkedGeneration
  <2> SUFFICES ASSUME IInv, NEW c \in Calls, Shape[c].marked, Try(c).sent
               PROVE  Try(c).session = call[c].marker
    BY DEF SentOnMarkedGeneration
  <2>1. CallOK(c) /\ RouteOK(c) /\ at(c) \in {0, 1}
    BY Typed DEF IInv, at, CallTypes
  <2> QED
    BY <2>1 DEF CallOK, RouteOK, Try
<1> QED
  BY <1>1, InvariantHolds, PTL

\* A fenced request is sent only through a generation whose schemas the
\* multiplexer has refreshed (_run_generation and its observer).
THEOREM RefreshComesFirst == Spec => []SentAfterRefresh
<1>1. IInv => SentAfterRefresh
  <2> SUFFICES ASSUME IInv, NEW c \in Calls, NEW i \in {0, 1}, Fenced(c),
                      try[c][i].sent
               PROVE  try[c][i].session \in published
    BY DEF SentAfterRefresh
  <2> QED
    BY DEF IInv, CallOK, RouteOK
<1> QED
  BY <1>1, InvariantHolds, PTL

\* A probe in flight has an attempt that is to settle it, or was answered with
\* an error of the application (_begin_request, _settle_preflight_failure,
\* _finish_call).
THEOREM NoOrphanProbe == Spec => []ProbeHasOwner
<1>1. IInv => ProbeHasOwner
  <2> SUFFICES ASSUME IInv, breaker.probe
               PROVE  \E c \in Calls, i \in {0, 1} :
                        /\ try[c][i].probe
                        /\ \/ at(c) = i /\ call[c].pc # "done"
                           \/ try[c][i].stage \in Open \cup {"app", "group"}
    BY DEF ProbeHasOwner
  <2>1. PICK c \in Calls, i \in {0, 1} : Owes(c, i)
    BY DEF IInv, ProbeOwed
  <2> QED
    BY <2>1 DEF Owes, Routed
<1> QED
  BY <1>1, InvariantHolds, PTL
=============================================================================
