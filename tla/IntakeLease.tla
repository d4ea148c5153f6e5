------------------------------ MODULE IntakeLease ------------------------------
(***************************************************************************)
(* Inbound messaging intake: the leases of arbora/messaging/lease.py, the   *)
(* poll loop of polling.py with the listeners of router.py, and the         *)
(* co-service supervisor of arbora/mcp_server/composition.py that runs them.*)
(*                                                                          *)
(* A process runs three things at once: the thread that renews its leases,  *)
(* the task that connects the backends and starts their listeners, and the  *)
(* watcher that drops a listener whose lease was lost.  The leases are work *)
(* items of epistemic-graph (EG).                                           *)
(*                                                                          *)
(* Time passes in ticks of one renewal interval, a third of the lease.      *)
(* Between two ticks every process finishes what it has to do without       *)
(* waiting for a backend (see Prompt): the work of a fraction of a second   *)
(* against an interval of half a minute.                                    *)
(***************************************************************************)
EXTENDS Naturals, FiniteSets

CONSTANTS
  Processes,     \* processes ever started: a restarted one is another one
  Platforms,     \* configured messaging platforms
  Ttl,           \* ticks until an unrenewed lease expires
  EngineFails,   \* calls to EG can fail, before or after they took effect
  SlowConnect,   \* connecting the backends can take longer than a tick
  MaxRestarts,   \* _MAX_RESTARTS
  MaxEpoch       \* bound: how often a platform's lease is claimed

ASSUME IntakeLeaseAssumption ==
  /\ Ttl \in Nat \ {0, 1}
  /\ EngineFails \in BOOLEAN /\ SlowConnect \in BOOLEAN
  /\ MaxRestarts \in Nat /\ MaxEpoch \in Nat
  /\ "none" \notin Processes

VARIABLES
  lease,    \* lease[p]: the work item of platform p
  proc,     \* proc[i]: the co-service of process i
  chan      \* chan[i][p]: what process i knows of and does for platform p

intakeVars == <<lease, proc, chan>>

LeaseTypes == [owner : Processes \cup {"none"}, epoch : 0..MaxEpoch, left : 0..Ttl]

\* stop: the stop event of the co-service; asked: somebody else has set it.
ProcTypes ==
  [pc : {"off", "acquiring", "connecting", "listening", "releasing", "stopped",
         "crashed"},
   stop : BOOLEAN, asked : BOOLEAN, restarts : 0..(MaxRestarts + 1)]

\* todo: not yet claimed; held: the epoch of the claim, or 0; due: to be renewed
\* in this round; lost: the platform's stop event; dropped: the watcher has
\* seen it; listening: a listener task of the router is polling.
ChanTypes ==
  [todo : BOOLEAN, held : 0..MaxEpoch, due : BOOLEAN, lost : BOOLEAN,
   dropped : BOOLEAN, listening : BOOLEAN]

IntakeTypeOK ==
  /\ lease \in [Platforms -> LeaseTypes]
  /\ proc \in [Processes -> ProcTypes]
  /\ chan \in [Processes -> [Platforms -> ChanTypes]]

Idle == [todo |-> FALSE, held |-> 0, due |-> FALSE, lost |-> FALSE,
         dropped |-> FALSE, listening |-> FALSE]

IntakeInit ==
  /\ lease = [p \in Platforms |-> [owner |-> "none", epoch |-> 0, left |-> 0]]
  /\ proc = [i \in Processes |->
               [pc |-> "off", stop |-> FALSE, asked |-> FALSE, restarts |-> 0]]
  /\ chan = [i \in Processes |-> [p \in Platforms |-> Idle]]

-----------------------------------------------------------------------------
(* EG's answers to claim, renew and defer.                                  *)

Claimed(i, p) ==
  [owner |-> i, epoch |-> lease[p].epoch + 1, left |-> Ttl]

CanClaim(p) == lease[p].left = 0 /\ lease[p].epoch < MaxEpoch

\* The fence of renew and defer: worker, lease epoch and fencing token.
Owns(i, p) ==
  /\ lease[p].left > 0
  /\ lease[p].owner = i
  /\ lease[p].epoch = chan[i][p].held

-----------------------------------------------------------------------------
(* acquire_intake_leases                                                    *)

Acquiring == [p \in Platforms |-> [Idle EXCEPT !.todo = TRUE]]

\* start_service, and the first turn of _run_supervised.
StartService(i) ==
  /\ proc[i].pc = "off"
  /\ proc' = [proc EXCEPT ![i].pc = "acquiring"]
  /\ chan' = [chan EXCEPT ![i] = Acquiring]
  /\ UNCHANGED lease

\* Mutant: whether the answer says that the item was claimed is not looked at.
AcquireLeaseAnyway(i, p) ==
  /\ proc[i].pc = "acquiring" /\ chan[i][p].todo
  /\ lease' = [lease EXCEPT ![p] = IF CanClaim(p) THEN Claimed(i, p) ELSE @]
  /\ chan' = [chan EXCEPT ![i][p].todo = FALSE,
                          ![i][p].held = lease'[p].epoch]
  /\ UNCHANGED proc

AcquireLease(i, p) ==
  /\ proc[i].pc = "acquiring" /\ chan[i][p].todo
  /\ CanClaim(p)
  /\ lease' = [lease EXCEPT ![p] = Claimed(i, p)]
  /\ chan' = [chan EXCEPT ![i][p].todo = FALSE,
                          ![i][p].held = lease'[p].epoch]
  /\ UNCHANGED proc

\* Another owner holds the lease, or the claim or its answer was lost.
NotAcquired(i, p) ==
  /\ proc[i].pc = "acquiring" /\ chan[i][p].todo
  /\ \/ ~CanClaim(p) /\ UNCHANGED lease
     \/ EngineFails /\ UNCHANGED lease
     \/ EngineFails /\ CanClaim(p) /\ lease' = [lease EXCEPT ![p] = Claimed(i, p)]
  /\ chan' = [chan EXCEPT ![i][p].todo = FALSE]
  /\ UNCHANGED proc

\* run_owned_intake: without any lease the service stops itself.
Acquired(i) ==
  /\ proc[i].pc = "acquiring"
  /\ \A p \in Platforms : ~chan[i][p].todo
  /\ IF \E p \in Platforms : chan[i][p].held > 0
       THEN proc' = [proc EXCEPT ![i].pc = "connecting"]
       ELSE proc' = [proc EXCEPT ![i].pc = "stopped", ![i].stop = TRUE]
  /\ UNCHANGED <<lease, chan>>

-----------------------------------------------------------------------------
(* The renewal thread.                                                      *)

StillLeased(i) == {p \in Platforms : chan[i][p].held > 0 /\ ~chan[i][p].lost}

Renew(i, p) ==
  /\ chan[i][p].due
  /\ Owns(i, p)
  /\ lease' = [lease EXCEPT ![p].left = Ttl]
  /\ chan' = [chan EXCEPT ![i][p].due = FALSE]
  /\ UNCHANGED proc

\* Mutant: what is still leased is looked up before the loss is marked.
HandleLeaseLossLate(i, p) ==
  /\ chan' = [chan EXCEPT ![i][p].due = FALSE, ![i][p].lost = TRUE]
  /\ proc' = [proc EXCEPT ![i].stop = @ \/ StillLeased(i) = {}]

\* _handle_lease_loss
HandleLeaseLoss(i, p) ==
  /\ chan' = [chan EXCEPT ![i][p].due = FALSE, ![i][p].lost = TRUE]
  /\ proc' = [proc EXCEPT ![i].stop = @ \/ StillLeased(i) \subseteq {p}]

\* The renewal was refused, or it or its answer was lost.
RenewFails(i, p) ==
  /\ chan[i][p].due
  /\ \/ ~Owns(i, p) /\ UNCHANGED lease
     \/ EngineFails /\ UNCHANGED lease
     \/ EngineFails /\ Owns(i, p) /\ lease' = [lease EXCEPT ![p].left = Ttl]
  /\ HandleLeaseLoss(i, p)

-----------------------------------------------------------------------------
(* run_poll_loop                                                            *)

\* _serve: the backends in S have connected and the router starts their
\* listeners.  The others failed, or _serve itself did.
StartRouter(i, S) ==
  /\ proc[i].pc = "connecting" /\ ~proc[i].stop
  /\ S \subseteq {p \in Platforms : chan[i][p].held > 0}
  /\ proc' = [proc EXCEPT ![i].pc = "listening"]
  /\ chan' = [chan EXCEPT ![i] =
                [p \in Platforms |-> [chan[i][p] EXCEPT !.listening = p \in S]]]
  /\ UNCHANGED lease

\* Mutant: the watcher does not find the listener task by its name.
WatchIntakeMarks(i, p) ==
  /\ proc[i].pc \in {"connecting", "listening"} /\ ~proc[i].stop
  /\ chan[i][p].lost /\ ~chan[i][p].dropped
  /\ chan' = [chan EXCEPT ![i][p].dropped = TRUE]
  /\ UNCHANGED <<lease, proc>>

\* _watch_intake and _drop_platform.
WatchIntake(i, p) ==
  /\ proc[i].pc \in {"connecting", "listening"} /\ ~proc[i].stop
  /\ chan[i][p].lost /\ ~chan[i][p].dropped
  /\ chan' = [chan EXCEPT ![i][p].dropped = TRUE, ![i][p].listening = FALSE]
  /\ UNCHANGED <<lease, proc>>

\* The backend turns out to be unable to listen: its supervisor gives up.
ListenerGivesUp(i, p) ==
  /\ chan[i][p].listening
  /\ chan' = [chan EXCEPT ![i][p].listening = FALSE]
  /\ UNCHANGED <<lease, proc>>

\* Serving has ended: the renewal thread is stopped and joined as well.
Quiet(i) == [p \in Platforms |-> [chan[i][p] EXCEPT !.listening = FALSE,
                                                    !.due = FALSE]]

\* The stop event is set.
StopServing(i) ==
  /\ proc[i].pc \in {"connecting", "listening"} /\ proc[i].stop
  /\ proc' = [proc EXCEPT ![i].pc = "releasing"]
  /\ chan' = [chan EXCEPT ![i] = Quiet(i)]
  /\ UNCHANGED lease

\* run_poll_loop raises before it serves.
ServeRaises(i) ==
  /\ proc[i].pc = "connecting"
  /\ proc' = [proc EXCEPT ![i].pc = "releasing"]
  /\ chan' = [chan EXCEPT ![i] = Quiet(i)]
  /\ UNCHANGED lease

-----------------------------------------------------------------------------
(* Release, restart, shutdown.                                              *)

\* _release_intake_lease: also for a lease that was lost before.
Release(i, p) ==
  /\ proc[i].pc = "releasing" /\ chan[i][p].held > 0
  /\ lease' = IF Owns(i, p)
                THEN [lease EXCEPT ![p].owner = "none", ![p].left = 0]
                ELSE lease
  /\ chan' = [chan EXCEPT ![i][p].held = 0]
  /\ UNCHANGED proc

\* The release failed: the lease is left to expire.
ReleaseFails(i, p) ==
  /\ EngineFails
  /\ proc[i].pc = "releasing" /\ chan[i][p].held > 0
  /\ chan' = [chan EXCEPT ![i][p].held = 0]
  /\ UNCHANGED <<lease, proc>>

\* _run_supervised: a stopped service ends, a failed one starts again unless
\* it has failed too often in the restart window.
Supervise(i) ==
  /\ proc[i].pc = "releasing"
  /\ \A p \in Platforms : chan[i][p].held = 0
  /\ IF proc[i].stop
       THEN /\ proc' = [proc EXCEPT ![i].pc = "stopped"]
            /\ UNCHANGED chan
       ELSE \E n \in 1..(proc[i].restarts + 1) :
              IF n > MaxRestarts
                THEN /\ proc' = [proc EXCEPT ![i].pc = "stopped",
                                             ![i].restarts = n]
                     /\ UNCHANGED chan
                ELSE /\ proc' = [proc EXCEPT ![i].pc = "acquiring",
                                             ![i].restarts = n]
                     /\ chan' = [chan EXCEPT ![i] = Acquiring]
  /\ UNCHANGED lease

Alive(i) == proc[i].pc \notin {"off", "crashed"}

\* stop_service, stop_all
AskStop(i) ==
  /\ Alive(i) /\ ~proc[i].asked
  /\ proc' = [proc EXCEPT ![i].stop = TRUE, ![i].asked = TRUE]
  /\ UNCHANGED <<lease, chan>>

Crash(i) ==
  /\ Alive(i)
  /\ proc' = [proc EXCEPT ![i].pc = "crashed"]
  /\ chan' = [chan EXCEPT ![i] = [p \in Platforms |-> Idle]]
  /\ UNCHANGED lease

-----------------------------------------------------------------------------
(* Time.                                                                    *)

Serving(i) == proc[i].pc \in {"connecting", "listening"}

\* What process i finishes within a tick: its calls to EG, the watcher's round
\* of a quarter of a second, the end of its listeners, and the connections
\* unless they are slow.
Prompt(i) ==
  /\ proc[i].pc \notin {"acquiring", "releasing"}
  /\ ~SlowConnect => proc[i].pc # "connecting"
  /\ Serving(i) =>
       /\ ~proc[i].stop
       /\ \A p \in Platforms :
            ~chan[i][p].due /\ (chan[i][p].lost => chan[i][p].dropped)

\* One renewal interval: the renewal threads start a round.
Tick ==
  /\ \A i \in Processes : Prompt(i)
  /\ \E p \in Platforms : lease[p].left > 0
  /\ lease' = [p \in Platforms |->
                 [lease[p] EXCEPT !.left = IF @ = 0 THEN 0 ELSE @ - 1]]
  /\ chan' = [i \in Processes |->
                [p \in Platforms |->
                   [chan[i][p] EXCEPT
                      !.due = Serving(i) /\ p \in StillLeased(i)]]]
  /\ UNCHANGED proc

Intake(i, p) ==
  \/ AcquireLease(i, p) \/ NotAcquired(i, p) \/ Renew(i, p) \/ RenewFails(i, p)
  \/ WatchIntake(i, p) \/ Release(i, p) \/ ReleaseFails(i, p)

Service(i) ==
  \/ StartService(i) \/ Acquired(i) \/ StopServing(i) \/ ServeRaises(i)
  \/ Supervise(i) \/ \E S \in SUBSET Platforms : StartRouter(i, S)

IntakeNext ==
  \/ Tick
  \/ \E i \in Processes :
       \/ Service(i) \/ AskStop(i) \/ Crash(i)
       \/ \E p \in Platforms : Intake(i, p) \/ ListenerGivesUp(i, p)

IntakeSpec == IntakeInit /\ [][IntakeNext]_intakeVars

\* Threads and tasks are scheduled, and time goes on.  Nothing makes a process
\* start, stop, crash or give up listening.
IntakeFair ==
  /\ WF_intakeVars(Tick)
  /\ \A i \in Processes :
       /\ WF_intakeVars(Acquired(i) \/ StopServing(i) \/ Supervise(i)
                    \/ \E S \in SUBSET Platforms : StartRouter(i, S))
       /\ \A p \in Platforms : WF_intakeVars(Intake(i, p))

IntakeFairSpec == IntakeSpec /\ IntakeFair

-----------------------------------------------------------------------------

\* A platform is polled by one process at a time, through crashes, lost leases,
\* failed calls to EG, late releases by former owners and restarts: the single
\* owner that lease.py promises.
OnePoller ==
  \A p \in Platforms :
    Cardinality({i \in Processes : chan[i][p].listening}) <= 1

\* The leases as SoleOwner sees them: an expired lease is nobody's.
Sole == INSTANCE SoleOwner WITH
  Owners <- Processes, Posts <- Platforms, Nobody <- "none",
  owner <- [p \in Platforms |-> IF lease[p].left > 0 THEN lease[p].owner ELSE "none"],
  pollers <- [p \in Platforms |-> {i \in Processes : chan[i][p].listening}],
  term <- [p \in Platforms |-> lease[p].epoch]

\* Single-owner leases (lease.py): EG never ends a lease, nor grants the platform
\* to another process, while a listener of its owner still polls, and whoever
\* starts to poll owns the lease at that moment.
ImplementsSoleOwner == Sole!SoleSpec

\* What is lost is given up: a process that lost a platform's lease stops
\* polling that platform, and one that lost its last lease ends its intake.
LossEndsPolling ==
  \A i \in Processes :
    /\ Serving(i) /\ StillLeased(i) = {} ~> ~Serving(i)
    /\ \A p \in Platforms :
         Serving(i) /\ chan[i][p].lost ~> ~chan[i][p].listening

\* lease.py says that "losing a lease must stop that platform's polling": once
\* the watcher has handled the loss, the platform has no listener.
LossStopsPolling ==
  \A i \in Processes, p \in Platforms :
    chan[i][p].dropped => ~chan[i][p].listening

\* lease.py says that the lease is short "to make a crashed poller fail over in
\* bounded time": while a started process is neither crashed nor asked to stop
\* nor out of restarts, some process keeps coming to hold each lease.
FailsOver ==
  (\E i \in Processes :
     <>[](Alive(i) /\ ~proc[i].asked /\ proc[i].restarts <= MaxRestarts)) =>
       \A p \in Platforms : []<>(lease[p].left > 0)
================================================================================
