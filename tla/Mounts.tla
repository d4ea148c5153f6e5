-------------------------------- MODULE Mounts --------------------------------
(***************************************************************************)
(* How the multiplexer (arbora/fleet/multiplexer.py) mounts one server of   *)
(* its catalog, keeps what it publishes of the server's tools current, and  *)
(* probes it.                                                               *)
(*                                                                         *)
(* Requests that mount the server and tasks that probe it interleave at     *)
(* their awaits on the serving loop.  The onboarding service                *)
(* (arbora/fleet/onboarding.py) refreshes the catalog on a thread of its    *)
(* own, so its steps come between any two of theirs, and also where a call  *)
(* looks at the catalog twice without an await: there the call holds the    *)
(* loop ("leading", "registering").  A runtime is seen from outside: it     *)
(* starts, reconnects and closes (see ChildRuntime).                        *)
(*                                                                         *)
(* Left out: what only names or filters tools, and the shutdown of the      *)
(* multiplexer, which comes when nothing is served any more.                *)
(***************************************************************************)
EXTENDS Naturals, FiniteSets

CONSTANTS
  MountCalls,    \* calls of mount_child, each made once
  Probes,        \* probes that can be under way at once
  MaxTools,      \* bound: versions of the server's tool list
  MaxCatalog     \* bound: refreshes of the catalog

ASSUME MountsAssumption ==
  /\ MaxTools \in Nat \ {0} /\ MaxCatalog \in Nat
  /\ "none" \notin MountCalls \cup Probes

VARIABLES
  offered,    \* the version of the tool list that the server has now
  listed,     \* the server is in _catalog
  epoch,      \* _catalog_epoch
  refresh,    \* where the thread in refresh_engine_catalog is
  mount,      \* the calls of mount_child
  runtime,    \* the runtime that a call has made
  child,      \* children[server]: the call that made it, or "none"
  inflight,   \* _mount_inflight[server]: the call that leads, or "none"
  tools,      \* the version that is published, 0 before the first mount
  schemaError,\* server in _child_schema_refresh_errors
  probe,      \* the probes under way
  slot,       \* _probe_inflight[server], or "none"
  cache,      \* _probe_cache[server]
  swapped     \* history: the catalog was swapped under a child, or as it was registered

loopVars == <<mount, runtime, child, inflight, tools, schemaError>>
probeVars == <<probe, slot>>
catalogVars == <<listed, epoch, refresh, swapped>>
mountsVars == <<offered, catalogVars, loopVars, probeVars, cache>>

\* future: the future that followers of the call wait for.
NewCall == [pc |-> "idle", epoch |-> 0, leader |-> "none", future |-> "none"]
NoRuntime == [state |-> "none", tools |-> 0]
NoProbe == [pc |-> "idle", kind |-> "none", tools |-> 0]

\* tools 0 stands for an error; late: listed by a connection of the probe's
\* own, but cached when a child was already mounted.
NoEntry == [there |-> FALSE, tools |-> 0, late |-> FALSE]
CacheEntry(v, late) == [there |-> TRUE, tools |-> v, late |-> late]

MountsInit ==
  /\ offered = 1 /\ listed = TRUE /\ epoch = 0 /\ refresh = "idle"
  /\ mount = [m \in MountCalls |-> NewCall]
  /\ runtime = [m \in MountCalls |-> NoRuntime]
  /\ child = "none" /\ inflight = "none"
  /\ tools = 0 /\ schemaError = FALSE
  /\ probe = [p \in Probes |-> NoProbe] /\ slot = "none"
  /\ cache = NoEntry /\ swapped = FALSE

-----------------------------------------------------------------------------
(* refresh_engine_catalog, on the onboarding thread.                        *)

\* The snapshot was read; nothing of the multiplexer has been looked at.
RefreshReads ==
  /\ refresh = "idle" /\ epoch < MaxCatalog
  /\ refresh' = "read"
  /\ UNCHANGED <<offered, listed, epoch, swapped, loopVars, probeVars, cache>>

\* Refused once a child runs.
RefreshChecks ==
  /\ refresh = "read"
  /\ refresh' = IF child = "none" THEN "checked" ELSE "idle"
  /\ UNCHANGED <<offered, listed, epoch, swapped, loopVars, probeVars, cache>>

\* _catalog = {}: until it is filled again, nothing is in the catalog.
RefreshEmpties ==
  /\ refresh = "checked"
  /\ refresh' = "emptied" /\ listed' = FALSE
  /\ UNCHANGED <<offered, epoch, swapped, loopVars, probeVars, cache>>

\* The snapshot has the server, or it does not.
RefreshFills ==
  /\ refresh = "emptied"
  /\ refresh' = "filled" /\ listed' \in BOOLEAN
  /\ UNCHANGED <<offered, epoch, swapped, loopVars, probeVars, cache>>

RefreshEnds ==
  /\ refresh = "filled"
  /\ refresh' = "idle" /\ epoch' = epoch + 1
  /\ swapped' = (swapped \/ child # "none")
  /\ UNCHANGED <<offered, listed, loopVars, probeVars, cache>>

-----------------------------------------------------------------------------
(* mount_child                                                              *)

Leads(m) ==
  mount[m].pc \in {"leading", "starting", "registering", "closing"}
HoldsLoop(m) == mount[m].pc \in {"leading", "registering"}

\* Already mounted, or not in the catalog: answered at once.
MountAnswered(m) ==
  /\ mount[m].pc = "idle"
  /\ child # "none" \/ ~listed
  /\ mount' = [mount EXCEPT ![m].pc = "returned"]
  /\ UNCHANGED <<offered, catalogVars, runtime, child, inflight, tools, schemaError,
                 probeVars, cache>>

Follow(m) ==
  /\ mount[m].pc = "idle" /\ child = "none" /\ listed
  /\ inflight # "none"
  /\ mount' = [mount EXCEPT ![m].pc = "following", ![m].leader = inflight]
  /\ UNCHANGED <<offered, catalogVars, runtime, child, inflight, tools, schemaError,
                 probeVars, cache>>

\* Mutant: nobody looks for a call that is already mounting the server.
LeadAlways(m) ==
  /\ mount[m].pc = "idle" /\ child = "none" /\ listed
  /\ inflight' = m
  /\ mount' = [mount EXCEPT ![m].pc = "leading", ![m].future = "pending"]
  /\ UNCHANGED <<offered, catalogVars, runtime, child, tools, schemaError, probeVars,
                 cache>>

\* The server was found in the catalog; the call becomes the leader.
Lead(m) ==
  /\ mount[m].pc = "idle" /\ child = "none" /\ listed
  /\ inflight = "none"
  /\ inflight' = m
  /\ mount' = [mount EXCEPT ![m].pc = "leading", ![m].future = "pending"]
  /\ UNCHANGED <<offered, catalogVars, runtime, child, tools, schemaError, probeVars,
                 cache>>

\* _mount_child_first_load and _start_child note the epoch, which may no longer
\* be that of the catalog the server was found in, and start a runtime.
NotesEpoch(m) ==
  /\ mount[m].pc = "leading"
  /\ mount' = [mount EXCEPT ![m].pc = "starting", ![m].epoch = epoch]
  /\ runtime' = [runtime EXCEPT ![m].state = "starting"]
  /\ UNCHANGED <<offered, catalogVars, child, inflight, tools, schemaError, probeVars,
                 cache>>

\* Mutant: a call that failed or was cancelled leaves its future as it is.
LeadEndsUnsettled(m) ==
  /\ inflight' = IF inflight = m THEN "none" ELSE inflight
  /\ mount' = [mount EXCEPT ![m].pc = "returned",
                 ![m].future = IF mount[m].pc = "closing" THEN @ ELSE "settled"]

\* _release_mount_ownership, then the future is given the result, the error or
\* the cancellation.
LeadEnds(m) ==
  /\ inflight' = IF inflight = m THEN "none" ELSE inflight
  /\ mount' = [mount EXCEPT ![m].pc = "returned", ![m].future = "settled"]

\* Mutant: the caches that were filled from the old tools are kept.
ReplaceChildToolsOnly(v) == tools' = v /\ UNCHANGED cache

\* _replace_child_tools with _drop_stale_child_caches: nothing happens when the
\* tools are the published ones.
ReplaceChildTools(v) ==
  IF v = tools THEN UNCHANGED <<tools, cache>> ELSE tools' = v /\ cache' = NoEntry

\* _start_child has its runtime, with the tools it listed, and the epoch is the
\* one that was noted.
Started(m) ==
  /\ mount[m].pc = "starting" /\ mount[m].epoch = epoch
  /\ mount' = [mount EXCEPT ![m].pc = "registering"]
  /\ runtime' = [runtime EXCEPT ![m].tools = offered]
  /\ UNCHANGED <<offered, catalogVars, child, inflight, tools, schemaError,
                 probeVars, cache>>

\* _register_child_result.  A catalog swapped since the epoch was compared goes
\* unnoticed.
Registers(m) ==
  /\ mount[m].pc = "registering"
  /\ runtime' = [runtime EXCEPT ![m].state = "ready"]
  /\ child' = m
  /\ ReplaceChildTools(runtime[m].tools)
  /\ LeadEnds(m)
  /\ swapped' = (swapped \/ mount[m].epoch # epoch)
  /\ UNCHANGED <<offered, listed, epoch, refresh, schemaError, probeVars>>

\* The catalog changed during the handshake: the runtime is closed.
Retires(m) ==
  /\ mount[m].pc = "starting" /\ mount[m].epoch # epoch
  /\ runtime' = [runtime EXCEPT ![m].state = "closing"]
  /\ mount' = [mount EXCEPT ![m].pc = "closing"]
  /\ UNCHANGED <<offered, catalogVars, child, inflight, tools, schemaError,
                 probeVars, cache>>

\* The first connection failed, or the call is cancelled: start() closes the
\* runtime.
Aborts(m) ==
  /\ mount[m].pc = "starting"
  /\ runtime' = [runtime EXCEPT ![m].state = "closing"]
  /\ mount' = [mount EXCEPT ![m].pc = "closing"]
  /\ UNCHANGED <<offered, catalogVars, child, inflight, tools, schemaError,
                 probeVars, cache>>

\* The runtime is closed, or a cancellation ended the wait for that (aclose
\* suppresses it).  Settings that allow no runtime end here as well.
GivesUp(m) ==
  /\ mount[m].pc = "closing"
  /\ LeadEnds(m)
  /\ UNCHANGED <<offered, catalogVars, runtime, child, tools, schemaError,
                 probeVars, cache>>

\* The shared future is settled, or the follower itself is cancelled.
FollowerReturns(m) ==
  /\ mount[m].pc = "following"
  /\ mount' = [mount EXCEPT ![m].pc = "returned", ![m].leader = "none"]
  /\ UNCHANGED <<offered, catalogVars, runtime, child, inflight, tools, schemaError,
                 probeVars, cache>>

-----------------------------------------------------------------------------
(* The life of a runtime, and of the server behind it.                      *)

Closes(m) ==
  /\ runtime[m].state = "closing"
  /\ runtime' = [runtime EXCEPT ![m].state = "closed"]
  /\ UNCHANGED <<offered, catalogVars, mount, child, inflight, tools, schemaError,
                 probeVars, cache>>

\* The connection is lost; the next generation connects and lists the tools.
Reconnects(m) ==
  /\ runtime[m].state = "ready"
  /\ runtime' = [runtime EXCEPT ![m] = [state |-> "refreshing", tools |-> offered]]
  /\ UNCHANGED <<offered, catalogVars, mount, child, inflight, tools, schemaError,
                 probeVars, cache>>

\* _refresh_child_tools: ignored for a runtime of another catalog or one that is
\* not the child; a failure to publish is remembered.
RefreshChildTools(m) ==
  IF mount[m].epoch # epoch \/ child # m
    THEN UNCHANGED <<tools, cache, schemaError>>
    ELSE \/ ReplaceChildTools(runtime[m].tools) /\ schemaError' = FALSE
         \/ schemaError' = TRUE /\ UNCHANGED <<tools, cache>>

\* on_generation, then the generation is ready.
Refreshed(m) ==
  /\ runtime[m].state = "refreshing"
  /\ RefreshChildTools(m)
  /\ runtime' = [runtime EXCEPT ![m].state = "ready"]
  /\ UNCHANGED <<offered, catalogVars, mount, child, inflight, probeVars>>

\* The server is deployed with other tools: seen at the next connection.
ServerChanges ==
  /\ offered < MaxTools
  /\ offered' = offered + 1
  /\ UNCHANGED <<catalogVars, loopVars, probeVars, cache>>

-----------------------------------------------------------------------------
(* probe_server, alone or as a task of probe_catalog                        *)

Running(p) == probe[p].pc \in {"queued", "connecting", "listed", "live"}

\* probe_catalog with _ensure_probing: a probe that is not forced is joined
\* while it runs.  An entry of the cache can expire at any time.
Spawn(p, kind) ==
  /\ probe[p].pc = "idle"
  /\ ~(kind = "shared" /\ slot # "none" /\ Running(slot))
  /\ probe' = [probe EXCEPT ![p] = [pc |-> "queued", kind |-> kind, tools |-> 0]]
  /\ slot' = IF kind = "shared" THEN p ELSE slot
  /\ UNCHANGED <<offered, catalogVars, loopVars, cache>>

\* A probe without a task of its own has nothing to settle.
Ended(p) ==
  IF probe[p].kind = "direct"
    THEN probe' = [probe EXCEPT ![p] = NoProbe]
    ELSE probe' = [probe EXCEPT ![p] = [NoProbe EXCEPT !.pc = "done"]]

\* probe_server up to its first await: a fresh entry, the live session of the
\* mounted child, or a connection of its own.
ProbeBegins(p) ==
  /\ probe[p].pc = "queued"
  /\ \/ cache.there /\ probe[p].kind # "forced" /\ Ended(p) /\ UNCHANGED cache
     \/ child # "none" /\ probe' = [probe EXCEPT ![p].pc = "live"] /\ UNCHANGED cache
     \/ child = "none" /\ listed
          /\ probe' = [probe EXCEPT ![p].pc = "connecting"] /\ UNCHANGED cache
     \/ child = "none" /\ ~listed /\ Ended(p) /\ cache' = CacheEntry(0, FALSE)
  /\ UNCHANGED <<offered, catalogVars, loopVars, slot>>

\* list_tools; resources, prompts and skills are read after it.
ProbeLists(p) ==
  /\ probe[p].pc = "connecting"
  /\ probe' = [probe EXCEPT ![p].pc = "listed", ![p].tools = offered]
  /\ UNCHANGED <<offered, catalogVars, loopVars, slot, cache>>

\* _cache_probe of a probe with its own connection; tools 0 is its failure.
ProbeCaches(p, v) ==
  /\ probe[p].pc \in {"connecting", "listed"}
  /\ v \in {0} \cup (IF probe[p].pc = "listed" THEN {probe[p].tools} ELSE {})
  /\ cache' = CacheEntry(v, child # "none")
  /\ Ended(p)
  /\ UNCHANGED <<offered, catalogVars, loopVars, slot>>

\* _live_child_probe: the tools are read after the awaits.
LiveProbeCaches(p) ==
  /\ probe[p].pc = "live"
  /\ cache' = CacheEntry(tools, FALSE)
  /\ Ended(p)
  /\ UNCHANGED <<offered, catalogVars, loopVars, slot>>

\* The caller of probe_server is cancelled.
ProbeCancelled(p) ==
  /\ Running(p) /\ probe[p].kind = "direct"
  /\ probe' = [probe EXCEPT ![p] = NoProbe]
  /\ UNCHANGED <<offered, catalogVars, loopVars, slot, cache>>

\* Mutant: the slot is given up whoever holds it.
SettlePops(p) ==
  /\ probe[p].pc = "done"
  /\ probe' = [probe EXCEPT ![p] = NoProbe]
  /\ slot' = "none"
  /\ UNCHANGED <<offered, catalogVars, loopVars, cache>>

\* _settle_probe_task, the callback of a task that is done.
Settle(p) ==
  /\ probe[p].pc = "done"
  /\ probe' = [probe EXCEPT ![p] = NoProbe]
  /\ slot' = IF slot = p THEN "none" ELSE slot
  /\ UNCHANGED <<offered, catalogVars, loopVars, cache>>

-----------------------------------------------------------------------------

CatalogSteps ==
  RefreshReads \/ RefreshChecks \/ RefreshEmpties \/ RefreshFills \/ RefreshEnds

MountSteps(m) ==
  \/ MountAnswered(m) \/ Follow(m) \/ Lead(m) \/ Started(m) \/ Retires(m)
  \/ Aborts(m) \/ GivesUp(m) \/ FollowerReturns(m)
  \/ Closes(m) \/ Reconnects(m) \/ Refreshed(m)

ProbeSteps(p) ==
  \/ \E kind \in {"shared", "forced", "direct"} : Spawn(p, kind)
  \/ ProbeBegins(p) \/ ProbeLists(p) \/ \E v \in 0..MaxTools : ProbeCaches(p, v)
  \/ LiveProbeCaches(p) \/ ProbeCancelled(p) \/ Settle(p)

MountsNext ==
  \/ CatalogSteps \/ ServerChanges
  \/ \E m \in MountCalls : NotesEpoch(m) \/ Registers(m)
  \/ /\ \A m \in MountCalls : ~HoldsLoop(m)
     /\ \/ \E m \in MountCalls : MountSteps(m)
        \/ \E p \in Probes : ProbeSteps(p)

MountsSpec == MountsInit /\ [][MountsNext]_mountsVars
-----------------------------------------------------------------------------
(* Properties *)

MountsTypeOK ==
  /\ offered \in 1..MaxTools /\ tools \in 0..MaxTools
  /\ listed \in BOOLEAN /\ schemaError \in BOOLEAN /\ swapped \in BOOLEAN
  /\ epoch \in 0..MaxCatalog
  /\ refresh \in {"idle", "read", "checked", "emptied", "filled"}
  /\ mount \in [MountCalls ->
       [pc : {"idle", "following", "leading", "starting", "registering", "closing",
              "returned"},
        epoch : 0..MaxCatalog, leader : MountCalls \cup {"none"},
        future : {"none", "pending", "settled"}]]
  /\ runtime \in [MountCalls ->
       [state : {"none", "starting", "ready", "refreshing", "closing", "closed"},
        tools : 0..MaxTools]]
  /\ child \in MountCalls \cup {"none"} /\ inflight \in MountCalls \cup {"none"}
  /\ probe \in [Probes ->
       [pc : {"idle", "queued", "connecting", "listed", "live", "done"},
        kind : {"none", "shared", "forced", "direct"}, tools : 0..MaxTools]]
  /\ slot \in Probes \cup {"none"}
  /\ cache \in [there : BOOLEAN, tools : 0..MaxTools, late : BOOLEAN]

Open(m) == runtime[m].state \in {"starting", "ready", "refreshing"}

\* Calls that race to mount a server, fail, are cancelled or outlive their
\* catalog leave one runtime at most, and it is either the mounted child or
\* still being started: mount_child starts no duplicate and loses none.
OneRuntime ==
  /\ Cardinality({m \in MountCalls : Open(m)}) <= 1
  /\ \A m \in MountCalls :
       Open(m) => child = m \/ mount[m].pc \in {"starting", "registering"}

\* Nobody waits for a mount that no call is making: a follower's future is
\* settled or its leader still has to settle it, and a call that comes now
\* joins only a leader that is at work.
FollowersHaveALeader ==
  /\ \A m \in MountCalls :
       mount[m].pc = "following" =>
         LET l == mount[m].leader
         IN mount[l].future = "settled" \/ Leads(l)
  /\ inflight # "none" => Leads(inflight)

\* Overlapping sweeps share one probe: at most one unforced task probes the
\* server, also when forced probes end beside it (_settle_probe_task).
OneSharedProbe ==
  Cardinality({p \in Probes : Running(p) /\ probe[p].kind = "shared"}) <= 1

\* What is published of a mounted child that serves calls is what its present
\* connection listed, unless publishing failed, which refuses its calls; and a
\* cached probe says the same, unless it connected on its own and overlapped
\* the mount.  Both hold unless the catalog was swapped under the child, or between
\* the comparison of the epoch and the registration.
PublishedIsServed ==
  child # "none" /\ ~swapped =>
    /\ runtime[child].state = "ready" /\ ~schemaError =>
         tools = runtime[child].tools
    /\ cache.there /\ ~cache.late => cache.tools = tools
===============================================================================
