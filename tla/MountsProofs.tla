------------------------------ MODULE MountsProofs ------------------------------
(***************************************************************************)
(* Proofs about the multiplexer's mounts and probes, for any number of      *)
(* calls and probes, tool lists and refreshes of the catalog.               *)
(***************************************************************************)
EXTENDS Mounts, FiniteSetTheorems, TLAPS

\* A refresh that was begun is within the bound on refreshes.
RefreshIsCounted == refresh # "idle" => epoch < MaxCatalog

\* _mount_inflight names every call that leads, and while it names one nothing
\* is mounted, or published, yet.  A follower follows a call.
LeaderIsAlone ==
  /\ \A m \in MountCalls : mount[m].pc = "following" => mount[m].leader # "none"
  /\ \A m \in MountCalls : Leads(m) => inflight = m
  /\ inflight # "none" => child = "none"
  /\ child = "none" => tools = 0

\* A runtime that is open is mounted or is being started by its call; one that is
\* about to be registered has listed its tools.
OpenIsOwned ==
  \A m \in MountCalls :
    /\ Open(m) => child = m \/ mount[m].pc \in {"starting", "registering"}
    /\ mount[m].pc = "registering" => runtime[m].tools # 0

\* Until the catalog is swapped under it, the child is one of this catalog.
ChildIsCurrent == child # "none" /\ ~swapped => mount[child].epoch = epoch

\* _probe_inflight names the task that sweeps share for as long as it runs.
SlotHoldsShared ==
  \A p \in Probes : Running(p) /\ probe[p].kind = "shared" => slot = p

IInv ==
  /\ MountsTypeOK /\ RefreshIsCounted
  /\ LeaderIsAlone /\ FollowersHaveALeader /\ OpenIsOwned
  /\ ChildIsCurrent /\ PublishedIsServed
  /\ SlotHoldsShared

CallTypes ==
  [pc : {"idle", "following", "leading", "starting", "registering", "closing",
         "returned"},
   epoch : 0..MaxCatalog, leader : MountCalls \cup {"none"},
   future : {"none", "pending", "settled"}]
RuntimeTypes ==
  [state : {"none", "starting", "ready", "refreshing", "closing", "closed"},
   tools : 0..MaxTools]
ProbeTypes ==
  [pc : {"idle", "queued", "connecting", "listed", "live", "done"},
   kind : {"none", "shared", "forced", "direct"}, tools : 0..MaxTools]
CacheTypes == [there : BOOLEAN, tools : 0..MaxTools, late : BOOLEAN]

\* A set whose elements are all the same has at most one.
LEMMA AtMostOne ==
  ASSUME NEW S, \A x, y \in S : x = y
  PROVE  Cardinality(S) <= 1
<1>1. CASE S = {}
  BY <1>1, FS_EmptySet
<1>2. ASSUME NEW x \in S PROVE Cardinality(S) <= 1
  <2>1. S = {x}
    OBVIOUS
  <2> QED
    BY <2>1, FS_Singleton
<1> QED
  BY <1>1, <1>2

--------------------------------------------------------------------------------
(* refresh_engine_catalog, and a server that changes                          *)

\* A step of the refresh, or of the server, keeps the invariant: the catalog
\* that is swapped under a child is noted.
LEMMA CatalogKeeps ==
  ASSUME IInv, CatalogSteps \/ ServerChanges
  PROVE  IInv'
<1>1. UNCHANGED <<loopVars, probeVars, cache>>
  BY DEF CatalogSteps, RefreshReads, RefreshChecks, RefreshEmpties, RefreshFills,
         RefreshEnds, ServerChanges
<1>2. /\ offered' \in 1..MaxTools /\ listed' \in BOOLEAN /\ swapped' \in BOOLEAN
      /\ epoch' \in 0..MaxCatalog
      /\ refresh' \in {"idle", "read", "checked", "emptied", "filled"}
      /\ RefreshIsCounted'
  <2> USE MountsAssumption DEF IInv, MountsTypeOK, RefreshIsCounted, catalogVars
  <2>1. CASE RefreshReads
    BY <2>1 DEF RefreshReads
  <2>2. CASE RefreshChecks
    BY <2>2 DEF RefreshChecks
  <2>3. CASE RefreshEmpties
    BY <2>3 DEF RefreshEmpties
  <2>4. CASE RefreshFills
    BY <2>4 DEF RefreshFills
  <2>5. CASE RefreshEnds
    BY <2>5 DEF RefreshEnds
  <2>6. CASE ServerChanges
    BY <2>6 DEF ServerChanges
  <2> QED
    BY <2>1, <2>2, <2>3, <2>4, <2>5, <2>6 DEF CatalogSteps
<1>3. child # "none" /\ ~swapped' => ~swapped /\ epoch' = epoch
  BY DEF CatalogSteps, RefreshReads, RefreshChecks, RefreshEmpties, RefreshFills,
         RefreshEnds, ServerChanges, catalogVars, IInv, MountsTypeOK
<1>4. MountsTypeOK'
  BY <1>1, <1>2 DEF IInv, MountsTypeOK, loopVars, probeVars
<1>5. LeaderIsAlone' /\ FollowersHaveALeader' /\ OpenIsOwned' /\ SlotHoldsShared'
  BY <1>1 DEF IInv, LeaderIsAlone, FollowersHaveALeader, OpenIsOwned, SlotHoldsShared,
              loopVars, probeVars, Leads, Open, Running
<1>6. ChildIsCurrent' /\ PublishedIsServed'
  BY <1>1, <1>3 DEF IInv, ChildIsCurrent, PublishedIsServed, loopVars
<1> QED
  BY <1>2, <1>4, <1>5, <1>6 DEF IInv

--------------------------------------------------------------------------------
(* Probes                                                                     *)

\* A probe changes nothing but itself, the slot and the cache.
LEMMA ProbeFrame ==
  ASSUME IInv, NEW p \in Probes,
         UNCHANGED <<offered, catalogVars, loopVars>>,
         probe' \in [Probes -> ProbeTypes], slot' \in Probes \cup {"none"},
         cache' \in CacheTypes,
         child # "none" /\ cache'.there /\ ~cache'.late =>
           cache'.tools = tools \/ cache' = cache,
         SlotHoldsShared'
  PROVE  IInv'
<1>1. MountsTypeOK' /\ RefreshIsCounted'
  BY DEF IInv, MountsTypeOK, RefreshIsCounted, catalogVars, loopVars, ProbeTypes,
         CacheTypes
<1>2. LeaderIsAlone' /\ FollowersHaveALeader' /\ OpenIsOwned' /\ ChildIsCurrent'
  BY DEF IInv, LeaderIsAlone, FollowersHaveALeader, OpenIsOwned, ChildIsCurrent,
         catalogVars, loopVars, Leads, Open
<1>3. PublishedIsServed'
  BY DEF IInv, PublishedIsServed, catalogVars, loopVars
<1> QED
  BY <1>1, <1>2, <1>3 DEF IInv

\* probe_catalog: a shared probe is only spawned when no shared one runs.
LEMMA SpawnKeeps ==
  ASSUME IInv, NEW p \in Probes, NEW kind \in {"shared", "forced", "direct"},
         Spawn(p, kind)
  PROVE  IInv'
<1>1. /\ probe' \in [Probes -> ProbeTypes]
      /\ probe'[p].pc = "queued" /\ probe'[p].kind = kind
      /\ \A q \in Probes : q # p => probe'[q] = probe[q]
  <2> DEFINE new == [pc |-> "queued", kind |-> kind, tools |-> 0]
  <2>1. new \in ProbeTypes /\ new.pc = "queued" /\ new.kind = kind
    BY MountsAssumption DEF ProbeTypes
  <2>2. probe' = [probe EXCEPT ![p] = new]
    BY DEF Spawn
  <2> HIDE DEF new
  <2> QED
    BY <2>1, <2>2 DEF IInv, MountsTypeOK, ProbeTypes
<1>2. SlotHoldsShared'
  <2> SUFFICES ASSUME NEW q \in Probes, Running(q)', probe'[q].kind = "shared"
               PROVE  slot' = q
    BY DEF SlotHoldsShared
  <2>1. CASE q = p
    BY <1>1, <2>1 DEF Spawn
  <2>2. CASE q # p
    <3>1. Running(q) /\ slot = q /\ slot # "none"
      BY <1>1, <2>2, MountsAssumption DEF Running, IInv, SlotHoldsShared
    <3>2. kind # "shared"
      BY <3>1 DEF Spawn
    <3> QED
      BY <3>1, <3>2 DEF Spawn
  <2> QED
    BY <2>1, <2>2
<1>3. cache' = cache /\ cache \in CacheTypes
  BY DEF Spawn, IInv, MountsTypeOK, CacheTypes
<1>4. slot' \in Probes \cup {"none"}
  BY DEF Spawn, IInv, MountsTypeOK
<1> QED
  BY <1>1, <1>2, <1>3, <1>4, ProbeFrame DEF Spawn

\* A probe that goes on keeps its kind or ends, and none starts to run.
LEMMA ProbeGoesOn ==
  ASSUME IInv, NEW p \in Probes, Running(p),
         \/ Ended(p)
         \/ probe' = [probe EXCEPT ![p] = NoProbe]
         \/ probe' = [probe EXCEPT ![p].pc = "live"]
         \/ probe' = [probe EXCEPT ![p].pc = "connecting"]
         \/ probe' = [probe EXCEPT ![p].pc = "listed", ![p].tools = offered],
         slot' = slot
  PROVE  probe' \in [Probes -> ProbeTypes] /\ SlotHoldsShared'
<1>1. NoProbe \in ProbeTypes /\ NoProbe.pc = "idle"
  BY MountsAssumption DEF NoProbe, ProbeTypes
<1>2. probe \in [Probes -> ProbeTypes] /\ offered \in 0..MaxTools
  BY DEF IInv, MountsTypeOK, ProbeTypes
<1>3. /\ [NoProbe EXCEPT !.pc = "done"] \in ProbeTypes
      /\ [NoProbe EXCEPT !.pc = "done"].pc = "done"
  BY MountsAssumption DEF NoProbe, ProbeTypes
<1>4. /\ probe' \in [Probes -> ProbeTypes]
      /\ \A q \in Probes : q # p => probe'[q] = probe[q]
      /\ probe'[p].kind = probe[p].kind \/ probe'[p].pc \in {"idle", "done"}
  <2>1. CASE probe' = [probe EXCEPT ![p] = NoProbe]
    BY <1>1, <1>2, <2>1
  <2>2. CASE probe' = [probe EXCEPT ![p] = [NoProbe EXCEPT !.pc = "done"]]
    BY <1>2, <1>3, <2>2
  <2>3. CASE probe' = [probe EXCEPT ![p].pc = "live"]
    BY <1>2, <2>3 DEF ProbeTypes
  <2>4. CASE probe' = [probe EXCEPT ![p].pc = "connecting"]
    BY <1>2, <2>4 DEF ProbeTypes
  <2>5. CASE probe' = [probe EXCEPT ![p].pc = "listed", ![p].tools = offered]
    BY ZenonT(60), <1>2, <2>5 DEF ProbeTypes
  <2> QED
    BY <2>1, <2>2, <2>3, <2>4, <2>5 DEF Ended
<1> QED
  BY <1>4 DEF SlotHoldsShared, Running, IInv

\* The steps of a probe that runs, and the callback of one that is done.
LEMMA ProbeKeeps ==
  ASSUME IInv, NEW p \in Probes, ProbeSteps(p)
  PROVE  IInv'
<1>1. /\ cache \in CacheTypes /\ tools \in 0..MaxTools /\ slot \in Probes \cup {"none"}
      /\ probe \in [Probes -> ProbeTypes]
  BY DEF IInv, MountsTypeOK, CacheTypes, ProbeTypes
<1>2. \A v \in 0..MaxTools, late \in BOOLEAN :
        /\ CacheEntry(v, late) \in CacheTypes
        /\ CacheEntry(v, late).tools = v /\ CacheEntry(v, late).late = late
  BY DEF CacheEntry, CacheTypes
<1>3. CASE ProbeBegins(p)
  <2>1. Running(p) /\ slot' = slot /\ UNCHANGED <<offered, catalogVars, loopVars>>
    BY <1>3 DEF ProbeBegins, Running
  <2>2. probe' \in [Probes -> ProbeTypes] /\ SlotHoldsShared'
    BY <1>3, <2>1, ProbeGoesOn DEF ProbeBegins
  <2>3. \/ cache' = cache
        \/ child = "none" /\ cache' = CacheEntry(0, FALSE)
    BY <1>3 DEF ProbeBegins
  <2>4. cache' \in CacheTypes
    <3>1. 0 \in 0..MaxTools
      BY MountsAssumption
    <3>2. CacheEntry(0, FALSE) \in CacheTypes
      BY <3>1 DEF CacheEntry, CacheTypes
    <3> QED
      BY <1>1, <2>3, <3>2
  <2> QED
    BY <1>1, <2>1, <2>2, <2>3, <2>4, ProbeFrame
<1>4. CASE ProbeLists(p)
  <2>1. Running(p) /\ slot' = slot /\ UNCHANGED <<offered, catalogVars, loopVars, cache>>
    BY <1>4 DEF ProbeLists, Running
  <2>2. probe' \in [Probes -> ProbeTypes] /\ SlotHoldsShared'
    BY <1>4, <2>1, ProbeGoesOn DEF ProbeLists
  <2> QED
    BY <1>1, <2>1, <2>2, ProbeFrame
<1>5. ASSUME NEW v \in 0..MaxTools, ProbeCaches(p, v) PROVE IInv'
  <2>1. Running(p) /\ slot' = slot /\ UNCHANGED <<offered, catalogVars, loopVars>>
    BY <1>5 DEF ProbeCaches, Running
  <2>2. probe' \in [Probes -> ProbeTypes] /\ SlotHoldsShared'
    BY <1>5, <2>1, ProbeGoesOn DEF ProbeCaches
  <2>3. cache' \in CacheTypes /\ cache'.late = (child # "none")
    BY <1>2, <1>5 DEF ProbeCaches
  <2> QED
    BY <1>1, <2>1, <2>2, <2>3, ProbeFrame
<1>6. CASE LiveProbeCaches(p)
  <2>1. Running(p) /\ slot' = slot /\ UNCHANGED <<offered, catalogVars, loopVars>>
    BY <1>6 DEF LiveProbeCaches, Running
  <2>2. probe' \in [Probes -> ProbeTypes] /\ SlotHoldsShared'
    BY <1>6, <2>1, ProbeGoesOn DEF LiveProbeCaches
  <2>3. cache' \in CacheTypes /\ cache'.tools = tools
    BY <1>1, <1>2, <1>6 DEF LiveProbeCaches
  <2> QED
    BY <1>1, <2>1, <2>2, <2>3, ProbeFrame
<1>7. CASE ProbeCancelled(p)
  <2>1. Running(p) /\ slot' = slot /\ UNCHANGED <<offered, catalogVars, loopVars, cache>>
    BY <1>7 DEF ProbeCancelled
  <2>2. probe' \in [Probes -> ProbeTypes] /\ SlotHoldsShared'
    BY <1>7, <2>1, ProbeGoesOn DEF ProbeCancelled
  <2> QED
    BY <1>1, <2>1, <2>2, ProbeFrame
<1>8. CASE Settle(p)
  <2>1. /\ probe' = [probe EXCEPT ![p] = NoProbe] /\ probe[p].pc = "done"
        /\ slot' = (IF slot = p THEN "none" ELSE slot)
        /\ UNCHANGED <<offered, catalogVars, loopVars, cache>>
    BY <1>8 DEF Settle
  <2>2. NoProbe \in ProbeTypes /\ NoProbe.pc = "idle"
    BY MountsAssumption DEF NoProbe, ProbeTypes
  <2>3. /\ probe' \in [Probes -> ProbeTypes] /\ probe'[p].pc = "idle"
        /\ \A q \in Probes : q # p => probe'[q] = probe[q]
    BY <1>1, <2>1, <2>2
  <2>4. SlotHoldsShared'
    BY <2>1, <2>3 DEF IInv, SlotHoldsShared, Running
  <2>5. slot' \in Probes \cup {"none"}
    BY <1>1, <2>1
  <2> QED
    BY <1>1, <2>1, <2>3, <2>4, <2>5, ProbeFrame
<1> QED
  BY <1>3, <1>4, <1>5, <1>6, <1>7, <1>8, SpawnKeeps DEF ProbeSteps

--------------------------------------------------------------------------------
(* mount_child and the runtimes                                               *)

\* A step of one call, field by field, is all that the invariant of the mounts
\* is about; catalog and probes stand still.
LEMMA MountFrame ==
  ASSUME IInv, UNCHANGED <<offered, listed, epoch, refresh, probeVars>>,
         swapped' \in BOOLEAN,
         mount' \in [MountCalls -> CallTypes],
         runtime' \in [MountCalls -> RuntimeTypes],
         child' \in MountCalls \cup {"none"}, inflight' \in MountCalls \cup {"none"},
         tools' \in 0..MaxTools, schemaError' \in BOOLEAN, cache' \in CacheTypes,
         LeaderIsAlone', FollowersHaveALeader', OpenIsOwned', ChildIsCurrent',
         PublishedIsServed'
  PROVE  IInv'
<1>1. MountsTypeOK'
  BY DEF IInv, MountsTypeOK, probeVars, CallTypes, RuntimeTypes, CacheTypes
<1>2. RefreshIsCounted' /\ SlotHoldsShared'
  BY DEF IInv, RefreshIsCounted, SlotHoldsShared, Running, probeVars
<1> QED
  BY <1>1, <1>2 DEF IInv

\* The same for a step that leaves the history alone as well.
LEMMA CallFrame ==
  ASSUME IInv, UNCHANGED <<offered, catalogVars, probeVars>>,
         mount' \in [MountCalls -> CallTypes],
         runtime' \in [MountCalls -> RuntimeTypes],
         child' \in MountCalls \cup {"none"}, inflight' \in MountCalls \cup {"none"},
         tools' \in 0..MaxTools, schemaError' \in BOOLEAN, cache' \in CacheTypes,
         LeaderIsAlone', FollowersHaveALeader', OpenIsOwned', ChildIsCurrent',
         PublishedIsServed'
  PROVE  IInv'
<1>1. UNCHANGED <<offered, listed, epoch, refresh, probeVars>> /\ swapped' \in BOOLEAN
  BY DEF catalogVars, IInv, MountsTypeOK
<1> QED
  BY <1>1, MountFrame

\* A call that is answered at once, follows, or has followed.
LEMMA FollowerKeeps ==
  ASSUME IInv, NEW m \in MountCalls,
         MountAnswered(m) \/ Follow(m) \/ FollowerReturns(m)
  PROVE  IInv'
<1>1. UNCHANGED <<offered, catalogVars, runtime, child, inflight, tools, schemaError,
                  probeVars, cache>>
  BY DEF MountAnswered, Follow, FollowerReturns
<1>2. ~Leads(m) /\ mount[m].pc \in {"idle", "following"}
  BY DEF MountAnswered, Follow, FollowerReturns, Leads
<1>3. mount \in [MountCalls -> CallTypes] /\ inflight \in MountCalls \cup {"none"}
  BY DEF IInv, MountsTypeOK, CallTypes
<1>4. /\ mount' \in [MountCalls -> CallTypes]
      /\ \A n \in MountCalls : n # m => mount'[n] = mount[n]
      /\ mount'[m].epoch = mount[m].epoch /\ mount'[m].future = mount[m].future
      /\ mount'[m].pc \in {"following", "returned"}
      /\ mount'[m].pc = "following" =>
           mount'[m].leader = inflight /\ inflight # "none"
  <2>1. CASE MountAnswered(m)
    BY <1>3, <2>1 DEF MountAnswered, CallTypes
  <2>2. CASE Follow(m)
    BY <1>3, <2>2 DEF Follow, CallTypes
  <2>3. CASE FollowerReturns(m)
    BY <1>3, <2>3 DEF FollowerReturns, CallTypes
  <2> QED
    BY <2>1, <2>2, <2>3
<1>5. \A n \in MountCalls : Leads(n)' = Leads(n) /\ mount'[n].future = mount[n].future
  BY <1>2, <1>4 DEF Leads
<1>6. LeaderIsAlone'
  BY <1>1, <1>4, <1>5 DEF IInv, LeaderIsAlone
<1>7. FollowersHaveALeader'
  <2>1. \A n \in MountCalls : mount[n].pc = "following" => mount[n].leader \in MountCalls
    BY <1>3 DEF IInv, LeaderIsAlone, CallTypes
  <2> QED
    BY <1>1, <1>3, <1>4, <1>5, <2>1 DEF IInv, FollowersHaveALeader
<1>8. OpenIsOwned'
  BY <1>1, <1>2, <1>4 DEF IInv, OpenIsOwned, Open
<1>9. ChildIsCurrent' /\ PublishedIsServed'
  BY <1>1, <1>3, <1>4 DEF IInv, MountsTypeOK, ChildIsCurrent, PublishedIsServed,
                         catalogVars
<1>10. /\ runtime' \in [MountCalls -> RuntimeTypes] /\ cache' \in CacheTypes
       /\ child' \in MountCalls \cup {"none"} /\ inflight' \in MountCalls \cup {"none"}
       /\ tools' \in 0..MaxTools /\ schemaError' \in BOOLEAN
  BY <1>1 DEF IInv, MountsTypeOK, RuntimeTypes, CacheTypes
<1> QED
  BY <1>1, <1>4, <1>6, <1>7, <1>8, <1>9, <1>10, CallFrame

\* _mount_inflight was empty and nothing mounted: the call leads.
LEMMA LeadKeeps ==
  ASSUME IInv, NEW m \in MountCalls, Lead(m)
  PROVE  IInv'
<1>1. /\ mount[m].pc = "idle" /\ child = "none" /\ inflight = "none" /\ inflight' = m
      /\ UNCHANGED <<offered, catalogVars, child, tools, schemaError, probeVars, cache>>
  BY DEF Lead
<1>2. /\ mount \in [MountCalls -> CallTypes] /\ runtime \in [MountCalls -> RuntimeTypes]
      /\ epoch \in 0..MaxCatalog
  BY DEF IInv, MountsTypeOK, CallTypes, RuntimeTypes
<1>3. /\ mount' \in [MountCalls -> CallTypes] /\ mount'[m].pc = "leading"
      /\ \A n \in MountCalls : n # m => mount'[n] = mount[n]
  BY ZenonT(60), <1>2 DEF Lead, CallTypes
<1>4. runtime' = runtime
  BY DEF Lead
<1>5. \A n \in MountCalls : ~Leads(n) /\ (n # m => ~Leads(n)') /\ Leads(m)'
  BY <1>1, <1>3, MountsAssumption DEF IInv, LeaderIsAlone, Leads
<1>6. LeaderIsAlone'
  BY <1>1, <1>3, <1>5 DEF IInv, LeaderIsAlone
<1>7. FollowersHaveALeader'
  <2>1. \A n \in MountCalls : mount[n].pc = "following" => mount[n].leader \in MountCalls
    BY <1>2 DEF IInv, LeaderIsAlone, CallTypes
  <2> QED
    BY <1>1, <1>3, <1>5, <2>1 DEF IInv, FollowersHaveALeader
<1>8. OpenIsOwned'
  BY <1>1, <1>3, <1>4 DEF IInv, OpenIsOwned, Open
<1>9. ChildIsCurrent' /\ PublishedIsServed'
  BY <1>1 DEF ChildIsCurrent, PublishedIsServed
<1>10. /\ child' \in MountCalls \cup {"none"} /\ inflight' \in MountCalls \cup {"none"}
       /\ tools' \in 0..MaxTools /\ schemaError' \in BOOLEAN /\ cache' \in CacheTypes
  BY <1>1 DEF IInv, MountsTypeOK, CacheTypes
<1> QED
  BY <1>1, <1>2, <1>3, <1>4, <1>6, <1>7, <1>8, <1>9, <1>10, CallFrame

\* The leading call notes the epoch and starts a runtime, or has one to register.
LEMMA StartsKeeps ==
  ASSUME IInv, NEW m \in MountCalls, NotesEpoch(m) \/ Started(m)
  PROVE  IInv'
<1>1. /\ mount[m].pc \in {"leading", "starting"} /\ Leads(m)
      /\ UNCHANGED <<offered, catalogVars, child, inflight, tools, schemaError,
                     probeVars, cache>>
  BY DEF NotesEpoch, Started, Leads
<1>2. /\ mount \in [MountCalls -> CallTypes] /\ runtime \in [MountCalls -> RuntimeTypes]
      /\ epoch \in 0..MaxCatalog /\ offered \in 1..MaxTools
  BY DEF IInv, MountsTypeOK, CallTypes, RuntimeTypes
<1>3. /\ mount' \in [MountCalls -> CallTypes]
      /\ \A n \in MountCalls : n # m => mount'[n] = mount[n]
      /\ mount'[m].future = mount[m].future
      /\ mount'[m].pc \in {"starting", "registering"}
  <2>1. CASE NotesEpoch(m)
    BY ZenonT(60), <1>2, <2>1 DEF NotesEpoch, CallTypes
  <2>2. CASE Started(m)
    BY <1>2, <2>2 DEF Started, CallTypes
  <2> QED
    BY <2>1, <2>2
<1>4. /\ runtime' \in [MountCalls -> RuntimeTypes]
      /\ \A n \in MountCalls : n # m => runtime'[n] = runtime[n]
      /\ mount'[m].pc = "registering" => runtime'[m].tools # 0
  <2>1. CASE NotesEpoch(m)
    BY <1>2, <2>1 DEF NotesEpoch, RuntimeTypes, CallTypes
  <2>2. CASE Started(m)
    BY <1>2, <2>2, MountsAssumption DEF Started, RuntimeTypes
  <2> QED
    BY <2>1, <2>2
<1>5. inflight = m /\ m # "none" /\ child = "none"
  BY <1>1, MountsAssumption DEF IInv, LeaderIsAlone
<1>6. \A n \in MountCalls : Leads(n)' = Leads(n) /\ mount'[n].future = mount[n].future
  BY <1>1, <1>3 DEF Leads
<1>7. LeaderIsAlone'
  BY <1>1, <1>3, <1>6 DEF IInv, LeaderIsAlone
<1>8. FollowersHaveALeader'
  <2>1. \A n \in MountCalls : mount[n].pc = "following" => mount[n].leader \in MountCalls
    BY <1>2 DEF IInv, LeaderIsAlone, CallTypes
  <2> QED
    BY <1>1, <1>3, <1>5, <1>6, <2>1 DEF IInv, FollowersHaveALeader
<1>9. OpenIsOwned'
  BY <1>1, <1>3, <1>4 DEF IInv, OpenIsOwned, Open
<1>10. ChildIsCurrent' /\ PublishedIsServed'
  BY <1>1, <1>5 DEF ChildIsCurrent, PublishedIsServed
<1>11. /\ child' \in MountCalls \cup {"none"} /\ inflight' \in MountCalls \cup {"none"}
       /\ tools' \in 0..MaxTools /\ schemaError' \in BOOLEAN /\ cache' \in CacheTypes
  BY <1>1 DEF IInv, MountsTypeOK, CacheTypes
<1> QED
  BY <1>1, <1>3, <1>4, <1>7, <1>8, <1>9, <1>10, <1>11, CallFrame

\* What it means that a leading call ends: its followers are answered, and
\* nobody leads.
LEMMA LeadEndsMeaning ==
  ASSUME IInv, NEW m \in MountCalls, Leads(m), LeadEnds(m)
  PROVE  /\ mount' \in [MountCalls -> CallTypes] /\ inflight' = "none"
         /\ \A n \in MountCalls : n # m => mount'[n] = mount[n]
         /\ mount'[m].epoch = mount[m].epoch
         /\ \A n \in MountCalls : ~Leads(n)'
         /\ \A n \in MountCalls : mount'[n].pc = "following" => mount'[n].leader # "none"
         /\ FollowersHaveALeader'
<1>1. mount \in [MountCalls -> CallTypes]
  BY DEF IInv, MountsTypeOK, CallTypes
<1>2. inflight = m /\ inflight' = "none"
  BY DEF IInv, LeaderIsAlone, LeadEnds
<1>3. /\ mount' \in [MountCalls -> CallTypes]
      /\ \A n \in MountCalls : n # m => mount'[n] = mount[n]
      /\ mount'[m].epoch = mount[m].epoch
      /\ mount'[m].pc = "returned" /\ mount'[m].future = "settled"
  BY ZenonT(60), <1>1 DEF LeadEnds, CallTypes
<1>4. \A n \in MountCalls : ~Leads(n)'
  BY <1>2, <1>3 DEF IInv, LeaderIsAlone, Leads
<1>5. \A n \in MountCalls : mount'[n].pc = "following" => mount'[n].leader # "none"
  BY <1>3 DEF IInv, LeaderIsAlone
<1>6. FollowersHaveALeader'
  <2>1. \A n \in MountCalls : mount[n].pc = "following" => mount[n].leader \in MountCalls
    BY <1>1 DEF IInv, LeaderIsAlone, CallTypes
  <2>2. \A n \in MountCalls : n # m => ~Leads(n)
    BY <1>2 DEF IInv, LeaderIsAlone
  <2> QED
    BY <1>2, <1>3, <2>1, <2>2 DEF IInv, FollowersHaveALeader
<1> QED
  BY <1>2, <1>3, <1>4, <1>5, <1>6

\* The runtime is mounted, and its tools are the first that are published.
LEMMA RegistersKeeps ==
  ASSUME IInv, NEW m \in MountCalls, Registers(m)
  PROVE  IInv'
<1>1. /\ mount[m].pc = "registering" /\ child' = m
      /\ ReplaceChildTools(runtime[m].tools) /\ LeadEnds(m) /\ Leads(m)
      /\ swapped' = (swapped \/ mount[m].epoch # epoch)
      /\ UNCHANGED <<offered, listed, epoch, refresh, schemaError, probeVars>>
  BY DEF Registers, Leads
<1>2. /\ mount' \in [MountCalls -> CallTypes] /\ inflight' = "none"
      /\ \A n \in MountCalls : n # m => mount'[n] = mount[n]
      /\ mount'[m].epoch = mount[m].epoch
      /\ \A n \in MountCalls : ~Leads(n)'
      /\ \A n \in MountCalls : mount'[n].pc = "following" => mount'[n].leader # "none"
      /\ FollowersHaveALeader'
  BY <1>1, LeadEndsMeaning
<1>3. /\ inflight = m /\ m # "none" /\ child = "none" /\ tools = 0
      /\ \A n \in MountCalls : Leads(n) => n = m
  BY <1>1, MountsAssumption DEF IInv, LeaderIsAlone
<1>4. /\ runtime \in [MountCalls -> RuntimeTypes] /\ runtime[m].tools \in 0..MaxTools
      /\ runtime[m].tools # 0
  BY <1>1 DEF IInv, MountsTypeOK, RuntimeTypes, OpenIsOwned
<1>5. tools' = runtime[m].tools /\ cache' = NoEntry
  BY <1>1, <1>3, <1>4, MountsAssumption DEF ReplaceChildTools
<1>6. /\ runtime' \in [MountCalls -> RuntimeTypes] /\ runtime'[m].tools = runtime[m].tools
      /\ \A n \in MountCalls : n # m => runtime'[n] = runtime[n]
  BY <1>4 DEF Registers, RuntimeTypes
<1>7. NoEntry \in CacheTypes /\ NoEntry.there = FALSE
  BY MountsAssumption DEF NoEntry, CacheTypes
<1>8. LeaderIsAlone'
  BY <1>1, <1>2, <1>3 DEF LeaderIsAlone
<1>9. OpenIsOwned'
  <2>1. \A n \in MountCalls : n # m => ~Open(n)
    BY <1>3, MountsAssumption DEF IInv, OpenIsOwned, Leads
  <2> QED
    BY <1>1, <1>2, <1>6, <2>1 DEF OpenIsOwned, Open, Leads
<1>10. ChildIsCurrent' /\ PublishedIsServed'
  BY <1>1, <1>2, <1>5, <1>6, <1>7 DEF ChildIsCurrent, PublishedIsServed, catalogVars
<1>11. /\ child' \in MountCalls \cup {"none"} /\ inflight' \in MountCalls \cup {"none"}
       /\ tools' \in 0..MaxTools /\ schemaError' \in BOOLEAN /\ cache' \in CacheTypes
  BY <1>1, <1>2, <1>4, <1>5, <1>7 DEF IInv, MountsTypeOK
<1>12. swapped' \in BOOLEAN
  BY <1>1 DEF IInv, MountsTypeOK
<1> QED
  BY <1>1, <1>2, <1>6, <1>8, <1>9, <1>10, <1>11, <1>12, MountFrame

\* The runtime is closed before it was mounted; its call still leads.
LEMMA AbortsKeeps ==
  ASSUME IInv, NEW m \in MountCalls, Aborts(m) \/ Retires(m)
  PROVE  IInv'
<1>1. /\ mount[m].pc = "starting" /\ Leads(m)
      /\ UNCHANGED <<offered, catalogVars, child, inflight, tools, schemaError,
                     probeVars, cache>>
  BY DEF Aborts, Retires, Leads
<1>2. mount \in [MountCalls -> CallTypes] /\ runtime \in [MountCalls -> RuntimeTypes]
  BY DEF IInv, MountsTypeOK, CallTypes, RuntimeTypes
<1>3. /\ mount' \in [MountCalls -> CallTypes]
      /\ \A n \in MountCalls : n # m => mount'[n] = mount[n]
      /\ mount'[m].future = mount[m].future
      /\ mount'[m].pc = "closing"
  BY <1>2 DEF Aborts, Retires, CallTypes
<1>4. /\ runtime' \in [MountCalls -> RuntimeTypes] /\ runtime'[m].state = "closing"
      /\ \A n \in MountCalls : n # m => runtime'[n] = runtime[n]
  BY <1>2 DEF Aborts, Retires, RuntimeTypes
<1>5. inflight = m /\ m # "none" /\ child = "none"
  BY <1>1, MountsAssumption DEF IInv, LeaderIsAlone
<1>6. \A n \in MountCalls : Leads(n)' = Leads(n) /\ mount'[n].future = mount[n].future
  BY <1>1, <1>3 DEF Leads
<1>7. LeaderIsAlone'
  BY <1>1, <1>3, <1>6 DEF IInv, LeaderIsAlone
<1>8. FollowersHaveALeader'
  <2>1. \A n \in MountCalls : mount[n].pc = "following" => mount[n].leader \in MountCalls
    BY <1>2 DEF IInv, LeaderIsAlone, CallTypes
  <2> QED
    BY <1>1, <1>3, <1>5, <1>6, <2>1 DEF IInv, FollowersHaveALeader
<1>9. OpenIsOwned'
  BY <1>1, <1>3, <1>4 DEF IInv, OpenIsOwned, Open
<1>10. ChildIsCurrent' /\ PublishedIsServed'
  BY <1>1, <1>5 DEF ChildIsCurrent, PublishedIsServed
<1>11. /\ child' \in MountCalls \cup {"none"} /\ inflight' \in MountCalls \cup {"none"}
       /\ tools' \in 0..MaxTools /\ schemaError' \in BOOLEAN /\ cache' \in CacheTypes
  BY <1>1 DEF IInv, MountsTypeOK, CacheTypes
<1> QED
  BY <1>1, <1>3, <1>4, <1>7, <1>8, <1>9, <1>10, <1>11, CallFrame

\* The call returns without a child.
LEMMA GivesUpKeeps ==
  ASSUME IInv, NEW m \in MountCalls, GivesUp(m)
  PROVE  IInv'
<1>1. /\ mount[m].pc = "closing" /\ LeadEnds(m) /\ Leads(m)
      /\ UNCHANGED <<offered, catalogVars, runtime, child, tools, schemaError,
                     probeVars, cache>>
  BY DEF GivesUp, Leads
<1>2. /\ mount' \in [MountCalls -> CallTypes] /\ inflight' = "none"
      /\ \A n \in MountCalls : n # m => mount'[n] = mount[n]
      /\ mount'[m].epoch = mount[m].epoch
      /\ \A n \in MountCalls : ~Leads(n)'
      /\ \A n \in MountCalls : mount'[n].pc = "following" => mount'[n].leader # "none"
      /\ FollowersHaveALeader'
  BY <1>1, LeadEndsMeaning
<1>3. LeaderIsAlone'
  BY <1>1, <1>2 DEF IInv, LeaderIsAlone
<1>4. OpenIsOwned'
  BY <1>1, <1>2 DEF IInv, OpenIsOwned, Open, Leads
<1>5. child = "none"
  BY <1>1, MountsAssumption DEF IInv, LeaderIsAlone
<1>6. ChildIsCurrent' /\ PublishedIsServed'
  BY <1>1, <1>5 DEF ChildIsCurrent, PublishedIsServed
<1>7. /\ runtime' \in [MountCalls -> RuntimeTypes] /\ cache' \in CacheTypes
      /\ child' \in MountCalls \cup {"none"} /\ inflight' \in MountCalls \cup {"none"}
      /\ tools' \in 0..MaxTools /\ schemaError' \in BOOLEAN
  BY <1>1, <1>2 DEF IInv, MountsTypeOK, RuntimeTypes, CacheTypes
<1> QED
  BY <1>1, <1>2, <1>3, <1>4, <1>6, <1>7, CallFrame

\* A runtime closes, reconnects, or has its new tools published.
LEMMA RuntimeKeeps ==
  ASSUME IInv, NEW m \in MountCalls, Closes(m) \/ Reconnects(m) \/ Refreshed(m)
  PROVE  IInv'
<1>1. UNCHANGED <<offered, catalogVars, mount, child, inflight, probeVars>>
  BY DEF Closes, Reconnects, Refreshed
<1>2. /\ runtime \in [MountCalls -> RuntimeTypes] /\ offered \in 1..MaxTools
      /\ tools \in 0..MaxTools /\ cache \in CacheTypes /\ schemaError \in BOOLEAN
      /\ child \in MountCalls \cup {"none"}
  BY DEF IInv, MountsTypeOK, RuntimeTypes, CacheTypes
<1>3. /\ runtime' \in [MountCalls -> RuntimeTypes]
      /\ \A n \in MountCalls : n # m => runtime'[n] = runtime[n]
      /\ Open(m)' => Open(m)
      /\ runtime'[m].tools # runtime[m].tools => runtime'[m].tools # 0
  <2>1. CASE Closes(m)
    BY <1>2, <2>1 DEF Closes, RuntimeTypes, Open
  <2>2. CASE Reconnects(m)
    BY <1>2, <2>2 DEF Reconnects, RuntimeTypes, Open
  <2>3. CASE Refreshed(m)
    BY <1>2, <2>3 DEF Refreshed, RuntimeTypes, Open
  <2> QED
    BY <2>1, <2>2, <2>3
<1>4. NoEntry \in CacheTypes /\ NoEntry.there = FALSE
  BY MountsAssumption DEF NoEntry, CacheTypes
<1>5. tools' \in 0..MaxTools /\ cache' \in CacheTypes /\ schemaError' \in BOOLEAN
  <2>1. CASE Closes(m) \/ Reconnects(m)
    BY <1>2, <2>1 DEF Closes, Reconnects
  <2>2. CASE Refreshed(m)
    <3>1. runtime[m].tools \in 0..MaxTools
      BY <1>2 DEF RuntimeTypes
    <3> QED
      BY <1>2, <1>4, <2>2, <3>1 DEF Refreshed, RefreshChildTools, ReplaceChildTools
  <2> QED
    BY <2>1, <2>2
<1>6. child = "none" => UNCHANGED <<tools, cache>>
  BY MountsAssumption DEF Closes, Reconnects, Refreshed, RefreshChildTools
<1>7. LeaderIsAlone' /\ FollowersHaveALeader'
  BY <1>1, <1>6 DEF IInv, LeaderIsAlone, FollowersHaveALeader, Leads
<1>8. OpenIsOwned' /\ ChildIsCurrent'
  BY <1>1, <1>3 DEF IInv, OpenIsOwned, Open, ChildIsCurrent, catalogVars
<1>9. PublishedIsServed'
  <2> SUFFICES ASSUME child # "none", ~swapped, PublishedIsServed
               PROVE  /\ runtime'[child].state = "ready" /\ ~schemaError' =>
                            tools' = runtime'[child].tools
                      /\ cache'.there /\ ~cache'.late => cache'.tools = tools'
    BY <1>1 DEF IInv, PublishedIsServed, catalogVars
  <2>1. CASE Closes(m)
    BY <1>2, <2>1 DEF Closes, PublishedIsServed, RuntimeTypes
  <2>2. CASE Reconnects(m)
    BY <1>2, <2>2 DEF Reconnects, PublishedIsServed, RuntimeTypes
  <2>3. CASE Refreshed(m)
    <3>1. runtime'[child].tools = runtime[child].tools
      BY <1>2, <2>3 DEF Refreshed, RuntimeTypes
    <3>2. CASE child # m
      BY <1>2, <1>3, <2>3, <3>2 DEF Refreshed, RefreshChildTools, PublishedIsServed
    <3>3. CASE child = m
      <4>1. mount[m].epoch = epoch
        BY <3>3 DEF IInv, ChildIsCurrent
      <4>2. /\ ~schemaError' => tools' = runtime[m].tools
            /\ cache' = NoEntry \/ UNCHANGED <<tools, cache>>
        BY <1>2, <2>3, <3>3, <4>1 DEF Refreshed, RefreshChildTools, ReplaceChildTools
      <4> QED
        BY <1>4, <3>1, <3>3, <4>2 DEF PublishedIsServed
    <3> QED
      BY <3>2, <3>3
  <2> QED
    BY <2>1, <2>2, <2>3
<1>10. /\ mount' \in [MountCalls -> CallTypes] /\ inflight' \in MountCalls \cup {"none"}
       /\ child' \in MountCalls \cup {"none"}
  BY <1>1 DEF IInv, MountsTypeOK, CallTypes
<1> QED
  BY <1>1, <1>3, <1>5, <1>7, <1>8, <1>9, <1>10, CallFrame

--------------------------------------------------------------------------------
(* The theorems                                                               *)

\* At first nothing is mounted and nothing is probed.
LEMMA InitHolds == MountsInit => IInv
<1> SUFFICES ASSUME MountsInit PROVE IInv
  OBVIOUS
<1> USE MountsAssumption
<1>1. /\ \A m \in MountCalls : mount[m].pc = "idle" /\ runtime[m].state = "none"
      /\ \A p \in Probes : probe[p].pc = "idle"
  BY DEF MountsInit, NewCall, NoRuntime, NoProbe
<1>2. MountsTypeOK
  <2>1. mount \in [MountCalls -> CallTypes]
    BY DEF MountsInit, NewCall, CallTypes
  <2>2. runtime \in [MountCalls -> RuntimeTypes]
    BY DEF MountsInit, NoRuntime, RuntimeTypes
  <2>3. probe \in [Probes -> ProbeTypes]
    BY DEF MountsInit, NoProbe, ProbeTypes
  <2>4. cache \in CacheTypes
    BY DEF MountsInit, NoEntry, CacheTypes
  <2>5. listed \in BOOLEAN /\ schemaError \in BOOLEAN /\ swapped \in BOOLEAN
    BY Zenon DEF MountsInit
  <2>6. /\ offered \in 1..MaxTools /\ tools \in 0..MaxTools /\ epoch \in 0..MaxCatalog
        /\ refresh \in {"idle", "read", "checked", "emptied", "filled"}
        /\ child \in MountCalls \cup {"none"} /\ inflight \in MountCalls \cup {"none"}
        /\ slot \in Probes \cup {"none"}
    BY DEF MountsInit
  <2> QED
    BY <2>1, <2>2, <2>3, <2>4, <2>5, <2>6
    DEF MountsTypeOK, CallTypes, RuntimeTypes, ProbeTypes, CacheTypes
<1>3. RefreshIsCounted /\ LeaderIsAlone /\ FollowersHaveALeader
  BY <1>1 DEF MountsInit, RefreshIsCounted, LeaderIsAlone, FollowersHaveALeader, Leads
<1>4. OpenIsOwned /\ ChildIsCurrent /\ PublishedIsServed /\ SlotHoldsShared
  BY <1>1 DEF MountsInit, OpenIsOwned, Open, ChildIsCurrent, PublishedIsServed,
              SlotHoldsShared, Running
<1> QED
  BY <1>2, <1>3, <1>4 DEF IInv

\* No step of a call, a probe, the catalog or the server breaks the invariant.
LEMMA StepKeeps == IInv /\ [MountsNext]_mountsVars => IInv'
<1> SUFFICES ASSUME IInv, [MountsNext]_mountsVars PROVE IInv'
  OBVIOUS
<1>1. ASSUME NEW m \in MountCalls, MountSteps(m) PROVE IInv'
  BY <1>1, FollowerKeeps, LeadKeeps, StartsKeeps, AbortsKeeps, GivesUpKeeps,
     RuntimeKeeps
  DEF MountSteps
<1>2. CASE UNCHANGED mountsVars
  BY <1>2
  DEF mountsVars, catalogVars, loopVars, probeVars, IInv, MountsTypeOK,
      RefreshIsCounted, LeaderIsAlone, FollowersHaveALeader, Leads, OpenIsOwned, Open,
      ChildIsCurrent, PublishedIsServed, SlotHoldsShared, Running
<1> QED
  BY <1>1, <1>2, CatalogKeeps, ProbeKeeps, StartsKeeps, RegistersKeeps DEF MountsNext

\* The inductive invariant holds of every mount and probe.
THEOREM InvariantHolds == MountsSpec => []IInv
BY InitHolds, StepKeeps, PTL DEF MountsSpec

\* multiplexer.py: the maps of children, mounts and probes stay well typed.
THEOREM TypeCorrect == MountsSpec => []MountsTypeOK
<1>1. IInv => MountsTypeOK
  BY DEF IInv
<1> QED
  BY <1>1, InvariantHolds, PTL

\* mount_child: however calls race, fail or are cancelled, the server has one
\* runtime at most, and that one is the child or is being started.
THEOREM NoDuplicateRuntime == MountsSpec => []OneRuntime
<1>1. IInv => OneRuntime
  <2> SUFFICES ASSUME IInv PROVE OneRuntime
    OBVIOUS
  <2>1. ASSUME NEW m \in MountCalls, NEW n \in MountCalls, Open(m), Open(n)
        PROVE  m = n
    BY <2>1, MountsAssumption DEF IInv, OpenIsOwned, LeaderIsAlone, Leads
  <2> DEFINE S == {m \in MountCalls : Open(m)}
  <2>2. \A m, n \in S : m = n
    BY <2>1
  <2> HIDE DEF S
  <2>3. Cardinality(S) <= 1
    BY <2>2, AtMostOne
  <2> QED
    BY <2>3 DEF S, IInv, OpenIsOwned, OneRuntime
<1> QED
  BY <1>1, InvariantHolds, PTL

\* mount_child: no call waits for a future that nobody will settle.
THEOREM NoFollowerIsForgotten == MountsSpec => []FollowersHaveALeader
<1>1. IInv => FollowersHaveALeader
  BY DEF IInv
<1> QED
  BY <1>1, InvariantHolds, PTL

\* _settle_probe_task: a forced probe that ends never makes room for a second
\* shared one.
THEOREM ProbesAreShared == MountsSpec => []OneSharedProbe
<1>1. IInv => OneSharedProbe
  <2> SUFFICES ASSUME IInv PROVE OneSharedProbe
    OBVIOUS
  <2> DEFINE S == {p \in Probes : Running(p) /\ probe[p].kind = "shared"}
  <2>1. \A p, q \in S : p = q
    BY DEF IInv, SlotHoldsShared
  <2> HIDE DEF S
  <2>2. Cardinality(S) <= 1
    BY <2>1, AtMostOne
  <2> QED
    BY <2>2 DEF S, OneSharedProbe
<1> QED
  BY <1>1, InvariantHolds, PTL

\* _replace_child_tools and _cache_probe: what is published, and what a probe
\* cached, is what the mounted child serves.
THEOREM PublishedToolsAreServed == MountsSpec => []PublishedIsServed
<1>1. IInv => PublishedIsServed
  BY DEF IInv
<1> QED
  BY <1>1, InvariantHolds, PTL
================================================================================
