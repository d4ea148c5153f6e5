---------------------------- MODULE MessagingProofs ----------------------------
(***************************************************************************)
(* Proofs about the messaging components, which share no state: the intake  *)
(* leases for any number of processes and platforms and any TTL, the path   *)
(* of a message for any channels, backends, calls, windows and number of    *)
(* messages, and the durable inbox for any messages, attempts, deliveries   *)
(* and scan limits.                                                         *)
(***************************************************************************)
EXTENDS IntakeLease, Turns, Inbox, FiniteSetTheorems, TLAPS

\* A set without two elements has at most one.
LEMMA AtMostOne ==
  ASSUME NEW S, \A x, y \in S : x = y
  PROVE  Cardinality(S) <= 1
<1>1. CASE S = {}
  BY <1>1, FS_EmptySet
<1>2. CASE S # {}
  <2>1. PICK x \in S : TRUE
    BY <1>2
  <2>2. S = {x}
    BY <2>1
  <2> QED
    BY <2>2, FS_Singleton
<1> QED
  BY <1>1, <1>2

--------------------------------------------------------------------------------
(* Intake leases                                                              *)

\* From its claim until the watcher has dropped it, the process owns the lease;
\* the lease is as long as it gets unless its renewal is due or has failed, and
\* then it is one tick shorter.
KeepsLease(i, p) ==
  /\ lease[p].owner = i /\ lease[p].epoch = chan[i][p].held
  /\ lease[p].left >= Ttl - 1
  /\ ~chan[i][p].due /\ ~chan[i][p].lost => lease[p].left = Ttl

\* Before it listens a process has had no renewal; it listens on leases that
\* it claimed and has not dropped.
ChannelOK(i, p) ==
  /\ proc[i].pc \in {"acquiring", "connecting"} =>
       ~chan[i][p].due /\ ~chan[i][p].lost /\ ~chan[i][p].dropped
  /\ chan[i][p].due => proc[i].pc = "listening"
  /\ chan[i][p].listening =>
       proc[i].pc = "listening" /\ chan[i][p].held > 0 /\ ~chan[i][p].dropped
  /\ /\ proc[i].pc \in {"acquiring", "connecting", "listening"}
     /\ chan[i][p].held > 0 /\ ~chan[i][p].dropped
     => KeepsLease(i, p)

\* A service that has used up its restarts does not run again.
WithinBudget(i) == proc[i].restarts <= MaxRestarts \/ proc[i].pc \in {"stopped", "crashed"}

IntakeInv ==
  /\ IntakeTypeOK /\ \A i \in Processes : WithinBudget(i)
  /\ \A i \in Processes, p \in Platforms : ChannelOK(i, p)

\* The types of the records, with the ranges of their numbers left alone.
Epochs   == 0..MaxEpoch
Lefts    == 0..Ttl
Restarts == 0..(MaxRestarts + 1)
LeaseFields == [owner : Processes \cup {"none"}, epoch : Epochs, left : Lefts]
ProcFields ==
  [pc : {"off", "acquiring", "connecting", "listening", "releasing", "stopped",
         "crashed"},
   stop : BOOLEAN, asked : BOOLEAN, restarts : Restarts]
ChanFields ==
  [todo : BOOLEAN, held : Epochs, due : BOOLEAN, lost : BOOLEAN,
   dropped : BOOLEAN, listening : BOOLEAN]

\* They are the types of the module.
LEMMA Ranges ==
  /\ LeaseTypes = LeaseFields /\ ProcTypes = ProcFields /\ ChanTypes = ChanFields
  /\ 0 \in Epochs /\ 0 \in Lefts /\ Ttl \in Lefts /\ 0 \in Restarts
  BY IntakeLeaseAssumption
     DEF LeaseTypes, ProcTypes, ChanTypes, LeaseFields, ProcFields, ChanFields,
         Epochs, Lefts, Restarts

\* What process i may do with platform p: others, and other platforms, are as
\* they were, and nobody is bereft of a lease.
LEMMA ChannelStep ==
  ASSUME IntakeInv, IntakeTypeOK', NEW i \in Processes, NEW p \in Platforms,
         ChannelOK(i, p)', proc'[i].pc = proc[i].pc, proc'[i].restarts = proc[i].restarts,
         \A j \in Processes \ {i} : proc'[j] = proc[j] /\ chan'[j] = chan[j],
         \A q \in Platforms \ {p} : chan'[i][q] = chan[i][q] /\ lease'[q] = lease[q],
         lease'[p] = lease[p] \/ lease[p].left = 0 \/ lease[p].owner = i
  PROVE  IntakeInv'
<1>0. \A j \in Processes : WithinBudget(j)'
  BY DEF IntakeInv, WithinBudget
<1> SUFFICES ASSUME NEW j \in Processes, NEW q \in Platforms PROVE ChannelOK(j, q)'
  BY <1>0 DEF IntakeInv
<1>1. ChannelOK(j, q) /\ Ttl - 1 > 0 /\ Ttl \in Nat
  BY IntakeLeaseAssumption DEF IntakeInv
<1>2. lease[q].left \in Nat
  BY DEF IntakeInv, IntakeTypeOK, LeaseTypes
<1>3. CASE j = i /\ q = p
  BY <1>3
<1>4. CASE j = i /\ q # p
  BY <1>1, <1>4 DEF ChannelOK, KeepsLease
<1>5. CASE j # i
  <2>1. proc'[j] = proc[j] /\ chan'[j] = chan[j]
    BY <1>5
  <2>2. KeepsLease(j, q) => lease'[q] = lease[q]
    BY <1>1, <1>2, <1>5 DEF KeepsLease
  <2>3. KeepsLease(j, q) => KeepsLease(j, q)'
    BY <2>1, <2>2 DEF KeepsLease
  <2> QED
    BY <1>1, <2>1, <2>3 DEF ChannelOK
<1> QED
  BY <1>3, <1>4, <1>5

\* claim_specific in the claim loop.
LEMMA AcquireKeeps ==
  ASSUME IntakeInv, NEW i \in Processes, NEW p \in Platforms,
         AcquireLease(i, p) \/ NotAcquired(i, p)
  PROVE  IntakeInv'
<1>1. /\ proc' = proc /\ proc[i].pc = "acquiring" /\ ChannelOK(i, p)
      /\ lease \in [Platforms -> LeaseTypes] /\ chan[i][p] \in ChanTypes
      /\ chan \in [Processes -> [Platforms -> ChanTypes]]
      /\ proc \in [Processes -> ProcTypes]
  BY DEF IntakeInv, IntakeTypeOK, AcquireLease, NotAcquired
<1>2. CanClaim(p) => lease[p].left = 0 /\ Claimed(i, p) \in LeaseTypes
  BY <1>1, IntakeLeaseAssumption DEF CanClaim, Claimed, LeaseTypes
<1>3. CASE AcquireLease(i, p)
  <2> DEFINE l == Claimed(i, p)
  <2>1. /\ l \in LeaseTypes /\ lease[p].left = 0
        /\ l.owner = i /\ l.left = Ttl /\ l.epoch \in 0..MaxEpoch
    BY <1>2, <1>3 DEF AcquireLease, Claimed, LeaseTypes
  <2>2. lease' = [lease EXCEPT ![p] = l]
    BY <1>3 DEF AcquireLease
  <2> HIDE DEF l
  <2>3. lease'[p] = l
    BY <1>1, <2>2
  <2>4. chan' = [chan EXCEPT ![i][p].todo = FALSE, ![i][p].held = l.epoch]
    BY <1>3, <2>3 DEF AcquireLease
  <2>5. /\ chan' \in [Processes -> [Platforms -> ChanTypes]]
        /\ chan'[i][p].held = l.epoch /\ chan'[i][p].due = chan[i][p].due
        /\ chan'[i][p].lost = chan[i][p].lost /\ chan'[i][p].dropped = chan[i][p].dropped
        /\ chan'[i][p].listening = chan[i][p].listening
        /\ \A j \in Processes \ {i} : chan'[j] = chan[j]
        /\ \A q \in Platforms \ {p} : chan'[i][q] = chan[i][q]
    BY <1>1, <2>1, <2>4 DEF ChanTypes
  <2>6. IntakeTypeOK'
    BY <1>1, <2>1, <2>2, <2>5 DEF IntakeTypeOK
  <2>7. ChannelOK(i, p)'
    BY <1>1, <2>1, <2>3, <2>5, IntakeLeaseAssumption DEF ChannelOK, KeepsLease
  <2>8. \A q \in Platforms \ {p} : lease'[q] = lease[q]
    BY <1>1, <2>2
  <2> QED
    BY <1>1, <2>1, <2>5, <2>6, <2>7, <2>8, ChannelStep
<1>4. CASE NotAcquired(i, p)
  <2>1. /\ lease' \in [Platforms -> LeaseTypes]
        /\ \A q \in Platforms \ {p} : lease'[q] = lease[q]
        /\ lease' = lease \/ lease[p].left = 0
    BY <1>1, <1>2, <1>4 DEF NotAcquired
  <2>2. chan' = [chan EXCEPT ![i][p].todo = FALSE]
    BY <1>4 DEF NotAcquired
  <2>3. /\ chan' \in [Processes -> [Platforms -> ChanTypes]]
        /\ chan'[i][p].held = chan[i][p].held /\ chan'[i][p].due = chan[i][p].due
        /\ chan'[i][p].lost = chan[i][p].lost /\ chan'[i][p].dropped = chan[i][p].dropped
        /\ chan'[i][p].listening = chan[i][p].listening
        /\ \A j \in Processes \ {i} : chan'[j] = chan[j]
        /\ \A q \in Platforms \ {p} : chan'[i][q] = chan[i][q]
    BY <1>1, <2>2 DEF ChanTypes
  <2>4. IntakeTypeOK'
    BY <1>1, <2>1, <2>3 DEF IntakeTypeOK
  <2>5. KeepsLease(i, p) => lease' = lease
    BY <1>1, <2>1, IntakeLeaseAssumption DEF KeepsLease, LeaseTypes
  <2>6. ChannelOK(i, p)'
    BY <1>1, <2>3, <2>5 DEF ChannelOK, KeepsLease
  <2> QED
    BY <1>1, <2>1, <2>3, <2>4, <2>6, ChannelStep
<1> QED
  BY <1>3, <1>4

\* The renewal thread, the watcher, the listener and the release.
LEMMA ChannelKeeps ==
  ASSUME IntakeInv, NEW i \in Processes, NEW p \in Platforms,
         \/ Renew(i, p) \/ RenewFails(i, p) \/ WatchIntake(i, p)
         \/ Release(i, p) \/ ReleaseFails(i, p) \/ ListenerGivesUp(i, p)
  PROVE  IntakeInv'
<1>1. /\ lease \in [Platforms -> LeaseTypes] /\ chan[i][p] \in ChanTypes
      /\ chan \in [Processes -> [Platforms -> ChanTypes]] /\ ChannelOK(i, p)
      /\ proc \in [Processes -> ProcTypes] /\ Ttl \in Nat
  BY IntakeLeaseAssumption DEF IntakeInv, IntakeTypeOK
<1>2. CASE Renew(i, p)
  <2>1. /\ chan' \in [Processes -> [Platforms -> ChanTypes]]
        /\ chan'[i][p].held = chan[i][p].held /\ ~chan'[i][p].due
        /\ chan'[i][p].lost = chan[i][p].lost /\ chan'[i][p].dropped = chan[i][p].dropped
        /\ chan'[i][p].listening = chan[i][p].listening
        /\ \A j \in Processes \ {i} : chan'[j] = chan[j]
        /\ \A q \in Platforms \ {p} : chan'[i][q] = chan[i][q]
    BY <1>1, <1>2 DEF Renew, ChanTypes
  <2>2. /\ lease' \in [Platforms -> LeaseTypes] /\ lease'[p].left = Ttl
        /\ lease'[p].owner = i /\ lease'[p].epoch = chan[i][p].held
        /\ lease[p].owner = i
        /\ \A q \in Platforms \ {p} : lease'[q] = lease[q]
    BY <1>1, <1>2, Ranges DEF Renew, Owns, LeaseFields
  <2>3. proc' = proc /\ IntakeTypeOK'
    BY <1>1, <1>2, <2>1, <2>2 DEF Renew, IntakeTypeOK
  <2>4. ChannelOK(i, p)'
    BY <1>1, <2>1, <2>2, <2>3 DEF ChannelOK, KeepsLease
  <2> QED
    BY <2>1, <2>2, <2>3, <2>4, ChannelStep
<1>3. CASE RenewFails(i, p)
  <2>1. /\ chan' \in [Processes -> [Platforms -> ChanTypes]]
        /\ chan'[i][p].held = chan[i][p].held /\ ~chan'[i][p].due
        /\ chan'[i][p].lost /\ chan'[i][p].dropped = chan[i][p].dropped
        /\ chan'[i][p].listening = chan[i][p].listening
        /\ \A j \in Processes \ {i} : chan'[j] = chan[j]
        /\ \A q \in Platforms \ {p} : chan'[i][q] = chan[i][q]
    BY <1>1, <1>3 DEF RenewFails, HandleLeaseLoss, ChanTypes
  <2>2. /\ lease' \in [Platforms -> LeaseTypes] /\ lease'[p].left \in {lease[p].left, Ttl}
        /\ lease'[p].owner = lease[p].owner /\ lease'[p].epoch = lease[p].epoch
        /\ lease'[p] = lease[p] \/ lease[p].owner = i
        /\ \A q \in Platforms \ {p} : lease'[q] = lease[q]
    BY <1>1, <1>3 DEF RenewFails, Owns, LeaseTypes
  <2>3. /\ proc' \in [Processes -> ProcTypes] /\ proc'[i].pc = proc[i].pc
        /\ proc'[i].restarts = proc[i].restarts
        /\ \A j \in Processes \ {i} : proc'[j] = proc[j]
    <3>1. (proc[i].stop \/ StillLeased(i) \subseteq {p}) \in BOOLEAN
      OBVIOUS
    <3> DEFINE b == proc[i].stop \/ StillLeased(i) \subseteq {p}
    <3>2. b \in BOOLEAN /\ proc' = [proc EXCEPT ![i].stop = b]
      BY <1>3, <3>1 DEF RenewFails, HandleLeaseLoss
    <3> HIDE DEF b
    <3> QED
      BY <1>1, <3>2 DEF ProcTypes
  <2>4. IntakeTypeOK'
    BY <2>1, <2>2, <2>3 DEF IntakeTypeOK
  <2>5. proc[i].pc = "listening"
    BY <1>1, <1>3 DEF RenewFails, ChannelOK
  <2>6. lease[p].left \in Nat /\ lease'[p].left \in Nat
    BY <1>1, <2>2 DEF LeaseTypes
  <2>7. KeepsLease(i, p) => KeepsLease(i, p)'
    BY <1>1, <2>1, <2>2, <2>6 DEF KeepsLease
  <2>8. ChannelOK(i, p)'
    BY <1>1, <2>1, <2>3, <2>5, <2>7 DEF ChannelOK
  <2> QED
    BY <2>1, <2>2, <2>3, <2>4, <2>8, ChannelStep
<1>4. CASE WatchIntake(i, p) \/ ListenerGivesUp(i, p)
  <2>1. PICK d \in BOOLEAN :
          /\ chan' = [chan EXCEPT ![i][p].dropped = d, ![i][p].listening = FALSE]
          /\ d = chan[i][p].dropped \/ (chan[i][p].lost /\ d)
    <3>1. CASE WatchIntake(i, p)
      BY <3>1 DEF WatchIntake
    <3>2. CASE ListenerGivesUp(i, p)
      <4>1. chan[i][p].dropped \in BOOLEAN
        BY <1>1 DEF ChanTypes
      <4>2. chan' = [chan EXCEPT ![i][p].listening = FALSE]
        BY <3>2 DEF ListenerGivesUp
      <4>3. chan' = [chan EXCEPT ![i][p].dropped = chan[i][p].dropped,
                                 ![i][p].listening = FALSE]
        BY <1>1, <4>2, Ranges DEF ChanFields
      <4> QED
        BY <4>1, <4>3
    <3> QED
      BY <1>4, <3>1, <3>2
  <2>2. /\ chan' \in [Processes -> [Platforms -> ChanTypes]]
        /\ chan'[i][p].held = chan[i][p].held /\ chan'[i][p].due = chan[i][p].due
        /\ chan'[i][p].lost = chan[i][p].lost /\ ~chan'[i][p].listening
        /\ chan'[i][p].dropped = d
        /\ \A j \in Processes \ {i} : chan'[j] = chan[j]
        /\ \A q \in Platforms \ {p} : chan'[i][q] = chan[i][q]
    BY <1>1, <2>1, Ranges DEF ChanFields
  <2>3. proc' = proc /\ lease' = lease
    BY <1>4 DEF WatchIntake, ListenerGivesUp
  <2>4. IntakeTypeOK'
    BY <1>1, <2>2, <2>3 DEF IntakeTypeOK
  <2>5. KeepsLease(i, p) => KeepsLease(i, p)'
    BY <2>2, <2>3 DEF KeepsLease
  <2>6. ChannelOK(i, p)'
    BY <1>1, <2>1, <2>2, <2>3, <2>5 DEF ChannelOK
  <2> QED
    BY <2>2, <2>3, <2>4, <2>6, ChannelStep
<1>5. CASE Release(i, p) \/ ReleaseFails(i, p)
  <2>0. chan' = [chan EXCEPT ![i][p].held = 0]
    BY <1>5 DEF Release, ReleaseFails
  <2>1. /\ chan' \in [Processes -> [Platforms -> ChanTypes]]
        /\ chan'[i][p].held = 0 /\ chan'[i][p].due = chan[i][p].due
        /\ chan'[i][p].listening = chan[i][p].listening
        /\ \A j \in Processes \ {i} : chan'[j] = chan[j]
        /\ \A q \in Platforms \ {p} : chan'[i][q] = chan[i][q]
    BY <1>1, <2>0, Ranges DEF ChanFields
  <2>2. /\ lease' \in [Platforms -> LeaseTypes]
        /\ lease'[p] = lease[p] \/ lease[p].owner = i
        /\ \A q \in Platforms \ {p} : lease'[q] = lease[q]
    BY <1>1, <1>5 DEF Release, ReleaseFails, Owns, LeaseTypes
  <2>3. proc' = proc /\ IntakeTypeOK' /\ proc[i].pc = "releasing"
    BY <1>1, <1>5, <2>1, <2>2 DEF Release, ReleaseFails, IntakeTypeOK
  <2>4. ChannelOK(i, p)'
    BY <1>1, <2>1, <2>3 DEF ChannelOK
  <2> QED
    BY <2>1, <2>2, <2>3, <2>4, ChannelStep
<1> QED
  BY <1>2, <1>3, <1>4, <1>5

\* A step of a whole process that leaves the leases alone.
LEMMA ProcessStep ==
  ASSUME IntakeInv, NEW i \in Processes, lease' = lease,
         proc' \in [Processes -> ProcTypes],
         chan' \in [Processes -> [Platforms -> ChanTypes]],
         \A j \in Processes \ {i} : proc'[j] = proc[j] /\ chan'[j] = chan[j],
         WithinBudget(i)', \A p \in Platforms : ChannelOK(i, p)'
  PROVE  IntakeInv'
<1>1. IntakeTypeOK' /\ \A j \in Processes : WithinBudget(j)'
  BY DEF IntakeInv, IntakeTypeOK, WithinBudget
<1>2. ASSUME NEW j \in Processes, NEW p \in Platforms PROVE ChannelOK(j, p)'
  <2>1. CASE j = i
    BY <2>1
  <2>2. CASE j # i
    <3>1. proc'[j] = proc[j] /\ chan'[j] = chan[j] /\ ChannelOK(j, p)
      BY <2>2 DEF IntakeInv
    <3> QED
      BY <3>1 DEF ChannelOK, KeepsLease
  <2> QED
    BY <2>1, <2>2
<1> QED
  BY <1>1, <1>2 DEF IntakeInv

\* A channel that is idle or about to be claimed asks for nothing.
LEMMA Unclaimed ==
  ASSUME NEW i \in Processes, NEW p \in Platforms,
         chan'[i][p].held = 0, ~chan'[i][p].due, ~chan'[i][p].listening,
         ~chan'[i][p].lost, ~chan'[i][p].dropped
  PROVE  ChannelOK(i, p)'
  BY DEF ChannelOK

\* The co-service starts, goes on, stops, is restarted or crashes.
LEMMA ServiceKeeps ==
  ASSUME IntakeInv, NEW i \in Processes, Service(i) \/ AskStop(i) \/ Crash(i)
  PROVE  IntakeInv'
<1>1. /\ chan \in [Processes -> [Platforms -> ChanTypes]] /\ proc[i] \in ProcTypes
      /\ proc \in [Processes -> ProcTypes] /\ \A p \in Platforms : ChannelOK(i, p)
      /\ WithinBudget(i) /\ MaxRestarts \in Nat
  BY IntakeLeaseAssumption DEF IntakeInv, IntakeTypeOK
<1>2. /\ Idle \in ChanTypes /\ Acquiring \in [Platforms -> ChanTypes]
      /\ \A p \in Platforms : /\ Acquiring[p].held = 0 /\ ~Acquiring[p].due
                              /\ ~Acquiring[p].listening /\ ~Acquiring[p].lost
                              /\ ~Acquiring[p].dropped
      /\ Idle.held = 0 /\ ~Idle.due /\ ~Idle.listening /\ ~Idle.lost /\ ~Idle.dropped
  BY Ranges DEF Idle, Acquiring, ChanFields
<1>3. lease' = lease
  BY DEF Service, StartService, Acquired, StopServing, ServeRaises, Supervise,
         StartRouter, AskStop, Crash
<1>4. ASSUME chan' = [chan EXCEPT ![i] = Acquiring],
             proc' \in [Processes -> ProcTypes], WithinBudget(i)',
             \A j \in Processes \ {i} : proc'[j] = proc[j]
      PROVE  IntakeInv'
  <2>1. /\ chan' \in [Processes -> [Platforms -> ChanTypes]] /\ chan'[i] = Acquiring
        /\ \A j \in Processes \ {i} : chan'[j] = chan[j]
    BY <1>1, <1>2, <1>4
  <2>2. \A p \in Platforms : ChannelOK(i, p)'
    BY <1>2, <2>1, Unclaimed
  <2> QED
    BY <1>3, <1>4, <2>1, <2>2, ProcessStep
<1>5. CASE StartService(i)
  BY <1>1, <1>4, <1>5 DEF StartService, ProcTypes, WithinBudget
<1>6. CASE Crash(i)
  <2>1. chan' = [chan EXCEPT ![i] = [p \in Platforms |-> Idle]]
    BY <1>6 DEF Crash
  <2>2. /\ chan' \in [Processes -> [Platforms -> ChanTypes]]
        /\ \A p \in Platforms : chan'[i][p] = Idle
        /\ \A j \in Processes \ {i} : chan'[j] = chan[j]
    BY <1>1, <1>2, <2>1
  <2>3. /\ proc' \in [Processes -> ProcTypes] /\ WithinBudget(i)'
        /\ \A j \in Processes \ {i} : proc'[j] = proc[j]
    BY <1>1, <1>6 DEF Crash, ProcTypes, WithinBudget
  <2>4. \A p \in Platforms : ChannelOK(i, p)'
    BY <1>2, <2>2, Unclaimed
  <2> QED
    BY <1>3, <2>2, <2>3, <2>4, ProcessStep
<1>7. CASE AskStop(i) \/ Acquired(i)
  <2>1. /\ chan' = chan /\ proc' \in [Processes -> ProcTypes]
        /\ \A j \in Processes \ {i} : proc'[j] = proc[j]
        /\ \/ proc'[i].pc = proc[i].pc
           \/ proc[i].pc = "acquiring" /\ proc'[i].pc \in {"connecting", "stopped"}
        /\ WithinBudget(i)'
    BY <1>1, <1>7, Ranges DEF AskStop, Acquired, ProcFields, WithinBudget
  <2>2. \A p \in Platforms : ChannelOK(i, p)'
    BY <1>1, <1>3, <2>1 DEF ChannelOK, KeepsLease
  <2> QED
    BY <1>1, <1>3, <2>1, <2>2, ProcessStep
<1>8. CASE StopServing(i) \/ ServeRaises(i)
  <2>0. /\ chan' = [chan EXCEPT ![i] = Quiet(i)]
        /\ proc' = [proc EXCEPT ![i].pc = "releasing"]
        /\ proc[i].pc \notin {"stopped", "crashed"}
    BY <1>8 DEF StopServing, ServeRaises
  <2>1. /\ chan' = [chan EXCEPT ![i] = Quiet(i)] /\ proc' \in [Processes -> ProcTypes]
        /\ \A j \in Processes \ {i} : proc'[j] = proc[j]
        /\ proc'[i].pc = "releasing" /\ proc'[i].restarts = proc[i].restarts
    BY <1>1, <2>0, Ranges DEF ProcFields
  <2>11. WithinBudget(i)'
    BY <1>1, <2>0, <2>1 DEF WithinBudget
  <2>2. /\ Quiet(i) \in [Platforms -> ChanTypes]
        /\ \A p \in Platforms : ~Quiet(i)[p].due /\ ~Quiet(i)[p].listening
    <3>1. \A p \in Platforms : chan[i][p] \in ChanFields
      BY <1>1, Ranges
    <3>2. \A p \in Platforms :
            /\ Quiet(i)[p] = [chan[i][p] EXCEPT !.listening = FALSE, !.due = FALSE]
            /\ Quiet(i)[p] \in ChanFields
            /\ ~Quiet(i)[p].due /\ ~Quiet(i)[p].listening
      BY <3>1 DEF Quiet, ChanFields
    <3>3. Quiet(i) = [p \in Platforms |-> Quiet(i)[p]]
      BY DEF Quiet
    <3> QED
      BY <3>2, <3>3, Ranges
  <2>3. /\ chan' \in [Processes -> [Platforms -> ChanTypes]]
        /\ \A p \in Platforms : ~chan'[i][p].due /\ ~chan'[i][p].listening
        /\ \A j \in Processes \ {i} : chan'[j] = chan[j]
    BY <1>1, <2>1, <2>2
  <2>4. \A p \in Platforms : ChannelOK(i, p)'
    BY <2>1, <2>3 DEF ChannelOK
  <2> QED
    BY <1>3, <2>1, <2>11, <2>3, <2>4, ProcessStep
<1>9. ASSUME NEW S \in SUBSET Platforms, StartRouter(i, S) PROVE IntakeInv'
  <2> DEFINE f == [p \in Platforms |-> [chan[i][p] EXCEPT !.listening = p \in S]]
  <2>1. /\ f \in [Platforms -> ChanTypes]
        /\ \A p \in Platforms :
             /\ f[p].held = chan[i][p].held /\ f[p].due = chan[i][p].due
             /\ f[p].lost = chan[i][p].lost /\ f[p].dropped = chan[i][p].dropped
             /\ f[p].listening => p \in S
    <3> DEFINE b(p) == p \in S
    <3>1. /\ f = [p \in Platforms |-> [chan[i][p] EXCEPT !.listening = b(p)]]
          /\ \A p \in Platforms : b(p) \in BOOLEAN /\ chan[i][p] \in ChanFields
      BY <1>1, Ranges
    <3>2. \A p \in Platforms : f[p] = [chan[i][p] EXCEPT !.listening = b(p)]
      OBVIOUS
    <3> HIDE DEF b
    <3>3. \A p \in Platforms :
             /\ f[p] \in ChanFields
             /\ f[p].held = chan[i][p].held /\ f[p].due = chan[i][p].due
             /\ f[p].lost = chan[i][p].lost /\ f[p].dropped = chan[i][p].dropped
             /\ f[p].listening = b(p)
      <4> HIDE DEF f
      <4> QED
        BY <3>1, <3>2 DEF ChanFields
    <3>4. f \in [Platforms -> ChanTypes]
      BY <3>3, Ranges
    <3> QED
      BY <3>3, <3>4 DEF b
  <2>2. chan' = [chan EXCEPT ![i] = f]
    BY <1>9 DEF StartRouter
  <2> HIDE DEF f
  <2>3. /\ chan' \in [Processes -> [Platforms -> ChanTypes]] /\ chan'[i] = f
        /\ \A j \in Processes \ {i} : chan'[j] = chan[j]
    BY <1>1, <2>1, <2>2
  <2>4. /\ proc' \in [Processes -> ProcTypes] /\ proc'[i].pc = "listening"
        /\ \A j \in Processes \ {i} : proc'[j] = proc[j]
        /\ proc[i].pc = "connecting" /\ \A p \in S : chan[i][p].held > 0
        /\ WithinBudget(i)'
    BY <1>1, <1>9 DEF StartRouter, ProcTypes, WithinBudget
  <2>5. \A p \in Platforms : ChannelOK(i, p)'
    BY <1>1, <1>3, <2>1, <2>3, <2>4 DEF ChannelOK, KeepsLease
  <2> QED
    BY <1>3, <2>3, <2>4, <2>5, ProcessStep
<1>10. CASE Supervise(i)
  <2>1. CASE proc[i].stop
    <3>1. /\ chan' = chan /\ proc' \in [Processes -> ProcTypes]
          /\ \A j \in Processes \ {i} : proc'[j] = proc[j]
          /\ proc[i].pc = "releasing" /\ proc'[i].pc = "stopped" /\ WithinBudget(i)'
      BY <1>1, <1>10, <2>1 DEF Supervise, ProcTypes, WithinBudget
    <3>2. \A p \in Platforms : ChannelOK(i, p)'
      BY <1>1, <3>1 DEF ChannelOK
    <3> QED
      BY <1>1, <1>3, <3>1, <3>2, ProcessStep
  <2>2. CASE ~proc[i].stop
    <3>1. PICK n \in 1..(proc[i].restarts + 1) :
            IF n > MaxRestarts
              THEN /\ proc' = [proc EXCEPT ![i].pc = "stopped", ![i].restarts = n]
                   /\ UNCHANGED chan
              ELSE /\ proc' = [proc EXCEPT ![i].pc = "acquiring", ![i].restarts = n]
                   /\ chan' = [chan EXCEPT ![i] = Acquiring]
      BY <1>10, <2>2 DEF Supervise
    <3>2. proc[i].pc = "releasing" /\ n \in 0..(MaxRestarts + 1)
      BY <1>1, <1>10 DEF Supervise, WithinBudget, ProcTypes
    <3>3. CASE n > MaxRestarts
      <4>1. /\ chan' = chan /\ proc' \in [Processes -> ProcTypes]
            /\ \A j \in Processes \ {i} : proc'[j] = proc[j]
            /\ proc'[i].pc = "stopped" /\ WithinBudget(i)'
        BY <1>1, <3>1, <3>2, <3>3 DEF ProcTypes, WithinBudget
      <4>2. \A p \in Platforms : ChannelOK(i, p)'
        BY <1>1, <3>2, <4>1 DEF ChannelOK
      <4> QED
        BY <1>1, <1>3, <4>1, <4>2, ProcessStep
    <3>4. CASE n <= MaxRestarts
      <4>1. /\ chan' = [chan EXCEPT ![i] = Acquiring] /\ n \in Restarts
            /\ proc' = [proc EXCEPT ![i].pc = "acquiring", ![i].restarts = n]
        BY <1>1, <3>1, <3>2, <3>4 DEF Restarts
      <4>2. /\ proc' \in [Processes -> ProcTypes] /\ proc'[i].restarts = n
            /\ \A j \in Processes \ {i} : proc'[j] = proc[j]
        BY <1>1, <4>1, Ranges DEF ProcFields
      <4>3. WithinBudget(i)'
        BY <3>4, <4>2 DEF WithinBudget
      <4> QED
        BY <1>4, <4>1, <4>2, <4>3
    <3> QED
      BY <1>1, <3>2, <3>3, <3>4
  <2> QED
    BY <2>1, <2>2
<1> QED
  BY <1>5, <1>6, <1>7, <1>8, <1>9, <1>10 DEF Service

\* A renewal interval passes: whoever keeps a lease has just been renewed, and is
\* to be renewed again.
LEMMA TickKeeps ==
  ASSUME IntakeInv, Tick, ~SlowConnect
  PROVE  IntakeInv'
<1>1. /\ chan \in [Processes -> [Platforms -> ChanTypes]]
      /\ lease \in [Platforms -> LeaseTypes] /\ proc' = proc
      /\ \A i \in Processes : Prompt(i) /\ proc[i].pc # "connecting"
      /\ Ttl \in Nat /\ Ttl > 1
  <2>1. Ttl \in Nat /\ Ttl > 1
    BY IntakeLeaseAssumption
  <2>2. \A i \in Processes : Prompt(i)
    BY DEF Tick
  <2>3. \A i \in Processes : proc[i].pc # "connecting"
    BY <2>2 DEF Prompt
  <2> QED
    BY <2>1, <2>2, <2>3 DEF IntakeInv, IntakeTypeOK, Tick
<1>2. /\ lease' \in [Platforms -> LeaseTypes]
      /\ \A p \in Platforms :
           /\ lease'[p].owner = lease[p].owner /\ lease'[p].epoch = lease[p].epoch
           /\ lease[p].left = Ttl => lease'[p].left = Ttl - 1
  <2> DEFINE shorter(p) == IF lease[p].left = 0 THEN 0 ELSE lease[p].left - 1
  <2>1. \A p \in Platforms : lease[p].left \in 0..Ttl
    BY <1>1 DEF LeaseTypes
  <2>2. /\ \A p \in Platforms : shorter(p) \in Lefts
        /\ \A p \in Platforms : lease[p].left = Ttl => shorter(p) = Ttl - 1
    BY <1>1, <2>1 DEF Lefts
  <2>3. lease' = [p \in Platforms |-> [lease[p] EXCEPT !.left = shorter(p)]]
    BY DEF Tick
  <2> HIDE DEF shorter
  <2> QED
    BY <1>1, <2>2, <2>3, Ranges DEF LeaseFields
<1>3. /\ chan' \in [Processes -> [Platforms -> ChanTypes]]
      /\ \A i \in Processes, p \in Platforms :
           /\ chan'[i][p].due = (Serving(i) /\ p \in StillLeased(i))
           /\ chan'[i][p].held = chan[i][p].held /\ chan'[i][p].lost = chan[i][p].lost
           /\ chan'[i][p].dropped = chan[i][p].dropped
           /\ chan'[i][p].listening = chan[i][p].listening
  <2>1. \A i \in Processes, p \in Platforms : (Serving(i) /\ p \in StillLeased(i)) \in BOOLEAN
    BY DEF Serving
  <2> DEFINE due(i, p) == Serving(i) /\ p \in StillLeased(i)
  <2>2. /\ \A i \in Processes, p \in Platforms : due(i, p) \in BOOLEAN
        /\ chan' = [i \in Processes |->
                      [p \in Platforms |-> [chan[i][p] EXCEPT !.due = due(i, p)]]]
    BY <2>1 DEF Tick
  <2>3. \A i \in Processes, p \in Platforms :
          chan'[i][p].due = due(i, p)
    <3> HIDE DEF due
    <3> QED
      BY <1>1, <2>2, Ranges DEF ChanFields
  <2>4. /\ chan' \in [Processes -> [Platforms -> ChanTypes]]
        /\ \A i \in Processes, p \in Platforms :
             /\ chan'[i][p].held = chan[i][p].held /\ chan'[i][p].lost = chan[i][p].lost
             /\ chan'[i][p].dropped = chan[i][p].dropped
             /\ chan'[i][p].listening = chan[i][p].listening
    <3> HIDE DEF due
    <3>1. \A i \in Processes, p \in Platforms :
            /\ chan[i][p] \in ChanFields /\ due(i, p) \in BOOLEAN
            /\ chan'[i][p] = [chan[i][p] EXCEPT !.due = due(i, p)]
      BY <1>1, <2>2, Ranges
    <3>2. \A i \in Processes, p \in Platforms :
            /\ chan'[i][p] \in ChanFields
            /\ chan'[i][p].held = chan[i][p].held /\ chan'[i][p].lost = chan[i][p].lost
            /\ chan'[i][p].dropped = chan[i][p].dropped
            /\ chan'[i][p].listening = chan[i][p].listening
      <4> SUFFICES ASSUME NEW i \in Processes, NEW p \in Platforms
                   PROVE  /\ chan'[i][p] \in ChanFields
                          /\ chan'[i][p].held = chan[i][p].held
                          /\ chan'[i][p].lost = chan[i][p].lost
                          /\ chan'[i][p].dropped = chan[i][p].dropped
                          /\ chan'[i][p].listening = chan[i][p].listening
        OBVIOUS
      <4> DEFINE c == chan[i][p]
                 d == due(i, p)
      <4>1. /\ c \in ChanFields /\ d \in BOOLEAN
            /\ chan'[i][p] = [c EXCEPT !.due = d]
        BY <3>1
      <4> HIDE DEF c, d
      <4>2. /\ chan'[i][p] \in ChanFields /\ chan'[i][p].held = c.held
            /\ chan'[i][p].lost = c.lost /\ chan'[i][p].dropped = c.dropped
            /\ chan'[i][p].listening = c.listening
        BY <4>1 DEF ChanFields
      <4> QED
        BY <4>2 DEF c
    <3>3. /\ \A i \in Processes : chan'[i] = [p \in Platforms |-> chan'[i][p]]
          /\ chan' = [i \in Processes |-> chan'[i]]
      BY <2>2
    <3>4. \A i \in Processes : chan'[i] \in [Platforms -> ChanTypes]
      BY <3>2, <3>3, Ranges
    <3> QED
      BY <3>2, <3>3, <3>4
  <2> QED
    BY <2>3, <2>4
<1>4. IntakeTypeOK' /\ \A i \in Processes : WithinBudget(i)'
  BY <1>1, <1>2, <1>3 DEF IntakeInv, IntakeTypeOK, WithinBudget
<1>5. ASSUME NEW i \in Processes, NEW p \in Platforms PROVE ChannelOK(i, p)'
  <2>1. /\ ChannelOK(i, p) /\ proc[i].pc \notin {"acquiring", "connecting"}
        /\ proc[i].pc = "listening" =>
             ~chan[i][p].due /\ (chan[i][p].lost => chan[i][p].dropped)
    BY <1>1 DEF IntakeInv, Prompt, Serving
  <2>2. chan'[i][p].due => proc[i].pc = "listening"
    BY <1>3, <2>1 DEF Serving
  <2>3. ASSUME proc[i].pc = "listening", chan[i][p].held > 0, ~chan[i][p].dropped
        PROVE  KeepsLease(i, p)'
    <3>1. ~chan[i][p].lost /\ lease[p].left = Ttl /\ KeepsLease(i, p)
      BY <2>1, <2>3 DEF ChannelOK, KeepsLease
    <3>2. chan'[i][p].due
      BY <1>3, <2>3, <3>1 DEF Serving, StillLeased
    <3> QED
      BY <1>1, <1>2, <1>3, <3>1, <3>2 DEF KeepsLease
  <2> QED
    BY <1>1, <1>3, <2>1, <2>2, <2>3 DEF ChannelOK
<1> QED
  BY <1>4, <1>5 DEF IntakeInv

\* The invariant holds as long as connections take less than a renewal interval.
THEOREM IntakeInvariantHolds ==
  ASSUME ~SlowConnect
  PROVE  IntakeSpec => []IntakeInv
<1>1. IntakeInit => IntakeInv
  <2> SUFFICES ASSUME IntakeInit PROVE IntakeInv
    OBVIOUS
  <2>1. IntakeTypeOK
    BY IntakeLeaseAssumption
       DEF IntakeInit, IntakeTypeOK, LeaseTypes, ProcTypes, ChanTypes, Idle
  <2>2. \A i \in Processes : WithinBudget(i)
    BY IntakeLeaseAssumption DEF IntakeInit, WithinBudget
  <2>3. \A i \in Processes, p \in Platforms : ChannelOK(i, p)
    BY DEF IntakeInit, ChannelOK, Idle
  <2> QED
    BY <2>1, <2>2, <2>3 DEF IntakeInv
<1>2. IntakeInv /\ [IntakeNext]_intakeVars => IntakeInv'
  <2> SUFFICES ASSUME IntakeInv, [IntakeNext]_intakeVars PROVE IntakeInv'
    OBVIOUS
  <2>1. CASE UNCHANGED intakeVars
    BY <2>1 DEF intakeVars, IntakeInv, IntakeTypeOK, WithinBudget, ChannelOK, KeepsLease
  <2>2. CASE Tick
    BY <2>2, TickKeeps
  <2>3. ASSUME NEW i \in Processes, Service(i) \/ AskStop(i) \/ Crash(i) PROVE IntakeInv'
    BY <2>3, ServiceKeeps
  <2>4. ASSUME NEW i \in Processes, NEW p \in Platforms,
               Intake(i, p) \/ ListenerGivesUp(i, p)
        PROVE  IntakeInv'
    BY <2>4, AcquireKeeps, ChannelKeeps DEF Intake
  <2> QED
    BY <2>1, <2>2, <2>3, <2>4 DEF IntakeNext
<1> QED
  BY <1>1, <1>2, PTL DEF IntakeSpec

\* lease.py: leases, co-services and what they know of a platform stay well
\* typed; no claim is numbered past the bound.
THEOREM IntakeTypesHold ==
  ASSUME ~SlowConnect
  PROVE  IntakeSpec => []IntakeTypeOK
<1>1. IntakeInv => IntakeTypeOK
  BY DEF IntakeInv
<1> QED
  BY <1>1, IntakeInvariantHolds, PTL

\* lease.py: one process at a time polls a platform, for any number of processes
\* that claim, lose, renew and release its lease, crash and restart, as long as
\* connections take less than a renewal interval.
THEOREM OneOwnerPolls ==
  ASSUME ~SlowConnect
  PROVE  IntakeSpec => []OnePoller
<1>1. IntakeInv => OnePoller
  <2> SUFFICES ASSUME IntakeInv, NEW p \in Platforms
               PROVE  Cardinality({i \in Processes : chan[i][p].listening}) <= 1
    BY DEF OnePoller
  <2>1. \A i \in Processes : chan[i][p].listening => lease[p].owner = i
    BY DEF IntakeInv, ChannelOK, KeepsLease
  <2> QED
    BY <2>1, AtMostOne
<1> QED
  BY <1>1, IntakeInvariantHolds, PTL

--------------------------------------------------------------------------------
(* The refinement: every step of the intake is a step of SoleOwner, or changes *)
(* none of its variables.                                                      *)

\* The three variables of SoleOwner at platform p, as Sole maps them.
OwnerOf(p) == IF lease[p].left > 0 THEN lease[p].owner ELSE "none"
PollersOf(p) == {i \in Processes : chan[i][p].listening}
TermOf(p) == lease[p].epoch

Owner == [p \in Platforms |-> OwnerOf(p)]
Pollers == [p \in Platforms |-> PollersOf(p)]
Term == [p \in Platforms |-> TermOf(p)]

SoleStep == [Sole!SoleNext]_Sole!soleVars

\* A step that leaves the three alone is a stutter.
LEMMA SoleStutter ==
  ASSUME \A p \in Platforms :
           /\ OwnerOf(p)' = OwnerOf(p) /\ PollersOf(p)' = PollersOf(p)
           /\ TermOf(p)' = TermOf(p)
  PROVE  SoleStep
<1>1. UNCHANGED Owner
  BY DEF Owner
<1>2. UNCHANGED Pollers
  BY DEF Pollers
<1>3. UNCHANGED Term
  BY DEF Term
<1> QED
  BY <1>1, <1>2, <1>3
  DEF SoleStep, Sole!soleVars, Owner, Pollers, Term, OwnerOf, PollersOf, TermOf

\* A platform that nobody owns or polls is granted.
LEMMA SoleGrant ==
  ASSUME NEW i \in Processes, NEW p \in Platforms,
         OwnerOf(p) = "none", PollersOf(p) = {},
         OwnerOf(p)' = i, TermOf(p)' = TermOf(p) + 1,
         \A q \in Platforms : PollersOf(q)' = PollersOf(q),
         \A q \in Platforms \ {p} : OwnerOf(q)' = OwnerOf(q) /\ TermOf(q)' = TermOf(q)
  PROVE  SoleStep
<1>1. Owner' = [Owner EXCEPT ![p] = i] /\ Owner[p] = "none"
  BY DEF Owner
<1>2. Term' = [Term EXCEPT ![p] = Term[p] + 1]
  BY DEF Term
<1>3. UNCHANGED Pollers /\ Pollers[p] = {}
  BY DEF Pollers
<1>4. Sole!Grant(i, p)
  BY <1>1, <1>2, <1>3
  DEF Sole!Grant, Owner, Pollers, Term, OwnerOf, PollersOf, TermOf
<1> QED
  BY <1>4 DEF SoleStep, Sole!SoleNext

\* Leases that no listener uses end.
LEMMA SoleEndGrants ==
  ASSUME NEW S \in SUBSET Platforms,
         \A p \in S : PollersOf(p) = {} /\ OwnerOf(p)' = "none",
         \A p \in Platforms \ S : OwnerOf(p)' = OwnerOf(p),
         \A p \in Platforms : PollersOf(p)' = PollersOf(p) /\ TermOf(p)' = TermOf(p)
  PROVE  SoleStep
<1>1. Owner' = [p \in Platforms |-> IF p \in S THEN "none" ELSE Owner[p]]
  BY DEF Owner
<1>2. UNCHANGED Pollers /\ \A p \in S : Pollers[p] = {}
  BY DEF Pollers
<1>3. UNCHANGED Term
  BY DEF Term
<1>4. Sole!EndGrants(S)
  BY <1>1, <1>2, <1>3
  DEF Sole!EndGrants, Owner, Pollers, Term, OwnerOf, PollersOf, TermOf
<1> QED
  BY <1>4 DEF SoleStep, Sole!SoleNext

\* The owner of some platforms starts to poll them.
LEMMA SoleStart ==
  ASSUME NEW i \in Processes, NEW S \in SUBSET Platforms,
         \A p \in S : OwnerOf(p) = i /\ PollersOf(p)' = {i},
         \A p \in Platforms \ S : PollersOf(p)' = PollersOf(p),
         \A p \in Platforms : OwnerOf(p)' = OwnerOf(p) /\ TermOf(p)' = TermOf(p)
  PROVE  SoleStep
<1>1. Pollers' = [p \in Platforms |-> IF p \in S THEN {i} ELSE Pollers[p]]
  BY DEF Pollers
<1>2. UNCHANGED Owner /\ \A p \in S : Owner[p] = i
  BY DEF Owner
<1>3. UNCHANGED Term
  BY DEF Term
<1>4. Sole!StartPolling(i, S)
  BY <1>1, <1>2, <1>3
  DEF Sole!StartPolling, Owner, Pollers, Term, OwnerOf, PollersOf, TermOf
<1> QED
  BY <1>4 DEF SoleStep, Sole!SoleNext

\* A process stops to poll some platforms.
LEMMA SoleStop ==
  ASSUME NEW i \in Processes, NEW S \in SUBSET Platforms,
         \A p \in S : PollersOf(p)' = PollersOf(p) \ {i},
         \A p \in Platforms \ S : PollersOf(p)' = PollersOf(p),
         \A p \in Platforms : OwnerOf(p)' = OwnerOf(p) /\ TermOf(p)' = TermOf(p)
  PROVE  SoleStep
<1>1. Pollers' = [p \in Platforms |-> IF p \in S THEN Pollers[p] \ {i} ELSE Pollers[p]]
  BY DEF Pollers
<1>2. UNCHANGED Owner
  BY DEF Owner
<1>3. UNCHANGED Term
  BY DEF Term
<1>4. Sole!StopPolling(i, S)
  BY <1>1, <1>2, <1>3
  DEF Sole!StopPolling, Owner, Pollers, Term, OwnerOf, PollersOf, TermOf
<1> QED
  BY <1>4 DEF SoleStep, Sole!SoleNext

\* Whoever listens is serving, and owns a lease that lasts beyond the next tick.
LEMMA ListenersOwn ==
  ASSUME IntakeInv, NEW i \in Processes, NEW p \in Platforms, chan[i][p].listening
  PROVE  /\ proc[i].pc = "listening" /\ OwnerOf(p) = i /\ lease[p].left > 0
         /\ chan[i][p].held > 0 /\ KeepsLease(i, p)
<1>1. /\ proc[i].pc = "listening" /\ KeepsLease(i, p) /\ chan[i][p].held > 0
      /\ lease[p].left \in Nat /\ Ttl \in Nat /\ Ttl > 1
  BY IntakeLeaseAssumption
  DEF IntakeInv, IntakeTypeOK, LeaseTypes, ChannelOK
<1>2. lease[p].left > 0 /\ lease[p].owner = i
  BY <1>1 DEF KeepsLease
<1> QED
  BY <1>1, <1>2 DEF OwnerOf

\* Leases that stay as they are have the owner and term they had.
LEMMA LeasesStay ==
  ASSUME UNCHANGED lease
  PROVE  \A p \in Platforms : OwnerOf(p)' = OwnerOf(p) /\ TermOf(p)' = TermOf(p)
BY DEF OwnerOf, TermOf

\* Listeners that stay as they are poll what they polled.
LEMMA ListenersStay ==
  ASSUME \A i \in Processes, p \in Platforms :
           chan'[i][p].listening = chan[i][p].listening
  PROVE  \A p \in Platforms : PollersOf(p)' = PollersOf(p)
BY DEF PollersOf

\* Claims, renewals and releases leave the listeners alone.
LEMMA ListenersUntouched ==
  ASSUME IntakeInv, NEW i \in Processes, NEW p \in Platforms, NEW e,
         \/ chan' = [chan EXCEPT ![i][p].todo = FALSE]
         \/ chan' = [chan EXCEPT ![i][p].todo = FALSE, ![i][p].held = e]
         \/ chan' = [chan EXCEPT ![i][p].due = FALSE]
         \/ chan' = [chan EXCEPT ![i][p].due = FALSE, ![i][p].lost = TRUE]
         \/ chan' = [chan EXCEPT ![i][p].held = 0]
  PROVE  \A q \in Platforms : PollersOf(q)' = PollersOf(q)
<1>1. chan \in [Processes -> [Platforms -> ChanFields]]
  BY Ranges DEF IntakeInv, IntakeTypeOK
<1>2. \A j \in Processes, q \in Platforms :
        j # i \/ q # p => chan'[j][q] = chan[j][q]
  BY <1>1
<1>3. chan'[i][p].listening = chan[i][p].listening
  BY <1>1 DEF ChanFields
<1>4. \A j \in Processes, q \in Platforms :
        chan'[j][q].listening = chan[j][q].listening
  BY <1>2, <1>3
<1> QED
  BY <1>4, ListenersStay

\* A claim takes a lease that has run out, which nobody polls under.
LEMMA AcquireRefines ==
  ASSUME IntakeInv, NEW i \in Processes, NEW p \in Platforms,
         AcquireLease(i, p) \/ NotAcquired(i, p)
  PROVE  SoleStep
<1>1. /\ lease \in [Platforms -> LeaseTypes]
      /\ chan \in [Processes -> [Platforms -> ChanTypes]]
  BY DEF IntakeInv, IntakeTypeOK
<1>2. \A q \in Platforms : PollersOf(q)' = PollersOf(q)
  <2>1. \/ chan' = [chan EXCEPT ![i][p].todo = FALSE]
        \/ chan' = [chan EXCEPT ![i][p].todo = FALSE, ![i][p].held = lease'[p].epoch]
    BY DEF AcquireLease, NotAcquired
  <2> DEFINE e == lease'[p].epoch
  <2> HIDE DEF e
  <2>2. \/ chan' = [chan EXCEPT ![i][p].todo = FALSE]
        \/ chan' = [chan EXCEPT ![i][p].todo = FALSE, ![i][p].held = e]
    BY <2>1 DEF e
  <2> QED
    BY <2>2, ListenersUntouched
<1>3. CASE UNCHANGED lease
  BY <1>2, <1>3, LeasesStay, SoleStutter
<1>4. CASE CanClaim(p) /\ lease' = [lease EXCEPT ![p] = Claimed(i, p)]
  <2>1. lease[p].left = 0 /\ Ttl > 0 /\ lease[p].epoch \in Nat
    BY <1>1, <1>4, IntakeLeaseAssumption DEF CanClaim, LeaseTypes
  <2>2. OwnerOf(p) = "none" /\ PollersOf(p) = {}
    <3>1. \A j \in Processes : ~chan[j][p].listening
      BY <2>1, ListenersOwn
    <3> QED
      BY <2>1, <3>1 DEF OwnerOf, PollersOf
  <2>3. OwnerOf(p)' = i /\ TermOf(p)' = TermOf(p) + 1
    <3>1. lease'[p] = [owner |-> i, epoch |-> lease[p].epoch + 1, left |-> Ttl]
      BY <1>1, <1>4 DEF Claimed
    <3> QED
      BY <2>1, <3>1 DEF OwnerOf, TermOf
  <2>4. \A q \in Platforms \ {p} : OwnerOf(q)' = OwnerOf(q) /\ TermOf(q)' = TermOf(q)
    <3>1. \A q \in Platforms \ {p} : lease'[q] = lease[q]
      BY <1>1, <1>4
    <3> QED
      BY <3>1 DEF OwnerOf, TermOf
  <2> QED
    BY <1>2, <2>2, <2>3, <2>4, SoleGrant
<1> QED
  BY <1>3, <1>4 DEF AcquireLease, NotAcquired

\* Renewing a lease, or failing to, leaves it with its owner.
LEMMA RenewRefines ==
  ASSUME IntakeInv, NEW i \in Processes, NEW p \in Platforms,
         Renew(i, p) \/ RenewFails(i, p)
  PROVE  SoleStep
<1>1. /\ lease \in [Platforms -> LeaseTypes]
      /\ chan \in [Processes -> [Platforms -> ChanTypes]]
  BY DEF IntakeInv, IntakeTypeOK
<1>2. \A q \in Platforms : PollersOf(q)' = PollersOf(q)
  BY ListenersUntouched DEF Renew, RenewFails, HandleLeaseLoss
<1>3. \A q \in Platforms : OwnerOf(q)' = OwnerOf(q) /\ TermOf(q)' = TermOf(q)
  <2>1. CASE UNCHANGED lease
    BY <2>1, LeasesStay
  <2>2. CASE Owns(i, p) /\ lease' = [lease EXCEPT ![p].left = Ttl]
    <3>1. lease[p].left > 0 /\ Ttl > 0
      BY <2>2, IntakeLeaseAssumption DEF Owns
    <3>2. /\ \A q \in Platforms \ {p} : lease'[q] = lease[q]
          /\ lease'[p].owner = lease[p].owner /\ lease'[p].epoch = lease[p].epoch
          /\ lease'[p].left = Ttl
      BY <1>1, <2>2 DEF LeaseTypes
    <3> QED
      BY <3>1, <3>2 DEF OwnerOf, TermOf
  <2> QED
    BY <2>1, <2>2 DEF Renew, RenewFails
<1> QED
  BY <1>2, <1>3, SoleStutter

\* The watcher, and a listener that gives up, end one listener.
LEMMA DropRefines ==
  ASSUME IntakeInv, NEW i \in Processes, NEW p \in Platforms,
         WatchIntake(i, p) \/ ListenerGivesUp(i, p)
  PROVE  SoleStep
<1>1. chan \in [Processes -> [Platforms -> ChanTypes]] /\ UNCHANGED lease
  BY DEF IntakeInv, IntakeTypeOK, WatchIntake, ListenerGivesUp
<1>2. /\ ~chan'[i][p].listening
      /\ \A j \in Processes, q \in Platforms :
           j # i \/ q # p => chan'[j][q].listening = chan[j][q].listening
  BY <1>1 DEF WatchIntake, ListenerGivesUp, ChanTypes
<1>3. /\ PollersOf(p)' = PollersOf(p) \ {i}
      /\ \A q \in Platforms \ {p} : PollersOf(q)' = PollersOf(q)
  BY <1>2 DEF PollersOf
<1>4. {p} \in SUBSET Platforms
  OBVIOUS
<1> QED
  BY <1>1, <1>3, <1>4, LeasesStay, SoleStop

\* A lease is given back by its owner, who has stopped to listen.
LEMMA ReleaseRefines ==
  ASSUME IntakeInv, NEW i \in Processes, NEW p \in Platforms,
         Release(i, p) \/ ReleaseFails(i, p)
  PROVE  SoleStep
<1>1. /\ lease \in [Platforms -> LeaseTypes]
      /\ chan \in [Processes -> [Platforms -> ChanTypes]]
      /\ proc[i].pc = "releasing"
  BY DEF IntakeInv, IntakeTypeOK, Release, ReleaseFails
<1>2. \A q \in Platforms : PollersOf(q)' = PollersOf(q)
  BY ListenersUntouched DEF Release, ReleaseFails
<1>3. CASE UNCHANGED lease
  BY <1>2, <1>3, LeasesStay, SoleStutter
<1>4. CASE Owns(i, p) /\ lease' = [lease EXCEPT ![p].owner = "none", ![p].left = 0]
  <2>1. PollersOf(p) = {}
    <3>1. \A j \in Processes : ~chan[j][p].listening
      <4> SUFFICES ASSUME NEW j \in Processes, chan[j][p].listening PROVE FALSE
        OBVIOUS
      <4>1. proc[j].pc = "listening" /\ lease[p].owner = j
        BY ListenersOwn DEF KeepsLease
      <4> QED
        BY <1>1, <1>4, <4>1 DEF Owns
    <3> QED
      BY <3>1 DEF PollersOf
  <2>2. /\ lease'[p].left = 0 /\ lease'[p].epoch = lease[p].epoch
        /\ \A q \in Platforms \ {p} : lease'[q] = lease[q]
    BY <1>1, <1>4 DEF LeaseTypes
  <2>3. OwnerOf(p)' = "none" /\ TermOf(p)' = TermOf(p)
    BY <2>2 DEF OwnerOf, TermOf
  <2>4. \A q \in Platforms \ {p} : OwnerOf(q)' = OwnerOf(q) /\ TermOf(q)' = TermOf(q)
    BY <2>2 DEF OwnerOf, TermOf
  <2>5. {p} \in SUBSET Platforms
    OBVIOUS
  <2> QED
    BY <1>2, <2>1, <2>3, <2>4, <2>5, SoleEndGrants
<1> QED
  BY <1>3, <1>4 DEF Release, ReleaseFails

\* The router starts listeners for leases that its process keeps.
LEMMA StartRouterRefines ==
  ASSUME IntakeInv, NEW i \in Processes, NEW S \in SUBSET Platforms, StartRouter(i, S)
  PROVE  SoleStep
<1>1. /\ chan \in [Processes -> [Platforms -> ChanFields]]
      /\ proc[i].pc = "connecting" /\ UNCHANGED lease
      /\ \A p \in S : chan[i][p].held > 0
  BY Ranges DEF IntakeInv, IntakeTypeOK, StartRouter
<1>2. /\ \A p \in Platforms : chan'[i][p].listening = (p \in S)
      /\ \A j \in Processes \ {i} : chan'[j] = chan[j]
  <2>1. chan' = [chan EXCEPT ![i] =
                   [p \in Platforms |-> [chan[i][p] EXCEPT !.listening = p \in S]]]
    BY DEF StartRouter
  <2>2. /\ chan'[i] = [p \in Platforms |-> [chan[i][p] EXCEPT !.listening = p \in S]]
        /\ \A j \in Processes \ {i} : chan'[j] = chan[j]
    BY <1>1, <2>1
  <2>3. ASSUME NEW p \in Platforms PROVE chan'[i][p].listening = (p \in S)
    <3> DEFINE c == chan[i][p]
               b == p \in S
    <3>1. c \in ChanFields /\ b \in BOOLEAN /\ chan'[i][p] = [c EXCEPT !.listening = b]
      BY <1>1, <2>2
    <3> HIDE DEF c, b
    <3>2. chan'[i][p].listening = b
      BY <3>1 DEF ChanFields
    <3> QED
      BY <3>2 DEF b
  <2> QED
    BY <2>2, <2>3
<1>3. \A p \in Platforms : ~chan[i][p].listening
  BY <1>1, ListenersOwn
<1>4. ASSUME NEW p \in S PROVE OwnerOf(p) = i /\ PollersOf(p)' = {i}
  <2>1. KeepsLease(i, p) /\ p \in Platforms
    BY <1>1, <1>4 DEF IntakeInv, ChannelOK
  <2>2. lease[p].owner = i /\ lease[p].left > 0
    <3>1. lease[p].left \in Nat /\ Ttl \in Nat /\ Ttl > 1
      BY <2>1, IntakeLeaseAssumption DEF IntakeInv, IntakeTypeOK, LeaseTypes
    <3> QED
      BY <2>1, <3>1 DEF KeepsLease
  <2>3. \A j \in Processes \ {i} : ~chan[j][p].listening
    <3> SUFFICES ASSUME NEW j \in Processes \ {i}, chan[j][p].listening PROVE FALSE
      OBVIOUS
    <3>1. lease[p].owner = j
      BY <2>1, ListenersOwn DEF KeepsLease
    <3> QED
      BY <2>2, <3>1
  <2>4. \A j \in Processes : chan'[j][p].listening <=> j = i
    BY <1>2, <2>1, <2>3
  <2> QED
    BY <2>2, <2>4 DEF OwnerOf, PollersOf
<1>5. ASSUME NEW p \in Platforms \ S PROVE PollersOf(p)' = PollersOf(p)
  <2>1. \A j \in Processes : chan'[j][p].listening <=> chan[j][p].listening
    BY <1>2, <1>3
  <2> QED
    BY <2>1 DEF PollersOf
<1> QED
  BY <1>1, <1>4, <1>5, LeasesStay, SoleStart

\* A process that stops serving, or crashes, ends all of its listeners.
LEMMA StopServingRefines ==
  ASSUME IntakeInv, NEW i \in Processes, StopServing(i) \/ ServeRaises(i) \/ Crash(i)
  PROVE  SoleStep
<1>1. /\ chan \in [Processes -> [Platforms -> ChanFields]] /\ UNCHANGED lease
  BY Ranges DEF IntakeInv, IntakeTypeOK, StopServing, ServeRaises, Crash
<1>2. /\ \A p \in Platforms : ~chan'[i][p].listening
      /\ \A j \in Processes \ {i} : chan'[j] = chan[j]
  <2>1. CASE Crash(i)
    BY <1>1, <2>1 DEF Crash, Idle
  <2>2. CASE StopServing(i) \/ ServeRaises(i)
    <3>1. chan' = [chan EXCEPT ![i] = Quiet(i)]
      BY <2>2 DEF StopServing, ServeRaises
    <3>2. ASSUME NEW p \in Platforms PROVE Quiet(i)[p].listening = FALSE
      <4> DEFINE c == chan[i][p]
      <4>1. c \in ChanFields /\ Quiet(i)[p] = [c EXCEPT !.listening = FALSE, !.due = FALSE]
        BY <1>1 DEF Quiet
      <4> HIDE DEF c
      <4> QED
        BY <4>1 DEF ChanFields
    <3> QED
      BY <1>1, <3>1, <3>2
  <2> QED
    BY <2>1, <2>2
<1>3. \A p \in Platforms : PollersOf(p)' = PollersOf(p) \ {i}
  BY <1>2 DEF PollersOf
<1> QED
  BY <1>1, <1>3, LeasesStay, SoleStop

\* A process that starts, restarts, ends its claims or is asked to stop has no
\* listener that it could end.
LEMMA LifecycleRefines ==
  ASSUME IntakeInv, NEW i \in Processes,
         StartService(i) \/ Acquired(i) \/ Supervise(i) \/ AskStop(i)
  PROVE  SoleStep
<1>1. /\ chan \in [Processes -> [Platforms -> ChanFields]] /\ UNCHANGED lease
  BY Ranges DEF IntakeInv, IntakeTypeOK, StartService, Acquired, Supervise, AskStop
<1>2. CASE UNCHANGED chan
  <2>1. \A p \in Platforms : PollersOf(p)' = PollersOf(p)
    BY <1>2 DEF PollersOf
  <2> QED
    BY <1>1, <2>1, LeasesStay, SoleStutter
<1>3. CASE /\ proc[i].pc # "listening"
           /\ chan' = [chan EXCEPT ![i] = Acquiring]
  <2>1. \A p \in Platforms : ~chan[i][p].listening
    BY <1>3, ListenersOwn
  <2>2. /\ \A p \in Platforms : ~chan'[i][p].listening
        /\ \A j \in Processes \ {i} : chan'[j] = chan[j]
    BY <1>1, <1>3 DEF Acquiring, Idle
  <2>3. \A p \in Platforms : PollersOf(p)' = PollersOf(p)
    BY <2>1, <2>2 DEF PollersOf
  <2> QED
    BY <1>1, <2>3, LeasesStay, SoleStutter
<1> QED
  BY <1>2, <1>3 DEF StartService, Acquired, Supervise, AskStop

\* The leases that a tick ends were in their last interval: nobody listens on one.
LEMMA TickRefines ==
  ASSUME IntakeInv, Tick, ~SlowConnect
  PROVE  SoleStep
<1>1. /\ chan \in [Processes -> [Platforms -> ChanFields]]
      /\ lease \in [Platforms -> LeaseFields] /\ Ttl \in Nat /\ Ttl > 1
  BY Ranges, IntakeLeaseAssumption DEF IntakeInv, IntakeTypeOK
<1>2. \A p \in Platforms : PollersOf(p)' = PollersOf(p)
  <2> DEFINE due(i, p) == Serving(i) /\ p \in StillLeased(i)
  <2>1. /\ chan' = [i \in Processes |->
                      [p \in Platforms |-> [chan[i][p] EXCEPT !.due = due(i, p)]]]
    BY DEF Tick
  <2> HIDE DEF due
  <2>2. ASSUME NEW i \in Processes, NEW p \in Platforms
        PROVE  chan'[i][p].listening = chan[i][p].listening
    <3> DEFINE c == chan[i][p]
    <3>1. c \in ChanFields /\ chan'[i][p] = [c EXCEPT !.due = due(i, p)]
      BY <1>1, <2>1
    <3> HIDE DEF c
    <3>2. chan'[i][p].listening = c.listening
      BY <3>1 DEF ChanFields
    <3> QED
      BY <3>2 DEF c
  <2> QED
    BY <2>2, ListenersStay
<1>3. \A p \in Platforms :
        /\ lease'[p].owner = lease[p].owner /\ TermOf(p)' = TermOf(p)
        /\ lease'[p].left > 0 <=> lease[p].left > 1
        /\ lease[p].left \in Nat
  <2> SUFFICES ASSUME NEW p \in Platforms
               PROVE  /\ lease'[p].owner = lease[p].owner /\ TermOf(p)' = TermOf(p)
                      /\ lease'[p].left > 0 <=> lease[p].left > 1
                      /\ lease[p].left \in Nat
    OBVIOUS
  <2> DEFINE n == IF lease[p].left = 0 THEN 0 ELSE lease[p].left - 1
  <2>1. lease'[p] = [lease[p] EXCEPT !.left = n]
    BY <1>1 DEF Tick
  <2>2. lease[p].left \in Nat /\ (n > 0 <=> lease[p].left > 1)
    BY <1>1 DEF LeaseFields, Lefts
  <2> HIDE DEF n
  <2>3. lease'[p].left = n /\ lease'[p].owner = lease[p].owner /\ lease'[p].epoch = lease[p].epoch
    BY <1>1, <2>1 DEF LeaseFields
  <2> QED
    BY <2>2, <2>3 DEF TermOf
<1> DEFINE S == {p \in Platforms : lease[p].left <= 1}
<1>4. \A p \in Platforms \ S : OwnerOf(p)' = OwnerOf(p)
  BY <1>3 DEF OwnerOf
<1>5. ASSUME NEW p \in S PROVE PollersOf(p) = {} /\ OwnerOf(p)' = "none"
  <2>1. \A i \in Processes : ~chan[i][p].listening
    <3> SUFFICES ASSUME NEW i \in Processes, chan[i][p].listening PROVE FALSE
      OBVIOUS
    <3>1. proc[i].pc = "listening" /\ KeepsLease(i, p) /\ ~chan[i][p].dropped
      BY ListenersOwn DEF IntakeInv, ChannelOK
    <3>2. ~chan[i][p].due /\ ~chan[i][p].lost
      BY <3>1 DEF Tick, Prompt, Serving
    <3>3. lease[p].left = Ttl
      BY <3>1, <3>2 DEF KeepsLease
    <3> QED
      BY <1>1, <1>3, <3>3
  <2>2. ~(lease'[p].left > 0)
    BY <1>3
  <2> QED
    BY <2>1, <2>2 DEF PollersOf, OwnerOf
<1>6. S \in SUBSET Platforms
  OBVIOUS
<1> HIDE DEF S
<1> QED
  BY <1>2, <1>3, <1>4, <1>5, <1>6, SoleEndGrants

\* The leases of lease.py are grants to one owner at a time: EG ends a lease or
\* grants it to another process only after the listeners of its owner have
\* ended, every poller owned the lease when it began, and the epochs of the
\* grants of a platform go up one by one, for any number of processes, platforms
\* and restarts, as long as connections take less than a renewal interval.
THEOREM LeasesImplementOwnership ==
  ASSUME ~SlowConnect
  PROVE  IntakeSpec => ImplementsSoleOwner
<1>1. IntakeInit => Sole!SoleInit
  BY DEF IntakeInit, Sole!SoleInit, Idle
<1>2. IntakeInv /\ [IntakeNext]_intakeVars => [Sole!SoleNext]_Sole!soleVars
  <2> SUFFICES ASSUME IntakeInv, [IntakeNext]_intakeVars PROVE SoleStep
    BY DEF SoleStep
  <2>1. CASE UNCHANGED intakeVars
    BY <2>1, SoleStutter DEF intakeVars, OwnerOf, PollersOf, TermOf
  <2>2. CASE Tick
    BY <2>2, TickRefines
  <2>3. ASSUME NEW i \in Processes, Service(i) \/ AskStop(i) \/ Crash(i) PROVE SoleStep
    BY <2>3, StartRouterRefines, StopServingRefines, LifecycleRefines DEF Service
  <2>4. ASSUME NEW i \in Processes, NEW p \in Platforms,
               Intake(i, p) \/ ListenerGivesUp(i, p)
        PROVE  SoleStep
    BY <2>4, AcquireRefines, RenewRefines, DropRefines, ReleaseRefines DEF Intake
  <2> QED
    BY <2>1, <2>2, <2>3, <2>4 DEF IntakeNext
<1> QED
  BY <1>1, <1>2, IntakeInvariantHolds, PTL
  DEF IntakeSpec, ImplementsSoleOwner, Sole!SoleSpec

--------------------------------------------------------------------------------
(* The path of a message                                                     *)

\* A turn that its listener is running.
Own(c, k) == turns[c][k].by = "listener" /\ turns[c][k].state = "running"

\* A listener runs one turn at a time, and does nothing else meanwhile; no
\* listener is left when the router has stopped.
ListenersOK ==
  /\ router # "running" => \A b \in Backends : listener[b] = "off"
  /\ \A c \in Channels : \A k \in DOMAIN turns[c] :
       Own(c, k) => listener[BackendOf[c]] = "flush"
  /\ \A c, d \in Channels : \A k \in DOMAIN turns[c], l \in DOMAIN turns[d] :
       Own(c, k) /\ Own(d, l) /\ BackendOf[c] = BackendOf[d] => c = d /\ k = l

\* A task that runs a turn is not registered as a timer, and a burst has a timer
\* that fires before the burst gets too old.
BurstOK(c) ==
  /\ burst[c].timer # "turn"
  /\ burst[c].buffer # <<>> /\ router # "gone" =>
       /\ burst[c].timer = "asleep"
       /\ burst[c].age + burst[c].left < MaxWait + Window

\* What is registered for a channel has asked on it.
PendingOK ==
  \A c \in Channels :
    pending[c] # "none" => /\ waiter[pending[c]].pc # "idle"
                           /\ waiter[pending[c]].channel = c

\* What call w was given: it came in on its channel after w had asked, it is in
\* the handoff until w's loop takes it, and the first of it is the first there
\* until w has its reply.
RepliesOK(w) ==
  /\ waiter[w].pc = "idle" => waiter[w].future = "none"
  /\ waiter[w].since <= Len(inbound)
  /\ waiter[w].future \in {"none", "open"} => waiter[w].heard = 0
  /\ \A m \in DOMAIN inbound :
       inbound[m].to = w => /\ waiter[w].pc # "idle" /\ m > waiter[w].since
                            /\ inbound[m].channel = waiter[w].channel
  /\ \A k \in DOMAIN handoff[w] :
       handoff[w][k] \in DOMAIN inbound /\ inbound[handoff[w][k]].to = w
  /\ waiter[w].future = "open" =>
       \A m \in DOMAIN inbound :
         inbound[m].to = w => handoff[w] # <<>> /\ handoff[w][1] <= m
  /\ waiter[w].heard > 0 =>
       /\ waiter[w].heard \in DOMAIN inbound /\ inbound[waiter[w].heard].to = w
       /\ \A m \in DOMAIN inbound : inbound[m].to = w => m >= waiter[w].heard

TurnsInv ==
  /\ TurnsTypeOK /\ Len(inbound) <= MaxMessages
  /\ ListenersOK /\ TurnsRunToTheirEnd
  /\ \A c \in Channels : BurstOK(c)
  /\ PendingOK /\ \A w \in Waiters : RepliesOK(w)
  /\ ConversationIntact

\* The types of the records, with the ranges of their numbers left alone.
Ids     == 1..MaxMessages
Ages    == 0..(MaxWait + Window)
Delays  == 0..Window
Counts  == 0..MaxMessages
BurstFields ==
  [buffer : Seq(Ids), age : Ages, timer : {"none", "asleep", "turn"}, left : Delays]
TurnFields ==
  [items : Seq(Ids), by : {"timer", "listener"}, state : {"running", "over", "cut"}]
WaiterFields ==
  [pc : {"idle", "asking", "waiting", "ended"}, channel : Channels \cup {"none"},
   future : {"none", "open", "set", "cancelled"}, since : Counts, heard : Counts]
Recipients == Waiters \cup {"turn", "command"}
Histories  == Seq([channel : Channels, to : Recipients])

\* They are the types of the module.
LEMMA TurnRanges ==
  /\ BurstTypes = BurstFields /\ TurnTypes = TurnFields /\ WaiterTypes = WaiterFields
  /\ NoBurst \in BurstFields /\ NoWaiter \in WaiterFields
  /\ 0 \in Ages /\ 0 \in Delays /\ Window \in Delays /\ 0 \in Counts
  /\ Ids \subseteq Nat /\ Ids \subseteq Counts
<1>1. /\ BurstTypes = BurstFields /\ TurnTypes = TurnFields /\ WaiterTypes = WaiterFields
  BY DEF BurstTypes, TurnTypes, WaiterTypes, BurstFields, TurnFields, WaiterFields, Ids,
         Ages, Delays, Counts
<1>2. /\ 0 \in Ages /\ 0 \in Delays /\ Window \in Delays /\ 0 \in Counts
      /\ Ids \subseteq Nat /\ Ids \subseteq Counts
  BY TurnsAssumption DEF Ids, Ages, Delays, Counts
<1> QED
  BY <1>1, <1>2 DEF NoBurst, NoWaiter, BurstFields, WaiterFields

\* The variables of a state that satisfies the invariant.
LEMMA TurnsTypes ==
  ASSUME TurnsInv
  PROVE  /\ turns \in [Channels -> Seq(TurnFields)] /\ burst \in [Channels -> BurstFields]
         /\ waiter \in [Waiters -> WaiterFields] /\ handoff \in [Waiters -> Seq(Ids)]
         /\ pending \in [Channels -> Waiters \cup {"none"}]
         /\ inbound \in Histories
         /\ listener \in [Backends -> {"listening", "backoff", "command", "flush", "off"}]
         /\ router \in {"running", "stopped", "gone"}
         /\ BackendOf \in [Channels -> Backends]
  BY TurnRanges, TurnsAssumption DEF TurnsInv, TurnsTypeOK, Ids, Histories, Recipients

\* The types of the next state, from those of the variables.
LEMMA TurnsTypesNext ==
  ASSUME turns' \in [Channels -> Seq(TurnFields)], burst' \in [Channels -> BurstFields],
         waiter' \in [Waiters -> WaiterFields], handoff' \in [Waiters -> Seq(Ids)],
         pending' \in [Channels -> Waiters \cup {"none"}],
         inbound' \in Histories,
         listener' \in [Backends -> {"listening", "backoff", "command", "flush", "off"}],
         router' \in {"running", "stopped", "gone"}
  PROVE  TurnsTypeOK'
  BY TurnRanges DEF TurnsTypeOK, Ids, Histories, Recipients

\* The timer's task is never the one that runs a turn, so a flush adds a turn to
\* those that there are.
LEMMA FlushAddsATurn ==
  ASSUME TurnsInv, NEW c \in Channels, NEW items \in Seq(Ids),
         NEW by \in {"timer", "listener"}, Flush(c, items, by)
  PROVE  /\ turns' = [turns EXCEPT ![c] = Append(turns[c], NewTurn(items, by))]
         /\ turns' \in [Channels -> Seq(TurnFields)]
         /\ NewTurn(items, by) \in TurnFields
         /\ burst' = [burst EXCEPT ![c] = NoBurst]
         /\ burst' \in [Channels -> BurstFields]
<1>1. burst[c].timer # "turn"
  BY DEF TurnsInv, BurstOK
<1>2. turns' = [turns EXCEPT ![c] = Append(turns[c], NewTurn(items, by))]
  BY <1>1 DEF Flush, TimerCancelled
<1>3. NewTurn(items, by) \in TurnFields
  BY DEF NewTurn, TurnFields
<1>4. turns' \in [Channels -> Seq(TurnFields)]
  <2> HIDE DEF NewTurn
  <2> QED
    BY <1>2, <1>3, TurnsTypes
<1>5. burst' = [burst EXCEPT ![c] = NoBurst]
  BY DEF Flush
<1> QED
  BY <1>2, <1>3, <1>4, <1>5, TurnsTypes, TurnRanges

\* A message that does not complete its burst joins it.
LEMMA SubmitWaits ==
  ASSUME TurnsInv, NEW c \in Channels, NEW m \in Ids, Submit(c, m), ~TooOld(c)
  PROVE  /\ turns' = turns /\ listener' = listener
         /\ burst' \in [Channels -> BurstFields]
         /\ burst'[c].buffer = Append(burst[c].buffer, m) /\ burst'[c].age = burst[c].age
         /\ burst'[c].timer = "asleep" /\ burst'[c].left = Window
         /\ \A d \in Channels \ {c} : burst'[d] = burst[d]
<1>1. burst[c].timer # "turn"
  BY DEF TurnsInv, BurstOK
<1>2. turns' = turns
  BY <1>1, TurnsTypes DEF Submit, TimerCancelled
<1> DEFINE b == [buffer |-> Append(burst[c].buffer, m), age |-> burst[c].age,
                 timer |-> "asleep", left |-> Window]
<1>3. burst' = [burst EXCEPT ![c] = b] /\ listener' = listener
  BY DEF Submit
<1>4. burst[c] \in BurstFields
  BY TurnsTypes
<1>5. b \in BurstFields
  BY <1>4, TurnRanges DEF BurstFields
<1>6. /\ b.buffer = Append(burst[c].buffer, m) /\ b.age = burst[c].age
      /\ b.timer = "asleep" /\ b.left = Window
  OBVIOUS
<1> HIDE DEF b
<1>7. /\ burst' \in [Channels -> BurstFields] /\ burst'[c] = b
      /\ \A d \in Channels \ {c} : burst'[d] = burst[d]
  BY <1>3, <1>5, TurnsTypes
<1> QED
  BY <1>2, <1>3, <1>6, <1>7

\* What cutting the turns in X leaves of the turns.
LEMMA SomeTurnsAreCut ==
  ASSUME TurnsInv, NEW X,
         turns' = [c \in Channels |->
                     [k \in DOMAIN turns[c] |->
                        IF <<c, k>> \in X THEN [turns[c][k] EXCEPT !.state = "cut"]
                                          ELSE turns[c][k]]]
  PROVE  /\ turns' \in [Channels -> Seq(TurnFields)]
         /\ \A c \in Channels : Len(turns'[c]) = Len(turns[c])
         /\ \A c \in Channels : DOMAIN turns'[c] = DOMAIN turns[c]
         /\ \A c \in Channels : \A k \in DOMAIN turns[c] :
              /\ turns'[c][k].items = turns[c][k].items
              /\ turns'[c][k].by = turns[c][k].by
              /\ turns'[c][k].state = IF <<c, k>> \in X THEN "cut"
                                                        ELSE turns[c][k].state
<1>1. ASSUME NEW c \in Channels
      PROVE  /\ turns'[c] \in Seq(TurnFields) /\ Len(turns'[c]) = Len(turns[c])
             /\ DOMAIN turns'[c] = DOMAIN turns[c]
             /\ \A k \in DOMAIN turns[c] :
                  /\ turns'[c][k].items = turns[c][k].items
                  /\ turns'[c][k].by = turns[c][k].by
                  /\ turns'[c][k].state = IF <<c, k>> \in X THEN "cut"
                                                            ELSE turns[c][k].state
  <2> DEFINE s == turns[c]
             cut(k) == <<c, k>> \in X
             t == [k \in DOMAIN s |-> IF cut(k) THEN [s[k] EXCEPT !.state = "cut"]
                                                ELSE s[k]]
  <2>1. s \in Seq(TurnFields) /\ turns'[c] = t
    BY TurnsTypes
  <2> HIDE DEF s, cut
  <2>2. DOMAIN s = 1..Len(s) /\ Len(s) \in Nat
    BY <2>1
  <2>3. \A k \in DOMAIN s :
          /\ t[k] \in TurnFields /\ t[k].items = s[k].items /\ t[k].by = s[k].by
          /\ t[k].state = IF cut(k) THEN "cut" ELSE s[k].state
    <3> SUFFICES ASSUME NEW k \in DOMAIN s
                 PROVE  /\ t[k] \in TurnFields /\ t[k].items = s[k].items
                        /\ t[k].by = s[k].by
                        /\ t[k].state = IF cut(k) THEN "cut" ELSE s[k].state
      OBVIOUS
    <3>1. s[k] \in TurnFields
      BY <2>1
    <3>2. t[k] = IF cut(k) THEN [s[k] EXCEPT !.state = "cut"] ELSE s[k]
      OBVIOUS
    <3> HIDE DEF t
    <3> QED
      BY <3>1, <3>2 DEF TurnFields
  <2>4. DOMAIN t = 1..Len(s)
    BY <2>2
  <2>5. t = [k \in 1..Len(s) |-> t[k]]
    BY <2>2
  <2> HIDE DEF t
  <2>6. t \in Seq(TurnFields) /\ Len(t) = Len(s)
    BY <2>2, <2>3, <2>4, <2>5
  <2> QED
    BY <2>1, <2>2, <2>3, <2>4, <2>6 DEF s, cut
<1>2. turns' = [c \in Channels |-> turns'[c]]
  OBVIOUS
<1> QED
  BY <1>1, <1>2

\* The conversation is what its batches and its messages are.
LEMMA ConversationFrame ==
  ASSUME TurnsInv, TurnsTypeOK',
         \A c \in Channels :
           /\ Len(turns'[c]) = Len(turns[c])
           /\ \A k \in DOMAIN turns[c] : turns'[c][k].items = turns[c][k].items
           /\ burst'[c].buffer = burst[c].buffer
           /\ ForAgent(c)' = ForAgent(c)
  PROVE  ConversationIntact'
<1> SUFFICES ASSUME NEW c \in Channels PROVE Intact(Batches(c), ForAgent(c))'
  BY DEF ConversationIntact
<1>1. /\ turns[c] \in Seq(TurnTypes) /\ turns'[c] \in Seq(TurnTypes)
  BY DEF TurnsInv, TurnsTypeOK
<1>2. DOMAIN turns'[c] = DOMAIN turns[c]
  BY <1>1
<1>3. Batches(c)' = Batches(c)
  BY <1>2 DEF Batches
<1>4. Intact(Batches(c), ForAgent(c))
  BY DEF TurnsInv, ConversationIntact
<1> QED
  BY <1>3, <1>4 DEF Intact

\* The intake goes on and no call is concerned.
LEMMA RepliesFrame ==
  ASSUME TurnsInv, UNCHANGED <<inbound, waiter, pending, handoff>>
  PROVE  PendingOK' /\ \A w \in Waiters : RepliesOK(w)'
  BY DEF TurnsInv, PendingOK, RepliesOK

\* A call goes on and the intake is not concerned.
LEMMA IntakeFrame ==
  ASSUME TurnsInv, TurnsTypeOK', UNCHANGED <<router, listener, burst, turns>>
  PROVE  /\ ListenersOK' /\ TurnsRunToTheirEnd' /\ \A c \in Channels : BurstOK(c)'
         /\ inbound' = inbound => ConversationIntact'
<1>1. ListenersOK' /\ TurnsRunToTheirEnd' /\ \A c \in Channels : BurstOK(c)'
  BY DEF TurnsInv, ListenersOK, Own, TurnsRunToTheirEnd, BurstOK
<1>2. ASSUME inbound' = inbound PROVE ConversationIntact'
  BY <1>2, ConversationFrame DEF ForAgent
<1> QED
  BY <1>1, <1>2

\* A listener that runs no turn does something else.
LEMMA ListenerStep ==
  ASSUME TurnsInv, NEW b \in Backends, listener[b] \in {"listening", "backoff", "command"},
         NEW next \in {"listening", "backoff", "command", "off"},
         listener' = [listener EXCEPT ![b] = next],
         UNCHANGED <<router, inbound, burst, turns, waiter, pending, handoff>>
  PROVE  TurnsInv'
<1>1. TurnsTypeOK'
  BY TurnsTypes, TurnsTypesNext
<1>2. ListenersOK /\ TurnsRunToTheirEnd /\ Len(inbound') <= MaxMessages
  BY DEF TurnsInv
<1>3. listener'[b] = next /\ \A a \in Backends \ {b} : listener'[a] = listener[a]
  BY TurnsTypes
<1>4. router' = "running"
  BY <1>2 DEF ListenersOK
<1>5. \A c \in Channels : \A k \in DOMAIN turns[c] : Own(c, k) => BackendOf[c] # b
  BY <1>2 DEF ListenersOK
<1>6. ListenersOK'
  BY <1>2, <1>3, <1>4, <1>5, TurnsTypes DEF ListenersOK, Own
<1>7. TurnsRunToTheirEnd'
  BY <1>2, <1>3, TurnsTypes DEF TurnsRunToTheirEnd
<1>8. \A c \in Channels : BurstOK(c)'
  BY DEF TurnsInv, BurstOK
<1>9. ConversationIntact'
  BY <1>1, ConversationFrame DEF ForAgent
<1> QED
  BY <1>1, <1>2, <1>6, <1>7, <1>8, <1>9, RepliesFrame DEF TurnsInv

\* A unit of time passes for every burst.
LEMMA PauseKeeps ==
  ASSUME TurnsInv, Pause
  PROVE  TurnsInv'
<1>1. /\ router' = router /\ listener' = listener /\ inbound' = inbound /\ turns' = turns
      /\ waiter' = waiter /\ pending' = pending /\ handoff' = handoff /\ router # "gone"
      /\ \A c \in Channels : burst[c].timer = "asleep" => burst[c].left > 0
      /\ Window \in Nat /\ MaxWait \in Nat
  BY TurnsAssumption DEF Pause
<1>2. ASSUME NEW c \in Channels
      PROVE  /\ burst'[c] \in BurstFields /\ burst'[c].buffer = burst[c].buffer
             /\ BurstOK(c)'
  <2>1. burst[c] \in BurstFields /\ BurstOK(c)
    BY TurnsTypes DEF TurnsInv
  <2>2. CASE burst[c].buffer = <<>>
    <3>1. burst'[c] = burst[c]
      BY <2>2 DEF Pause
    <3> QED
      BY <1>1, <2>1, <3>1 DEF BurstOK
  <2>3. CASE burst[c].buffer # <<>>
    <3> DEFINE a == burst[c].age + 1
               l == burst[c].left - 1
    <3>1. /\ burst[c].timer = "asleep" /\ burst[c].left > 0
          /\ burst[c].age + burst[c].left < MaxWait + Window
      BY <1>1, <2>1, <2>3 DEF BurstOK
    <3>2. burst[c].age \in Nat /\ burst[c].left \in Delays
      BY <1>1, <2>1 DEF BurstFields, Ages
    <3>3. a \in Ages /\ l \in Delays /\ a + l < MaxWait + Window
      BY <1>1, <3>1, <3>2 DEF Ages, Delays
    <3>4. burst'[c] = [burst[c] EXCEPT !.age = a, !.left = l]
      <4>1. burst[c].left # 0 /\ burst[c].buffer # <<>>
        BY <2>3, <3>1
      <4>2. burst'[c] = IF burst[c].buffer = <<>> THEN burst[c]
                        ELSE [burst[c] EXCEPT !.age = @ + 1,
                                              !.left = IF @ = 0 THEN 0 ELSE @ - 1]
        BY DEF Pause
      <4> QED
        BY <2>1, <4>1, <4>2 DEF BurstFields
    <3> HIDE DEF a, l
    <3>5. /\ burst'[c] \in BurstFields /\ burst'[c].buffer = burst[c].buffer
          /\ burst'[c].timer = burst[c].timer /\ burst'[c].age = a /\ burst'[c].left = l
      BY <2>1, <3>3, <3>4 DEF BurstFields
    <3> QED
      BY <3>1, <3>3, <3>5 DEF BurstOK
  <2> QED
    BY <2>2, <2>3
<1>3. burst' \in [Channels -> BurstFields]
  <2>1. burst' = [c \in Channels |-> burst'[c]]
    BY DEF Pause
  <2> QED
    BY <1>2, <2>1
<1>4. TurnsTypeOK'
  BY <1>1, <1>3, TurnsTypes, TurnsTypesNext
<1>5. ListenersOK' /\ TurnsRunToTheirEnd' /\ Len(inbound') <= MaxMessages
  BY <1>1 DEF TurnsInv, ListenersOK, Own, TurnsRunToTheirEnd
<1>6. ConversationIntact'
  BY <1>1, <1>2, <1>4, ConversationFrame DEF ForAgent
<1> QED
  BY <1>1, <1>2, <1>4, <1>5, <1>6, RepliesFrame DEF TurnsInv

\* The turns in X are cut, with the listeners that run them.
CutStep(X) ==
  /\ turns' = [c \in Channels |->
                 [k \in DOMAIN turns[c] |->
                    IF <<c, k>> \in X THEN [turns[c][k] EXCEPT !.state = "cut"]
                                      ELSE turns[c][k]]]
  /\ burst' \in [Channels -> BurstFields]
  /\ \A c \in Channels : burst'[c].buffer = burst[c].buffer /\ BurstOK(c)'
  /\ listener' \in [Backends -> {"listening", "backoff", "command", "flush", "off"}]
  /\ \A b \in Backends : listener'[b] \in {listener[b], "off"}
  /\ router' \in {"running", "stopped", "gone"}
  /\ router # "running" => router' # "running"
  /\ router' # "running" => \A b \in Backends : listener'[b] = "off"
  /\ \A c \in Channels : \A k \in DOMAIN turns[c] :
       /\ <<c, k>> \in X =>
            \/ router' # "running"
            \/ turns[c][k].by = "listener" /\ listener'[BackendOf[c]] = "off"
       /\ Own(c, k) /\ <<c, k>> \notin X =>
            listener'[BackendOf[c]] = listener[BackendOf[c]]
  /\ UNCHANGED <<inbound, waiter, pending, handoff>>

\* Such a step keeps the invariant.
LEMMA CutKeeps ==
  ASSUME TurnsInv, NEW X, CutStep(X)
  PROVE  TurnsInv'
<1> USE DEF CutStep
<1>1. /\ turns' \in [Channels -> Seq(TurnFields)]
      /\ \A c \in Channels : Len(turns'[c]) = Len(turns[c])
      /\ \A c \in Channels : DOMAIN turns'[c] = DOMAIN turns[c]
      /\ \A c \in Channels : \A k \in DOMAIN turns[c] :
           /\ turns'[c][k].items = turns[c][k].items
           /\ turns'[c][k].by = turns[c][k].by
           /\ turns'[c][k].state = IF <<c, k>> \in X THEN "cut" ELSE turns[c][k].state
  BY SomeTurnsAreCut
<1>2. TurnsTypeOK'
  BY <1>1, TurnsTypes, TurnsTypesNext
<1>3. ListenersOK /\ TurnsRunToTheirEnd /\ Len(inbound') <= MaxMessages
  BY DEF TurnsInv
<1>4. \A c \in Channels : \A k \in DOMAIN turns[c] :
        Own(c, k)' => Own(c, k) /\ <<c, k>> \notin X
  BY <1>1 DEF Own
<1>5. ListenersOK'
  <2>1. \A c \in Channels : \A k \in DOMAIN turns'[c] :
          Own(c, k)' => listener'[BackendOf[c]] = "flush"
    BY <1>1, <1>3, <1>4 DEF ListenersOK
  <2>2. \A c, d \in Channels : \A k \in DOMAIN turns'[c], l \in DOMAIN turns'[d] :
          Own(c, k)' /\ Own(d, l)' /\ BackendOf[c] = BackendOf[d] => c = d /\ k = l
    <3>1. \A c, d \in Channels : \A k \in DOMAIN turns[c], l \in DOMAIN turns[d] :
            Own(c, k) /\ Own(d, l) /\ BackendOf[c] = BackendOf[d] => c = d /\ k = l
      BY <1>3 DEF ListenersOK
    <3> SUFFICES ASSUME NEW c \in Channels, NEW d \in Channels,
                        NEW k \in DOMAIN turns'[c], NEW l \in DOMAIN turns'[d],
                        Own(c, k)', Own(d, l)', BackendOf[c] = BackendOf[d]
                 PROVE  c = d /\ k = l
      OBVIOUS
    <3>2. k \in DOMAIN turns[c] /\ l \in DOMAIN turns[d]
      BY <1>1
    <3>3. Own(c, k) /\ Own(d, l)
      BY <1>1, <3>2 DEF Own
    <3> QED
      BY <3>1, <3>2, <3>3
  <2> QED
    BY <2>1, <2>2 DEF ListenersOK
<1>6. TurnsRunToTheirEnd'
  <2> SUFFICES ASSUME NEW c \in Channels, NEW k \in DOMAIN turns[c],
                      turns'[c][k].state = "cut"
               PROVE  \/ router' # "running"
                      \/ turns'[c][k].by = "listener" /\ listener'[BackendOf[c]] = "off"
    BY <1>1 DEF TurnsRunToTheirEnd
  <2>1. BackendOf[c] \in Backends
    BY TurnsTypes
  <2>2. CASE <<c, k>> \in X
    BY <1>1, <2>2
  <2>3. CASE <<c, k>> \notin X
    BY <1>1, <1>3, <2>1, <2>3 DEF TurnsRunToTheirEnd
  <2> QED
    BY <2>2, <2>3
<1>7. ConversationIntact'
  BY <1>1, <1>2, ConversationFrame DEF ForAgent
<1> QED
  BY <1>2, <1>3, <1>5, <1>6, <1>7, RepliesFrame DEF TurnsInv

\* The listeners of some backends are cancelled.
LEMMA CancelKeeps ==
  ASSUME TurnsInv, NEW S \in SUBSET Backends, CancelListeners(S),
         router' \in {"running", "stopped", "gone"}, router' # "gone",
         router # "running" => router' # "running", router # "gone",
         router' # "running" => S = Backends,
         UNCHANGED <<inbound, burst, waiter, pending, handoff>>
  PROVE  TurnsInv'
<1> DEFINE X == {x \in Channels \X Nat : BackendOf[x[1]] \in S /\ Own(x[1], x[2])}
<1>1. \A c \in Channels : \A k \in DOMAIN turns[c] :
        <<c, k>> \in X <=> BackendOf[c] \in S /\ Own(c, k)
  <2>1. \A c \in Channels : DOMAIN turns[c] \subseteq Nat
    BY TurnsTypes
  <2> QED
    BY <2>1
<1> HIDE DEF X
<1>2. turns' = [c \in Channels |->
                  [k \in DOMAIN turns[c] |->
                     IF <<c, k>> \in X THEN [turns[c][k] EXCEPT !.state = "cut"]
                                       ELSE turns[c][k]]]
  <2>1. turns' = [c \in Channels |->
                    [k \in DOMAIN turns[c] |->
                       IF BackendOf[c] \in S /\ Own(c, k)
                         THEN [turns[c][k] EXCEPT !.state = "cut"]
                         ELSE turns[c][k]]]
    BY DEF CancelListeners, Own
  <2> QED
    BY <1>1, <2>1
<1>3. listener' = [b \in Backends |-> IF b \in S THEN "off" ELSE listener[b]]
  BY DEF CancelListeners
<1>4. /\ listener' \in [Backends -> {"listening", "backoff", "command", "flush", "off"}]
      /\ \A b \in Backends : listener'[b] = IF b \in S THEN "off" ELSE listener[b]
  BY <1>3, TurnsTypes
<1>5. /\ burst' \in [Channels -> BurstFields]
      /\ \A c \in Channels : burst'[c].buffer = burst[c].buffer /\ BurstOK(c)'
  BY TurnsTypes DEF TurnsInv, BurstOK
<1>6. \A c \in Channels : \A k \in DOMAIN turns[c] :
        /\ <<c, k>> \in X =>
             turns[c][k].by = "listener" /\ listener'[BackendOf[c]] = "off"
        /\ Own(c, k) /\ <<c, k>> \notin X =>
             listener'[BackendOf[c]] = listener[BackendOf[c]]
  <2> SUFFICES ASSUME NEW c \in Channels, NEW k \in DOMAIN turns[c]
               PROVE  /\ <<c, k>> \in X => /\ turns[c][k].by = "listener"
                                           /\ listener'[BackendOf[c]] = "off"
                      /\ Own(c, k) /\ <<c, k>> \notin X =>
                           listener'[BackendOf[c]] = listener[BackendOf[c]]
    OBVIOUS
  <2>1. BackendOf[c] \in Backends
    BY TurnsTypes
  <2>2. <<c, k>> \in X <=> BackendOf[c] \in S /\ Own(c, k)
    BY <1>1
  <2>3. listener'[BackendOf[c]] = IF BackendOf[c] \in S THEN "off"
                                                        ELSE listener[BackendOf[c]]
    BY <1>4, <2>1
  <2>4. Own(c, k) => turns[c][k].by = "listener"
    BY DEF Own
  <2> QED
    BY <2>2, <2>3, <2>4
<1>7. \A b \in Backends : listener'[b] \in {listener[b], "off"}
  BY <1>4
<1>8. router' # "running" => \A b \in Backends : listener'[b] = "off"
  BY <1>4
<1>9. CutStep(X)
  BY <1>2, <1>4, <1>5, <1>6, <1>7, <1>8 DEF CutStep
<1> QED
  BY <1>9, CutKeeps

\* The event loop of the intake ends, with every turn.
LEMMA EndLoopKeeps ==
  ASSUME TurnsInv, EndLoop
  PROVE  TurnsInv'
<1> DEFINE X == {x \in Channels \X Nat : turns[x[1]][x[2]].state = "running"}
<1>1. \A c \in Channels : \A k \in DOMAIN turns[c] :
        <<c, k>> \in X <=> turns[c][k].state = "running"
  <2>1. \A c \in Channels : DOMAIN turns[c] \subseteq Nat
    BY TurnsTypes
  <2> QED
    BY <2>1
<1> HIDE DEF X
<1>2. turns' = [c \in Channels |->
                  [k \in DOMAIN turns[c] |->
                     IF <<c, k>> \in X THEN [turns[c][k] EXCEPT !.state = "cut"]
                                       ELSE turns[c][k]]]
  BY <1>1 DEF EndLoop
<1>3. /\ router' = "gone" /\ listener' = listener /\ inbound' = inbound
      /\ waiter' = waiter /\ pending' = pending /\ handoff' = handoff
      /\ \A b \in Backends : listener[b] = "off"
  BY DEF EndLoop, TurnsInv, ListenersOK
<1>4. ASSUME NEW c \in Channels
      PROVE  /\ burst'[c] \in BurstFields /\ burst'[c].buffer = burst[c].buffer
             /\ BurstOK(c)'
  <2>1. burst[c] \in BurstFields /\ burst'[c] = [burst[c] EXCEPT !.timer = "none", !.left = 0]
    BY TurnsTypes DEF EndLoop
  <2>2. /\ burst'[c] \in BurstFields /\ burst'[c].buffer = burst[c].buffer
        /\ burst'[c].timer = "none"
    BY <2>1, TurnRanges DEF BurstFields
  <2> QED
    BY <1>3, <2>2 DEF BurstOK
<1>5. burst' \in [Channels -> BurstFields]
  <2>1. burst' = [c \in Channels |-> burst'[c]]
    BY DEF EndLoop
  <2> QED
    BY <1>4, <2>1
<1>6. CutStep(X)
  BY <1>2, <1>3, <1>4, <1>5, TurnsTypes DEF CutStep
<1> QED
  BY <1>6, CutKeeps

\* A message after all others joins the last batch.
LEMMA IntactGrows ==
  ASSUME NEW n \in Nat \ {0}, NEW a, NEW b, NEW S \in SUBSET Nat, NEW m \in Nat,
         DOMAIN a = 1..n, DOMAIN b = 1..n, a[n] \in Seq(Nat),
         \A k \in 1..(n - 1) : b[k] = a[k], b[n] = Append(a[n], m),
         \A x \in S : x < m, Intact(a, S)
  PROVE  Intact(b, S \cup {m})
<1>1. \A k \in 1..n : Range(a[k]) \subseteq S
  BY DEF Intact
<1>2. Range(b[n]) = Range(a[n]) \cup {m}
  <2>1. /\ DOMAIN a[n] = 1..Len(a[n]) /\ DOMAIN b[n] = 1..(Len(a[n]) + 1)
        /\ Len(a[n]) \in Nat
        /\ \A x \in 1..Len(a[n]) : b[n][x] = a[n][x]
        /\ b[n][Len(a[n]) + 1] = m
    OBVIOUS
  <2> QED
    BY <2>1 DEF Range
<1>3. ASSUME NEW k \in 1..n, NEW x \in DOMAIN b[k], NEW y \in DOMAIN b[k], x < y
      PROVE  b[k][x] < b[k][y]
  <2>1. CASE k # n
    BY <1>3, <2>1 DEF Intact
  <2>2. CASE k = n
    <3>1. \A z \in 1..Len(a[n]) : a[n][z] < m
      <4>1. \A z \in 1..Len(a[n]) : a[n][z] \in Range(a[n])
        BY DEF Range
      <4> QED
        BY <1>1, <4>1
    <3>2. x \in 1..Len(a[n]) /\ b[n][x] = a[n][x] /\ Len(a[n]) \in Nat
      BY <1>3, <2>2
    <3>3. CASE y \in 1..Len(a[n])
      <4>1. DOMAIN a[n] = 1..Len(a[n]) /\ n \in DOMAIN a
        OBVIOUS
      <4>2. \A u, v \in DOMAIN a[n] : u < v => a[n][u] < a[n][v]
        BY <4>1 DEF Intact
      <4>3. b[n][y] = a[n][y]
        BY <3>3
      <4>4. a[n][x] < a[n][y]
        BY <1>3, <3>2, <3>3, <4>1, <4>2
      <4> QED
        BY <2>2, <3>2, <4>3, <4>4
    <3>4. CASE y = Len(a[n]) + 1
      BY <2>2, <3>1, <3>2, <3>4
    <3> QED
      BY <1>3, <2>2, <3>2, <3>3, <3>4
  <2> QED
    BY <2>1, <2>2
<1>4. ASSUME NEW k \in 1..n, NEW l \in 1..n, k < l,
             NEW x \in Range(b[k]), NEW y \in Range(b[l])
      PROVE  x < y
  <2>1. b[k] = a[k] /\ x \in S
    BY <1>1, <1>4
  <2>2. CASE y = m
    BY <2>1, <2>2
  <2>3. CASE y # m
    <3>1. y \in Range(a[l])
      <4>1. CASE l = n
        BY <1>2, <1>4, <2>3, <4>1
      <4>2. CASE l # n
        <5>1. l \in 1..(n - 1)
          BY <4>2
        <5> QED
          BY <1>4, <5>1
      <4> QED
        BY <4>1, <4>2
    <3> QED
      <4>1. x \in Range(a[k]) /\ k \in DOMAIN a /\ l \in DOMAIN a
        BY <1>4, <2>1
      <4>2. \A i, j \in DOMAIN a :
              i < j => \A u \in Range(a[i]), v \in Range(a[j]) : u < v
        BY DEF Intact
      <4> QED
        BY <1>4, <3>1, <4>1, <4>2
  <2> QED
    BY <2>2, <2>3
<1>5. UNION {Range(b[k]) : k \in 1..n} = S \cup {m}
  <2>1. UNION {Range(a[k]) : k \in 1..n} = S
    BY DEF Intact
  <2>2. \A k \in 1..n : /\ Range(a[k]) \subseteq Range(b[k])
                          /\ Range(b[k]) \subseteq Range(a[k]) \cup {m}
    <3> SUFFICES ASSUME NEW k \in 1..n
                 PROVE  /\ Range(a[k]) \subseteq Range(b[k])
                        /\ Range(b[k]) \subseteq Range(a[k]) \cup {m}
      OBVIOUS
    <3>1. CASE k = n
      BY <1>2, <3>1
    <3>2. CASE k # n
      <4>1. k \in 1..(n - 1)
        BY <3>2
      <4> QED
        BY <4>1
    <3> QED
      BY <3>1, <3>2
  <2>3. n \in 1..n /\ m \in Range(b[n])
    BY <1>2
  <2>4. \A k \in 1..n : Range(b[k]) \subseteq S \cup {m}
    BY <1>1, <2>2
  <2>5. \A x \in S : \E k \in 1..n : x \in Range(b[k])
    BY <2>1, <2>2
  <2> QED
    BY <2>3, <2>4, <2>5
<1> QED
  BY <1>3, <1>4, <1>5 DEF Intact

\* A turn is started: an empty batch follows the last one.
LEMMA IntactNext ==
  ASSUME NEW n \in Nat, NEW a, NEW b, NEW S, DOMAIN a = 1..n, DOMAIN b = 1..(n + 1),
         \A k \in 1..n : b[k] = a[k], b[n + 1] = <<>>, Intact(a, S)
  PROVE  Intact(b, S)
<1>1. Range(b[n + 1]) = {} /\ DOMAIN b[n + 1] = {}
  BY DEF Range
<1>2. \A k \in 1..(n + 1) : k \in 1..n \/ k = n + 1
  OBVIOUS
<1>3. \A k \in 1..(n + 1) : \A x, y \in DOMAIN b[k] : x < y => b[k][x] < b[k][y]
  BY <1>1, <1>2 DEF Intact
<1>4. ASSUME NEW k \in 1..(n + 1), NEW l \in 1..(n + 1), k < l,
             NEW x \in Range(b[k]), NEW y \in Range(b[l])
      PROVE  x < y
  <2>1. k \in 1..n /\ l \in 1..n
    BY <1>1, <1>2, <1>4
  <2> QED
    BY <1>4, <2>1 DEF Intact
<1>5. UNION {Range(b[k]) : k \in 1..(n + 1)} = S
  <2>1. UNION {Range(a[k]) : k \in 1..n} = S
    BY DEF Intact
  <2>2. \A k \in 1..n : Range(b[k]) = Range(a[k]) /\ k \in 1..(n + 1)
    OBVIOUS
  <2> QED
    BY <1>1, <1>2, <2>1, <2>2
<1> QED
  BY <1>3, <1>4, <1>5 DEF Intact

\* The batches of turns t and buffer s.
BatchesIn(t, s) == Append([k \in DOMAIN t |-> t[k].items], s)

\* They are what the turns were given, and then the buffer.
LEMMA BatchesOf ==
  ASSUME NEW t \in Seq(TurnFields), NEW s \in Seq(Ids), NEW b, b = BatchesIn(t, s)
  PROVE  /\ DOMAIN b = 1..(Len(t) + 1) /\ Len(t) \in Nat /\ b[Len(t) + 1] = s
         /\ s \in Seq(Nat)
         /\ \A k \in 1..Len(t) : b[k] = t[k].items
<1> DEFINE f == [k \in DOMAIN t |-> t[k].items]
<1>1. DOMAIN t = 1..Len(t) /\ Len(t) \in Nat
  OBVIOUS
<1>2. \A k \in 1..Len(t) : f[k] \in Seq(Ids)
  <2>1. \A k \in 1..Len(t) : t[k] \in TurnFields
    OBVIOUS
  <2> QED
    BY <1>1, <2>1 DEF TurnFields
<1>3. f \in Seq(Seq(Ids)) /\ Len(f) = Len(t)
  <2>1. f = [k \in 1..Len(t) |-> f[k]]
    BY <1>1
  <2> HIDE DEF f
  <2> QED
    BY <1>1, <1>2, <2>1
<1>4. b = Append(f, s)
  BY DEF BatchesIn
<1>5. \A k \in 1..Len(t) : f[k] = t[k].items
  BY <1>1
<1>6. s \in Seq(Nat)
  <2>1. \A k \in 1..Len(s) : s[k] \in Ids
    OBVIOUS
  <2>2. \A k \in 1..Len(s) : s[k] \in Nat
    BY <2>1, TurnRanges
  <2> QED
    BY <2>2
<1> HIDE DEF f
<1>7. /\ DOMAIN b = 1..(Len(f) + 1) /\ b[Len(f) + 1] = s
      /\ \A k \in 1..Len(f) : b[k] = f[k]
  <2>1. \A g \in Seq(Seq(Ids)) : /\ DOMAIN Append(g, s) = 1..(Len(g) + 1)
                                  /\ Append(g, s)[Len(g) + 1] = s
                                  /\ \A k \in 1..Len(g) : Append(g, s)[k] = g[k]
    OBVIOUS
  <2> QED
    BY <1>3, <1>4, <2>1
<1> QED
  BY <1>1, <1>3, <1>5, <1>6, <1>7

\* What a flush of channel c does to the turns.
LEMMA FlushedTurns ==
  ASSUME TurnsInv, NEW c \in Channels, NEW items \in Seq(Ids),
         NEW by \in {"timer", "listener"}, Flush(c, items, by)
  PROVE  /\ Len(turns'[c]) = Len(turns[c]) + 1 /\ Len(turns[c]) \in Nat
         /\ DOMAIN turns[c] = 1..Len(turns[c])
         /\ DOMAIN turns'[c] = 1..(Len(turns[c]) + 1)
         /\ \A k \in DOMAIN turns[c] : turns'[c][k] = turns[c][k]
         /\ turns'[c][Len(turns[c]) + 1].items = items
         /\ turns'[c][Len(turns[c]) + 1].by = by
         /\ turns'[c][Len(turns[c]) + 1].state = "running"
         /\ burst'[c] = NoBurst
         /\ \A d \in Channels \ {c} : turns'[d] = turns[d] /\ burst'[d] = burst[d]
<1> DEFINE t == NewTurn(items, by)
<1>1. t.items = items /\ t.by = by /\ t.state = "running" /\ t \in TurnFields
  BY DEF NewTurn, TurnFields
<1>2. /\ turns' = [turns EXCEPT ![c] = Append(turns[c], t)]
      /\ burst' = [burst EXCEPT ![c] = NoBurst]
  BY FlushAddsATurn
<1> HIDE DEF t
<1>3. /\ turns'[c] = Append(turns[c], t) /\ turns[c] \in Seq(TurnFields)
      /\ burst'[c] = NoBurst
      /\ \A d \in Channels \ {c} : turns'[d] = turns[d] /\ burst'[d] = burst[d]
  BY <1>2, TurnsTypes
<1>4. /\ Len(turns'[c]) = Len(turns[c]) + 1 /\ Len(turns[c]) \in Nat
      /\ DOMAIN turns[c] = 1..Len(turns[c])
      /\ DOMAIN turns'[c] = 1..(Len(turns[c]) + 1)
      /\ \A k \in 1..Len(turns[c]) : turns'[c][k] = turns[c][k]
      /\ turns'[c][Len(turns[c]) + 1] = t
  BY <1>1, <1>3
<1> QED
  BY <1>1, <1>3, <1>4

\* A flush leaves the listeners, the turns that run and the bursts in order.
LEMMA FlushKeeps ==
  ASSUME TurnsInv, NEW c \in Channels, NEW items \in Seq(Ids),
         NEW by \in {"timer", "listener"}, Flush(c, items, by), router' = router,
         by = "timer" => listener' = listener,
         by = "listener" => /\ listener[BackendOf[c]] = "listening"
                            /\ listener' = [listener EXCEPT ![BackendOf[c]] = "flush"]
  PROVE  ListenersOK' /\ TurnsRunToTheirEnd' /\ \A d \in Channels : BurstOK(d)'
<1> DEFINE n == Len(turns[c]) + 1
<1>1. /\ n \notin DOMAIN turns[c] /\ turns'[c][n].by = by
      /\ turns'[c][n].state = "running"
      /\ \A d \in Channels : \A k \in DOMAIN turns'[d] :
           \/ k \in DOMAIN turns[d] /\ turns'[d][k] = turns[d][k]
           \/ d = c /\ k = n
  <2>1. DOMAIN turns'[c] = DOMAIN turns[c] \cup {n} /\ n \notin DOMAIN turns[c]
    BY FlushedTurns
  <2> QED
    BY <2>1, FlushedTurns
<1> HIDE DEF n
<1>2. ListenersOK /\ TurnsRunToTheirEnd
  BY DEF TurnsInv
<1>3. BackendOf[c] \in Backends /\ BackendOf \in [Channels -> Backends]
  BY TurnsTypes
<1>4. ASSUME by = "timer" PROVE ListenersOK' /\ TurnsRunToTheirEnd'
  <2>1. listener' = listener
    BY <1>4
  <2>2. \A d \in Channels : \A k \in DOMAIN turns'[d] :
          Own(d, k)' => k \in DOMAIN turns[d] /\ Own(d, k)
    BY <1>1, <1>4 DEF Own
  <2>3. ListenersOK'
    <3>1. \A d \in Channels : \A k \in DOMAIN turns'[d] :
            Own(d, k)' => listener'[BackendOf[d]] = "flush"
      BY <1>2, <2>1, <2>2 DEF ListenersOK
    <3>2. \A d, e \in Channels : \A k \in DOMAIN turns'[d], l \in DOMAIN turns'[e] :
            Own(d, k)' /\ Own(e, l)' /\ BackendOf[d] = BackendOf[e] => d = e /\ k = l
      <4> SUFFICES ASSUME NEW d \in Channels, NEW e \in Channels,
                          NEW k \in DOMAIN turns'[d], NEW l \in DOMAIN turns'[e],
                          Own(d, k)', Own(e, l)', BackendOf[d] = BackendOf[e]
                   PROVE  d = e /\ k = l
        OBVIOUS
      <4>1. k \in DOMAIN turns[d] /\ Own(d, k) /\ l \in DOMAIN turns[e] /\ Own(e, l)
        BY <1>1, <1>4 DEF Own
      <4> QED
        BY <1>2, <4>1 DEF ListenersOK
    <3> QED
      BY <1>2, <2>1, <3>1, <3>2 DEF ListenersOK
  <2>4. TurnsRunToTheirEnd'
    BY <1>1, <1>2, <2>1 DEF TurnsRunToTheirEnd
  <2> QED
    BY <2>3, <2>4
<1>5. ASSUME by = "listener" PROVE ListenersOK' /\ TurnsRunToTheirEnd'
  <2>1. /\ listener[BackendOf[c]] = "listening" /\ listener'[BackendOf[c]] = "flush"
        /\ \A b \in Backends \ {BackendOf[c]} : listener'[b] = listener[b]
        /\ router = "running"
    BY <1>2, <1>3, <1>5, TurnsTypes DEF ListenersOK
  <2>2. \A d \in Channels : \A k \in DOMAIN turns'[d] :
          Own(d, k)' => \/ d = c /\ k = n
                        \/ /\ k \in DOMAIN turns[d] /\ Own(d, k)
                           /\ BackendOf[d] # BackendOf[c]
    BY <1>1, <1>2, <2>1 DEF Own, ListenersOK
  <2>3. ListenersOK'
    <3>1. \A d \in Channels : \A k \in DOMAIN turns'[d] :
            Own(d, k)' => listener'[BackendOf[d]] = "flush"
      BY <1>2, <1>3, <2>1, <2>2 DEF ListenersOK
    <3>2. \A d, e \in Channels : \A k \in DOMAIN turns'[d], l \in DOMAIN turns'[e] :
            Own(d, k)' /\ Own(e, l)' /\ BackendOf[d] = BackendOf[e] => d = e /\ k = l
      <4> SUFFICES ASSUME NEW d \in Channels, NEW e \in Channels,
                          NEW k \in DOMAIN turns'[d], NEW l \in DOMAIN turns'[e],
                          Own(d, k)', Own(e, l)', BackendOf[d] = BackendOf[e]
                   PROVE  d = e /\ k = l
        OBVIOUS
      <4>1. \/ d = c /\ k = n
            \/ k \in DOMAIN turns[d] /\ Own(d, k) /\ BackendOf[d] # BackendOf[c]
        BY <2>2
      <4>2. \/ e = c /\ l = n
            \/ l \in DOMAIN turns[e] /\ Own(e, l) /\ BackendOf[e] # BackendOf[c]
        BY <2>2
      <4>3. \A f, g \in Channels : \A i \in DOMAIN turns[f], j \in DOMAIN turns[g] :
              Own(f, i) /\ Own(g, j) /\ BackendOf[f] = BackendOf[g] => f = g /\ i = j
        BY <1>2 DEF ListenersOK
      <4> QED
        BY <4>1, <4>2, <4>3
    <3> QED
      BY <2>1, <3>1, <3>2 DEF ListenersOK
  <2>4. TurnsRunToTheirEnd'
    <3> SUFFICES ASSUME NEW d \in Channels, NEW k \in DOMAIN turns'[d],
                        turns'[d][k].state = "cut"
                 PROVE  turns'[d][k].by = "listener" /\ listener'[BackendOf[d]] = "off"
      BY DEF TurnsRunToTheirEnd
    <3>1. k \in DOMAIN turns[d] /\ turns'[d][k] = turns[d][k]
      BY <1>1
    <3>2. turns[d][k].by = "listener" /\ listener[BackendOf[d]] = "off"
      BY <1>2, <2>1, <3>1 DEF TurnsRunToTheirEnd
    <3> QED
      BY <1>3, <2>1, <3>1, <3>2
  <2> QED
    BY <2>3, <2>4
<1>6. ASSUME NEW d \in Channels PROVE BurstOK(d)'
  <2>1. CASE d = c
    BY <2>1, FlushedTurns DEF BurstOK, NoBurst
  <2>2. CASE d # c
    <3>1. burst'[d] = burst[d] /\ BurstOK(d)
      BY <2>2, FlushedTurns DEF TurnsInv
    <3> QED
      BY <3>1 DEF BurstOK
  <2> QED
    BY <2>1, <2>2
<1> QED
  BY <1>4, <1>5, <1>6

\* reply_to_burst ends a turn.
LEMMA TurnOverKeeps ==
  ASSUME TurnsInv, NEW c \in Channels, NEW k \in DOMAIN turns[c], TurnOver(c, k)
  PROVE  TurnsInv'
<1>1. /\ turns[c][k].state = "running" /\ router' = router /\ inbound' = inbound
      /\ burst' = burst /\ waiter' = waiter /\ pending' = pending /\ handoff' = handoff
      /\ turns' = [turns EXCEPT ![c][k].state = "over"]
      /\ listener' = IF turns[c][k].by = "listener"
                       THEN [listener EXCEPT ![BackendOf[c]] = "listening"]
                       ELSE listener
  BY DEF TurnOver
<1>2. /\ turns' \in [Channels -> Seq(TurnFields)]
      /\ \A d \in Channels \ {c} : turns'[d] = turns[d]
      /\ Len(turns'[c]) = Len(turns[c]) /\ DOMAIN turns'[c] = DOMAIN turns[c]
      /\ \A l \in DOMAIN turns[c] \ {k} : turns'[c][l] = turns[c][l]
      /\ turns'[c][k].items = turns[c][k].items /\ turns'[c][k].by = turns[c][k].by
      /\ turns'[c][k].state = "over"
  <2> DEFINE t == [turns[c][k] EXCEPT !.state = "over"]
  <2>1. turns[c] \in Seq(TurnFields) /\ turns[c][k] \in TurnFields
    BY TurnsTypes
  <2>2. /\ t \in TurnFields /\ t.items = turns[c][k].items /\ t.by = turns[c][k].by
        /\ t.state = "over"
    BY <2>1 DEF TurnFields
  <2>3. turns' = [turns EXCEPT ![c] = [turns[c] EXCEPT ![k] = t]]
    BY <1>1
  <2> HIDE DEF t
  <2>4. /\ [turns[c] EXCEPT ![k] = t] \in Seq(TurnFields)
        /\ Len([turns[c] EXCEPT ![k] = t]) = Len(turns[c])
        /\ DOMAIN [turns[c] EXCEPT ![k] = t] = DOMAIN turns[c]
    BY <2>1, <2>2
  <2>5. /\ turns'[c] = [turns[c] EXCEPT ![k] = t]
        /\ \A d \in Channels \ {c} : turns'[d] = turns[d]
        /\ turns' \in [Channels -> Seq(TurnFields)]
    BY <2>3, <2>4, TurnsTypes
  <2>6. /\ turns'[c][k] = t
        /\ \A l \in DOMAIN turns[c] \ {k} : turns'[c][l] = turns[c][l]
    BY <2>1, <2>5
  <2> QED
    BY <2>2, <2>4, <2>5, <2>6
<1>3. BackendOf[c] \in Backends /\ BackendOf \in [Channels -> Backends]
  BY TurnsTypes
<1>4. TurnsTypeOK'
  <2>1. listener' \in [Backends -> {"listening", "backoff", "command", "flush", "off"}]
    BY <1>1, TurnsTypes
  <2> QED
    BY <1>1, <1>2, <2>1, TurnsTypes, TurnsTypesNext
<1>5. ListenersOK /\ TurnsRunToTheirEnd /\ Len(inbound') <= MaxMessages
  BY <1>1 DEF TurnsInv
<1>6. \A d \in Channels : DOMAIN turns'[d] = DOMAIN turns[d]
  BY <1>2
<1>7. \A d \in Channels : \A l \in DOMAIN turns'[d] :
        /\ turns'[d][l].by = turns[d][l].by
        /\ turns'[d][l].state # "over" => turns'[d][l].state = turns[d][l].state
        /\ d = c /\ l = k => turns'[d][l].state = "over"
  BY <1>2
<1>8. \A d \in Channels : \A l \in DOMAIN turns'[d] :
        Own(d, l)' => Own(d, l) /\ (d # c \/ l # k)
  BY <1>7 DEF Own
<1>9. \A d \in Channels : \A l \in DOMAIN turns'[d] :
        Own(d, l)' => listener'[BackendOf[d]] = "flush"
  <2> SUFFICES ASSUME NEW d \in Channels, NEW l \in DOMAIN turns[d], Own(d, l)'
               PROVE  listener'[BackendOf[d]] = "flush"
    BY <1>6
  <2>1. Own(d, l) /\ (d # c \/ l # k) /\ listener[BackendOf[d]] = "flush"
    BY <1>5, <1>6, <1>8 DEF ListenersOK
  <2>2. CASE turns[c][k].by # "listener"
    BY <1>1, <2>1, <2>2
  <2>3. CASE turns[c][k].by = "listener"
    <3>1. Own(c, k)
      BY <1>1, <2>3 DEF Own
    <3>2. BackendOf[d] # BackendOf[c]
      BY <1>5, <2>1, <3>1 DEF ListenersOK
    <3> QED
      BY <1>1, <1>3, <2>1, <2>3, <3>2, TurnsTypes
  <2> QED
    BY <2>2, <2>3
<1>10. \A d, e \in Channels : \A l \in DOMAIN turns'[d], j \in DOMAIN turns'[e] :
         Own(d, l)' /\ Own(e, j)' /\ BackendOf[d] = BackendOf[e] => d = e /\ l = j
  <2> SUFFICES ASSUME NEW d \in Channels, NEW e \in Channels,
                      NEW l \in DOMAIN turns'[d], NEW j \in DOMAIN turns'[e],
                      Own(d, l)', Own(e, j)', BackendOf[d] = BackendOf[e]
               PROVE  d = e /\ l = j
    OBVIOUS
  <2>1. Own(d, l) /\ Own(e, j) /\ l \in DOMAIN turns[d] /\ j \in DOMAIN turns[e]
    BY <1>6, <1>7 DEF Own
  <2> QED
    BY <1>5, <2>1 DEF ListenersOK
<1>11. \A b \in Backends : listener[b] = "off" => listener'[b] = "off"
  <2>1. turns[c][k].by = "listener" => listener[BackendOf[c]] = "flush"
    BY <1>1, <1>5 DEF ListenersOK, Own
  <2> QED
    BY <1>1, <1>3, <2>1, TurnsTypes
<1>12. ListenersOK'
  BY <1>1, <1>5, <1>9, <1>10, <1>11 DEF ListenersOK
<1>13. TurnsRunToTheirEnd'
  <2> SUFFICES ASSUME NEW d \in Channels, NEW l \in DOMAIN turns'[d],
                      turns'[d][l].state = "cut", router = "running"
               PROVE  turns'[d][l].by = "listener" /\ listener'[BackendOf[d]] = "off"
    BY <1>1 DEF TurnsRunToTheirEnd
  <2>1. turns[d][l].state = "cut" /\ l \in DOMAIN turns[d]
    BY <1>6, <1>7
  <2> QED
    BY <1>3, <1>5, <1>7, <1>11, <2>1 DEF TurnsRunToTheirEnd
<1>14. \A d \in Channels : BurstOK(d)'
  BY <1>1 DEF TurnsInv, BurstOK
<1>15. ConversationIntact'
  <2>1. \A d \in Channels : /\ Len(turns'[d]) = Len(turns[d])
                            /\ \A l \in DOMAIN turns[d] :
                                 turns'[d][l].items = turns[d][l].items
    BY <1>2
  <2> QED
    BY <1>1, <1>4, <2>1, ConversationFrame DEF ForAgent
<1> QED
  BY <1>1, <1>4, <1>5, <1>12, <1>13, <1>14, <1>15, RepliesFrame DEF TurnsInv

\* What a message adds to the history, and to what is for the agent.
History(c, to, m) ==
  /\ inbound' \in Histories /\ Len(inbound') = m
  /\ DOMAIN inbound' = DOMAIN inbound \cup {m}
  /\ \A n \in DOMAIN inbound : inbound'[n] = inbound[n] /\ n < m /\ n \in Nat
  /\ inbound'[m].channel = c /\ inbound'[m].to = to

MoreForAgent(c, to, m) ==
  \A d \in Channels :
    /\ ForAgent(d) \in SUBSET Nat /\ \A n \in ForAgent(d) : n < m
    /\ ForAgent(d)' = IF d = c /\ to = "turn" THEN ForAgent(d) \cup {m}
                                              ELSE ForAgent(d)

\* It adds just that.
LEMMA ReceivedMessage ==
  ASSUME TurnsInv, NEW c \in Channels, NEW to \in Recipients,
         Received(c, to), NEW m, m = Len(inbound) + 1, m <= MaxMessages
  PROVE  m \in Ids /\ m \in Nat /\ History(c, to, m) /\ MoreForAgent(c, to, m)
<1> DEFINE r == [channel |-> c, to |-> to]
           R == [channel : Channels, to : Recipients]
<1>1. r \in R /\ r.channel = c /\ r.to = to /\ inbound \in Seq(R)
  BY TurnsTypes DEF Histories
<1>2. inbound' = Append(inbound, r)
  BY DEF Received
<1> HIDE DEF r, R
<1>3. /\ Len(inbound) \in Nat /\ DOMAIN inbound = 1..Len(inbound)
      /\ inbound' \in Seq(R) /\ Len(inbound') = Len(inbound) + 1
      /\ DOMAIN inbound' = 1..(Len(inbound) + 1)
      /\ \A n \in 1..Len(inbound) : inbound'[n] = inbound[n]
      /\ inbound'[Len(inbound) + 1] = r
  BY <1>1, <1>2
<1>4. m \in Ids /\ m \in Nat
  BY <1>3, TurnsAssumption DEF Ids
<1>5. /\ DOMAIN inbound' = DOMAIN inbound \cup {m}
      /\ \A n \in DOMAIN inbound : inbound'[n] = inbound[n] /\ n < m /\ n \in Nat
      /\ inbound'[m].channel = c /\ inbound'[m].to = to
  BY <1>1, <1>3
<1>6. ASSUME NEW d \in Channels
      PROVE  /\ ForAgent(d) \in SUBSET Nat /\ \A n \in ForAgent(d) : n < m
             /\ ForAgent(d)' = IF d = c /\ to = "turn" THEN ForAgent(d) \cup {m}
                                                       ELSE ForAgent(d)
  BY <1>5 DEF ForAgent
<1> QED
  BY <1>3, <1>4, <1>5, <1>6 DEF R, History, Histories, MoreForAgent

\* The batches of a channel that a step does not touch.
LEMMA OtherConversation ==
  ASSUME TurnsInv, NEW d \in Channels, turns'[d] = turns[d],
         burst'[d].buffer = burst[d].buffer, ForAgent(d)' = ForAgent(d)
  PROVE  Intact(Batches(d), ForAgent(d))'
<1>1. Batches(d)' = Batches(d)
  BY DEF Batches
<1>2. Intact(Batches(d), ForAgent(d))
  BY DEF TurnsInv, ConversationIntact
<1> QED
  BY <1>1, <1>2 DEF Intact

\* A turn takes over the buffer, with the message that made the burst too old.
LEMMA FlushedConversation ==
  ASSUME TurnsInv, NEW c \in Channels, NEW items \in Seq(Ids),
         NEW by \in {"timer", "listener"}, Flush(c, items, by), NEW m \in Nat,
         \/ items = burst[c].buffer /\ ForAgent(c)' = ForAgent(c)
         \/ /\ items = Append(burst[c].buffer, m) /\ ForAgent(c)' = ForAgent(c) \cup {m}
            /\ ForAgent(c) \in SUBSET Nat /\ \A n \in ForAgent(c) : n < m,
         \A d \in Channels \ {c} : ForAgent(d)' = ForAgent(d)
  PROVE  ConversationIntact'
<1>1. ASSUME NEW d \in Channels \ {c} PROVE Intact(Batches(d), ForAgent(d))'
  <2>1. turns'[d] = turns[d] /\ burst'[d] = burst[d]
    BY FlushedTurns
  <2> QED
    BY <2>1, OtherConversation
<1>2. Intact(Batches(c), ForAgent(c))'
  <2> DEFINE n == Len(turns[c]) + 1
             a == Batches(c)
             b == Batches(c)'
             S == ForAgent(c)
  <2>1. /\ turns[c] \in Seq(TurnFields) /\ burst[c].buffer \in Seq(Ids)
    BY TurnsTypes DEF BurstFields
  <2>2. /\ DOMAIN a = 1..n /\ n \in Nat \ {0} /\ a[n] = burst[c].buffer
        /\ burst[c].buffer \in Seq(Nat)
        /\ \A k \in 1..(n - 1) : a[k] = turns[c][k].items
    <3>1. a = BatchesIn(turns[c], burst[c].buffer)
      BY DEF Batches, BatchesIn
    <3> HIDE DEF a
    <3>2. /\ DOMAIN a = 1..(Len(turns[c]) + 1) /\ Len(turns[c]) \in Nat
          /\ a[Len(turns[c]) + 1] = burst[c].buffer
          /\ burst[c].buffer \in Seq(Nat)
          /\ \A k \in 1..Len(turns[c]) : a[k] = turns[c][k].items
      BY <2>1, <3>1, BatchesOf
    <3> QED
      BY <3>2
  <2>3. /\ turns'[c] \in Seq(TurnFields) /\ Len(turns'[c]) = n
        /\ burst'[c].buffer = <<>> /\ <<>> \in Seq(Ids)
        /\ \A k \in 1..(n - 1) : turns'[c][k] = turns[c][k]
        /\ turns'[c][n].items = items
    <3>1. turns'[c] \in Seq(TurnFields)
      BY FlushAddsATurn
    <3>2. burst'[c].buffer = <<>>
      BY FlushedTurns DEF NoBurst
    <3>3. DOMAIN turns[c] = 1..(n - 1)
      BY FlushedTurns
    <3> QED
      BY <3>1, <3>2, <3>3, FlushedTurns
  <2>4. /\ DOMAIN b = 1..(n + 1) /\ b[n + 1] = <<>> /\ b[n] = items
        /\ \A k \in 1..(n - 1) : b[k] = a[k]
    <3>1. b = BatchesIn(turns'[c], <<>>)
      BY <2>3 DEF Batches, BatchesIn
    <3> HIDE DEF a, b, n
    <3>2. /\ DOMAIN b = 1..(n + 1) /\ b[n + 1] = <<>>
          /\ \A k \in 1..n : b[k] = turns'[c][k].items
      <4> DEFINE t == turns'[c]
                 s == burst'[c].buffer
      <4>1. /\ t \in Seq(TurnFields) /\ Len(t) = n /\ b = BatchesIn(t, s)
            /\ s \in Seq(Ids) /\ s = <<>>
        BY <2>3, <3>1
      <4> HIDE DEF t, s
      <4>2. /\ DOMAIN b = 1..(Len(t) + 1) /\ b[Len(t) + 1] = s
            /\ \A k \in 1..Len(t) : b[k] = t[k].items
        <5>1. t \in Seq(TurnFields) /\ s \in Seq(Ids) /\ b = BatchesIn(t, s)
          BY <4>1
        <5> QED
          BY <5>1, BatchesOf
      <4> QED
        BY <4>1, <4>2 DEF t
    <3> QED
      BY <2>2, <2>3, <3>2
  <2>5. Intact(a, S)
    BY DEF TurnsInv, ConversationIntact
  <2>6. CASE items = burst[c].buffer /\ ForAgent(c)' = ForAgent(c)
    <3>1. \A k \in 1..n : b[k] = a[k]
      <4> HIDE DEF a, b, n
      <4>1. \A k \in 1..n : k = n \/ k \in 1..(n - 1)
        BY <2>2
      <4> QED
        BY <2>2, <2>4, <2>6, <4>1
    <3>2. Intact(b, S)
      <4> HIDE DEF a, b, n, S
      <4> QED
        BY <2>2, <2>4, <2>5, <3>1, IntactNext
    <3> QED
      BY <2>6, <3>2 DEF Intact
  <2>7. CASE /\ items = Append(burst[c].buffer, m) /\ ForAgent(c)' = ForAgent(c) \cup {m}
             /\ ForAgent(c) \in SUBSET Nat /\ \A x \in ForAgent(c) : x < m
    <3> DEFINE g == [k \in 1..n |-> IF k = n THEN Append(a[n], m) ELSE a[k]]
    <3>1. /\ DOMAIN g = 1..n /\ g[n] = Append(a[n], m)
          /\ \A k \in 1..(n - 1) : g[k] = a[k]
      <4> HIDE DEF a, n
      <4> QED
        BY <2>2
    <3>2. Intact(g, S \cup {m})
      <4> HIDE DEF a, n, S, g
      <4>1. S \in SUBSET Nat /\ \A x \in S : x < m
        BY <2>7 DEF S
      <4> QED
        BY <2>2, <2>5, <3>1, <4>1, IntactGrows
    <3>3. \A k \in 1..n : b[k] = g[k]
      <4> HIDE DEF a, b, n, g
      <4>1. \A k \in 1..n : k = n \/ k \in 1..(n - 1)
        BY <2>2
      <4> QED
        BY <2>2, <2>4, <2>7, <3>1, <4>1
    <3>4. Intact(b, S \cup {m})
      <4> HIDE DEF a, b, n, S, g
      <4> QED
        BY <2>2, <2>4, <3>1, <3>2, <3>3, IntactNext
    <3> QED
      BY <2>7, <3>4 DEF Intact
  <2> QED
    BY <2>6, <2>7
<1> QED
  BY <1>1, <1>2 DEF ConversationIntact

\* _wait_and_flush, after its sleep.
LEMMA TimerKeeps ==
  ASSUME TurnsInv, NEW c \in Channels, TimerFires(c)
  PROVE  TurnsInv'
<1>1. /\ router' = router /\ listener' = listener /\ inbound' = inbound
      /\ waiter' = waiter /\ pending' = pending /\ handoff' = handoff
      /\ Flush(c, burst[c].buffer, "timer") /\ burst[c].timer = "asleep"
  BY DEF TimerFires
<1>2. burst[c].buffer \in Seq(Ids)
  BY TurnsTypes DEF BurstFields
<1>3. turns' \in [Channels -> Seq(TurnFields)] /\ burst' \in [Channels -> BurstFields]
  BY <1>1, <1>2, FlushAddsATurn
<1>4. TurnsTypeOK'
  BY <1>1, <1>3, TurnsTypes, TurnsTypesNext
<1>5. ListenersOK' /\ TurnsRunToTheirEnd' /\ \A d \in Channels : BurstOK(d)'
  <2>1. "timer" \in {"timer", "listener"}
    OBVIOUS
  <2> QED
    BY <1>1, <1>2, <2>1, FlushKeeps
<1>6. ConversationIntact'
  <2>1. \A d \in Channels : ForAgent(d)' = ForAgent(d)
    BY <1>1 DEF ForAgent
  <2> QED
    BY <1>1, <1>2, <2>1, 0 \in Nat, FlushedConversation
<1> QED
  BY <1>1, <1>4, <1>5, <1>6, RepliesFrame DEF TurnsInv

\* A message that is for no call.
LEMMA OtherMessages ==
  ASSUME TurnsInv, NEW c \in Channels, NEW to \in {"turn", "command"}, Received(c, to),
         NEW m, m = Len(inbound) + 1, m <= MaxMessages,
         UNCHANGED <<waiter, pending, handoff>>
  PROVE  PendingOK' /\ \A w \in Waiters : RepliesOK(w)'
<1>1. /\ m \in Nat /\ Len(inbound') = m /\ DOMAIN inbound' = DOMAIN inbound \cup {m}
      /\ \A n \in DOMAIN inbound : inbound'[n] = inbound[n]
      /\ inbound'[m].to = to /\ to \notin Waiters /\ Len(inbound) \in Nat
  <2>1. to \in Recipients /\ to \notin Waiters
    BY TurnsAssumption DEF Recipients
  <2>2. Len(inbound) \in Nat
    BY TurnsTypes DEF Histories
  <2>3. m \in Nat /\ History(c, to, m)
    BY <2>1, ReceivedMessage
  <2> QED
    BY <2>1, <2>2, <2>3 DEF History
<1>2. PendingOK'
  BY DEF TurnsInv, PendingOK
<1>3. ASSUME NEW w \in Waiters PROVE RepliesOK(w)'
  <2>1. RepliesOK(w) /\ waiter[w] \in WaiterFields
    BY TurnsTypes DEF TurnsInv
  <2>2. \A n \in DOMAIN inbound' :
          inbound'[n].to = w => n \in DOMAIN inbound /\ inbound[n].to = w
    BY <1>1
  <2>3. waiter[w].since <= Len(inbound')
    BY <1>1, <2>1 DEF RepliesOK, WaiterFields, Counts
  <2> QED
    BY <1>1, <2>1, <2>2, <2>3 DEF RepliesOK
<1> QED
  BY <1>2, <1>3

\* deliver_reply
LEMMA DeliverKeeps ==
  ASSUME TurnsInv, NEW c \in Channels, NEW m, m = Len(inbound) + 1, m <= MaxMessages,
         DeliverReply(c, m), UNCHANGED <<router, waiter, pending>>
  PROVE  TurnsInv'
<1>0. PICK w : w = pending[c]
  OBVIOUS
<1>1. /\ w \in Waiters /\ waiter[w].future = "open" /\ w # "none"
      /\ waiter[w].pc # "idle" /\ waiter[w].channel = c
  BY <1>0, TurnsTypes DEF DeliverReply, Taken, Future, TurnsInv, PendingOK
<1>2. /\ Received(c, w) /\ handoff' = [handoff EXCEPT ![w] = Append(handoff[w], m)]
      /\ listener' = listener /\ burst' = burst /\ turns' = turns
  BY <1>0 DEF DeliverReply
<1>3. /\ m \in Ids /\ m \in Nat /\ Len(inbound') = m
      /\ inbound' \in Histories
      /\ DOMAIN inbound' = DOMAIN inbound \cup {m}
      /\ \A n \in DOMAIN inbound : inbound'[n] = inbound[n] /\ n < m /\ n \in Nat
      /\ inbound'[m].channel = c /\ inbound'[m].to = w
      /\ \A d \in Channels : ForAgent(d)' = ForAgent(d)
  <2>1. w \in Recipients /\ w # "turn"
    BY <1>1, TurnsAssumption DEF Recipients
  <2>2. m \in Ids /\ m \in Nat /\ History(c, w, m) /\ MoreForAgent(c, w, m)
    BY <1>2, <2>1, ReceivedMessage
  <2> QED
    BY <2>1, <2>2 DEF History, MoreForAgent
<1>4. handoff[w] \in Seq(Ids) /\ Len(handoff[w]) \in Nat
  BY <1>1, TurnsTypes
<1>5. /\ handoff' \in [Waiters -> Seq(Ids)]
      /\ handoff'[w] = Append(handoff[w], m)
      /\ \A v \in Waiters \ {w} : handoff'[v] = handoff[v]
  <2>1. Append(handoff[w], m) \in Seq(Ids)
    BY <1>3, <1>4
  <2> QED
    BY <1>1, <1>2, <2>1, TurnsTypes
<1>6. TurnsTypeOK'
  BY <1>2, <1>3, <1>5, TurnsTypes, TurnsTypesNext
<1>7. ListenersOK' /\ TurnsRunToTheirEnd' /\ \A d \in Channels : BurstOK(d)'
  BY <1>2, <1>6, IntakeFrame
<1>8. ConversationIntact'
  BY <1>2, <1>3, <1>6, ConversationFrame
<1>9. PendingOK'
  BY DEF TurnsInv, PendingOK
<1>10. ASSUME NEW v \in Waiters PROVE RepliesOK(v)'
  <2>1. RepliesOK(v) /\ waiter[v] \in WaiterFields /\ Len(inbound) \in Nat
    BY TurnsTypes DEF TurnsInv, Histories
  <2>2. waiter[v].since <= Len(inbound') /\ waiter[v].since < m
    <3>1. waiter[v].since <= Len(inbound) /\ waiter[v].since \in Nat
      BY <2>1 DEF RepliesOK, WaiterFields, Counts
    <3> QED
      BY <1>3, <2>1, <3>1
  <2>3. CASE v # w
    <3>1. \A n \in DOMAIN inbound' :
            inbound'[n].to = v => n \in DOMAIN inbound /\ inbound[n].to = v
      BY <1>3, <2>3
    <3>2. handoff'[v] = handoff[v]
      BY <1>5, <2>3
    <3> QED
      BY <1>3, <2>1, <2>2, <3>1, <3>2 DEF RepliesOK
  <2>4. CASE v = w
    <3>1. waiter[v].heard = 0 /\ waiter[v].future = "open" /\ waiter[v].pc # "idle"
      BY <1>1, <2>1, <2>4 DEF RepliesOK
    <3>2. \A n \in DOMAIN inbound' :
            inbound'[n].to = v => /\ n > waiter[v].since
                                  /\ inbound'[n].channel = waiter[v].channel
      BY <1>1, <1>3, <2>1, <2>2, <2>4 DEF RepliesOK
    <3>3. /\ DOMAIN handoff'[v] = 1..(Len(handoff[v]) + 1)
          /\ \A k \in 1..Len(handoff[v]) : handoff'[v][k] = handoff[v][k]
          /\ handoff'[v][Len(handoff[v]) + 1] = m /\ handoff'[v] # <<>>
          /\ DOMAIN handoff[v] = 1..Len(handoff[v]) /\ Len(handoff[v]) \in Nat
      <4> DEFINE a == handoff[v]
      <4>1. a \in Seq(Ids) /\ handoff'[v] = Append(a, m)
        BY <1>4, <1>5, <2>4
      <4>2. DOMAIN a = 1..Len(a) /\ Len(a) \in Nat
        BY <4>1
      <4> HIDE DEF a
      <4>3. /\ DOMAIN Append(a, m) = 1..(Len(a) + 1)
            /\ \A k \in 1..Len(a) : Append(a, m)[k] = a[k]
            /\ Append(a, m)[Len(a) + 1] = m /\ Append(a, m) # <<>>
        BY <1>3, <4>1, <4>2
      <4> QED
        BY <4>1, <4>2, <4>3 DEF a
    <3>4. \A k \in DOMAIN handoff'[v] :
            handoff'[v][k] \in DOMAIN inbound' /\ inbound'[handoff'[v][k]].to = v
      <4>1. \A k \in 1..Len(handoff[v]) :
              handoff[v][k] \in DOMAIN inbound /\ inbound[handoff[v][k]].to = v
        BY <2>1, <3>3 DEF RepliesOK
      <4>2. \A k \in DOMAIN handoff'[v] :
              k \in 1..Len(handoff[v]) \/ k = Len(handoff[v]) + 1
        BY <3>3
      <4>3. ASSUME NEW k \in 1..Len(handoff[v])
            PROVE  handoff'[v][k] \in DOMAIN inbound' /\ inbound'[handoff'[v][k]].to = v
        BY <1>3, <3>3, <4>1
      <4>4. m \in DOMAIN inbound' /\ inbound'[m].to = v
        BY <1>3, <2>4
      <4> QED
        BY <3>3, <4>2, <4>3, <4>4
    <3>5. ASSUME NEW n \in DOMAIN inbound', inbound'[n].to = v
          PROVE  handoff'[v][1] <= n
      <4>1. CASE handoff[v] = <<>>
        <5>1. Len(handoff[v]) = 0
          BY <4>1
        <5>2. n = m
          BY <1>3, <2>1, <3>1, <3>5, <4>1 DEF RepliesOK
        <5> QED
          BY <1>3, <3>3, <5>1, <5>2
      <4>2. CASE handoff[v] # <<>>
        <5>1. 1 \in 1..Len(handoff[v])
          BY <1>4, <2>4, <4>2
        <5>2. handoff'[v][1] = handoff[v][1] /\ handoff[v][1] \in DOMAIN inbound
          BY <2>1, <3>3, <5>1 DEF RepliesOK
        <5>3. CASE n = m
          BY <1>3, <5>2, <5>3
        <5>4. CASE n # m
          <6>1. n \in DOMAIN inbound /\ inbound[n].to = v
            BY <1>3, <3>5, <5>4
          <6> QED
            BY <2>1, <3>1, <5>2, <6>1 DEF RepliesOK
        <5> QED
          BY <5>3, <5>4
      <4> QED
        BY <4>1, <4>2
    <3> QED
      BY <2>2, <3>1, <3>2, <3>3, <3>4, <3>5 DEF RepliesOK
  <2> QED
    BY <2>3, <2>4
<1> QED
  BY <1>3, <1>6, <1>7, <1>8, <1>9, <1>10 DEF TurnsInv

\* handle_command answers the message.
LEMMA CommandKeeps ==
  ASSUME TurnsInv, NEW c \in Channels, NEW m, m = Len(inbound) + 1, m <= MaxMessages,
         listener[BackendOf[c]] = "listening", HandleCommand(c),
         UNCHANGED <<router, waiter, pending>>
  PROVE  TurnsInv'
<1>1. /\ Received(c, "command") /\ burst' = burst /\ turns' = turns /\ handoff' = handoff
      /\ listener' = [listener EXCEPT ![BackendOf[c]] = "command"]
  BY DEF HandleCommand
<1>2. /\ inbound' \in Histories /\ Len(inbound') = m /\ m \in Nat
      /\ \A d \in Channels : ForAgent(d)' = ForAgent(d)
  <2>1. "command" \in Recipients
    BY DEF Recipients
  <2>2. m \in Nat /\ History(c, "command", m) /\ MoreForAgent(c, "command", m)
    BY <1>1, <2>1, ReceivedMessage
  <2> QED
    BY <2>2 DEF History, MoreForAgent
<1>3. /\ BackendOf[c] \in Backends /\ BackendOf \in [Channels -> Backends]
      /\ listener' \in [Backends -> {"listening", "backoff", "command", "flush", "off"}]
      /\ listener'[BackendOf[c]] = "command"
      /\ \A b \in Backends \ {BackendOf[c]} : listener'[b] = listener[b]
  BY <1>1, TurnsTypes
<1>4. TurnsTypeOK'
  BY <1>1, <1>2, <1>3, TurnsTypes, TurnsTypesNext
<1>5. ListenersOK /\ TurnsRunToTheirEnd
  BY DEF TurnsInv
<1>6. router = "running"
  BY <1>3, <1>5 DEF ListenersOK
<1>7. \A d \in Channels : \A k \in DOMAIN turns[d] : Own(d, k) => BackendOf[d] # BackendOf[c]
  BY <1>5 DEF ListenersOK
<1>8. ListenersOK'
  BY <1>1, <1>3, <1>5, <1>6, <1>7 DEF ListenersOK, Own
<1>9. TurnsRunToTheirEnd'
  BY <1>1, <1>3, <1>5 DEF TurnsRunToTheirEnd
<1>10. \A d \in Channels : BurstOK(d)'
  BY <1>1 DEF TurnsInv, BurstOK
<1>11. ConversationIntact'
  BY <1>1, <1>2, <1>4, ConversationFrame
<1>12. PendingOK' /\ \A w \in Waiters : RepliesOK(w)'
  BY <1>1, OtherMessages
<1> QED
  BY <1>2, <1>4, <1>8, <1>9, <1>10, <1>11, <1>12 DEF TurnsInv

\* The message joins the buffer of its channel.
LEMMA BufferedConversation ==
  ASSUME TurnsInv, NEW c \in Channels, NEW m \in Nat, turns' = turns,
         burst'[c].buffer = Append(burst[c].buffer, m),
         \A d \in Channels \ {c} : burst'[d] = burst[d] /\ ForAgent(d)' = ForAgent(d),
         ForAgent(c)' = ForAgent(c) \cup {m}, ForAgent(c) \in SUBSET Nat,
         \A n \in ForAgent(c) : n < m, burst'[c].buffer \in Seq(Ids)
  PROVE  ConversationIntact'
<1>1. ASSUME NEW d \in Channels \ {c} PROVE Intact(Batches(d), ForAgent(d))'
  BY OtherConversation
<1>2. Intact(Batches(c), ForAgent(c))'
  <2> DEFINE n == Len(turns[c]) + 1
             a == Batches(c)
             b == Batches(c)'
             S == ForAgent(c)
  <2>1. turns[c] \in Seq(TurnFields) /\ burst[c].buffer \in Seq(Ids)
    BY TurnsTypes DEF BurstFields
  <2>2. /\ a = BatchesIn(turns[c], burst[c].buffer)
        /\ b = BatchesIn(turns[c], burst'[c].buffer)
    BY DEF Batches, BatchesIn
  <2> HIDE DEF a, b
  <2>3. /\ DOMAIN a = 1..(Len(turns[c]) + 1) /\ Len(turns[c]) \in Nat
        /\ a[Len(turns[c]) + 1] = burst[c].buffer
        /\ burst[c].buffer \in Seq(Nat)
        /\ \A k \in 1..Len(turns[c]) : a[k] = turns[c][k].items
    BY <2>1, <2>2, BatchesOf
  <2>4. /\ DOMAIN b = 1..(Len(turns[c]) + 1)
        /\ b[Len(turns[c]) + 1] = burst'[c].buffer
        /\ \A k \in 1..Len(turns[c]) : b[k] = turns[c][k].items
    <3> DEFINE s == burst'[c].buffer
    <3>1. s \in Seq(Ids) /\ b = BatchesIn(turns[c], s)
      BY <2>2
    <3> HIDE DEF s
    <3>2. /\ DOMAIN b = 1..(Len(turns[c]) + 1) /\ b[Len(turns[c]) + 1] = s
          /\ \A k \in 1..Len(turns[c]) : b[k] = turns[c][k].items
      BY <2>1, <3>1, BatchesOf
    <3> QED
      BY <3>2 DEF s
  <2>5. /\ DOMAIN a = 1..n /\ DOMAIN b = 1..n /\ n \in Nat \ {0} /\ a[n] \in Seq(Nat)
        /\ b[n] = Append(a[n], m) /\ \A k \in 1..(n - 1) : b[k] = a[k]
    BY <2>3, <2>4
  <2>6. Intact(a, S)
    BY DEF TurnsInv, ConversationIntact, a
  <2>7. Intact(b, S \cup {m})
    <3>1. S \in SUBSET Nat /\ \A x \in S : x < m
      OBVIOUS
    <3> HIDE DEF n, S
    <3> QED
      BY <2>5, <2>6, <3>1, IntactGrows
  <2> QED
    BY <2>7 DEF Intact, b
<1> QED
  BY <1>1, <1>2 DEF ConversationIntact

\* submit
LEMMA JoinKeeps ==
  ASSUME TurnsInv, NEW c \in Channels, NEW m, m = Len(inbound) + 1, m <= MaxMessages,
         listener[BackendOf[c]] = "listening", JoinBurst(c, m),
         UNCHANGED <<router, waiter, pending>>
  PROVE  TurnsInv'
<1>1. Received(c, "turn") /\ Submit(c, m) /\ handoff' = handoff
  BY DEF JoinBurst
<1>2. /\ inbound' \in Histories /\ Len(inbound') = m /\ m \in Ids /\ m \in Nat
      /\ ForAgent(c)' = ForAgent(c) \cup {m} /\ ForAgent(c) \in SUBSET Nat
      /\ \A n \in ForAgent(c) : n < m
      /\ \A d \in Channels \ {c} : ForAgent(d)' = ForAgent(d)
  <2>1. "turn" \in Recipients
    BY DEF Recipients
  <2>2. m \in Ids /\ m \in Nat /\ History(c, "turn", m) /\ MoreForAgent(c, "turn", m)
    BY <1>1, <2>1, ReceivedMessage
  <2> QED
    BY <2>2 DEF History, MoreForAgent
<1>3. PendingOK' /\ \A w \in Waiters : RepliesOK(w)'
  BY <1>1, OtherMessages
<1>4. burst[c].buffer \in Seq(Ids) /\ burst[c] \in BurstFields /\ BackendOf[c] \in Backends
  BY TurnsTypes DEF BurstFields
<1>5. CASE TooOld(c)
  <2> DEFINE items == Append(burst[c].buffer, m)
  <2>1. /\ items \in Seq(Ids) /\ Flush(c, items, "listener")
        /\ listener' = [listener EXCEPT ![BackendOf[c]] = "flush"]
    BY <1>1, <1>2, <1>4, <1>5 DEF Submit
  <2>2. items = Append(burst[c].buffer, m)
    OBVIOUS
  <2> HIDE DEF items
  <2>3. turns' \in [Channels -> Seq(TurnFields)] /\ burst' \in [Channels -> BurstFields]
    BY <2>1, FlushAddsATurn
  <2>4. listener' \in [Backends -> {"listening", "backoff", "command", "flush", "off"}]
    BY <2>1, TurnsTypes
  <2>5. TurnsTypeOK'
    BY <1>1, <1>2, <2>3, <2>4, TurnsTypes, TurnsTypesNext
  <2>6. ListenersOK' /\ TurnsRunToTheirEnd' /\ \A d \in Channels : BurstOK(d)'
    BY <2>1, FlushKeeps
  <2>7. ConversationIntact'
    BY <1>2, <2>1, <2>2, FlushedConversation
  <2> QED
    BY <1>2, <1>3, <2>5, <2>6, <2>7 DEF TurnsInv
<1>6. CASE ~TooOld(c)
  <2>1. /\ turns' = turns /\ listener' = listener
        /\ burst' \in [Channels -> BurstFields]
        /\ burst'[c].buffer = Append(burst[c].buffer, m) /\ burst'[c].age = burst[c].age
        /\ burst'[c].timer = "asleep" /\ burst'[c].left = Window
        /\ \A d \in Channels \ {c} : burst'[d] = burst[d]
    BY <1>1, <1>2, <1>6, SubmitWaits
  <2>2. TurnsTypeOK'
    BY <1>1, <1>2, <2>1, TurnsTypes, TurnsTypesNext
  <2>3. ListenersOK' /\ TurnsRunToTheirEnd'
    BY <2>1 DEF TurnsInv, ListenersOK, Own, TurnsRunToTheirEnd
  <2>4. ASSUME NEW d \in Channels PROVE BurstOK(d)'
    <3>1. CASE d = c
      <4>1. burst[c].age < MaxWait /\ burst[c].age \in Nat
        BY <1>4, <1>6, TurnsAssumption DEF TooOld, BurstFields, Ages
      <4> QED
        BY <2>1, <3>1, <4>1, TurnsAssumption DEF BurstOK
    <3>2. CASE d # c
      <4>1. burst'[d] = burst[d] /\ BurstOK(d)
        BY <2>1, <3>2 DEF TurnsInv
      <4> QED
        BY <4>1 DEF BurstOK
    <3> QED
      BY <3>1, <3>2
  <2>5. ConversationIntact'
    <3>1. burst'[c].buffer \in Seq(Ids)
      BY <1>2, <1>4, <2>1
    <3> QED
      BY <1>2, <2>1, <3>1, BufferedConversation
  <2> QED
    BY <1>2, <1>3, <2>2, <2>3, <2>4, <2>5 DEF TurnsInv
<1> QED
  BY <1>5, <1>6

\* A call goes on: what it leaves alone, and what is left to show.
LEMMA WaitingStep ==
  ASSUME TurnsInv, UNCHANGED <<router, listener, inbound, burst, turns>>,
         waiter' \in [Waiters -> WaiterFields], handoff' \in [Waiters -> Seq(Ids)],
         pending' \in [Channels -> Waiters \cup {"none"}],
         PendingOK', \A w \in Waiters : RepliesOK(w)'
  PROVE  TurnsInv'
<1>1. TurnsTypeOK'
  BY TurnsTypes, TurnsTypesNext
<1>2. Len(inbound') <= MaxMessages
  BY DEF TurnsInv
<1> QED
  BY <1>1, <1>2, IntakeFrame DEF TurnsInv

\* The replies of the calls that a step leaves alone.
LEMMA OtherReplies ==
  ASSUME TurnsInv, NEW w \in Waiters, inbound' = inbound, waiter'[w] = waiter[w],
         handoff'[w] = handoff[w]
  PROVE  RepliesOK(w)'
  BY DEF TurnsInv, RepliesOK

\* reach_user_and_wait registers its future.
LEMMA AskKeeps ==
  ASSUME TurnsInv, NEW w \in Waiters, NEW c \in Channels, Ask(w, c)
  PROVE  TurnsInv'
<1> DEFINE r == [pc |-> "asking", channel |-> c, heard |-> 0, future |-> "open",
                 since |-> Len(inbound)]
<1>1. /\ waiter[w].pc = "idle" /\ waiter' = [waiter EXCEPT ![w] = r]
      /\ pending' = [pending EXCEPT ![c] = w] /\ handoff' = handoff
      /\ UNCHANGED <<router, listener, inbound, burst, turns>>
  BY DEF Ask
<1>2. Len(inbound) \in Counts /\ Len(inbound) \in Nat
  BY TurnsTypes DEF TurnsInv, Histories, Counts
<1>3. r \in WaiterFields
  BY <1>2, TurnRanges DEF WaiterFields
<1>4. /\ r.pc = "asking" /\ r.channel = c /\ r.heard = 0 /\ r.future = "open"
      /\ r.since = Len(inbound)
  OBVIOUS
<1> HIDE DEF r
<1>5. /\ waiter' \in [Waiters -> WaiterFields] /\ waiter'[w] = r
      /\ \A v \in Waiters \ {w} : waiter'[v] = waiter[v]
      /\ pending' \in [Channels -> Waiters \cup {"none"}] /\ pending'[c] = w
      /\ \A d \in Channels \ {c} : pending'[d] = pending[d]
      /\ handoff' \in [Waiters -> Seq(Ids)]
  BY <1>1, <1>3, TurnsTypes
<1>6. PendingOK'
  <2>1. \A d \in Channels : pending[d] # w
    BY <1>1, TurnsAssumption DEF TurnsInv, PendingOK
  <2> SUFFICES ASSUME NEW d \in Channels, pending'[d] # "none"
               PROVE  /\ waiter'[pending'[d]].pc # "idle"
                      /\ waiter'[pending'[d]].channel = d
    BY DEF PendingOK
  <2>2. CASE d = c
    BY <1>4, <1>5, <2>2
  <2>3. CASE d # c
    <3>1. pending'[d] = pending[d] /\ pending[d] \in Waiters \ {w}
      BY <1>5, <2>1, <2>3, TurnsTypes
    <3>2. waiter'[pending[d]] = waiter[pending[d]]
      BY <1>5, <3>1
    <3> QED
      BY <3>1, <3>2 DEF TurnsInv, PendingOK
  <2> QED
    BY <2>2, <2>3
<1>7. RepliesOK(w)'
  <2>1. RepliesOK(w)
    BY DEF TurnsInv
  <2>2. \A m \in DOMAIN inbound : inbound[m].to # w
    BY <1>1, <2>1 DEF RepliesOK
  <2> QED
    BY <1>1, <1>2, <1>4, <1>5, <2>1, <2>2 DEF RepliesOK
<1>8. \A v \in Waiters : RepliesOK(v)'
  BY <1>1, <1>5, <1>7, OtherReplies
<1> QED
  BY <1>1, <1>5, <1>6, <1>8, WaitingStep

\* The call waits, or ends: it has a reply, or none.
LEMMA WaitKeeps ==
  ASSUME TurnsInv, NEW w \in Waiters,
         NEW next \in {"waiting", "ended"}, NEW future, NEW heard,
         waiter[w].pc # "idle", future \in {waiter[w].future, "cancelled"},
         heard \in {0, waiter[w].heard}, future = "open" => heard = 0,
         waiter' = [waiter EXCEPT ![w].pc = next, ![w].future = future,
                                  ![w].heard = heard],
         pending' \in [Channels -> Waiters \cup {"none"}],
         \A c \in Channels : pending'[c] \in {pending[c], "none"},
         UNCHANGED <<router, listener, inbound, burst, turns, handoff>>
  PROVE  TurnsInv'
<1>1. waiter[w] \in WaiterFields /\ RepliesOK(w)
  BY TurnsTypes DEF TurnsInv
<1>2. future \in {"none", "open", "set", "cancelled"} /\ heard \in Counts
  BY <1>1, TurnRanges DEF WaiterFields
<1>3. /\ waiter' \in [Waiters -> WaiterFields]
      /\ waiter'[w].pc = next /\ waiter'[w].future = future /\ waiter'[w].heard = heard
      /\ waiter'[w].channel = waiter[w].channel /\ waiter'[w].since = waiter[w].since
      /\ \A v \in Waiters \ {w} : waiter'[v] = waiter[v]
  BY <1>1, <1>2, TurnsTypes DEF WaiterFields
<1>4. PendingOK'
  BY <1>3, TurnsTypes DEF TurnsInv, PendingOK
<1>5. RepliesOK(w)'
  BY <1>1, <1>2, <1>3 DEF RepliesOK
<1>6. \A v \in Waiters : RepliesOK(v)'
  BY <1>3, <1>5, OtherReplies
<1> QED
  BY <1>3, <1>4, <1>6, WaitingStep, TurnsTypes

\* _safe_set takes the first reply that was handed over.
LEMMA SafeSetKeeps ==
  ASSUME TurnsInv, NEW w \in Waiters, SafeSet(w)
  PROVE  TurnsInv'
<1>1. /\ handoff[w] # <<>> /\ handoff' = [handoff EXCEPT ![w] = Tail(handoff[w])]
      /\ pending' = pending /\ UNCHANGED <<router, listener, inbound, burst, turns>>
  BY DEF SafeSet
<1>2. /\ handoff[w] \in Seq(Ids) /\ waiter[w] \in WaiterFields /\ RepliesOK(w)
      /\ Len(handoff[w]) \in Nat \ {0}
  BY <1>1, TurnsTypes DEF TurnsInv
<1>3. /\ Tail(handoff[w]) \in Seq(Ids) /\ Head(handoff[w]) = handoff[w][1]
      /\ handoff[w][1] \in Ids /\ DOMAIN handoff[w] = 1..Len(handoff[w])
      /\ \A k \in DOMAIN Tail(handoff[w]) :
           /\ k + 1 \in DOMAIN handoff[w] /\ Tail(handoff[w])[k] = handoff[w][k + 1]
  BY <1>1, <1>2
<1>4. /\ handoff' \in [Waiters -> Seq(Ids)] /\ handoff'[w] = Tail(handoff[w])
      /\ \A v \in Waiters \ {w} : handoff'[v] = handoff[v]
  BY <1>1, <1>3, TurnsTypes
<1>5. \A k \in DOMAIN handoff'[w] :
        handoff'[w][k] \in DOMAIN inbound /\ inbound[handoff'[w][k]].to = w
  BY <1>2, <1>3, <1>4 DEF RepliesOK
<1>6. CASE waiter[w].future = "open"
  <2> DEFINE h == handoff[w][1]
  <2>1. h \in Ids /\ 1 \in DOMAIN handoff[w]
    BY <1>2, <1>3
  <2>2. waiter' = [waiter EXCEPT ![w].future = "set", ![w].heard = h]
    BY <1>3, <1>6 DEF SafeSet
  <2>3. /\ h \in DOMAIN inbound /\ inbound[h].to = w
        /\ \A m \in DOMAIN inbound : inbound[m].to = w => m >= h
    <3>0. DOMAIN inbound = 1..Len(inbound)
      BY TurnsTypes DEF Histories
    <3>1. h \in Nat /\ \A m \in DOMAIN inbound : m \in Nat
      <4>1. \A x \in Ids : x \in Nat
        BY DEF Ids
      <4> QED
        BY <2>1, <3>0, <4>1
    <3>2. \A m \in DOMAIN inbound : inbound[m].to = w => h <= m
      BY <1>2, <1>6 DEF RepliesOK
    <3> QED
      BY <1>2, <2>1, <3>1, <3>2 DEF RepliesOK
  <2>4. h \in Counts
    BY <2>1, TurnRanges
  <2> HIDE DEF h
  <2>5. /\ waiter' \in [Waiters -> WaiterFields]
        /\ waiter'[w].pc = waiter[w].pc /\ waiter'[w].future = "set"
        /\ waiter'[w].heard = h /\ waiter'[w].channel = waiter[w].channel
        /\ waiter'[w].since = waiter[w].since
        /\ \A v \in Waiters \ {w} : waiter'[v] = waiter[v]
    BY <1>2, <2>2, <2>4, TurnsTypes DEF WaiterFields
  <2>6. waiter[w].pc # "idle"
    BY <1>2, <1>6 DEF RepliesOK
  <2>7. RepliesOK(w)'
    BY <1>1, <1>2, <1>5, <2>3, <2>5, <2>6 DEF RepliesOK
  <2>8. \A v \in Waiters : RepliesOK(v)'
    BY <1>1, <1>4, <2>5, <2>7, OtherReplies
  <2>9. PendingOK'
    <3>1. \A v \in Waiters : /\ waiter'[v].pc = waiter[v].pc
                              /\ waiter'[v].channel = waiter[v].channel
      BY <2>5
    <3>2. \A d \in Channels : pending[d] # "none" => pending[d] \in Waiters
      BY TurnsTypes
    <3> QED
      BY <1>1, <3>1, <3>2 DEF TurnsInv, PendingOK
  <2> QED
    BY <1>1, <1>4, <2>5, <2>8, <2>9, WaitingStep, TurnsTypes
<1>7. CASE waiter[w].future # "open"
  <2>1. waiter' = waiter
    BY <1>7 DEF SafeSet
  <2>2. RepliesOK(w)'
    BY <1>1, <1>2, <1>5, <1>7, <2>1 DEF RepliesOK
  <2>3. \A v \in Waiters : RepliesOK(v)'
    BY <1>1, <1>4, <2>1, <2>2, OtherReplies
  <2>4. PendingOK'
    BY <1>1, <2>1 DEF TurnsInv, PendingOK
  <2> QED
    BY <1>1, <1>4, <2>1, <2>3, <2>4, WaitingStep, TurnsTypes
<1> QED
  BY <1>6, <1>7

\* The initial state satisfies the invariant.
LEMMA TurnsInitHolds ==
  ASSUME TurnsInit
  PROVE  TurnsInv
<1>1. /\ turns \in [Channels -> Seq(TurnFields)] /\ burst \in [Channels -> BurstFields]
      /\ waiter \in [Waiters -> WaiterFields] /\ handoff \in [Waiters -> Seq(Ids)]
      /\ inbound \in Histories /\ Len(inbound) = 0
  BY TurnRanges DEF TurnsInit, Histories
<1>2. TurnsTypeOK
  BY <1>1, TurnRanges DEF TurnsInit, TurnsTypeOK, Ids, Histories, Recipients
<1>3. Len(inbound) <= MaxMessages
  BY <1>1, TurnsAssumption
<1>4. ListenersOK /\ TurnsRunToTheirEnd
  BY DEF TurnsInit, ListenersOK, TurnsRunToTheirEnd
<1>5. (\A c \in Channels : BurstOK(c)) /\ PendingOK
  BY DEF TurnsInit, BurstOK, NoBurst, PendingOK
<1>6. \A w \in Waiters : RepliesOK(w)
  BY <1>1 DEF TurnsInit, RepliesOK, NoWaiter
<1>7. ConversationIntact
  <2> SUFFICES ASSUME NEW c \in Channels PROVE Intact(Batches(c), ForAgent(c))
    BY DEF ConversationIntact
  <2>1. ForAgent(c) = {}
    BY DEF TurnsInit, ForAgent
  <2>2. /\ Batches(c) = BatchesIn(turns[c], burst[c].buffer)
        /\ turns[c] = <<>> /\ burst[c].buffer = <<>>
        /\ turns[c] \in Seq(TurnFields) /\ burst[c].buffer \in Seq(Ids)
    <3>1. Batches(c) = BatchesIn(turns[c], burst[c].buffer)
      BY DEF Batches, BatchesIn
    <3>2. turns[c] = <<>> /\ burst[c].buffer = <<>>
      BY DEF TurnsInit, NoBurst
    <3> QED
      BY <3>1, <3>2
  <2>3. DOMAIN Batches(c) = 1..1 /\ Batches(c)[1] = <<>>
    <3> DEFINE t == turns[c]
               s == burst[c].buffer
    <3>1. /\ t \in Seq(TurnFields) /\ s \in Seq(Ids) /\ Batches(c) = BatchesIn(t, s)
          /\ Len(t) = 0 /\ s = <<>>
      BY <2>2
    <3> HIDE DEF t, s
    <3>2. /\ DOMAIN Batches(c) = 1..(Len(t) + 1)
          /\ Batches(c)[Len(t) + 1] = s
      <4>1. t \in Seq(TurnFields) /\ s \in Seq(Ids) /\ Batches(c) = BatchesIn(t, s)
        BY <3>1
      <4> QED
        BY <4>1, BatchesOf
    <3> QED
      BY <3>1, <3>2
  <2>4. Range(Batches(c)[1]) = {}
    BY <2>3 DEF Range
  <2>5. \A k \in DOMAIN Batches(c) : k = 1
    BY <2>3
  <2> QED
    BY <2>1, <2>3, <2>4, <2>5 DEF Intact
<1> QED
  BY <1>2, <1>3, <1>4, <1>5, <1>6, <1>7 DEF TurnsInv

\* Every step of the intake and of the calls keeps it.
LEMMA TurnsStepKeeps ==
  ASSUME TurnsInv, [TurnsNext]_turnVars
  PROVE  TurnsInv'
<1>1. CASE UNCHANGED turnVars
  <2>1. UNCHANGED <<router, listener, inbound, burst, turns, waiter, pending, handoff>>
    BY <1>1 DEF turnVars
  <2>2. PendingOK' /\ \A w \in Waiters : RepliesOK(w)'
    BY <2>1, RepliesFrame
  <2> QED
    BY <2>1, <2>2, WaitingStep, TurnsTypes
<1>2. CASE Pause
  BY <1>2, PauseKeeps
<1>3. CASE StopRouter
  <2>1. /\ router = "running" /\ router' = "stopped" /\ CancelListeners(Backends)
        /\ UNCHANGED <<inbound, burst, waiter, pending, handoff>>
    BY <1>3 DEF StopRouter
  <2> QED
    BY <2>1, CancelKeeps
<1>4. CASE EndLoop
  BY <1>4, EndLoopKeeps
<1>5. ASSUME NEW c \in Channels, Receive(c) PROVE TurnsInv'
  <2>1. PICK m : m = Len(inbound) + 1
    OBVIOUS
  <2>2. /\ m <= MaxMessages /\ listener[BackendOf[c]] = "listening"
        /\ DeliverReply(c, m) \/ HandleCommand(c) \/ JoinBurst(c, m)
        /\ UNCHANGED <<router, waiter, pending>>
    BY <1>5, <2>1 DEF Receive
  <2> QED
    BY <2>1, <2>2, DeliverKeeps, CommandKeeps, JoinKeeps
<1>6. ASSUME NEW c \in Channels, TimerFires(c) PROVE TurnsInv'
  BY <1>6, TimerKeeps
<1>7. ASSUME NEW c \in Channels, NEW k \in DOMAIN turns[c], TurnOver(c, k) PROVE TurnsInv'
  BY <1>7, TurnOverKeeps
<1>8. ASSUME NEW b \in Backends, CommandSent(b) \/ ListenFails(b) \/ ListenAgain(b)
      PROVE  TurnsInv'
  <2>1. PICK next \in {"listening", "backoff", "command", "off"} :
          /\ listener[b] \in {"listening", "backoff", "command"}
          /\ listener' = [listener EXCEPT ![b] = next]
    BY <1>8 DEF CommandSent, ListenFails, ListenAgain
  <2>2. UNCHANGED <<router, inbound, burst, turns, waiter, pending, handoff>>
    BY <1>8 DEF CommandSent, ListenFails, ListenAgain
  <2> QED
    BY <2>1, <2>2, ListenerStep
<1>9. ASSUME NEW b \in Backends, DropBackend(b) PROVE TurnsInv'
  <2>1. /\ router = "running" /\ router' = router /\ CancelListeners({b})
        /\ UNCHANGED <<inbound, burst, waiter, pending, handoff>>
    BY <1>9 DEF DropBackend
  <2>2. {b} \in SUBSET Backends
    OBVIOUS
  <2> QED
    BY <2>1, <2>2, CancelKeeps
<1>10. ASSUME NEW w \in Waiters, NEW c \in Channels, Ask(w, c) PROVE TurnsInv'
  BY <1>10, AskKeeps
<1>11. ASSUME NEW w \in Waiters, SafeSet(w) PROVE TurnsInv'
  BY <1>11, SafeSetKeeps
<1>12. ASSUME NEW w \in Waiters, Asked(w) \/ AskRaises(w) PROVE TurnsInv'
  <2>1. /\ waiter[w].pc = "asking" /\ pending' = pending
        /\ UNCHANGED <<router, listener, inbound, burst, turns, handoff>>
    BY <1>12 DEF Asked, AskRaises
  <2>2. PICK next \in {"waiting", "ended"} : waiter' = [waiter EXCEPT ![w].pc = next]
    BY <1>12 DEF Asked, AskRaises
  <2>3. waiter[w] \in WaiterFields /\ RepliesOK(w)
    BY TurnsTypes DEF TurnsInv
  <2>4. PICK f, h : f = waiter[w].future /\ h = waiter[w].heard
    OBVIOUS
  <2>5. waiter' = [waiter EXCEPT ![w].pc = next, ![w].future = f, ![w].heard = h]
    BY <2>3, <2>4, <2>2, TurnsTypes DEF WaiterFields
  <2>6. f = "open" => h = 0
    BY <2>3, <2>4 DEF RepliesOK
  <2> QED
    BY <2>1, <2>4, <2>5, <2>6, WaitKeeps, TurnsTypes
<1>13. ASSUME NEW w \in Waiters, AskFails(w) \/ HearReply(w) \/ WaitTimesOut(w)
       PROVE  TurnsInv'
  <2>1. PICK f, h : /\ EndWait(w, f, h) /\ waiter[w].pc # "idle"
                    /\ f \in {waiter[w].future, "cancelled"}
                    /\ h \in {0, waiter[w].heard} /\ (f = "open" => h = 0)
    <3>1. CASE AskFails(w)
      <4>1. EndWait(w, waiter[w].future, 0) /\ waiter[w].pc # "idle"
        BY <3>1 DEF AskFails
      <4> QED
        BY <4>1
    <3>2. CASE HearReply(w)
      BY <3>2 DEF HearReply
    <3>3. CASE WaitTimesOut(w)
      BY <3>3 DEF WaitTimesOut
    <3> QED
      BY <1>13, <3>1, <3>2, <3>3
  <2>2. /\ waiter' = [waiter EXCEPT ![w].pc = "ended", ![w].future = f, ![w].heard = h]
        /\ pending' = [pending EXCEPT ![waiter[w].channel] = "none"]
        /\ UNCHANGED <<router, listener, inbound, burst, turns, handoff>>
    BY <2>1 DEF EndWait
  <2>3. /\ pending' \in [Channels -> Waiters \cup {"none"}]
        /\ \A c \in Channels : pending'[c] \in {pending[c], "none"}
    BY <2>2, TurnsTypes
  <2> QED
    BY <2>1, <2>2, <2>3, WaitKeeps
<1> QED
  BY <1>1, <1>2, <1>3, <1>4, <1>5, <1>6, <1>7, <1>8, <1>9, <1>10, <1>11, <1>12, <1>13
     DEF TurnsNext, Intaking, Waiting

\* The invariant of the path of a message.
THEOREM TurnsInvariantHolds == TurnsSpec => []TurnsInv
<1>1. TurnsInit => TurnsInv
  BY TurnsInitHolds
<1>2. TurnsInv /\ [TurnsNext]_turnVars => TurnsInv'
  BY TurnsStepKeeps
<1> QED
  BY <1>1, <1>2, PTL DEF TurnsSpec

\* coalescer.py and planner_handler.py: buffers, timers and turns stay well typed.
THEOREM TurnTypesHold == TurnsSpec => []TurnsTypeOK
<1>1. TurnsInv => TurnsTypeOK
  BY DEF TurnsInv
<1> QED
  BY <1>1, TurnsInvariantHolds, PTL

\* coalescer.py and planner_handler.py: no message is lost, repeated or reordered
\* on its way to the agent, for any number of channels, messages and calls.
THEOREM NothingIsLostOnTheWay == TurnsSpec => []ConversationIntact
<1>1. TurnsInv => ConversationIntact
  BY DEF TurnsInv
<1> QED
  BY <1>1, TurnsInvariantHolds, PTL

\* _flush: a turn that was started is cut only with the intake or the listener
\* that runs it.
THEOREM NoTurnIsCut == TurnsSpec => []TurnsRunToTheirEnd
<1>1. TurnsInv => TurnsRunToTheirEnd
  BY DEF TurnsInv
<1> QED
  BY <1>1, TurnsInvariantHolds, PTL

\* submit: however the messages follow each other, a burst is answered before it
\* is older than the age limit and one quiet window.
THEOREM NoBurstWaitsForever == TurnsSpec => []WaitIsBounded
<1>1. TurnsInv => WaitIsBounded
  <2> SUFFICES ASSUME TurnsInv, NEW c \in Channels, burst[c].buffer # <<>>,
                      router # "gone"
               PROVE  burst[c].age < MaxWait + Window
    BY DEF WaitIsBounded
  <2>1. burst[c].age + burst[c].left < MaxWait + Window
    BY DEF TurnsInv, BurstOK
  <2>2. burst[c].age \in Nat /\ burst[c].left \in Nat
    <3>1. burst[c] \in BurstFields
      BY TurnsTypes
    <3> QED
      BY <3>1, TurnsAssumption DEF BurstFields, Ages, Delays
  <2> QED
    BY <2>1, <2>2, TurnsAssumption
<1> QED
  BY <1>1, TurnsInvariantHolds, PTL

\* reach_user_and_wait: the call hears the first message that it was given.
THEOREM FirstReplyIsHeard == TurnsSpec => []HearsFirstReply
<1>1. TurnsInv => HearsFirstReply
  <2> SUFFICES ASSUME TurnsInv, NEW w \in Waiters, waiter[w].heard > 0
               PROVE  /\ waiter[w].heard > waiter[w].since
                      /\ inbound[waiter[w].heard].to = w
                      /\ inbound[waiter[w].heard].channel = waiter[w].channel
                      /\ \A m \in 1..(waiter[w].heard - 1) : inbound[m].to # w
    BY DEF HearsFirstReply
  <2>1. RepliesOK(w)
    BY DEF TurnsInv
  <2>2. /\ waiter[w].heard \in DOMAIN inbound /\ inbound[waiter[w].heard].to = w
        /\ \A m \in DOMAIN inbound : inbound[m].to = w => m >= waiter[w].heard
    BY <2>1 DEF RepliesOK
  <2>3. DOMAIN inbound = 1..Len(inbound) /\ Len(inbound) \in Nat
    BY TurnsTypes DEF Histories
  <2>4. \A m \in 1..(waiter[w].heard - 1) : m \in DOMAIN inbound /\ ~(m >= waiter[w].heard)
    BY <2>2, <2>3
  <2> QED
    BY <2>1, <2>2, <2>4 DEF RepliesOK
<1> QED
  BY <1>1, TurnsInvariantHolds, PTL

--------------------------------------------------------------------------------
(* The durable inbox                                                         *)

\* A row never counts more attempts than the reaper has made, and neither does
\* a row that a scan found: the attempt under way is one more.
AttemptsAreReal ==
  /\ \A m \in Messages : row[m].attempts <= tried[m]
  /\ \A f \in reaper.todo : f.attempts <= tried[f.id]
  /\ \A f \in reaper.at : f.attempts + 1 <= tried[f.id]

\* Whoever is about to mark a row has delivered its reply.
RepliesAreReal ==
  /\ \A m \in Messages : turn[m] = "replied" => replied[m]
  /\ \A f \in reaper.at : reaper.pc = "replied" => replied[f.id]

InboxInv == InboxTypeOK /\ AttemptsAreReal /\ RepliesAreReal /\ RowTellsTheTruth

\* Nobody and somebody are at most one.
LEMMA OneIsAtMostOne ==
  ASSUME NEW x
  PROVE  Cardinality({x}) <= 1 /\ Cardinality({}) <= 1
  BY FS_EmptySet, FS_Singleton

\* The reaper between two passes.
LEMMA AsleepMeaning ==
  /\ Asleep \in ReaperTypes /\ Cardinality(Asleep.at) <= 1
  /\ Asleep.at = {} /\ Asleep.todo = {} /\ Asleep.pc = "asleep"
<1>1. Asleep.at = {}
  BY DEF Asleep
<1> QED
  BY <1>1, OneIsAtMostOne DEF Asleep, ReaperTypes

--------------------------------------------------------------------------------
(* The turn of a message                                                      *)

\* A step of a turn or of the grace window keeps the invariant.
LEMMA TurnKeeps ==
  ASSUME InboxInv, NEW m \in Messages, Turn(m)
  PROVE  InboxInv'
<1> USE InboxAssumption
<1> USE DEF InboxInv
<1>1. CASE RecordInbound(m)
  BY <1>1 DEF RecordInbound, InboxTypeOK, RowTypes, AttemptsAreReal, RepliesAreReal,
              RowTellsTheTruth, ReaperTypes, FoundTypes
<1>2. CASE RecordFails(m)
  BY <1>2 DEF RecordFails, InboxTypeOK, RowTypes, AttemptsAreReal, RepliesAreReal,
              RowTellsTheTruth
<1>3. CASE TurnReplies(m)
  BY <1>3 DEF TurnReplies, InboxTypeOK, RowTypes, AttemptsAreReal, RepliesAreReal,
              RowTellsTheTruth
<1>4. CASE TurnFails(m)
  BY <1>4 DEF TurnFails, InboxTypeOK, RowTypes, AttemptsAreReal, RepliesAreReal,
              RowTellsTheTruth
<1>5. CASE TurnMarks(m)
  BY <1>5 DEF TurnMarks, Answered, InboxTypeOK, RowTypes, AttemptsAreReal, RepliesAreReal,
              RowTellsTheTruth
<1>6. CASE TurnMarkLost(m)
  BY <1>6 DEF TurnMarkLost, InboxTypeOK, RowTypes, AttemptsAreReal, RepliesAreReal,
              RowTellsTheTruth
<1>7. CASE GraceEnds(m)
  <2>1. row' \in [Messages -> RowTypes]
    BY <1>7 DEF GraceEnds, InboxTypeOK, RowTypes
  <2>2. \A n \in Messages :
          /\ row'[n].status = row[n].status /\ row'[n].attempts = row[n].attempts
          /\ row'[n].whole = row[n].whole
    BY <1>7 DEF GraceEnds, InboxTypeOK, RowTypes
  <2> QED
    BY <1>7, <2>1, <2>2
    DEF GraceEnds, InboxTypeOK, AttemptsAreReal, RepliesAreReal, RowTellsTheTruth
<1> QED
  BY <1>1, <1>2, <1>3, <1>4, <1>5, <1>6, <1>7 DEF Turn

--------------------------------------------------------------------------------
(* The reaper                                                                 *)

\* What the invariant says of a row that a scan found.
LEMMA FoundRows ==
  ASSUME InboxInv, NEW f \in reaper.todo \cup reaper.at
  PROVE  f \in FoundTypes /\ f.id \in Messages /\ f.attempts \in 0..MaxAttempts
BY DEF InboxInv, InboxTypeOK, ReaperTypes, FoundTypes

\* When a row is done with, the reaper goes on with the rest of its scan.
LEMMA HandledMeaning ==
  ASSUME InboxInv, NEW f
  PROVE  /\ Handled(f) \in ReaperTypes
         /\ Handled(f).at = {} /\ Handled(f).todo \subseteq reaper.todo
         /\ Handled(f).pc = "pass"
BY DEF InboxInv, InboxTypeOK, ReaperTypes, Handled

\* The scan: what it finds is what the rows say.
LEMMA PendingUnansweredKeeps ==
  ASSUME InboxInv, PendingUnanswered
  PROVE  InboxInv'
<1>1. PICK S \in SUBSET Messages :
        reaper' = [pc |-> "pass", todo |-> Found(S), at |-> {}]
  BY DEF PendingUnanswered
<1>2. \A f \in Found(S) : f \in FoundTypes /\ f.attempts <= tried[f.id]
  BY DEF Found, FoundTypes, InboxInv, InboxTypeOK, RowTypes, AttemptsAreReal
<1>3. reaper' \in ReaperTypes
  BY <1>1, <1>2 DEF ReaperTypes
<1>4. InboxTypeOK'
  BY <1>1, <1>3, OneIsAtMostOne DEF PendingUnanswered, InboxInv, InboxTypeOK
<1>5. AttemptsAreReal' /\ RepliesAreReal' /\ RowTellsTheTruth'
  BY <1>1, <1>2
  DEF PendingUnanswered, InboxInv, AttemptsAreReal, RepliesAreReal, RowTellsTheTruth
<1> QED
  BY <1>4, <1>5 DEF InboxInv

\* The pass is over, or the process starts again.
LEMMA AsleepKeeps ==
  ASSUME InboxInv, EndPass \/ Restart
  PROVE  InboxInv'
<1>1. InboxTypeOK'
  <2>1. reaper' = Asleep
    BY DEF EndPass, Restart
  <2> QED
    BY <2>1, AsleepMeaning DEF EndPass, Restart, InboxInv, InboxTypeOK
<1>2. AttemptsAreReal' /\ RepliesAreReal' /\ RowTellsTheTruth'
  BY DEF EndPass, Restart, Asleep, InboxInv, InboxTypeOK, AttemptsAreReal,
         RepliesAreReal, RowTellsTheTruth
<1> QED
  BY <1>1, <1>2 DEF InboxInv

\* retry_unanswered: the attempt is counted before the reply is tried.
LEMMA RetryUnansweredKeeps ==
  ASSUME InboxInv, NEW f, RetryUnanswered(f)
  PROVE  InboxInv'
<1>1. f \in FoundTypes /\ f.id \in Messages /\ f.attempts \in 0..MaxAttempts
  BY FoundRows DEF RetryUnanswered
<1>2. /\ tried' \in [Messages -> 0..MaxAttempts]
      /\ \A m \in Messages : tried[m] <= tried'[m]
      /\ f.attempts + 1 <= tried'[f.id]
  BY <1>1, InboxAssumption
  DEF RetryUnanswered, Spent, InboxInv, InboxTypeOK, AttemptsAreReal
<1>3. reaper'.todo = reaper.todo /\ reaper'.at = {f} /\ reaper'.pc = "replying"
  BY DEF RetryUnanswered, InboxInv, InboxTypeOK, ReaperTypes
<1>4. reaper' \in ReaperTypes /\ Cardinality(reaper'.at) <= 1
  BY <1>1, <1>3, OneIsAtMostOne DEF RetryUnanswered, InboxInv, InboxTypeOK, ReaperTypes
<1>5. InboxTypeOK'
  BY <1>2, <1>4 DEF RetryUnanswered, InboxInv, InboxTypeOK
<1>6. AttemptsAreReal'
  <2>1. \A g \in reaper.todo : g.attempts <= tried'[g.id]
    BY <1>2, FoundRows DEF InboxInv, InboxTypeOK, AttemptsAreReal
  <2>2. \A m \in Messages : row[m].attempts <= tried'[m]
    BY <1>2 DEF InboxInv, InboxTypeOK, RowTypes, AttemptsAreReal
  <2> QED
    BY <1>2, <1>3, <2>1, <2>2 DEF RetryUnanswered, AttemptsAreReal
<1>7. RepliesAreReal'
  BY <1>3 DEF RetryUnanswered, InboxInv, RepliesAreReal
<1>8. RowTellsTheTruth'
  BY <1>2 DEF RetryUnanswered, InboxInv, InboxTypeOK, RowTellsTheTruth
<1> QED
  BY <1>5, <1>6, <1>7, <1>8 DEF InboxInv

\* A row that has had its attempts becomes a dead letter.
LEMMA DeadLetterKeeps ==
  ASSUME InboxInv, NEW f, DeadLetter(f)
  PROVE  InboxInv'
<1>1. f \in FoundTypes /\ f.id \in Messages /\ f.attempts \in 0..MaxAttempts
  BY FoundRows DEF DeadLetter
<1>2. tried[f.id] = MaxAttempts /\ f.attempts <= tried[f.id]
  <2>1. f.attempts >= MaxAttempts /\ f.attempts <= tried[f.id]
    BY DEF DeadLetter, Spent, InboxInv, AttemptsAreReal
  <2>2. tried[f.id] \in 0..MaxAttempts
    BY <1>1 DEF InboxInv, InboxTypeOK
  <2> QED
    BY <1>1, <2>1, <2>2, InboxAssumption
<1>3. /\ row' \in [Messages -> RowTypes]
      /\ row'[f.id].status = "dead_letter" /\ row'[f.id].attempts = f.attempts
      /\ \A m \in Messages : m # f.id => row'[m] = row[m]
  BY <1>1 DEF DeadLetter, InboxInv, InboxTypeOK, RowTypes
<1>4. InboxTypeOK'
  BY <1>3, HandledMeaning, OneIsAtMostOne DEF DeadLetter, InboxInv, InboxTypeOK
<1>5. AttemptsAreReal' /\ RepliesAreReal'
  BY <1>2, <1>3, HandledMeaning
  DEF DeadLetter, InboxInv, AttemptsAreReal, RepliesAreReal
<1>6. RowTellsTheTruth'
  BY <1>2, <1>3 DEF DeadLetter, InboxInv, RowTellsTheTruth
<1> QED
  BY <1>4, <1>5, <1>6 DEF InboxInv

\* The reply is delivered.
LEMMA ReplySentKeeps ==
  ASSUME InboxInv, NEW f, ReplySent(f)
  PROVE  InboxInv'
<1>1. f.id \in Messages
  BY FoundRows DEF ReplySent
<1>2. reaper'.todo = reaper.todo /\ reaper'.at = reaper.at /\ reaper' \in ReaperTypes
  BY DEF ReplySent, InboxInv, InboxTypeOK, ReaperTypes
<1>3. /\ replied' \in [Messages -> BOOLEAN] /\ replied'[f.id]
      /\ \A m \in Messages : replied[m] => replied'[m]
  BY <1>1 DEF ReplySent, InboxInv, InboxTypeOK
<1>4. InboxTypeOK'
  BY <1>2, <1>3 DEF ReplySent, InboxInv, InboxTypeOK
<1>5. AttemptsAreReal'
  BY <1>2 DEF ReplySent, InboxInv, AttemptsAreReal
<1>6. RepliesAreReal' /\ RowTellsTheTruth'
  BY <1>2, <1>3 DEF ReplySent, InboxInv, RepliesAreReal, RowTellsTheTruth
<1> QED
  BY <1>4, <1>5, <1>6 DEF InboxInv

\* The row is marked answered, after the reply.
LEMMA MarkAnsweredKeeps ==
  ASSUME InboxInv, NEW f, MarkAnswered(f)
  PROVE  InboxInv'
<1>1. f.id \in Messages /\ replied[f.id]
  BY FoundRows DEF MarkAnswered, InboxInv, RepliesAreReal
<1>2. /\ row' \in [Messages -> RowTypes]
      /\ row'[f.id].status = "answered" /\ row'[f.id].attempts = 0
      /\ \A m \in Messages : m # f.id => row'[m] = row[m]
  BY <1>1, InboxAssumption DEF MarkAnswered, Answered, InboxInv, InboxTypeOK, RowTypes
<1>3. InboxTypeOK'
  BY <1>2, HandledMeaning, OneIsAtMostOne DEF MarkAnswered, InboxInv, InboxTypeOK
<1>4. AttemptsAreReal' /\ RepliesAreReal'
  BY <1>1, <1>2, HandledMeaning, InboxAssumption
  DEF MarkAnswered, InboxInv, InboxTypeOK, AttemptsAreReal, RepliesAreReal
<1>5. RowTellsTheTruth'
  BY <1>1, <1>2 DEF MarkAnswered, InboxInv, RowTellsTheTruth
<1> QED
  BY <1>3, <1>4, <1>5 DEF InboxInv

\* The row is put back with one more attempt, over whatever it has become.
LEMMA ReplyFailsKeeps ==
  ASSUME InboxInv, NEW f, ReplyFails(f)
  PROVE  InboxInv'
<1>1. f.id \in Messages /\ f.attempts \in 0..MaxAttempts
  BY FoundRows DEF ReplyFails
<1>2. f.attempts + 1 <= tried[f.id] /\ f.attempts + 1 \in 0..MaxAttempts
  BY <1>1, InboxAssumption DEF ReplyFails, InboxInv, InboxTypeOK, AttemptsAreReal
<1>3. /\ row' \in [Messages -> RowTypes]
      /\ row'[f.id].status = "pending" /\ row'[f.id].attempts = f.attempts + 1
      /\ row'[f.id].whole
      /\ \A m \in Messages : m # f.id => row'[m] = row[m]
  BY <1>1, <1>2 DEF ReplyFails, Tried, InboxInv, InboxTypeOK, RowTypes
<1>4. InboxTypeOK'
  BY <1>3, HandledMeaning, OneIsAtMostOne DEF ReplyFails, InboxInv, InboxTypeOK
<1>5. AttemptsAreReal' /\ RepliesAreReal'
  BY <1>2, <1>3, HandledMeaning DEF ReplyFails, InboxInv, AttemptsAreReal, RepliesAreReal
<1>6. RowTellsTheTruth'
  BY <1>3 DEF ReplyFails, InboxInv, RowTellsTheTruth
<1> QED
  BY <1>4, <1>5, <1>6 DEF InboxInv

\* A write that is lost leaves the row as it is.
LEMMA ReaperWriteLostKeeps ==
  ASSUME InboxInv, NEW f, ReaperWriteLost(f)
  PROVE  InboxInv'
<1>1. InboxTypeOK'
  BY HandledMeaning, OneIsAtMostOne DEF ReaperWriteLost, InboxInv, InboxTypeOK
<1>2. AttemptsAreReal' /\ RepliesAreReal' /\ RowTellsTheTruth'
  BY HandledMeaning
  DEF ReaperWriteLost, InboxInv, AttemptsAreReal, RepliesAreReal, RowTellsTheTruth
<1> QED
  BY <1>1, <1>2 DEF InboxInv

--------------------------------------------------------------------------------
(* The theorems                                                               *)

\* The inductive invariant, through crashes, lost writes and redeliveries.
THEOREM InboxInvariantHolds == InboxSpec => []InboxInv
<1>1. InboxInit => InboxInv
  <2> SUFFICES ASSUME InboxInit PROVE InboxInv
    OBVIOUS
  <2>1. InboxTypeOK
    BY InboxAssumption, AsleepMeaning DEF InboxInit, InboxTypeOK, RowTypes
  <2>2. AttemptsAreReal /\ RepliesAreReal /\ RowTellsTheTruth
    BY InboxAssumption, AsleepMeaning
    DEF InboxInit, AttemptsAreReal, RepliesAreReal, RowTellsTheTruth
  <2> QED
    BY <2>1, <2>2 DEF InboxInv
<1>2. InboxInv /\ [InboxNext]_inboxVars => InboxInv'
  <2> SUFFICES ASSUME InboxInv, [InboxNext]_inboxVars PROVE InboxInv'
    OBVIOUS
  <2>1. CASE UNCHANGED inboxVars
    BY <2>1 DEF inboxVars, InboxInv, InboxTypeOK, AttemptsAreReal, RepliesAreReal,
                RowTellsTheTruth
  <2>2. ASSUME NEW f, Reap(f) \/ ReaperWriteLost(f) PROVE InboxInv'
    BY <2>2, RetryUnansweredKeeps, DeadLetterKeeps, ReplySentKeeps,
       MarkAnsweredKeeps, ReplyFailsKeeps, ReaperWriteLostKeeps
    DEF Reap
  <2>3. CASE Reaper
    BY <2>2, <2>3, PendingUnansweredKeeps, AsleepKeeps DEF Reaper
  <2>4. CASE Restart
    BY <2>4, AsleepKeeps
  <2>5. ASSUME NEW m \in Messages, Turn(m) PROVE InboxInv'
    BY <2>5, TurnKeeps
  <2> QED
    BY <2>1, <2>3, <2>4, <2>5 DEF InboxNext
<1> QED
  BY <1>1, <1>2, PTL DEF InboxSpec

\* inbox.py: through crashes and lost writes no row, and no copy of one that a scan
\* holds, counts more than MaxAttempts attempts, and the reaper is at one message
\* at a time (InboxTypeOK).
THEOREM AttemptsAreBounded == InboxSpec => []InboxTypeOK
<1>1. InboxInv => InboxTypeOK
  BY DEF InboxInv
<1> QED
  BY <1>1, InboxInvariantHolds, PTL

\* inbox.py: an answered row had a reply, a dead letter all its attempts, and a
\* pending row all that a retry needs (RowTellsTheTruth).
THEOREM RowsAreTrue == InboxSpec => []RowTellsTheTruth
<1>1. InboxInv => RowTellsTheTruth
  BY DEF InboxInv
<1> QED
  BY <1>1, InboxInvariantHolds, PTL
================================================================================
