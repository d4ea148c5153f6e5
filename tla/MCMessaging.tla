------------------------------ MODULE MCMessaging ------------------------------
(***************************************************************************)
(* Small instances of the messaging components that share no state: the     *)
(* intake leases of one process, the path of a message from its listener to *)
(* the agent, and the durable inbox.  A behaviour is one of a component:    *)
(* which one is chosen in the initial state, and the others stay as they    *)
(* are.                                                                     *)
(***************************************************************************)
EXTENDS IntakeLease, Turns, Inbox, TLC

CONSTANTS i1, telegram, slack, c1, w1, w2, m1, m2,
          Focuses   \* the components whose behaviours are checked

VARIABLE focus

MCBackendOf == [c \in Channels |-> telegram]

MCInit == focus \in Focuses /\ IntakeInit /\ TurnsInit /\ InboxInit

MCNext ==
  /\ UNCHANGED focus
  /\ \/ focus = "intake" /\ IntakeNext /\ UNCHANGED <<turnVars, inboxVars>>
     \/ focus = "turns" /\ TurnsNext /\ UNCHANGED <<intakeVars, inboxVars>>
     \/ focus = "inbox" /\ InboxNext /\ UNCHANGED <<intakeVars, turnVars>>

\* The fairness of each component, in the behaviours that are its own.
MCIntakeFair ==
  /\ WF_intakeVars(focus = "intake" /\ Tick)
  /\ \A i \in Processes :
       /\ WF_intakeVars(focus = "intake" /\ (Acquired(i) \/ StopServing(i) \/ Supervise(i)
                    \/ \E S \in SUBSET Platforms : StartRouter(i, S)))
       /\ \A p \in Platforms : WF_intakeVars(focus = "intake" /\ Intake(i, p))

MCInboxFair ==
  /\ WF_inboxVars(focus = "inbox" /\ Reaper)
  /\ \A m \in Messages :
       /\ WF_inboxVars(focus = "inbox" /\ GraceEnds(m))
       /\ SF_inboxVars(focus = "inbox" /\ Retries(m))
       /\ SF_inboxVars(focus = "inbox" /\ Writes(m))

MCSpec ==
  /\ MCInit /\ [][MCNext]_<<focus, intakeVars, turnVars, inboxVars>>
  /\ MCIntakeFair /\ MCInboxFair
================================================================================
