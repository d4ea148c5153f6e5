-------------------------------- MODULE MCFleet --------------------------------
(***************************************************************************)
(* Small instances of components that share no state: the calls of one      *)
(* child, the deliveries of one scale intent, the loads of one session and  *)
(* one browser call.  A behaviour is one of a component: which one is       *)
(* chosen in the initial state, and the others stay as they are.            *)
(***************************************************************************)
EXTENDS MCChildRuntime, ScaleIntent, SessionLoads, BrowserCall

CONSTANT Focuses   \* the components whose behaviours are checked

VARIABLE focus

fleetVars == <<focus, vars, scaleVars, loadsVars, callVars>>

MCInit ==
  focus \in Focuses /\ Init /\ ScaleInit /\ LoadsInit /\ CallInit

MCNext ==
  /\ UNCHANGED focus
  /\ \/ focus = "child" /\ Next /\ UNCHANGED <<scaleVars, loadsVars, callVars>>
     \/ focus = "scale" /\ ScaleNext /\ UNCHANGED <<vars, loadsVars, callVars>>
     \/ focus = "loads" /\ LoadsNext /\ UNCHANGED <<vars, scaleVars, callVars>>
     \/ focus = "browser" /\ CallNext /\ UNCHANGED <<vars, scaleVars, loadsVars>>

MCSpec == MCInit /\ [][MCNext]_fleetVars

\* The fairness of each component, in the behaviours that are its own.
MCChildFair == \A c \in Calls : WF_vars(focus = "child" /\ Proceeds(c))

MCCallFair ==
  /\ WF_callVars(focus = "browser" /\ LoopSteps)
  /\ WF_callVars(focus = "browser" /\ ExpireClaim)
  /\ SF_callVars(focus = "browser" /\ Close)

MCFairSpec == MCSpec /\ MCChildFair /\ MCCallFair
================================================================================
