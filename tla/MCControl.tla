------------------------------- MODULE MCControl -------------------------------
(***************************************************************************)
(* Small instances of components that share no state: every kind of         *)
(* operation of the invocation pipeline, the mounting of one server, the    *)
(* plans of one migration, the intake leases of processes that poll the     *)
(* same platforms, and the deliveries of one tool task.  A behaviour is one *)
(* of a component: which one is chosen in the initial state, and the others *)
(* stay as they are.                                                        *)
(*                                                                         *)
(* As one component moves, the same values serve as the callers of one, the *)
(* processes of another and the deliveries of a third, and the symmetry     *)
(* exchanges them in all of them.                                           *)
(***************************************************************************)
EXTENDS MCInvoke, Mounts, Migration, IntakeLease, ToolTask

CONSTANT Focuses   \* the components whose behaviours are checked

VARIABLE focus

invokeVars == <<vars, scenario>>

ControlInit ==
  /\ focus \in Focuses
  /\ MCInit /\ MountsInit /\ MigrationInit /\ IntakeInit /\ TaskInit

ControlNext ==
  /\ UNCHANGED focus
  /\ \/ /\ focus = "invoke" /\ MCNext
        /\ UNCHANGED <<mountsVars, migrationVars, intakeVars, taskVars>>
     \/ /\ focus = "mounts" /\ MountsNext
        /\ UNCHANGED <<invokeVars, migrationVars, intakeVars, taskVars>>
     \/ /\ focus = "migration" /\ MigrationNext
        /\ UNCHANGED <<invokeVars, mountsVars, intakeVars, taskVars>>
     \/ /\ focus = "intake" /\ IntakeNext
        /\ UNCHANGED <<invokeVars, mountsVars, migrationVars, taskVars>>
     \/ /\ focus = "tasks" /\ TaskNext
        /\ UNCHANGED <<invokeVars, mountsVars, migrationVars, intakeVars>>

ControlSpec ==
  /\ ControlInit
  /\ [][ControlNext]_<<focus, invokeVars, mountsVars, migrationVars, intakeVars,
                       taskVars>>

ControlSymmetry == Permutations(MountCalls) \cup Permutations(Probes)
================================================================================
