------------------------------ MODULE MCTasks ------------------------------
(***************************************************************************)
(* Three procedures of many steps: the desktop changes the files of an     *)
(* Agent and connects Cursor, the command line restores a backup.  None    *)
(* looks at another, so a behaviour is one of one of them: subject says    *)
(* which.  An Agent without its primary file has no companion at first,    *)
(* either.                                                                 *)
(***************************************************************************)
EXTENDS AgentTransaction, CursorConnection, BackupRestore

VARIABLE subject

TasksInit ==
    /\ AgentInit /\ CursorInit /\ RestoreInit
    /\ subject \in {"agent", "cursor", "restore"}
    /\ subject # "agent" => file = [f \in Files |-> NoFile]
    /\ file[0] = NoFile => file[1] = NoFile
    /\ subject # "restore" => live["metrics"] # Gone

TasksNext ==
    /\ UNCHANGED subject
    /\ \/ subject = "agent" /\ AgentNext /\ UNCHANGED <<cursorVars, restoreVars>>
       \/ subject = "cursor" /\ CursorNext /\ UNCHANGED <<agentVars, restoreVars>>
       \/ subject = "restore" /\ RestoreNext /\ UNCHANGED <<agentVars, cursorVars>>

TasksSpec == TasksInit /\ [][TasksNext]_<<subject, agentVars, cursorVars, restoreVars>>
=============================================================================
