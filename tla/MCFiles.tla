------------------------------ MODULE MCFiles -------------------------------
(***************************************************************************)
(* The heap under two tasks, and the FAT driver, which reads into buffers  *)
(* from it.  Each is explored by itself: the one in focus moves, the other *)
(* one waits.                                                              *)
(***************************************************************************)
EXTENDS MCMemoryMgr, MCFat

VARIABLE focus

FilesInit ==
    /\ focus \in {"heap", "fat"}
    /\ Init
    /\ FatInit(IF focus = "fat" THEN Volumes ELSE {[chain |-> << >>, size |-> 0, dirs |-> << >>]})

FilesNext ==
    /\ \/ focus = "heap" /\ Next /\ UNCHANGED <<fatvars>>
       \/ focus = "fat" /\ FatNext /\ UNCHANGED <<vars>>
    /\ UNCHANGED focus

filevars == <<focus, vars, fatvars>>

FilesSpec == FilesInit /\ [][FilesNext]_filevars
=============================================================================
