----------------------------- MODULE MCHeapUse ------------------------------
(***************************************************************************)
(* The kernel heap and what lives in it: strings, the arena of commands of *)
(* the terminal, and the files in memory.  Each is explored by itself: the *)
(* one in focus moves, the others wait.                                    *)
(***************************************************************************)
EXTENDS Heap, Strings, Terminal, Fs

(* Strings for TLC: the empty literal and one of one character.              *)
MCLiterals == {<<>>, <<"a">>}

(* Terminal for TLC: a letter, the editing keys, a key without a character   *)
(* and one whose character is not ASCII; one built-in command.               *)

MCNames == <<<<"c">>>>
MCAdded == <<"c", "c">>

(* Fs for TLC: three names, two of which share a bucket.                     *)

MCBucket == [n \in FileNames |-> IF n = "c" THEN 1 ELSE 0]
MCMounts == {<<"/">>}
MCMounts2 == {<<"/">>, <<"/", "a">>}
MCPaths == {<<"/">>, <<"/", "a">>, <<"/", "/", "a">>, <<"/", "a", "/">>, <<"/", "b">>, <<"/", "c">>,
            <<"/", "a", "/", "b">>, <<"/", "a", "/", "/", "b">>}

-----------------------------------------------------------------------------

VARIABLE focus

HeapUseInit ==
    /\ focus \in {"heap", "strings", "terminal", "fs"}
    /\ Init /\ StringsInit /\ TerminalInit /\ FsInit

HeapUseNext ==
    /\ \/ focus = "heap" /\ Next /\ UNCHANGED <<stringvars, terminalvars, fsvars>>
       \/ focus = "strings" /\ StringsNext /\ UNCHANGED <<vars, terminalvars, fsvars>>
       \/ focus = "terminal" /\ TerminalNext /\ UNCHANGED <<vars, stringvars, fsvars>>
       \/ focus = "fs" /\ FsNext /\ UNCHANGED <<vars, stringvars, terminalvars>>
    /\ UNCHANGED focus

heapusevars == <<focus, vars, stringvars, terminalvars, fsvars>>

HeapUseSpec == HeapUseInit /\ [][HeapUseNext]_heapusevars
=============================================================================
