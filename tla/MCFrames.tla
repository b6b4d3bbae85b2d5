------------------------------ MODULE MCFrames ------------------------------
(***************************************************************************)
(* Memory as the hardware sees it: the physical memory manager that gives  *)
(* out frames, the page tables that map them, and the AHCI controller that *)
(* fills them.  Each is explored by itself: the one in focus moves, the    *)
(* others wait as they are after boot.                                     *)
(***************************************************************************)
EXTENDS MCPmm, Paging, Disk

\* Programs: two pages of one table or of two, one page twice, two pages at once.
MCSegments == {<<[at |-> 1, pages |-> 1], [at |-> 2, pages |-> 1]>>,
               <<[at |-> 1, pages |-> 1], [at |-> 1, pages |-> 1]>>,
               <<[at |-> 1, pages |-> 2]>>}

(* Disk for TLC: a disk without a GPT, one with nine partitions, two disks.    *)

Attached(d0, d1, t) == [drive |-> (0 :> d0 @@ 1 :> d1), table |-> t]
MCSetups == {Attached("none", "ata", <<>>), Attached("atapi", "ata", [i \in 1..9 |-> TRUE]),
             Attached("ata", "ata", <<FALSE, TRUE>>)}
MCUserReads == {<<5, 2>>, <<32, 1>>}

-----------------------------------------------------------------------------

VARIABLE focus

FramesInit ==
    /\ focus \in {"pmm", "paging", "disk"}
    /\ PmmInit /\ (focus # "pmm" => mmap = NoRoom)
    /\ PagingInit /\ (focus # "paging" => nextframe = 0 /\ tables = Booted(0))
    /\ DiskInit(IF focus = "disk" THEN Setups ELSE {Attached("none", "none", << >>)})

FramesNext ==
    /\ \/ focus = "pmm" /\ PmmNext /\ UNCHANGED <<pagingvars, diskvars>>
       \/ focus = "paging" /\ PagingNext /\ UNCHANGED <<pmmvars, diskvars>>
       \/ focus = "disk" /\ DiskNext /\ UNCHANGED <<pmmvars, pagingvars>>
    /\ UNCHANGED focus

framevars == <<focus, pmmvars, pagingvars, diskvars>>

(* The driver goes on until it stops the kernel.                           *)
FramesSpec ==
    /\ FramesInit /\ [][FramesNext]_framevars
    /\ WF_diskvars(focus = "disk" /\ dpc # "fatal" /\ Driver)
=============================================================================
