-------------------------------- MODULE Fat ---------------------------------
(***************************************************************************)
(* The FAT32 driver (modules/fat) over msd_read (devmgr/msd).              *)
(*                                                                         *)
(* A volume is chosen at the start: the cluster chain of one file, and a   *)
(* tree of directories.  A job is one call into the driver; its record     *)
(* holds the call's local variables, and each step is one pass of a loop.  *)
(* The bytes of the disk are told apart by their addresses: the byte at    *)
(* address a is a.  Names have one character, and a long name fits one     *)
(* long-file-name entry.                                                   *)
(***************************************************************************)
EXTENDS Integers, Sequences, SequencesExt

CONSTANTS
    Sector,         \* bytes of a sector (512)
    PerCluster,     \* sectorspercluster
    LastCluster,    \* the clusters are 2..LastCluster
    PerSector,      \* directory entries in a sector (16)
    Volumes,        \* the volumes that are looked at
    Paths           \* the paths that are looked up, sequences of characters

VARIABLES vol, job

fatvars == <<vol, job>>

EndOfChain == LastCluster + 1   \* any value from 0x0ffffff8 on
Garbage == -1                   \* memory nothing was read into
Cluster == Sector * PerCluster  \* bytespercluster
Data == 4 * Sector              \* dataoffset

fat(c) == LET i == CHOOSE i \in 1..Len(vol.chain) : vol.chain[i] = c
          IN  IF i = Len(vol.chain) THEN EndOfChain ELSE vol.chain[i + 1]

\* msd_read: an unaligned read goes through a buffer of align(bytes, 512) bytes
\* that starts at the sector of offset; what lies behind it is heap memory.
msd_read(offset, bytes) ==
    LET window == ((bytes + Sector - 1) \div Sector) * Sector
    IN  [k \in 1..bytes |-> IF (offset % Sector) + k <= window THEN offset + k - 1 ELSE Garbage]

\* diskoffset multiplies with the size of a sector.
diskoffset(c) == Data + (c - 2) * Sector

-----------------------------------------------------------------------------
Idle == [op |-> "idle"]
Done(result) == [op |-> "done", kind |-> job.kind, call |-> job.call, result |-> result]
Fatal == [op |-> "fatal", kind |-> job.kind, call |-> job.call]

\* fat32_read with a buffer, after the lookup: chainread.
fat32_read ==
    /\ job = Idle /\ vol.chain # <<>>
    /\ \E offset \in 0..vol.size, bytes \in 0..(vol.size + 1) :
         job' = [op |-> "skip", kind |-> "read", call |-> [offset |-> offset, bytes |-> bytes],
                 cluster |-> vol.chain[1], skip |-> offset \div Cluster,
                 off |-> offset % Cluster, left |-> bytes, out |-> <<>>]
    /\ UNCHANGED vol

\* One round of the loop that skips clusters: the end of the chain is noticed
\* one round late, by then the entry of the end marker was read.
SkipCluster ==
    /\ job.op = "skip"
    /\ job' = IF job.skip = 0 THEN [job EXCEPT !.op = "read"]
              ELSE IF job.cluster = EndOfChain THEN Fatal
              ELSE [job EXCEPT !.skip = @ - 1, !.cluster = fat(job.cluster)]
    /\ UNCHANGED vol

\* Mutant of ReadCluster: the offset into the first cluster is kept for the rest.
ReadCluster_KeepOffset ==
    /\ job.op = "read"
    /\ LET len == IF job.left < Cluster - job.off THEN job.left ELSE Cluster - job.off
           out == job.out \o msd_read(diskoffset(job.cluster) + job.off, len)
       IN  job' = IF job.left = 0 THEN Done(job.out)
                  ELSE IF job.cluster = EndOfChain \/ fat(job.cluster) = EndOfChain THEN Done(out)
                  ELSE [job EXCEPT !.out = out, !.left = @ - len, !.cluster = fat(job.cluster)]
    /\ UNCHANGED vol

ReadCluster ==
    /\ job.op = "read"
    /\ IF job.left = 0 THEN job' = Done(job.out)
       ELSE LET len == IF job.left < Cluster - job.off THEN job.left ELSE Cluster - job.off
                out == job.out \o msd_read(diskoffset(job.cluster) + job.off, len)
            IN  job' = IF job.cluster = EndOfChain THEN Done(out \o <<Garbage>>)
                       ELSE IF fat(job.cluster) = EndOfChain THEN Done(out)
                       ELSE [job EXCEPT !.out = out, !.left = @ - len, !.off = 0,
                                        !.cluster = fat(job.cluster)]
    /\ UNCHANGED vol

\* What the file holds from offset on, cut at the end of its last cluster.
FileByte(k) == Data + (vol.chain[(k \div Cluster) + 1] - 2) * Cluster + (k % Cluster)
FilePart(offset, bytes) ==
    LET all == Len(vol.chain) * Cluster - offset
    IN  [k \in 1..(IF bytes < all THEN bytes ELSE all) |-> FileByte(offset + k - 1)]

-----------------------------------------------------------------------------
(***************************************************************************)
(* Directories.  An entry has a kind ("lfn", "volume", "deleted", "dot",   *)
(* "file" or "dir"), a name (long in an lfn entry, short in the others)    *)
(* and a cluster.  vol.dirs gives the entries of the directory in a        *)
(* cluster.                                                                *)
(***************************************************************************)
Root == 2
NoName == "none"

\* The sector a lookup reads.  In the root directory's the lookup overwrites
\* the cluster of whatever entry comes first.
FirstSector(c) ==
    [i \in 1..(IF Len(vol.dirs[c]) < PerSector THEN Len(vol.dirs[c]) ELSE PerSector) |->
        IF c = Root /\ i = 1 THEN [vol.dirs[c][i] EXCEPT !.cluster = Root] ELSE vol.dirs[c][i]]

\* fat32_getname: the long name when there is one.
fat32_getname(longname, e) ==
    IF longname # NoName THEN longname
    ELSE IF e.kind \in {"dot", "deleted"} THEN NoName ELSE e.name

fat32_lookup ==
    /\ job = Idle /\ Root \in DOMAIN vol.dirs
    /\ \E path \in Paths :
         job' = [op |-> "segment", kind |-> "lookup", call |-> path, ents |-> FirstSector(Root), at |-> Root,
                 path |-> path, longname |-> NoName, i |-> 0, base |-> NoName, found |-> FALSE]
    /\ UNCHANGED vol

\* The head of the outer loop: leading slashes, then the next segment.
Segment ==
    /\ job.op = "segment"
    /\ LET k == SelectInSeq(job.path, LAMBDA ch : ch # "/")
           rest == IF k = 0 THEN <<>> ELSE SubSeq(job.path, k, Len(job.path))
       IN  job' = IF job.path = <<>> THEN Fatal
                  ELSE IF rest = <<>> THEN Done(job.at)
                  ELSE [job EXCEPT !.op = "entry", !.path = rest, !.base = Head(rest),
                                   !.i = 1, !.found = FALSE]
    /\ UNCHANGED vol

\* Mutant of Entry: the long name survives the move to another directory.
Entry_KeepName ==
    /\ job.op = "entry"
    /\ job.i <= Len(job.ents)
    /\ LET e == job.ents[job.i]
       IN  job' =
             IF e.kind = "lfn" THEN [job EXCEPT !.longname = e.name, !.i = @ + 1]
             ELSE IF e.kind = "volume" \/ fat32_getname(job.longname, e) # job.base
             THEN [job EXCEPT !.i = @ + 1]
             ELSE IF Len(job.path) <= 1 THEN Done(e.cluster)
             ELSE IF e.cluster \notin DOMAIN vol.dirs THEN Done(Garbage)
             ELSE [job EXCEPT !.path = Tail(@), !.ents = FirstSector(e.cluster),
                              !.at = e.cluster, !.found = TRUE, !.i = @ + 1]
    /\ UNCHANGED vol

\* One entry.  A match moves on to the entry's directory and the loop goes on
\* with the next index in it, still looking for the same name.  A file that is
\* taken for a directory has no entries that mean anything.
Entry ==
    /\ job.op = "entry"
    /\ job.i <= Len(job.ents)
    /\ LET e == job.ents[job.i]
           name == fat32_getname(job.longname, e)
           rest == IF job.path = <<>> THEN <<>> ELSE Tail(job.path)
       IN  job' =
             IF e.kind = "lfn" THEN [job EXCEPT !.longname = e.name, !.i = @ + 1]
             ELSE IF e.kind = "volume" \/ name # job.base THEN [job EXCEPT !.i = @ + 1]
             ELSE IF rest = <<>> THEN Done(e.cluster)
             ELSE IF e.cluster \notin DOMAIN vol.dirs THEN Done(Garbage)
             ELSE [job EXCEPT !.path = rest, !.ents = FirstSector(e.cluster), !.at = e.cluster,
                              !.found = TRUE, !.longname = NoName, !.i = @ + 1]
    /\ UNCHANGED vol

EntriesEnd ==
    /\ job.op = "entry"
    /\ job.i > Len(job.ents)
    /\ job' = IF job.found THEN [job EXCEPT !.op = "segment"] ELSE Fatal
    /\ UNCHANGED vol

\* fat32_readdir after its lookups: all entries of the chain, up to the one
\* without attributes that ends the directory.
fat32_readdir ==
    /\ job = Idle
    /\ \E c \in DOMAIN vol.dirs :
         job' = [op |-> "list", kind |-> "list", call |-> c, i |-> 1, longname |-> NoName, out |-> <<>>]
    /\ UNCHANGED vol

List ==
    /\ job.op = "list"
    /\ IF job.i > Len(vol.dirs[job.call]) THEN job' = Done(job.out)
       ELSE LET e == vol.dirs[job.call][job.i]
                name == fat32_getname(job.longname, e)
                next == [job EXCEPT !.i = @ + 1]
            IN  job' = IF e.kind = "lfn" THEN [next EXCEPT !.longname = e.name]
                       ELSE IF e.kind = "volume" THEN next
                       ELSE [next EXCEPT !.longname = NoName,
                                         !.out = IF name = NoName THEN @ ELSE Append(@, name)]
    /\ UNCHANGED vol

Return ==
    /\ job.op = "done"
    /\ job' = Idle
    /\ UNCHANGED vol

FatInit(volumes) == vol \in volumes /\ job = Idle

FatNext == \/ fat32_read \/ SkipCluster \/ ReadCluster
           \/ fat32_lookup \/ Segment \/ Entry \/ EntriesEnd
           \/ fat32_readdir \/ List \/ Return

FatSpec == FatInit(Volumes) /\ [][FatNext]_fatvars
-----------------------------------------------------------------------------
\* fat32_read returns the bytes of the file from offset on, along the chain of
\* its clusters, for every read that starts inside the file.
ReadsFile ==
    job.op \in {"done", "fatal"} /\ job.kind = "read" /\ job.call.offset < vol.size =>
        job.op = "done" /\ job.result = FilePart(job.call.offset, job.call.bytes)

\* The directory as its writer meant it: the indices of the items in cluster c
\* and their names.
Items(c) == {j \in DOMAIN vol.dirs[c] : vol.dirs[c][j].kind \in {"file", "dir"}}
IsLong(c, j) == j > 1 /\ vol.dirs[c][j - 1].kind = "lfn"
NameOf(c, j) == IF IsLong(c, j) THEN vol.dirs[c][j - 1].name ELSE vol.dirs[c][j].name
Child(c, name) ==
    IF c \in DOMAIN vol.dirs /\ \E j \in Items(c) : NameOf(c, j) = name
    THEN vol.dirs[c][CHOOSE j \in Items(c) : NameOf(c, j) = name].cluster ELSE Garbage
ChainWalk(path) ==
    FoldLeft(LAMBDA c, ch : IF ch # "/" THEN Child(c, ch)
                            ELSE IF c \in DOMAIN vol.dirs THEN c ELSE Garbage, Root, path)

\* Every directory fits a sector, every item has a long name, and no directory
\* holds an item with the name it has itself.
WellFormed ==
    \A c \in DOMAIN vol.dirs : Len(vol.dirs[c]) <= PerSector /\ \A j \in Items(c) :
        /\ IsLong(c, j)
        /\ LET sub == vol.dirs[c][j].cluster
           IN  sub \in DOMAIN vol.dirs => \A k \in Items(sub) : NameOf(sub, k) # NameOf(c, j)

\* The long name that is left in longname when a directory was read to its end:
\* a later segment of the path that has it is found in the first entry.
LeftBehind(path) ==
    \E c \in DOMAIN vol.dirs \ {Root} : \E j \in Items(c) :
        (\A k \in Items(c) : k <= j) /\ \E i \in DOMAIN path : path[i] = NameOf(c, j)

\* fat32_lookup finds what the path names and nothing else, in a well-formed
\* volume, unless a part of the path is the last item of a subdirectory.  (A path that
\* goes through a file ends in garbage.)
LookupRight ==
    job.op \in {"done", "fatal"} /\ job.kind = "lookup" /\ WellFormed /\ ~LeftBehind(job.call) =>
        IF job.op = "done" THEN job.result = ChainWalk(job.call) ELSE ChainWalk(job.call) = Garbage

\* fat32_readdir lists the items of a directory once each and in order, whether
\* their names are long or short.
ReaddirRight ==
    job.op = "done" /\ job.kind = "list" =>
        job.result = LET at == SetToSortSeq(Items(job.call), LAMBDA a, b : a < b)
                     IN  [i \in DOMAIN at |-> NameOf(job.call, at[i])]

\* Names lead to their files: one at a time in fat32_lookup and all of them in
\* fat32_readdir.
NamesRight == LookupRight /\ ReaddirRight
=============================================================================
