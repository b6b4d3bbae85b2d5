--------------------------------- MODULE Fs ---------------------------------
(***************************************************************************)
(* The file system layer (fs/fs.cc) and the file system in memory          *)
(* (fs/vfs.cc) with its HashMap of directory entries (util/storage.hh).    *)
(*                                                                         *)
(* A path is a sequence of slashes and names, no two names side by side.   *)
(* A directory of the VFS is a HashMap.  The table that vfs_create puts    *)
(* into the map for a new directory is a bytewise copy of a temporary's    *)
(* and is freed with the temporary, so the only table that can be used is  *)
(* the root's: an entry of kind "dir" has a table in freed memory.         *)
(***************************************************************************)
EXTENDS Integers, Sequences, FiniteSets, SequencesExt

CONSTANTS
    FileNames,      \* the names of files
    Bucket,         \* name -> the bucket hash() puts it in
    FsPaths,        \* the paths in the calls
    MountPaths,     \* where file systems are mounted
    MaxMounts,      \* bound: mount points
    MaxBytes        \* bound: bytes of a file

VARIABLES
    mountpts,       \* sequence of [path, type, root]
    call,           \* the call that was made last, with its result
    meant           \* history: name -> the file it should be

fsvars == <<mountpts, call, meant>>

NoFile == [kind |-> "none", data |-> <<>>]
Folder == [kind |-> "dir", data |-> <<>>]
File(data) == [kind |-> "file", data |-> data]
NoFiles == [n \in FileNames |-> NoFile]
Gap == 0                    \* what resize puts between the old end and the new bytes

-----------------------------------------------------------------------------
\* path_sanitize: every run of slashes becomes one.
path_sanitize(p) ==
    FoldLeft(LAMBDA out, c : IF c = "/" /\ out # <<>> /\ out[Len(out)] = "/" THEN out ELSE Append(out, c),
             <<>>, p)

\* path_basename: the index of the last segment, a slash behind it dropped.
Trim(p) == IF p[Len(p)] = "/" THEN SubSeq(p, 1, Len(p) - 1) ELSE p
path_basename(p) ==
    LET t == Trim(p) IN CHOOSE i \in 1..Len(t) : /\ \A j \in i..Len(t) : t[j] # "/"
                                                 /\ i = 1 \/ t[i - 1] = "/"

\* fs_find_mnt: of the mount points no longer than the path, the first of the
\* longest.  What is compared are the path and its own sanitised form, over
\* the length of the mount point.
fs_find_mnt(p) ==
    LET san == path_sanitize(p)
        size(i) == Len(mountpts[i].path)
        fits(i) == size(i) <= Len(san) /\ SubSeq(p, 1, size(i)) = SubSeq(san, 1, size(i))
    IN  FoldLeft(LAMBDA closest, i : IF fits(i) /\ size(closest) < size(i) THEN i ELSE closest,
                 1, [i \in DOMAIN mountpts |-> i])

\* The path inside the file system, which the five calls compute alike.
path2(p, m) == LET rest == SubSeq(p, Len(mountpts[m].path) + 1, Len(p))
               IN  IF rest = <<>> THEN <<"/">> ELSE rest

-----------------------------------------------------------------------------
(***************************************************************************)
(* HashMap.  Only an empty bucket takes a new key: operator[] ends in      *)
(* fatal for a key that is missing from a bucket with another one.         *)
(***************************************************************************)
has(map, n) == map[n] # NoFile
BucketOf(map, n) == {k \in FileNames : Bucket[k] = Bucket[n] /\ has(map, k)}
Collides(map, n) == ~has(map, n) /\ BucketOf(map, n) # {}

(***************************************************************************)
(* vfs_lookup walks the path.  The result is "root", a name in the root,   *)
(* "null", "fatal" (a file used as a directory: variant::get finds the     *)
(* wrong type) or "freed" (the table of a directory).  One slash is        *)
(* skipped before a segment; a second one makes an empty segment.          *)
(***************************************************************************)
Stops == {"null", "fatal", "freed"}
Descend(root, at, n) ==
    CASE at = "root" -> IF has(root, n) THEN n ELSE "null"
      [] at \in Stops -> at
      [] OTHER -> IF root[at].kind = "file" THEN "fatal" ELSE "freed"
\* Mutant of vfs_lookup: the test for the end of the path behind a slash is missing.
vfs_lookup_Slash(root, path) ==
    LET s == FoldLeft(LAMBDA s, c : CASE s.at \in Stops -> s
                             [] c = "/" /\ s.slash -> [s EXCEPT !.at = "null"]
                             [] c = "/" /\ ~s.slash -> [s EXCEPT !.slash = TRUE]
                             [] OTHER -> [at |-> Descend(root, s.at, c), slash |-> FALSE],
             [at |-> "root", slash |-> FALSE], path)
    IN  IF s.slash /\ s.at # "root" THEN "null" ELSE s.at

vfs_lookup(root, path) ==
    FoldLeft(LAMBDA s, c : CASE s.at \in Stops -> s
                             [] c = "/" /\ s.slash -> [s EXCEPT !.at = "null"]
                             [] c = "/" /\ ~s.slash -> [s EXCEPT !.slash = TRUE]
                             [] OTHER -> [at |-> Descend(root, s.at, c), slash |-> FALSE],
             [at |-> "root", slash |-> FALSE], path).at

Isfolder(root, at) == at = "root" \/ root[at].kind = "dir"

\* A call on mount point m that ends with outcome and result and leaves the
\* files of that mount point as root.
Ends(op, p, m, outcome, result, root) ==
    /\ call' = [op |-> op, path |-> p, outcome |-> outcome, result |-> result]
    /\ mountpts' = [mountpts EXCEPT ![m].root = root]

Running == call.outcome \in {"ok", "error"}
FsReady == Running /\ mountpts # <<>>

\* The outcome of a call whose lookup does not arrive at an entry.
Missed(at) == IF at = "null" THEN "fault" ELSE at

\* The part of a call before the file system's own function: fs_find_mnt and
\* the call table.  A partition no module would mount has an empty table.
Dispatch(p, m) == m = fs_find_mnt(p) /\ Len(mountpts[m].path) <= Len(p)
HasCalls(m) == mountpts[m].type = "VFS"

-----------------------------------------------------------------------------
\* The file a path means when one file system is mounted: its only name.
TheName(p) == LET names == SelectSeq(p, LAMBDA c : c # "/") IN IF Len(names) = 1 THEN names[1] ELSE "none"
Overlaid(old, offset, bytes) ==
    [i \in 1..(IF offset + Len(bytes) > Len(old) THEN offset + Len(bytes) ELSE Len(old)) |->
        IF i - offset \in DOMAIN bytes THEN bytes[i - offset]
        ELSE IF i <= Len(old) THEN old[i] ELSE Gap]
Note(p, file) == meant' = IF TheName(p) = "none" THEN meant ELSE [meant EXCEPT ![TheName(p)] = file]

\* fs_mount, of the VFS or of a partition: then devmgr_try_mount may find no
\* module for it, and the empty call table is mounted all the same.
fs_mount(path, type) ==
    /\ Running /\ Len(mountpts) < MaxMounts
    /\ mountpts' = Append(mountpts, [path |-> path_sanitize(path), type |-> type, root |-> NoFiles])
    /\ call' = [op |-> "mount", path |-> path, outcome |-> "ok", result |-> 0]
    /\ UNCHANGED meant

\* The directory a path's last segment is in, as vfs_create and vfs_remove find
\* it, and how that goes wrong.
DirOf(root, q) == vfs_lookup(root, SubSeq(q, 1, path_basename(q) - 1))
NotADir(root, at) == CASE at \in Stops -> Missed(at)
                       [] root[at].kind = "file" -> "fatal"
                       [] OTHER -> "freed"

\* vfs_create.  operator[] makes an entry and the assignment fills it.
vfs_create(root, q) ==
    CASE DirOf(root, q) # "root" -> NotADir(root, DirOf(root, q))
      [] Collides(root, q[path_basename(q)]) -> "fatal"
      [] OTHER -> "ok"

\* fs_create: readmeta says whether the file exists.
fs_create(p, mkdir) ==
    /\ FsReady
    /\ \E m \in DOMAIN mountpts :
        /\ Dispatch(p, m)
        /\ LET root == mountpts[m].root
               q == path2(p, m)
               at == vfs_lookup(root, q)
               name == q[path_basename(q)]
               outcome == CASE ~HasCalls(m) -> "fault"
                            [] at # "null" -> IF at = "freed" THEN at ELSE "fatal"
                            [] OTHER -> vfs_create(root, q)
           IN  IF outcome = "ok"
               THEN /\ Ends("create", p, m, "ok", 0,
                            [root EXCEPT ![name] = IF mkdir THEN Folder ELSE File(<<>>)])
                    /\ Note(p, IF mkdir THEN Folder ELSE File(<<>>))
               ELSE Ends("create", p, m, outcome, 0, root) /\ UNCHANGED meant

\* Mutant of Resized: the gap keeps what the block held before.
Resized_Junk(data, n) == [i \in 1..(IF n > Len(data) THEN n ELSE Len(data)) |->
                            IF i <= Len(data) THEN data[i] ELSE -1]

\* Vector::resize before a write behind the end.
Resized(data, n) == [i \in 1..(IF n > Len(data) THEN n ELSE Len(data)) |->
                        IF i <= Len(data) THEN data[i] ELSE Gap]
Written(data, offset, bytes) ==
    LET big == Resized(data, offset + Len(bytes))
    IN  [i \in DOMAIN big |-> IF i - offset \in DOMAIN bytes THEN bytes[i - offset] ELSE big[i]]

\* fs_write and vfs_write; a null buffer or no bytes do nothing.
fs_write(p, offset, bytes) ==
    /\ FsReady
    /\ \E m \in DOMAIN mountpts :
        /\ Dispatch(p, m)
        /\ LET root == mountpts[m].root
               at == vfs_lookup(root, path2(p, m))
               outcome == CASE ~HasCalls(m) -> "fault"
                            [] at \in Stops -> Missed(at)
                            [] Isfolder(root, at) -> "error"
                            [] OTHER -> "ok"
           IN  IF outcome = "ok" /\ bytes # <<>>
               THEN /\ Ends("write", p, m, "ok", Len(bytes),
                            [root EXCEPT ![at].data = Written(@, offset, bytes)])
                    /\ Note(p, File(Overlaid(meant[TheName(p)].data, offset, bytes)))
               ELSE Ends("write", p, m, outcome, 0, root) /\ UNCHANGED meant

\* What vfs_read checks before it copies.
Readable(data, offset, bytes) == offset <= Len(data) /\ offset + bytes <= Len(data)

\* fs_read and vfs_read.  Reading into no buffer asks for what is left.
fs_read(p, offset, bytes) ==
    /\ FsReady
    /\ \E m \in DOMAIN mountpts :
        /\ Dispatch(p, m)
        /\ LET root == mountpts[m].root
               at == vfs_lookup(root, path2(p, m))
               data == root[at].data
               outcome == CASE ~HasCalls(m) -> "fault"
                            [] at \in Stops -> Missed(at)
                            [] Isfolder(root, at) -> "error"
                            [] data # <<>> /\ bytes # 0 /\ ~Readable(data, offset, bytes) -> "error"
                            [] OTHER -> "ok"
           IN  /\ Ends("read", p, m, outcome,
                       IF outcome # "ok" \/ data = <<>> \/ bytes = 0 THEN <<>>
                       ELSE [i \in 1..bytes |-> IF offset + i \in DOMAIN data THEN data[offset + i] ELSE -1],
                       root)
               /\ UNCHANGED meant

\* vfs_readmeta takes a missing file for no entry; vfs_readdir does not check
\* what it looked up.
vfs_readmeta(at) == IF at \in {"fatal", "freed"} THEN at ELSE "ok"
vfs_readdir(root, at) == IF at = "root" THEN "ok" ELSE NotADir(root, at)

fs_readmeta(p) ==
    /\ FsReady
    /\ \E m \in DOMAIN mountpts :
        /\ Dispatch(p, m)
        /\ LET at == vfs_lookup(mountpts[m].root, path2(p, m))
           IN  Ends("readmeta", p, m, IF HasCalls(m) THEN vfs_readmeta(at) ELSE "fault", at,
                    mountpts[m].root)
    /\ UNCHANGED meant

fs_readdir(p) ==
    /\ FsReady
    /\ \E m \in DOMAIN mountpts :
        /\ Dispatch(p, m)
        /\ LET root == mountpts[m].root
               at == vfs_lookup(root, path2(p, m))
               outcome == IF HasCalls(m) THEN vfs_readdir(root, at) ELSE "fault"
           IN  Ends("readdir", p, m, outcome,
                    IF outcome = "ok" THEN {n \in FileNames : has(root, n)} ELSE {}, root)
    /\ UNCHANGED meant

\* vfs_remove, the one call of the table fs.cc has no function for.  Removing
\* a directory destroys its table a second time.
vfs_remove(p) ==
    /\ FsReady
    /\ \E m \in DOMAIN mountpts :
        /\ Dispatch(p, m) /\ HasCalls(m) /\ path2(p, m) # <<"/">>
        /\ LET root == mountpts[m].root
               q == path2(p, m)
               name == q[path_basename(q)]
               outcome == CASE DirOf(root, q) # "root" -> NotADir(root, DirOf(root, q))
                            [] ~has(root, name) -> "error"
                            [] root[name].kind = "dir" -> "freed"
                            [] OTHER -> "ok"
           IN  IF outcome = "ok"
               THEN Ends("remove", p, m, "ok", 0, [root EXCEPT ![name] = NoFile]) /\ Note(p, NoFile)
               ELSE Ends("remove", p, m, outcome, 0, root) /\ UNCHANGED meant

FsInit ==
    /\ mountpts = <<>>
    /\ call = [op |-> "mount", path |-> <<>>, outcome |-> "ok", result |-> 0]
    /\ meant = NoFiles

FsNext ==
    \/ \E path \in MountPaths, type \in {"VFS", "CUSTOM"} : fs_mount(path, type)
    \/ \E p \in FsPaths :
        \/ \E mkdir \in BOOLEAN : fs_create(p, mkdir)
        \/ \E offset \in 0..MaxBytes, n \in 0..MaxBytes :
             \/ fs_read(p, offset, n)
             \/ offset + n <= MaxBytes /\ fs_write(p, offset, [i \in 1..n |-> n])
        \/ fs_readmeta(p) \/ fs_readdir(p) \/ vfs_remove(p)

FsSpec == FsInit /\ [][FsNext]_fsvars
-----------------------------------------------------------------------------
\* Files behave as a map from names to bytes: after any sequence of creates,
\* writes and removes, through any spelling of the paths, the root holds the
\* files that were made, with the bytes written and zeros between them.
FilesKept == mountpts # <<>> => mountpts[1].root = meant

\* fs_read returns the bytes of the file the path means, and all it asked for.
ReadBack ==
    call.op = "read" /\ call.outcome = "ok" /\ call.result # <<>> =>
        /\ \A i \in DOMAIN call.result : call.result[i] # -1
        /\ \E k \in 0..MaxBytes :
             call.result = SubSeq(meant[TheName(call.path)].data, k + 1, k + Len(call.result))

\* The kernel stops in a call on the VFS for five reasons only: the file to be read,
\* written or listed is missing, it exists already, its directory is a file or
\* a created one, or its name falls into the bucket of another.
StopsForAReason ==
    ~Running /\ mountpts[1].type = "VFS" =>
        LET n == TheName(call.path) IN
        \/ call.op \in {"read", "write", "readdir"} /\ (n = "none" \/ meant[n] = NoFile)
        \/ call.op = "create" /\ (n = "none" \/ meant[n] # NoFile \/ Collides(meant, n))
        \/ call.op = "readdir" /\ n # "none"
        \/ call.op = "remove" /\ (n = "none" \/ meant[n] = Folder)
        \/ call.op = "readmeta" /\ n = "none"

\* fs.cc:67: the mount point chosen is a prefix of the path, once the root is
\* mounted.
MountRight ==
    mountpts # <<>> /\ mountpts[1].path = <<"/">> =>
        \A p \in FsPaths : IsPrefix(mountpts[fs_find_mnt(p)].path, path_sanitize(p))

\* The VFS behaves as a map from names to bytes, for what it stores and for
\* what it returns.
FilesRight == FilesKept /\ ReadBack
=============================================================================
