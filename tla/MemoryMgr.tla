----------------------------- MODULE MemoryMgr -----------------------------
(***************************************************************************)
(* The kernel heap (MemoryMgr, kernel/src/util/mm.cc): a doubly linked     *)
(* list of blocks, changed field by field under the lock m, and read       *)
(* without the lock by get_size and by check_all in the timer interrupt.   *)
(*                                                                         *)
(* Addresses and lengths are in units of VMM_MIN_ALLOC relative to         *)
(* heap_base; a pointer is represented by the start of its block, before   *)
(* the red zone.  Two writes are one step when a reader between them acts  *)
(* as it would before or after both.  File and line of an allocation are   *)
(* left out, and get_size, which a task may be preempted in, is one step.  *)
(* What a deleted link and the memory of a free block still hold is        *)
(* forgotten: only check_all, in the middle of an allocation, could see it.*)
(***************************************************************************)
EXTENDS Bitmap, Sequences, FiniteSetsExt

CONSTANTS Tasks,        \* tasks that use the heap
          H,            \* length of the heap
          RZ,           \* VMM_REDZONE_SIZE
          Cap,          \* number of links the bitmap covers
          Sizes,        \* sizes the tasks ask for, without the red zones
          Aligns,       \* alignments the tasks ask for
          Kinds,        \* operations the tasks use in this instance
          Checks,       \* whether the timer interrupt runs check_all
          MaxOverruns,  \* bound on writes past the end of a block
          MaxLost,      \* bound on lost
          NoOne         \* m when it is free

Nil == -1
Addr == 0..(H - 1)
Idx == 0..(Cap - 1)
Full(n) == n + 2 * RZ

VARIABLES links,        \* next, prev, length and free of every link
          first, bm,    \* head of the list; links in use
          usedmem, freemem,
          m,            \* owner of the lock
          magic,        \* cells that hold VMM_REDZONE_MAGIC
          pc, op,       \* where each task is, and in which operation
          owned,        \* the pointers the tasks hold, with the length that is theirs
          halted,       \* why the kernel stopped, or "no"
          lost,         \* what alloc_aligned counted without a block
          leaked,       \* try_realloc reported success on a null pointer
          damaged,      \* blocks overrun since their red zone was written (history)
          overruns,     \* how often that happened
          shadow        \* the heap as it was when the lock was last released (history)

heap == <<links, first, bm>>
counters == <<usedmem, freemem, lost>>
ghosts == <<leaked, damaged, overruns>>
vars == <<heap, counters, m, magic, pc, op, owned, halted, ghosts, shadow>>

NoOp == [kind |-> "none", n |-> 0, al |-> 1, p |-> Nil, had |-> 0,
         cur |-> Nil, aux |-> Nil, addr |-> Nil, rest |-> 0, ok |-> FALSE]
Link(next, prev, length, free) ==
    [next |-> next, prev |-> prev, length |-> length, free |-> free]
Unused == Link(Nil, Nil, 0, FALSE)

-----------------------------------------------------------------------------
(* Walking the list *)

\* The links from l on with the addresses a walk computes for them.
RECURSIVE Walk(_, _, _)
Walk(l, addr, fuel) ==
    IF l = Nil \/ fuel = 0 THEN <<>>
    ELSE <<[link |-> l, addr |-> addr]>>
             \o Walk(links[l].next, addr + links[l].length, fuel - 1)

Path == Walk(first, 0, Cap)
Length(v) == links[v.link].length
IsFree(v) == links[v.link].free

\* The first link on the path for which P holds, with its address, if any.
FirstOn(path, P(_)) ==
    LET ks == {k \in 1..Len(path) : P(path[k])}
    IN  IF ks = {} THEN {} ELSE {path[Min(ks)]}
At(p) == FirstOn(Path, LAMBDA v : v.addr = p)

\* Cells of the two red zones of a block.
FrontZone(a) == a..(a + RZ - 1)
BackZone(a, n) == (a + n - RZ)..(a + n - 1)
Intact(v) == FrontZone(v.addr) \cup BackZone(v.addr, Length(v)) \subseteq magic

\* The blocks a walk sees, as the state of Heap.
Abstract ==
    LET seen == {Path[k] : k \in 1..Len(Path)}
    IN  [len |-> [a \in Addr |-> SumSet({Length(v) : v \in {w \in seen : w.addr = a}})],
         free |-> {v.addr : v \in {w \in seen : IsFree(w)}},
         used |-> usedmem, avail |-> freemem, lost |-> lost]

-----------------------------------------------------------------------------
(* Calls *)

Init ==
    /\ links = [i \in Idx |-> IF i = 0 THEN Link(Nil, Nil, H, TRUE) ELSE Unused]
    /\ first = 0 /\ bm = {0}
    /\ usedmem = 0 /\ freemem = H /\ lost = 0
    /\ m = NoOne /\ magic = {}
    /\ pc = [t \in Tasks |-> "idle"] /\ op = [t \in Tasks |-> NoOp]
    /\ owned = {} /\ halted = "no"
    /\ leaked = FALSE /\ damaged = {} /\ overruns = 0
    /\ shadow = Abstract

On(t, label) == halted = "no" /\ pc[t] = label
Goto(t, label) == pc' = [pc EXCEPT ![t] = label]
Stop(why) == halted' = why /\ UNCHANGED <<heap, counters, magic, pc, op, damaged>>
Keep == UNCHANGED <<m, owned, leaked, overruns, shadow>>

\* alloc, alloc_aligned, and try_realloc with a null pointer.
CallAlloc(t, kind, n, al) ==
    /\ On(t, "idle") /\ kind \in Kinds
    /\ op' = [op EXCEPT ![t] = [NoOp EXCEPT !.kind = kind, !.n = Full(n), !.al = al]]
    /\ Goto(t, "lock")
    /\ UNCHANGED <<heap, counters, m, magic, owned, halted, ghosts, shadow>>

\* free, try_realloc ("grow") and realloc of a pointer some task holds.
CallWith(t, kind, o, n) ==
    /\ On(t, "idle") /\ kind \in Kinds
    /\ op' = [op EXCEPT ![t] = [NoOp EXCEPT !.kind = kind, !.n = Full(n), !.p = o.p, !.had = o.n]]
    /\ owned' = owned \ {o}
    /\ Goto(t, "lock")
    /\ UNCHANGED <<heap, counters, m, magic, halted, ghosts, shadow>>

Lock(t) ==
    /\ On(t, "lock") /\ m = NoOne
    /\ op[t].kind = "aligned" => lost + op[t].n <= MaxLost
    /\ m' = t
    /\ Goto(t, "start")
    /\ UNCHANGED <<heap, counters, magic, op, owned, halted, ghosts, shadow>>

-----------------------------------------------------------------------------
(* alloc_nomutex and alloc_aligned *)

\* allocate_into_free begins: the block is no longer free.
Take(t, v) ==
    /\ links' = [links EXCEPT ![v.link].free = FALSE]
    /\ op' = [op EXCEPT ![t].cur = v.link, ![t].addr = v.addr,
                        ![t].rest = Length(v) - op[t].n]
    /\ Goto(t, IF Length(v) > op[t].n THEN "split" ELSE "finish")
    /\ UNCHANGED <<first, bm, counters, magic, halted, damaged>>

\* First fit; without a fit the null link is dereferenced.
alloc_nomutex(t) ==
    /\ On(t, "start") /\ op[t].kind \in {"alloc", "move", "null"}
    /\ LET fit == FirstOn(Path, LAMBDA v : IsFree(v) /\ Length(v) >= op[t].n)
       IN  \/ fit = {} /\ Stop("nofit")
           \/ \E v \in fit : Take(t, v)
    /\ Keep

FixOfBlock(a, al) == AlignUp(a, al) - a
Fix(a, al) == AlignUp(a + RZ, al) - (a + RZ)

\* The search of alloc_aligned.  A block that must be cut in front gets a link
\* for the front part, which is not yet on the list; without a fit the walk ends
\* behind the heap and the function goes on with that address.
alloc_aligned(t) ==
    /\ On(t, "start") /\ op[t].kind = "aligned"
    /\ LET fix(v) == Fix(v.addr, op[t].al)
           fit == FirstOn(Path, LAMBDA v : IsFree(v) /\ Length(v) >= op[t].n + fix(v))
       IN  \/ /\ fit = {}
              /\ op' = [op EXCEPT ![t].addr = H]
              /\ Goto(t, "finish")
              /\ UNCHANGED <<heap, counters, magic, halted, damaged>>
           \/ \E v \in fit : fix(v) = 0 /\ Take(t, v)
           \/ \E v \in fit : fix(v) > 0 /\ bm = Idx /\ Stop("links")
           \/ \E v \in fit, r \in Idx :
                  /\ fix(v) > 0 /\ find_and_set(bm, Cap, 0, r)
                  /\ bm' = bm \cup {r}
                  /\ links' = [links EXCEPT ![r].length = fix(v), ![r].free = TRUE,
                                            ![v.link].length = @ - fix(v)]
                  /\ op' = [op EXCEPT ![t].cur = v.link, ![t].aux = r,
                                      ![t].addr = v.addr + fix(v),
                                      ![t].rest = Length(v) - fix(v) - op[t].n]
                  /\ Goto(t, "front")
                  /\ UNCHANGED <<first, counters, magic, halted, damaged>>
    /\ Keep

\* The front part goes on the list, before the block.  The link before it is set
\* first: until the next step the list ends in the new link.
LinkFront(t) ==
    /\ On(t, "front")
    /\ LET before == links[op[t].cur].prev
       IN  links' = IF before = Nil THEN links ELSE [links EXCEPT ![before].next = op[t].aux]
    /\ Goto(t, "join")
    /\ UNCHANGED <<first, bm, counters, magic, op, halted, damaged>> /\ Keep

JoinFront(t) ==
    /\ On(t, "join")
    /\ LET l == op[t].cur
           a == op[t].aux
       IN  /\ links' = [links EXCEPT ![a].prev = links[l].prev, ![a].next = l, ![l].prev = a]
           /\ first' = IF l = first THEN a ELSE first
    /\ Goto(t, "cut")
    /\ UNCHANGED <<bm, counters, magic, op, halted, damaged>> /\ Keep

\* The block is cut to its size; the rest is not yet on the list.
CutBlock(t) ==
    /\ On(t, "cut")
    /\ links' = [links EXCEPT ![op[t].cur].length = op[t].n, ![op[t].cur].free = FALSE]
    /\ Goto(t, IF op[t].rest > 0 THEN "rest" ELSE "finish")
    /\ UNCHANGED <<first, bm, counters, magic, op, halted, damaged>> /\ Keep

\* allocate_into_free: create_link comes first and may stop the kernel.
Split(t) ==
    /\ On(t, "split")
    /\ \/ bm = Idx /\ Stop("links")
       \/ /\ bm # Idx
          /\ links' = [links EXCEPT ![op[t].cur].length = op[t].n]
          /\ Goto(t, "rest")
          /\ UNCHANGED <<first, bm, counters, magic, op, halted, damaged>>
    /\ Keep

\* links with the free block r put behind l.
Inserted(l, r, length) ==
    LET behind == links[l].next
    IN  [i \in Idx |->
            CASE i = r -> Link(behind, l, length, TRUE)
              [] i = l -> [links[l] EXCEPT !.next = r]
              [] i = behind /\ behind # Nil -> [links[i] EXCEPT !.prev = r]
              [] OTHER -> links[i]]

\* The rest of the block goes on the list, behind it.
LinkRest(t) ==
    /\ On(t, "rest")
    /\ \/ bm = Idx /\ Stop("links")
       \/ \E r \in Idx :
              /\ find_and_set(bm, Cap, 0, r)
              /\ bm' = bm \cup {r}
              /\ links' = Inserted(op[t].cur, r, op[t].rest)
              /\ Goto(t, "finish")
              /\ UNCHANGED <<first, counters, magic, op, halted, damaged>>
    /\ Keep

Charge(n) == usedmem' = usedmem + n /\ freemem' = freemem - n

\* The counters, and only now the red zones.
Finish(t) ==
    /\ On(t, "finish")
    /\ Charge(op[t].n)
    /\ lost' = IF op[t].cur = Nil THEN lost + op[t].n ELSE lost
    /\ magic' = (magic \cup FrontZone(op[t].addr) \cup BackZone(op[t].addr, op[t].n)) \cap Addr
    /\ op' = [op EXCEPT ![t].ok = TRUE]
    /\ Goto(t, "unlock")
    /\ UNCHANGED <<heap, halted, damaged>> /\ Keep

-----------------------------------------------------------------------------
(* try_realloc *)

HasRoom(next, need) == next # Nil /\ links[next].free /\ links[next].length >= need

try_realloc(t) ==
    /\ On(t, "start") /\ op[t].kind \in {"grow", "realloc"}
    /\ \/ At(op[t].p) = {} /\ Stop("nosuch")
       \/ \E v \in At(op[t].p) :
              LET need == op[t].n - Length(v)
                  next == links[v.link].next
                  room == HasRoom(next, need)
              IN  /\ op' = [op EXCEPT ![t].cur = v.link, ![t].rest = need]
                  /\ \/ need <= 0 /\ Goto(t, "rezone") /\ UNCHANGED links
                     \/ need > 0 /\ ~room /\ Goto(t, "unlock") /\ UNCHANGED links
                     \/ /\ need > 0 /\ room /\ Goto(t, "grow")
                        /\ links' = [links EXCEPT ![next].length = @ - need]
                  /\ UNCHANGED <<first, bm, counters, magic, halted, damaged>>
    /\ Keep

\* links without the link behind l, which delete_link clears.
Unlinked(f, l) ==
    LET old == f[l].next
        behind == f[old].next
    IN  [i \in Idx |->
            CASE i = old -> Unused
              [] i = l -> [f[i] EXCEPT !.next = behind]
              [] i = behind /\ behind # Nil -> [f[i] EXCEPT !.prev = l]
              [] OTHER -> f[i]]

\* The block takes what its neighbour gave; an empty neighbour is deleted.
GrowBlock(t) ==
    /\ On(t, "grow")
    /\ LET l == op[t].cur
           next == links[l].next
           grown == [links EXCEPT ![l].length = @ + op[t].rest]
           empty == links[next].length = 0
       IN  /\ links' = IF empty THEN Unlinked(grown, l) ELSE grown
           /\ bm' = IF empty THEN bm \ {next} ELSE bm
    /\ Charge(op[t].rest)
    /\ Goto(t, "rezone")
    /\ UNCHANGED <<first, lost, magic, op, halted, damaged>> /\ Keep

RezoneWhereItWas(t) ==
    /\ On(t, "rezone")
    /\ magic' = magic \cup BackZone(op[t].p, op[t].had)
    /\ op' = [op EXCEPT ![t].ok = TRUE]
    /\ Goto(t, "unlock")
    /\ UNCHANGED <<heap, counters, halted, damaged>> /\ Keep
\* The red zone behind the block is written again, grown or not, and unchecked.
Rezone(t) ==
    /\ On(t, "rezone")
    /\ magic' = magic \cup BackZone(op[t].p, links[op[t].cur].length)
    /\ damaged' = damaged \ {op[t].p}
    /\ op' = [op EXCEPT ![t].ok = TRUE]
    /\ Goto(t, "unlock")
    /\ UNCHANGED <<heap, counters, halted>> /\ Keep

-----------------------------------------------------------------------------
(* free, the checks and get_size *)

VerdictOnFront(v) ==
    CASE IsFree(v) -> "free"
      [] Length(v) < Full(1) -> "small"
      [] ~(FrontZone(v.addr) \subseteq magic) -> "redzone"
      [] OTHER -> "no"
\* What check reports on the block v, "no" if nothing.
Verdict(v) ==
    CASE IsFree(v) -> "free"
      [] Length(v) < Full(1) -> "small"
      [] ~Intact(v) -> "redzone"
      [] OTHER -> "no"

free_nomutex(t) ==
    /\ On(t, "start") /\ op[t].kind \in {"free", "drop"}
    /\ \/ At(op[t].p) = {} /\ Stop("nosuch")
       \/ \E v \in At(op[t].p) : Verdict(v) # "no" /\ Stop(Verdict(v))
       \/ \E v \in At(op[t].p) :
              /\ Verdict(v) = "no"
              /\ links' = [links EXCEPT ![v.link].free = TRUE]
              /\ usedmem' = usedmem - Length(v) /\ freemem' = freemem + Length(v)
              /\ magic' = magic \ v.addr..(v.addr + Length(v) - 1)
              /\ op' = [op EXCEPT ![t].cur = v.link]
              /\ Goto(t, "mnext")
              /\ UNCHANGED <<first, bm, lost, halted, damaged>>
    /\ Keep

Merges(l) == l # Nil /\ links[l].free

\* merge: first the lengths are added, then the second link is taken out.
MergeNext(t) ==
    /\ On(t, "mnext")
    /\ LET next == links[op[t].cur].next
       IN  \/ /\ Merges(next)
              /\ links' = [links EXCEPT ![op[t].cur].length = @ + links[next].length]
              /\ Goto(t, "unext")
           \/ /\ ~Merges(next)
              /\ Goto(t, "mprev") /\ UNCHANGED links
    /\ UNCHANGED <<first, bm, counters, magic, op, halted, damaged>> /\ Keep

UnlinkNextKeepsBit(t) ==
    /\ On(t, "unext")
    /\ links' = Unlinked(links, op[t].cur)
    /\ Goto(t, "mprev")
    /\ UNCHANGED <<first, bm, counters, magic, op, halted, damaged>> /\ Keep
UnlinkNext(t) ==
    /\ On(t, "unext")
    /\ links' = Unlinked(links, op[t].cur)
    /\ bm' = bm \ {links[op[t].cur].next}
    /\ Goto(t, "mprev")
    /\ UNCHANGED <<first, counters, magic, op, halted, damaged>> /\ Keep

MergePrev(t) ==
    /\ On(t, "mprev")
    /\ LET prev == links[op[t].cur].prev
       IN  \/ /\ Merges(prev)
              /\ links' = [links EXCEPT ![prev].length = @ + links[op[t].cur].length]
              /\ Goto(t, "uprev")
           \/ /\ ~Merges(prev)
              /\ Goto(t, "unlock") /\ UNCHANGED links
    /\ UNCHANGED <<first, bm, counters, magic, op, halted, damaged>> /\ Keep

UnlinkPrev(t) ==
    /\ On(t, "uprev")
    /\ links' = Unlinked(links, links[op[t].cur].prev)
    /\ bm' = bm \ {op[t].cur}
    /\ Goto(t, "unlock")
    /\ UNCHANGED <<first, counters, magic, op, halted, damaged>> /\ Keep

\* The lock is released and the call returns; realloc goes on with alloc when
\* try_realloc failed, with get_size after alloc, and returns after free.  A block is
\* never cut to a smaller size.  A task fills the block it gets, so that nothing in
\* it looks like a red zone.
Unlock(t) ==
    LET o == op[t]
        kept == IF o.ok THEN Max({o.n, o.had}) ELSE o.had
        Data(b) == (b.p + RZ)..(b.p + b.n - RZ - 1)
        Returns(new) ==
            /\ owned' = owned \cup new
            /\ magic' = magic \ UNION {Data(b) : b \in new}
            /\ op' = [op EXCEPT ![t] = NoOp] /\ Goto(t, "idle")
        Continues(kind, label) ==
            op' = [op EXCEPT ![t].kind = kind] /\ Goto(t, label) /\ UNCHANGED <<magic, owned>>
    IN  /\ On(t, "unlock")
        /\ \/ o.kind \in {"alloc", "aligned"} /\ Returns({[p |-> o.addr, n |-> o.n]})
           \/ o.kind \in {"free", "null"} /\ Returns({})
           \/ o.kind = "drop" /\ Returns({[p |-> o.addr, n |-> o.n]})
           \/ o.kind = "grow" /\ Returns({[p |-> o.p, n |-> kept]})
           \/ o.kind = "realloc" /\ o.ok /\ Returns({[p |-> o.p, n |-> kept]})
           \/ o.kind = "realloc" /\ ~o.ok /\ Continues("move", "lock")
           \/ o.kind = "move" /\ Continues("drop", "getsize")
        /\ leaked' = (leaked \/ (o.kind = "null" /\ o.ok))
        /\ m' = NoOne /\ shadow' = Abstract
        /\ UNCHANGED <<heap, counters, halted, damaged, overruns>>

\* get_size walks the list without the lock; realloc then copies and frees.
get_size(t) ==
    /\ On(t, "getsize")
    /\ \/ At(op[t].p) = {} /\ Stop("getsize")
       \/ /\ At(op[t].p) # {} /\ Goto(t, "lock")
          /\ UNCHANGED <<heap, counters, magic, op, halted, damaged>>
    /\ Keep

\* The timer interrupt checks every used block, whoever holds the lock.
check_all ==
    LET bad == FirstOn(Path, LAMBDA v : ~IsFree(v) /\ Verdict(v) # "no")
    IN  /\ Checks /\ halted = "no"
        /\ halted' = IF bad = {} THEN "no" ELSE "timer"
        /\ UNCHANGED <<heap, counters, m, magic, pc, op, owned, ghosts, shadow>>

-----------------------------------------------------------------------------
(* What the tasks do with their blocks *)

\* A task writes past the end of its block.
Overrun(o) ==
    /\ halted = "no" /\ o.p \in Addr /\ overruns < MaxOverruns
    /\ magic' = magic \ {o.p + o.n - RZ}
    /\ damaged' = damaged \cup {o.p} /\ overruns' = overruns + 1
    /\ UNCHANGED <<heap, counters, m, pc, op, owned, halted, leaked, shadow>>

Step(t) ==
    \/ Lock(t) \/ Unlock(t)
    \/ alloc_nomutex(t) \/ alloc_aligned(t) \/ LinkFront(t) \/ JoinFront(t) \/ CutBlock(t)
    \/ Split(t) \/ LinkRest(t) \/ Finish(t)
    \/ try_realloc(t) \/ GrowBlock(t) \/ Rezone(t)
    \/ free_nomutex(t) \/ MergeNext(t) \/ UnlinkNext(t) \/ MergePrev(t) \/ UnlinkPrev(t)
    \/ get_size(t)

Next ==
    \/ \E t \in Tasks, n \in Sizes : CallAlloc(t, "alloc", n, 1) \/ CallAlloc(t, "null", n, 1)
    \/ \E t \in Tasks, n \in Sizes, al \in Aligns : CallAlloc(t, "aligned", n, al)
    \/ \E t \in Tasks, o \in owned : CallWith(t, "free", o, 1)
    \/ \E t \in Tasks, o \in owned, n \in Sizes : CallWith(t, "grow", o, n) \/ CallWith(t, "realloc", o, n)
    \/ \E t \in Tasks : Step(t)
    \/ \E o \in owned : Overrun(o)
    \/ check_all

Spec == Init /\ [][Next]_vars

-----------------------------------------------------------------------------
(* Properties *)

\* The variables have their types.
TypeOK ==
    /\ links \in [Idx -> [next : Idx \cup {Nil}, prev : Idx \cup {Nil}, length : 0..H, free : BOOLEAN]]
    /\ first \in Idx /\ bm \subseteq Idx /\ magic \subseteq Addr
    /\ usedmem \in 0..(H + MaxLost) /\ freemem \in (-MaxLost)..H
    /\ m \in Tasks \cup {NoOne} /\ overruns \in 0..MaxOverruns

\* Whenever the lock is free the list is sound: the links on it are exactly those
\* the bitmap marks, prev is the inverse of next, and the lengths fill the heap.
ListSound ==
    m = NoOne =>
        LET n == Len(Path)
        IN  /\ {Path[k].link : k \in 1..n} = bm /\ Cardinality(bm) = n
            /\ \A k \in 1..n : links[Path[k].link].prev = IF k = 1 THEN Nil ELSE Path[k - 1].link
            /\ Path[n].addr + Length(Path[n]) = H

\* A pointer the heap handed out and did not take back is the start of a used
\* block that is large enough for it, whatever the other tasks are doing, unless
\* alloc_aligned found no room.
HeldBlocks ==
    m = NoOne => \A o \in owned : o.p # H =>
        \E v \in At(o.p) : ~IsFree(v) /\ Length(v) >= o.n

\* As long as nobody writes past the end of a block, no check of the red zones
\* reports a corruption.
NoFalseReport == overruns = 0 => halted \notin {"timer", "redzone", "small", "free"}

\* A block whose end was overrun since its red zone was last written is never
\* silently returned to the heap, neither by free nor by a realloc that moves it: it
\* stays a used block with a broken red zone until a check stops the kernel.
DamageCaught ==
    m = NoOne /\ halted = "no" => \A p \in damaged :
        \E v \in At(p) : ~IsFree(v) /\ ~Intact(v)

\* get_size is only called on a block that is on the list: the end of the
\* function is unreachable.
GetSizeFinds == halted # "getsize"

\* try_realloc does nothing when it cannot resize the block in place.
OnlyInPlace == ~leaked

H1 == INSTANCE Heap WITH len <- shadow.len, free <- shadow.free, usedmem <- shadow.used,
                         freemem <- shadow.avail, lost <- shadow.lost, halted <- halted # "no"

\* Seen each time the lock is released, the linked list is the heap of module
\* Heap: what one task does under the lock, step by step, is one operation there.
ImplementsHeap == H1!Spec

\* The list of blocks is sound whenever nobody is inside, a block that was
\* handed out stays its owner's, and free finds nothing to report as long as
\* nobody overran a block.
BlocksSound == TypeOK /\ ListSound /\ HeldBlocks /\ NoFalseReport

\* realloc of one task, with the checks of the timer interrupt: the blocks stay
\* its own, get_size finds them, and damage to a red zone is caught before the
\* block returns to the heap.
ReallocSafe == HeldBlocks /\ GetSizeFinds /\ DamageCaught
=============================================================================
