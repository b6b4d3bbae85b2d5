------------------------------ MODULE Strings -------------------------------
(***************************************************************************)
(* String (util/storage.hh), a Vector<char> with a terminator behind its   *)
(* size characters, over the kernel heap.                                  *)
(*                                                                         *)
(* A block of the heap has room for a multiple of MinAlloc characters; the *)
(* cell behind that room is the first byte of its red zone and holds Mark  *)
(* until somebody writes over it.  strs gives every String variable its    *)
(* three fields, and Dead while it is not constructed.                     *)
(***************************************************************************)
EXTENDS Integers, Sequences, FiniteSets

CONSTANTS
    Objects,        \* the String variables
    Letters,        \* the characters
    Literals,       \* the C strings that are assigned and appended
    MinAlloc,       \* VMM_MIN_ALLOC
    MaxLen,         \* bound: characters of a String
    Blocks          \* bound: blocks of the heap

VARIABLES
    blocks,         \* block -> its cells, <<>> when it is free
    strs,           \* object -> [data, size, capacity]
    value,          \* history: object -> the string it should hold
    unended         \* history: objects made by the move constructor, or from one

stringvars == <<blocks, strs, value, unended>>

Null == 0
End == "end"        \* the terminator
Mark == "mark"      \* VMM_REDZONE_MAGIC
Stale == "stale"    \* what was in the memory before
Dead == [data |-> Null, size |-> -1, capacity |-> 0]
Empty == [data |-> Null, size |-> 0, capacity |-> 0]

Live == {o \in Objects : strs[o] # Dead}
Room(n) == ((n + MinAlloc - 1) \div MinAlloc) * MinAlloc
BlockLength(h, b) == Len(h[b]) - 1
Run(n, x) == [i \in 1..n |-> x]

-----------------------------------------------------------------------------
\* _galloc: Null for no characters, else a block with its red zone.
Fresh(h) == CHOOSE b \in Blocks : h[b] = <<>>
galloc(h, n) ==
    IF n = 0 THEN h ELSE [h EXCEPT ![Fresh(h)] = Append(Run(Room(n), Stale), Mark)]
gfree(h, b) == IF b = Null THEN h ELSE [h EXCEPT ![b] = <<>>]
Put(h, b, at, s) ==
    IF s = <<>> THEN h
    ELSE [h EXCEPT ![b] = SubSeq(@, 1, at) \o s \o SubSeq(@, at + Len(s) + 1, Len(@))]
Cells(h, b, n) == IF n = 0 THEN <<>> ELSE SubSeq(h[b], 1, n)

\* Vector::reserve.  A block that is large enough, or whose free neighbour the
\* heap takes in, is kept and gets a new red zone; otherwise the elements move.
GrowBlock(h, b, n) ==
    [h EXCEPT ![b] = Append(SubSeq(@, 1, Len(@) - 1) \o Run(n + 1 - Len(@), Stale), Mark)]
reserve_String(h, s, want, inplace) ==
    LET cap == IF want < s.size THEN s.size ELSE want
        sized == [s EXCEPT !.capacity = cap]
        moved == [sized EXCEPT !.data = IF cap = 0 THEN Null ELSE Fresh(h)]
    IN  IF s.data = Null THEN [blocks |-> galloc(h, cap), str |-> moved]
        ELSE IF Room(cap) <= BlockLength(h, s.data)
        THEN [blocks |-> GrowBlock(h, s.data, BlockLength(h, s.data)), str |-> sized]
        ELSE IF inplace THEN [blocks |-> GrowBlock(h, s.data, Room(cap)), str |-> sized]
        ELSE [blocks |-> gfree(Put(galloc(h, cap), moved.data, 0, Cells(h, s.data, s.size)), s.data),
              str |-> moved]

-----------------------------------------------------------------------------
Set(o, h, s, v, bad) ==
    /\ blocks' = h
    /\ strs' = [strs EXCEPT ![o] = s]
    /\ value' = [value EXCEPT ![o] = v]
    /\ unended' = IF bad THEN unended \cup {o} ELSE unended \ {o}

\* String(): no memory.
Default(o) == o \notin Live /\ Set(o, blocks, Empty, <<>>, FALSE)

\* String(const char*) and, for a part of a literal, String(const char*, u64).
Construct(o, lit) ==
    /\ o \notin Live
    /\ LET n == Len(lit) + 1
       IN  Set(o, Put(galloc(blocks, n), Fresh(blocks), 0, Append(lit, End)),
               [data |-> Fresh(blocks), size |-> n - 1, capacity |-> n], lit, FALSE)

\* The block the copying operations make: room for the characters, into which
\* the characters and the terminator are copied.
Copied(h, p) ==
    [blocks |-> IF p.size = 0 THEN h
              ELSE Put(galloc(h, p.size), Fresh(h), 0, Cells(h, p.data, p.size + 1)),
     str |-> IF p.size = 0 THEN Empty
             ELSE [data |-> Fresh(h), size |-> p.size, capacity |-> p.size]]

\* String(const String&).
CopyConstruct(o, p) ==
    /\ o \notin Live /\ p \in Live
    /\ LET c == Copied(blocks, strs[p])
       IN  Set(o, c.blocks, c.str, value[p], p \in unended /\ value[p] # <<>>)

\* String(String&&) passes an lvalue to the base class, so it copies as a
\* Vector does, without the terminator.
MoveConstruct(o, p) ==
    /\ o \notin Live /\ p \in Live
    /\ LET r == reserve_String(blocks, Empty, strs[p].capacity, FALSE)
       IN  Set(o, Put(r.blocks, r.str.data, 0, Cells(blocks, strs[p].data, strs[p].size)),
               [r.str EXCEPT !.size = strs[p].size], value[p], TRUE)

\* operator=(const String&).
CopyAssign(o, p) ==
    /\ {o, p} \subseteq Live /\ o # p
    /\ LET c == Copied(gfree(blocks, strs[o].data), strs[p])
       IN  Set(o, c.blocks, c.str, value[p], p \in unended /\ value[p] # <<>>)

\* Mutant of MoveAssign: the source keeps its pointer.
MoveAssign_Kept(o, p) ==
    /\ {o, p} \subseteq Live /\ o # p
    /\ blocks' = gfree(blocks, strs[o].data)
    /\ strs' = [strs EXCEPT ![o] = strs[p]]
    /\ value' = [value EXCEPT ![o] = value[p]]
    /\ unended' = IF p \in unended THEN unended \cup {o} ELSE unended \ {o}

\* operator=(String&&).
MoveAssign(o, p) ==
    /\ {o, p} \subseteq Live /\ o # p
    /\ blocks' = gfree(blocks, strs[o].data)
    /\ strs' = [strs EXCEPT ![o] = strs[p], ![p] = Empty]
    /\ value' = [value EXCEPT ![o] = value[p], ![p] = <<>>]
    /\ unended' = (IF p \in unended THEN unended \cup {o} ELSE unended \ {o}) \ {p}

\* operator+=(const char* ).
AppendString(o, lit, inplace) ==
    /\ o \in Live /\ strs[o].size + Len(lit) <= MaxLen
    /\ LET n == strs[o].size
           r == reserve_String(blocks, strs[o], n + Len(lit) + 1, inplace)
       IN  Set(o, Put(r.blocks, r.str.data, n, Append(lit, End)), [r.str EXCEPT !.size = n + Len(lit)],
               value[o] \o lit, FALSE)

\* operator+=(char), which reserves the character only.
AppendChar(o, ch, inplace) ==
    /\ o \in Live /\ strs[o].size < MaxLen
    /\ LET n == strs[o].size
           r == reserve_String(blocks, strs[o], n + 1, inplace)
       IN  Set(o, Put(r.blocks, r.str.data, n, <<ch, End>>), [r.str EXCEPT !.size = n + 1],
               Append(value[o], ch), FALSE)

\* String::resize: the new characters are zero bytes, as the terminator is, and the
\* ones behind the new end are destroyed.
Resize(o, n, inplace) ==
    /\ o \in Live
    /\ LET m == strs[o].size
           fill == Run(n - m, End)
           gone == Run(m - n, Stale)
           r == reserve_String(blocks, strs[o], n, inplace)
           sized == [r.str EXCEPT !.size = n]
           built == Put(Put(r.blocks, r.str.data, m, fill), r.str.data, n, gone)
           t == reserve_String(built, sized, n + 1, inplace)
       IN  Set(o, Put(t.blocks, t.str.data, n, <<End>>), t.str,
               IF n <= m THEN SubSeq(value[o], 1, n) ELSE value[o] \o fill, FALSE)

Destroy(o) ==
    /\ o \in Live
    /\ blocks' = gfree(blocks, strs[o].data)
    /\ strs' = [strs EXCEPT ![o] = Dead]
    /\ value' = [value EXCEPT ![o] = <<>>]
    /\ unended' = unended \ {o}

StringsInit ==
    /\ blocks = [b \in Blocks |-> <<>>]
    /\ strs = [o \in Objects |-> Dead]
    /\ value = [o \in Objects |-> <<>>]
    /\ unended = {}

StringsNext ==
    \E o \in Objects :
        \/ Default(o) \/ Destroy(o)
        \/ \E lit \in Literals : Construct(o, lit)
        \/ \E p \in Objects : \/ CopyConstruct(o, p) \/ MoveConstruct(o, p)
                              \/ CopyAssign(o, p) \/ MoveAssign(o, p)
        \/ \E inplace \in BOOLEAN :
             \/ \E lit \in Literals : AppendString(o, lit, inplace)
             \/ \E ch \in Letters : AppendChar(o, ch, inplace)
             \/ \E n \in 0..MaxLen : Resize(o, n, inplace)

StringsSpec == StringsInit /\ [][StringsNext]_stringvars
-----------------------------------------------------------------------------
\* Whatever constructors, assignments and destructors run in whatever order,
\* every block in use belongs to one String and every String to a block in
\* use: nothing is freed twice, used after it was freed, or lost.
BlocksOwned ==
    /\ \A o \in Live : strs[o].data # Null => blocks[strs[o].data] # <<>>
    /\ \A b \in Blocks : blocks[b] # <<>> => Cardinality({o \in Live : strs[o].data = b}) = 1

\* A String holds the characters it was given, and behind them a terminator
\* for c_str() unless the move constructor made it (or what it was copied from).
Holds ==
    \A o \in Live : strs[o].data # Null =>
        /\ Cells(blocks, strs[o].data, strs[o].size) = value[o]
        /\ o \notin unended => blocks[strs[o].data][strs[o].size + 1] = End

\* No String writes over the red zone of its block, except for the terminator
\* of one that fills the block to its last character.
ZonesKept ==
    \A o \in Live : strs[o].data # Null =>
        LET n == BlockLength(blocks, strs[o].data)
        IN  strs[o].size < n => blocks[strs[o].data][n + 1] = Mark

\* Strings own their blocks, hold their characters and stay inside.
StringsSound == BlocksOwned /\ Holds /\ ZonesKept
=============================================================================
