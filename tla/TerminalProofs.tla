--------------------------- MODULE TerminalProofs ---------------------------
(***************************************************************************)
(* The terminal, for every size of the screen, length of the line, set of  *)
(* characters, and list of built-in commands shorter than a word of the    *)
(* bitmap: the cursor is where the line ends (ScreenKept), a command finds *)
(* the argument that was typed (ArgumentTyped), and a handle leads to the  *)
(* command it was given for (HandlesKept).                                 *)
(*                                                                         *)
(* HandlesKept is about the arena of commands.  Its part of the invariant  *)
(* (CommandsInv) says that the bitmap has a bit for every slot and counts  *)
(* the words they are in, so that push_back finds a slot that is free, and *)
(* growing loses none that is in use.                                      *)
(*                                                                         *)
(* Loops of the code are recursive functions of the model.  That such a    *)
(* function exists, and what holds after its last turn, follows from       *)
(* Iterates and UpTo.                                                      *)
(***************************************************************************)
EXTENDS Terminal, WellFoundedInduction, TLAPS

(* Loops *)

\* Every set of natural numbers has a least element.
LEMMA Smallest ==
    ASSUME NEW T, T \subseteq Nat, T # {}
    PROVE  \E x \in T : \A y \in T : x <= y
<1>1. PICK x \in T : \A y \in T : ~(<<y, x>> \in OpToRel(<, Nat))
  BY NatLessThanWellFounded, WFMin
<1>2. \A y \in T : ~(y < x)
  BY <1>1 DEF OpToRel
<1> QED
  BY <1>2



\* Induction over the steps of a bounded loop.
LEMMA UpTo ==
    ASSUME NEW m \in Nat, NEW G, 0 \in G, \A p \in 1..m : p - 1 \in G => p \in G
    PROVE  0..m \subseteq G
<1> DEFINE Bad == (0..m) \ G
<1> SUFFICES ASSUME Bad # {} PROVE FALSE
  OBVIOUS
<1>1. PICK p \in Bad : \A q \in Bad : p <= q
  <2>1. Bad \subseteq Nat
    OBVIOUS
  <2> QED
    BY <2>1, Smallest
<1>2. p \in 1..m /\ p - 1 \in 0..m
  BY <1>1
<1>3. p - 1 \notin Bad
  BY <1>1, <1>2
<1> QED
  BY <1>1, <1>2, <1>3

\* A bounded loop that stays in S has a history.
HasHistory(S, m, c, f) ==
    \E g \in [0..m -> S] : g[0] = c /\ \A p \in 1..m : g[p] = f[p][g[p - 1]]

\* It has one: a turn at a time.
LEMMA Iterates ==
    ASSUME NEW m \in Nat, NEW S, NEW c \in S, NEW f \in [1..m -> [S -> S]]
    PROVE  HasHistory(S, m, c, f)
<1> USE DEF HasHistory
<1> DEFINE Has(k, g) == g \in [0..k -> S] /\ g[0] = c /\ \A p \in 1..k : g[p] = f[p][g[p - 1]]
           G == {k \in Nat : \E g \in [0..k -> S] : Has(k, g)}
<1>1. 0 \in G
  <2> DEFINE g == [k \in 0..0 |-> c]
  <2>1. Has(0, g)
    OBVIOUS
  <2> QED
    BY <2>1
<1>2. ASSUME NEW k \in 1..m, k - 1 \in G PROVE k \in G
  <2>1. PICK g \in [0..(k - 1) -> S] : Has(k - 1, g)
    BY <1>2
  <2> DEFINE h == [p \in 0..k |-> IF p = k THEN f[k][g[k - 1]] ELSE g[p]]
  <2>2. k - 1 \in 0..(k - 1) /\ g[k - 1] \in S
    BY <2>1
  <2>3. h \in [0..k -> S] /\ h[0] = c
    BY <2>1, <2>2
  <2>4. ASSUME NEW p \in 1..k PROVE h[p] = f[p][h[p - 1]]
    <3>1. CASE p = k
      BY <3>1, <2>2
    <3>2. CASE p # k
      <4>1. p \in 1..(k - 1) /\ p - 1 \in 0..(k - 1) /\ p - 1 # k
        BY <3>2
      <4> QED
        BY <3>2, <4>1, <2>1
    <3> QED
      BY <3>1, <3>2
  <2> HIDE DEF h
  <2>5. Has(k, h)
    BY <2>3, <2>4
  <2> HIDE DEF Has
  <2> QED
    BY <2>3, <2>5
<1> HIDE DEF G
<1>3. 0..m \subseteq G
  BY <1>1, <1>2, UpTo
<1>4. m \in G
  BY <1>3
<1> USE DEF G
<1> QED
  BY <1>4

-----------------------------------------------------------------------------
(* The screen *)

\* The cursor is on the screen, or beyond its left edge.
Consoles == [col : {Outside} \cup 0..Columns, row : 0..(Rows - 1), base : Int]

\* One step of the cursor.
LEMMA CursorSteps ==
    ASSUME NEW c \in Consoles
    PROVE  /\ Newline(c) \in Consoles /\ Newline(c).col = 0
           /\ Glyph(c) \in Consoles
           /\ c.col # Outside /\ ~Wraps(c) => Glyph(c).col = c.col + 1 /\ Glyph(c).base = c.base
           /\ Backspace(c) \in Consoles
           /\ c.col # Outside => Backspace(c).col = c.col - 1 /\ Backspace(c).base = c.base
<1> USE ScreenAssumption
<1>1. Newline(c) \in Consoles /\ Newline(c).col = 0
  <2>1. c.row \in 0..(Rows - 1) /\ c.base \in Int /\ 0 \in {Outside} \cup 0..Columns
    BY DEF Consoles
  <2> DEFINE row == IF c.row + 1 >= Rows THEN c.row ELSE c.row + 1
  <2>2. row \in 0..(Rows - 1)
    BY <2>1
  <2>3. Newline(c) = [c EXCEPT !.col = 0, !.row = row]
    BY DEF Newline
  <2> HIDE DEF row
  <2> QED
    BY <2>1, <2>2, <2>3 DEF Consoles
<1>2. Backspace(c) \in Consoles
  BY DEF Consoles, Backspace, Outside
<1>3. c.col # Outside => Backspace(c).col = c.col - 1 /\ Backspace(c).base = c.base
  BY DEF Consoles, Backspace, Outside
<1>4. CASE Wraps(c)
  <2>1. Glyph(c) = [Newline(c) EXCEPT !.col = IF @ = Outside THEN @ ELSE @ + 1]
    BY <1>4 DEF Glyph
  <2>2. Glyph(c) \in Consoles
    BY <1>1, <2>1 DEF Consoles, Outside
  <2> QED
    BY <1>1, <1>2, <1>3, <1>4, <2>2
<1>5. CASE ~Wraps(c)
  <2>1. Glyph(c) = [c EXCEPT !.col = IF @ = Outside THEN @ ELSE @ + 1]
    BY <1>5 DEF Glyph
  <2>2. Glyph(c) \in Consoles
    BY <1>5, <2>1 DEF Consoles, Outside, Wraps
  <2>3. c.col # Outside => Glyph(c).col = c.col + 1 /\ Glyph(c).base = c.base
    BY <2>1 DEF Consoles, Outside
  <2> QED
    BY <1>1, <1>2, <1>3, <2>2, <2>3
<1> QED
  BY <1>4, <1>5

\* Drawing the prompt: the cursor stays on the screen, and from the start of a line
\* it ends behind the prompt.
LEMMA PromptDrawn ==
    ASSUME NEW c \in Consoles
    PROVE  /\ prompt(c) \in Consoles
           /\ c.col = 0 => prompt(c).col = Prompt /\ prompt(c).base = Prompt
<1> DEFINE Eq(g) == g = [u \in 0..Prompt |-> IF u = 0 THEN c ELSE Glyph(g[u - 1])]
           at == CHOOSE g : Eq(g)
           f == [q \in 1..Prompt |-> [x \in Consoles |-> Glyph(x)]]
<1>0. Prompt \in Nat /\ Prompt <= Columns /\ Columns \in Nat
  BY ScreenAssumption
<1>1. prompt(c) = [at[Prompt] EXCEPT !.base = at[Prompt].col]
  BY DEF prompt
<1>2. \E g : Eq(g)
  <2>1. f \in [1..Prompt -> [Consoles -> Consoles]]
    BY CursorSteps
  <2>a. HasHistory(Consoles, Prompt, c, f)
    <3> HIDE DEF f
    <3> QED
      BY <1>0, <2>1, Iterates
  <2>2. PICK g \in [0..Prompt -> Consoles] : g[0] = c /\ \A p \in 1..Prompt : g[p] = f[p][g[p - 1]]
    <3> HIDE DEF f
    <3> QED
      BY <2>a DEF HasHistory
  <2>3. ASSUME NEW p \in 0..Prompt PROVE g[p] = IF p = 0 THEN c ELSE Glyph(g[p - 1])
    <3>1. CASE p = 0
      BY <2>2, <3>1
    <3>2. CASE p # 0
      <4>1. p \in 1..Prompt /\ p - 1 \in 0..Prompt
        BY <1>0, <3>2
      <4>2. g[p - 1] \in Consoles /\ g[p] = f[p][g[p - 1]]
        BY <2>2, <4>1
      <4> QED
        BY <3>2, <4>2
    <3> QED
      BY <3>1, <3>2
  <2>4. Eq(g)
    BY <2>3
  <2> QED
    BY <2>4
<1>3. Eq(at)
  <2> HIDE DEF Eq
  <2> QED
    BY <1>2
<1> HIDE DEF at
<1>4. at[0] = c /\ \A p \in 1..Prompt : at[p] = Glyph(at[p - 1])
  BY <1>0, <1>3
<1> HIDE DEF Eq
<1> DEFINE G == {p \in 0..Prompt : at[p] \in Consoles /\ (c.col = 0 => at[p].col = p)}
<1>5. 0 \in G
  BY <1>0, <1>4
<1>6. ASSUME NEW p \in 1..Prompt, p - 1 \in G PROVE p \in G
  <2>1. at[p - 1] \in Consoles /\ (c.col = 0 => at[p - 1].col = p - 1) /\ at[p] = Glyph(at[p - 1])
    BY <1>4, <1>6
  <2>2. at[p] \in Consoles
    BY <2>1, CursorSteps
  <2>3. c.col = 0 => at[p].col = p
    <3> HAVE c.col = 0
    <3>1. at[p - 1].col # Outside /\ ~Wraps(at[p - 1])
      BY <1>0, <2>1 DEF Outside, Wraps
    <3>2. at[p].col = at[p - 1].col + 1
      BY <2>1, <3>1, CursorSteps
    <3> QED
      BY <2>1, <3>2
  <2> QED
    BY <1>0, <2>2, <2>3
<1> HIDE DEF G
<1>7. Prompt \in G
  BY <1>0, <1>5, <1>6, UpTo
<1> USE DEF G
<1>8. at[Prompt] \in Consoles /\ (c.col = 0 => at[Prompt].col = Prompt)
  BY <1>7
<1> QED
  BY <1>0, <1>1, <1>8 DEF Consoles, Outside

\* Messages leave the cursor at the start of a line.
LEMMA LinesPrinted ==
    ASSUME NEW c \in Consoles, c.col = 0, NEW lines, cmds.data.capacity \in Nat
    PROVE  Printed(c, lines) \in Consoles /\ Printed(c, lines).col = 0
<1> DEFINE m == cmds.data.capacity + 1
           Eq(g) == g = [u \in 0..m |-> IF u = 0 THEN c
                                        ELSE IF u - 1 \in lines THEN printlnk(g[u - 1]) ELSE g[u - 1]]
           at == CHOOSE g : Eq(g)
           f == [q \in 1..m |-> [x \in Consoles |-> IF q - 1 \in lines THEN printlnk(x) ELSE x]]
<1>0. \A x \in Consoles : printlnk(x) \in Consoles /\ printlnk(x).col = 0
  BY CursorSteps DEF printlnk
<1>1. Printed(c, lines) = at[m] /\ m \in Nat
  BY DEF Printed
<1> HIDE DEF m
<1>2. \E g : Eq(g)
  <2>1. f \in [1..m -> [Consoles -> Consoles]]
    BY <1>0, <1>1
  <2>a. HasHistory(Consoles, m, c, f)
    <3> HIDE DEF f
    <3> QED
      BY <1>1, <2>1, Iterates
  <2>2. PICK g \in [0..m -> Consoles] : g[0] = c /\ \A p \in 1..m : g[p] = f[p][g[p - 1]]
    <3> HIDE DEF f
    <3> QED
      BY <2>a DEF HasHistory
  <2>3. ASSUME NEW p \in 0..m 
                PROVE g[p] = IF p = 0 THEN c
                             ELSE IF p - 1 \in lines THEN printlnk(g[p - 1]) ELSE g[p - 1]
    <3>1. CASE p = 0
      BY <2>2, <3>1
    <3>2. CASE p # 0
      <4>1. p \in 1..m /\ p - 1 \in 0..m
        BY <1>1, <3>2
      <4>2. g[p - 1] \in Consoles /\ g[p] = f[p][g[p - 1]]
        BY <2>2, <4>1
      <4> QED
        BY <3>2, <4>2
    <3> QED
      BY <3>1, <3>2
  <2>4. Eq(g)
    BY <2>3
  <2> QED
    BY <2>4
<1>3. Eq(at)
  <2> HIDE DEF Eq
  <2> QED
    BY <1>2
<1> HIDE DEF at
<1>4. at[0] = c /\ \A p \in 1..m : at[p] = IF p - 1 \in lines THEN printlnk(at[p - 1]) ELSE at[p - 1]
  BY <1>1, <1>3
<1> HIDE DEF Eq
<1> DEFINE G == {p \in 0..m : at[p] \in Consoles /\ at[p].col = 0}
<1>5. 0 \in G
  BY <1>1, <1>4
<1>6. ASSUME NEW p \in 1..m, p - 1 \in G PROVE p \in G
  BY <1>0, <1>1, <1>4, <1>6
<1> HIDE DEF G
<1>7. m \in G
  BY <1>1, <1>5, <1>6, UpTo
<1> USE DEF G
<1> QED
  BY <1>1, <1>7

-----------------------------------------------------------------------------
(* The arena of commands *)

\* A slot holds a command, or what was there before.
Cell == {Junk} \cup Seq(Chars)

\* An arena of cap slots, all of whose bits are in words that are counted.
Vectors(cap) == [data : [0..(cap - 1) -> Cell], size : {0}, capacity : {cap}, block : Nat]
Bitmaps(cap) == [bits : SUBSET (0..(cap - 1)), sz : {cap}, words : {w \in Nat : cap <= w * Word}]
Arenas(cap) == [data : Vectors(cap), free_slots : Bitmaps(cap)]

\* HeapBitmap counts enough words for its bits.
LEMMA WordsEnough ==
    ASSUME NEW m \in Nat
    PROVE  LET w == AlignUp(m, Word) \div Word IN w \in Nat /\ m <= w * Word
<1>1. Word \in Nat \ {0}
  BY NamesAssumption
<1> DEFINE q == (m + (Word - 1)) \div Word
<1>2. q \in Nat /\ m <= q * Word
  BY <1>1
<1>3. (q * Word) \div Word = q
  BY <1>1, <1>2
<1> QED
  BY <1>2, <1>3 DEF AlignUp


\* What the search finds.
LEMMA FoundFree ==
    ASSUME NEW cap \in Nat, NEW b \in Bitmaps(cap)
    PROVE  /\ allocate_range(b.bits, b.sz, 0, b.sz, 1, NotFound) <=> b.bits = 0..(cap - 1)
           /\ b.bits # 0..(cap - 1) => /\ FirstFree(b) \in (0..(cap - 1)) \ b.bits
                                       /\ \A p \in (0..(cap - 1)) \ b.bits : FirstFree(b) <= p
<1>0. b.bits \subseteq 0..(cap - 1) /\ b.sz = cap
  BY DEF Bitmaps
<1> DEFINE runs == FreeRuns(b.bits, 0, cap, 1)
<1>1. runs = (0..(cap - 1)) \ b.bits
  <2>1. ASSUME NEW p \in 0..(cap - 1) PROVE p..(p + 1 - 1) = {p}
    OBVIOUS
  <2> QED
    BY <2>1 DEF FreeRuns
<1>2. \A r : allocate_range(b.bits, b.sz, 0, b.sz, 1, r) <=>
               \/ runs = {} /\ r = NotFound
               \/ r \in runs /\ \A p \in runs : r <= p
  BY <1>0 DEF allocate_range, Lesser
<1> HIDE DEF runs
<1>3. NotFound \notin runs
  BY <1>1 DEF NotFound
<1>4. allocate_range(b.bits, b.sz, 0, b.sz, 1, NotFound) <=> runs = {}
  BY <1>2, <1>3
<1>5. runs = {} <=> b.bits = 0..(cap - 1)
  BY <1>0, <1>1
<1>6. ASSUME runs # {} PROVE FirstFree(b) \in runs /\ \A p \in runs : FirstFree(b) <= p
  <2>1. PICK p \in runs : \A q \in runs : p <= q
    BY <1>1, <1>6, Smallest
  <2>2. p \in 0..(b.sz - 1) /\ allocate_range(b.bits, b.sz, 0, b.sz, 1, p)
    BY <1>0, <1>1, <1>2, <2>1
  <2>3. allocate_range(b.bits, b.sz, 0, b.sz, 1, FirstFree(b))
    BY <2>2 DEF FirstFree
  <2> QED
    BY <1>2, <1>6, <2>3
<1> QED
  BY <1>1, <1>4, <1>5, <1>6

\* The arena in which push_back finds its slot has one, and no slot in use is lost.
LEMMA GrownOk ==
    ASSUME NEW cap \in Nat, NEW a \in Arenas(cap), NEW inplace \in BOOLEAN
    PROVE  \E more \in Nat :
              /\ cap <= more /\ Grown(a, inplace) \in Arenas(more)
              /\ Grown(a, inplace).free_slots.bits = a.free_slots.bits
              /\ a.free_slots.bits # 0..(more - 1)
              /\ inplace => Grown(a, inplace).data.block = a.data.block
              /\ Grown(a, inplace).data.block = a.data.block =>
                    \A s \in 0..(cap - 1) : Grown(a, inplace).data.data[s] = a.data.data[s]
<1> DEFINE g == Grown(a, inplace)
<1>0. a.data \in Vectors(cap) /\ a.free_slots \in Bitmaps(cap)
  BY DEF Arenas
<1>1. IsFull(a) <=> a.free_slots.bits = 0..(cap - 1)
  BY <1>0, FoundFree DEF IsFull
<1>2. CASE ~IsFull(a)
  <2>1. g = a
    BY <1>2 DEF Grown
  <2> QED
    BY <1>1, <1>2, <2>1
<1>3. CASE IsFull(a)
  <2> DEFINE more == growfun(cap)
             v == reserve(a.data, more, inplace)
             b == HeapBitmap_resize(a.free_slots, more)
             w == AlignUp(more, Word) \div Word
  <2>1. more \in Nat /\ cap < more
    BY DEF growfun
  <2>2. w \in Nat /\ more <= w * Word
    BY <2>1, WordsEnough
  <2>a. /\ a.data.capacity = cap /\ a.data.size = 0 /\ a.data.block \in Nat
        /\ a.data.data \in [0..(cap - 1) -> Cell]
        /\ a.free_slots.bits = 0..(cap - 1) /\ a.free_slots.words \in Nat
        /\ cap <= a.free_slots.words * Word
    BY <1>0, <1>1, <1>3 DEF Vectors, Bitmaps
  <2>3. g = [data |-> v, free_slots |-> b]
    BY <1>3, <2>a DEF Grown, Arena_resize
  <2> HIDE DEF more, w
  <2>4. b = [bits |-> a.free_slots.bits, sz |-> more, words |-> w]
    <3>1. {p \in a.free_slots.bits : p < a.free_slots.words * Word} = a.free_slots.bits
      <4>1. \A p \in 0..(cap - 1) : p < a.free_slots.words * Word
        <5>1. Word \in Nat
          BY NamesAssumption
        <5> DEFINE z == a.free_slots.words * Word
        <5>2. z \in Nat /\ cap <= z
          BY <2>a, <5>1
        <5> HIDE DEF z
        <5>3. \A p \in 0..(cap - 1) : p < z
          BY <5>2
        <5> QED
          BY <5>3 DEF z
      <4> QED
        BY <2>a, <4>1
    <3> QED
      BY <3>1 DEF HeapBitmap_resize, w
  <2>5. b \in Bitmaps(more)
    BY <2>1, <2>2, <2>4, <2>a DEF Bitmaps
  <2> DEFINE junk == [s \in 0..(more - 1) |-> Junk]
             same == [s \in 0..(more - 1) |-> IF s < cap THEN a.data.data[s] ELSE Junk]
             cells == IF inplace THEN same ELSE junk
             blk == IF inplace THEN a.data.block ELSE a.data.block + 1
  <2>6. v = [a.data EXCEPT !.data = cells, !.capacity = more, !.block = blk]
    <3> DEFINE first == a.data.capacity = 0 /\ more # 0
               kept(s) == IF inplace /\ ~first THEN s < a.data.capacity ELSE s < a.data.size
               cells0 == [s \in 0..(more - 1) |-> IF kept(s) THEN a.data.data[s] ELSE Junk]
    <3>1. (IF more < a.data.size THEN a.data.size ELSE more) = more
      BY <2>1, <2>a
    <3>2. v = [a.data EXCEPT !.data = cells0, !.capacity = more, !.block = blk]
      BY <3>1 DEF reserve
    <3>3. cells0 = cells
      <4>1. CASE inplace = TRUE
        <5>1. \A s \in 0..(more - 1) : kept(s) <=> s < cap
          <6>1. CASE cap = 0
            BY <2>1, <2>a, <4>1, <6>1
          <6>2. CASE cap # 0
            BY <2>1, <2>a, <4>1, <6>2
          <6> QED
            BY <6>1, <6>2
        <5>2. cells = same
          BY <4>1
        <5> HIDE DEF kept
        <5> QED
          BY <5>1, <5>2
      <4>2. CASE inplace = FALSE
        <5>1. \A s \in 0..(more - 1) : ~kept(s)
          BY <2>1, <2>a, <4>2
        <5>2. cells = junk
          BY <4>2
        <5> HIDE DEF kept
        <5> QED
          BY <5>1, <5>2
      <4> QED
        BY <4>1, <4>2
    <3> HIDE DEF cells0, cells, blk, v
    <3> QED
      BY <3>2, <3>3
  <2>7. same \in [0..(more - 1) -> Cell] /\ junk \in [0..(more - 1) -> Cell]
        /\ \A s \in 0..(cap - 1) : same[s] = a.data.data[s]
    BY <2>1, <2>a DEF Cell
  <2> HIDE DEF same, junk
  <2>b. cells \in [0..(more - 1) -> Cell] /\ blk \in Nat
    BY <2>7, <2>a
  <2>c. (blk = a.data.block => cells = same) /\ (inplace => blk = a.data.block)
    BY <2>a
  <2> HIDE DEF cells, blk, v
  <2>8. v \in Vectors(more) /\ v.data = cells /\ v.block = blk
    BY <1>0, <2>1, <2>6, <2>b DEF Vectors
  <2>9. v.block = a.data.block => \A s \in 0..(cap - 1) : v.data[s] = a.data.data[s]
    BY <2>7, <2>8, <2>c
  <2> HIDE DEF v, b, g
  <2>10. g \in Arenas(more) /\ g.free_slots.bits = a.free_slots.bits /\ g.data = v
    BY <2>3, <2>4, <2>5, <2>8 DEF Arenas
  <2>11. a.free_slots.bits # 0..(more - 1)
    BY <2>1, <2>a
  <2>12. inplace => g.data.block = a.data.block
    BY <2>8, <2>10, <2>c
  <2> QED
    BY <2>1, <2>9, <2>10, <2>11, <2>12 DEF g
<1> QED
  BY <1>2, <1>3

\* b is g with x in the first free slot h.
Pushed(g, b, h, x, more) ==
    /\ b \in Arenas(more)
    /\ h \in (0..(more - 1)) \ g.free_slots.bits
    /\ \A s \in (0..(more - 1)) \ g.free_slots.bits : h <= s
    /\ b.free_slots.bits = g.free_slots.bits \cup {h}
    /\ b.data.data[h] = x /\ b.data.block = g.data.block
    /\ \A s \in (0..(more - 1)) \ {h} : b.data.data[s] = g.data.data[s]

\* push_back after it has made room.
LEMMA PushInto ==
    ASSUME NEW more \in Nat, NEW a, NEW inplace, NEW x \in Seq(Chars),
           Grown(a, inplace) \in Arenas(more),
           Grown(a, inplace).free_slots.bits # 0..(more - 1)
    PROVE  Pushed(Grown(a, inplace), Arena_push_back(a, x, inplace), Arena_handle(a, inplace), x, more)
<1> DEFINE g == Grown(a, inplace)
           h == FirstFree(g.free_slots)
           b == [g EXCEPT !.data.data[h] = x, !.free_slots.bits = @ \cup {h}]
<1>2. Arena_push_back(a, x, inplace) = b /\ Arena_handle(a, inplace) = h
  BY DEF Arena_push_back, Arena_handle
<1>1. g \in Arenas(more) /\ g.free_slots.bits # 0..(more - 1)
  OBVIOUS
<1> HIDE DEF g
<1>3. g.data \in Vectors(more) /\ g.free_slots \in Bitmaps(more)
  BY <1>1 DEF Arenas
<1>4. /\ h \in (0..(more - 1)) \ g.free_slots.bits
      /\ \A s \in (0..(more - 1)) \ g.free_slots.bits : h <= s
  BY <1>1, <1>3, FoundFree
<1> HIDE DEF h
<1> DEFINE cells == [g.data.data EXCEPT ![h] = x]
           v == [g.data EXCEPT !.data = cells]
           f == [g.free_slots EXCEPT !.bits = g.free_slots.bits \cup {h}]
<1>5. b = [data |-> v, free_slots |-> f]
  <2>1. b = [g EXCEPT !.data = v, !.free_slots = f]
    OBVIOUS
  <2> HIDE DEF b, v, f
  <2> QED
    BY <1>1, <2>1 DEF Arenas
<1> HIDE DEF b
<1>6. cells \in [0..(more - 1) -> Cell] /\ cells[h] = x
      /\ \A s \in (0..(more - 1)) \ {h} : cells[s] = g.data.data[s]
  BY <1>3, <1>4 DEF Vectors, Cell
<1> HIDE DEF cells
<1>7. v \in Vectors(more) /\ v.data = cells /\ v.block = g.data.block
  BY <1>3, <1>6 DEF Vectors
<1>8. f \in Bitmaps(more) /\ f.bits = g.free_slots.bits \cup {h}
  BY <1>1, <1>3, <1>4 DEF Bitmaps
<1> HIDE DEF v, f
<1>9. b \in Arenas(more) /\ b.data = v /\ b.free_slots = f
  BY <1>5, <1>7, <1>8 DEF Arenas
<1>10. /\ Arena_push_back(a, x, inplace) \in Arenas(more)
       /\ Arena_push_back(a, x, inplace).data = v
       /\ Arena_push_back(a, x, inplace).free_slots = f
       /\ Arena_handle(a, inplace) = h
  BY <1>2, <1>9
<1> QED
  BY <1>4, <1>6, <1>7, <1>8, <1>10 DEF g, Pushed

\* push_back takes the first slot that is free and disturbs no other, unless it moves
\* them all.
PushedFrom(a, b, h, x, cap) ==
    \E more \in Nat :
        /\ cap <= more /\ b \in Arenas(more)
        /\ h \in (0..(more - 1)) \ a.free_slots.bits
        /\ \A s \in Nat \ a.free_slots.bits : h <= s
        /\ b.free_slots.bits = a.free_slots.bits \cup {h}
        /\ b.data.data[h] = x
        /\ b.data.block = a.data.block =>
              \A s \in (0..(cap - 1)) \ {h} : b.data.data[s] = a.data.data[s]

\* push_back, whether it grows the arena or not.
LEMMA PushOk ==
    ASSUME NEW cap \in Nat, NEW a \in Arenas(cap), NEW inplace \in BOOLEAN, NEW x \in Seq(Chars)
    PROVE  /\ PushedFrom(a, Arena_push_back(a, x, inplace), Arena_handle(a, inplace), x, cap)
           /\ inplace => Arena_push_back(a, x, inplace).data.block = a.data.block
<1> DEFINE g == Grown(a, inplace)
           h == Arena_handle(a, inplace)
           b == Arena_push_back(a, x, inplace)
<1>1. PICK more \in Nat :
              /\ cap <= more /\ g \in Arenas(more)
              /\ g.free_slots.bits = a.free_slots.bits
              /\ a.free_slots.bits # 0..(more - 1)
              /\ inplace => g.data.block = a.data.block
              /\ g.data.block = a.data.block =>
                    \A s \in 0..(cap - 1) : g.data.data[s] = a.data.data[s]
  BY GrownOk
<1>a. Pushed(g, b, h, x, more)
  BY <1>1, PushInto
<1> HIDE DEF g, b, h
<1>2. /\ b \in Arenas(more)
      /\ h \in (0..(more - 1)) \ g.free_slots.bits
      /\ \A s \in (0..(more - 1)) \ g.free_slots.bits : h <= s
      /\ b.free_slots.bits = g.free_slots.bits \cup {h}
      /\ b.data.data[h] = x /\ b.data.block = g.data.block
      /\ \A s \in (0..(more - 1)) \ {h} : b.data.data[s] = g.data.data[s]
  BY <1>a DEF Pushed
<1>3. \A s \in Nat \ a.free_slots.bits : h <= s
  BY <1>1, <1>2
<1>4. \A s \in (0..(cap - 1)) \ {h} : s \in (0..(more - 1)) \ {h}
  BY <1>1
<1>5. b.data.block = a.data.block => \A s \in (0..(cap - 1)) \ {h} : b.data.data[s] = a.data.data[s]
  BY <1>1, <1>2, <1>4
<1>6. inplace => b.data.block = a.data.block
  BY <1>1, <1>2
<1> QED
  BY <1>1, <1>2, <1>3, <1>5, <1>6 DEF b, h, PushedFrom

\* The cells of a new arena.
LEMMA FreshCells ==
    ASSUME NEW k \in Nat
    PROVE  /\ Arena(k).data = [data |-> [s \in 0..(k - 1) |-> Junk], size |-> 0, capacity |-> k, block |-> 0]
           /\ Arena(k).data \in Vectors(k)
<1>1. Arena(k).data = [data |-> [s \in 0..(k - 1) |-> Junk], size |-> 0, capacity |-> k, block |-> 0]
  BY DEF Arena, Vector
<1> QED
  BY <1>1 DEF Vectors, Cell

\* The first push_back into an arena of less than a word of slots, whose bitmap has
\* room for none: the slots and the bitmap grow together.
LEMMA GrownFresh ==
    ASSUME NEW k \in Nat, k < Word
    PROVE  \E more \in Nat \ {0} :
              /\ Grown(Arena(k), TRUE) \in Arenas(more)
              /\ Grown(Arena(k), TRUE).free_slots.bits = {}
              /\ Grown(Arena(k), TRUE).data.block = 0
<1> DEFINE a == Arena(k)
           more == growfun(k)
           w == AlignUp(more, Word) \div Word
<1>0. Word \in Nat \ {0}
  BY NamesAssumption
<1>1. a.free_slots = [bits |-> {}, sz |-> 0, words |-> 0]
  <2>1. k \div Word = 0
    BY <1>0
  <2>2. (k \div Word) * Word = 0
    BY <1>0, <2>1
  <2> QED
    BY <2>2 DEF Arena, HeapBitmap, InitSize, AlignDown
<1>2. IsFull(a)
  <2>1. FreeRuns({}, 0, 0, 1) = {}
    BY DEF FreeRuns
  <2>2. Lesser(0, 0) = 0
    BY DEF Lesser
  <2> QED
    BY <1>1, <2>1, <2>2 DEF IsFull, allocate_range
<1>3. more \in Nat \ {0} /\ k < more
  BY DEF growfun
<1>4. a.data = [data |-> [s \in 0..(k - 1) |-> Junk], size |-> 0, capacity |-> k, block |-> 0]
  BY FreshCells
<1> DEFINE v == reserve(a.data, more, TRUE)
           b == HeapBitmap_resize(a.free_slots, more)
<1> DEFINE g == Grown(a, TRUE)
<1>5. g = [data |-> v, free_slots |-> b]
  <2>1. a.data.capacity = k
    BY <1>4
  <2> QED
    BY <1>2, <2>1 DEF Grown, Arena_resize
<1>6. w \in Nat /\ more <= w * Word
  BY <1>3, WordsEnough
<1>7. b = [bits |-> {}, sz |-> more, words |-> w]
  BY <1>1 DEF HeapBitmap_resize
<1> HIDE DEF more, w
<1>8. b \in Bitmaps(more)
  BY <1>3, <1>6, <1>7 DEF Bitmaps
<1>9. v \in Vectors(more) /\ v.block = 0
  <2> DEFINE first == a.data.capacity = 0 /\ more # 0
             kept(s) == IF ~first THEN s < a.data.capacity ELSE s < a.data.size
             cells == [s \in 0..(more - 1) |-> IF kept(s) THEN a.data.data[s] ELSE Junk]
  <2>1. (IF more < a.data.size THEN a.data.size ELSE more) = more
    BY <1>3, <1>4
  <2>2. v = [a.data EXCEPT !.data = cells, !.capacity = more, !.block = @]
    BY <2>1 DEF reserve
  <2>3. ASSUME NEW s \in 0..(more - 1), kept(s) PROVE a.data.data[s] = Junk
    <3>1. s \in 0..(k - 1)
      BY <1>3, <1>4, <2>3
    <3> QED
      BY <1>4, <3>1
  <2>4. cells \in [0..(more - 1) -> Cell]
    <3> HIDE DEF kept
    <3> QED
      BY <2>3 DEF Cell
  <2>5. a.data \in Vectors(k) /\ a.data.block = 0
    BY <1>4, FreshCells
  <2> HIDE DEF cells, v, a
  <2> QED
    BY <1>3, <2>2, <2>4, <2>5 DEF Vectors
<1> HIDE DEF v, b, a
<1>a. [data |-> v, free_slots |-> b] \in Arenas(more)
  BY <1>8, <1>9 DEF Arenas
<1>b. b.bits = {}
  BY <1>7
<1> HIDE DEF g
<1>c. g \in Arenas(more) /\ g.data = v /\ g.free_slots = b
  BY <1>5, <1>a
<1>10. g \in Arenas(more) /\ g.free_slots.bits = {} /\ g.data.block = 0
  BY <1>9, <1>b, <1>c
<1> QED
  BY <1>3, <1>10 DEF a, g

\* remove frees the slot and disturbs no other.
RemovedFrom(a, b, h, cap) ==
    /\ b \in Arenas(cap) /\ b.free_slots.bits = a.free_slots.bits \ {h}
    /\ \A s \in (0..(cap - 1)) \ {h} : b.data.data[s] = a.data.data[s]

\* remove of a slot that is in use.
LEMMA RemoveOk ==
    ASSUME NEW cap \in Nat, NEW a \in Arenas(cap), NEW h \in 0..(cap - 1)
    PROVE  RemovedFrom(a, Arena_remove(a, h), h, cap)
<1> DEFINE cells == [a.data.data EXCEPT ![h] = Junk]
           v == [a.data EXCEPT !.data = cells]
           f == [a.free_slots EXCEPT !.bits = a.free_slots.bits \ {h}]
           b == Arena_remove(a, h)
<1>1. a.data \in Vectors(cap) /\ a.free_slots \in Bitmaps(cap)
  BY DEF Arenas
<1>2. b = [data |-> v, free_slots |-> f]
  <2>1. b = [a EXCEPT !.data = v, !.free_slots = f]
    BY DEF Arena_remove
  <2> HIDE DEF b, v, f
  <2> QED
    BY <2>1 DEF Arenas
<1> HIDE DEF b
<1>3. cells \in [0..(cap - 1) -> Cell]
      /\ \A s \in (0..(cap - 1)) \ {h} : cells[s] = a.data.data[s]
  BY <1>1 DEF Vectors, Cell
<1> HIDE DEF cells
<1>4. v \in Vectors(cap) /\ v.data = cells
  BY <1>1, <1>3 DEF Vectors
<1>5. f \in Bitmaps(cap) /\ f.bits = a.free_slots.bits \ {h}
  BY <1>1 DEF Bitmaps
<1> HIDE DEF v, f
<1>6. b \in Arenas(cap) /\ b.data = v /\ b.free_slots = f
  BY <1>2, <1>4, <1>5 DEF Arenas
<1> QED
  BY <1>3, <1>4, <1>5, <1>6 DEF b, RemovedFrom

\* The built-in commands take the first slots, in their order.
BuiltTo(b, m) ==
    \E cap \in Nat : /\ b \in Arenas(cap) /\ b.free_slots.bits = 0..(m - 1)
                      /\ \A q \in 1..m : b.data.data[q - 1] = Names[q]

\* One more built-in command.
LEMMA BuiltNext ==
    ASSUME NEW b, NEW m \in Nat, BuiltTo(b, m), m + 1 \in 1..Len(Names)
    PROVE  BuiltTo(Arena_push_back(b, Names[m + 1], TRUE), m + 1)
<1>1. PICK cap \in Nat : /\ b \in Arenas(cap) /\ b.free_slots.bits = 0..(m - 1)
                         /\ \A q \in 1..m : b.data.data[q - 1] = Names[q]
  BY DEF BuiltTo
<1>2. Names[m + 1] \in Seq(Chars)
  BY NamesAssumption
<1> DEFINE c == Arena_push_back(b, Names[m + 1], TRUE)
           h == Arena_handle(b, TRUE)
<1>a. PushedFrom(b, c, h, Names[m + 1], cap) /\ c.data.block = b.data.block
  BY <1>1, <1>2, PushOk, Zenon
<1> HIDE DEF c, h
<1>3. PICK more \in Nat :
         /\ cap <= more /\ c \in Arenas(more)
         /\ h \in (0..(more - 1)) \ b.free_slots.bits
         /\ \A s \in Nat \ b.free_slots.bits : h <= s
         /\ c.free_slots.bits = b.free_slots.bits \cup {h}
         /\ c.data.data[h] = Names[m + 1]
         /\ \A s \in (0..(cap - 1)) \ {h} : c.data.data[s] = b.data.data[s]
  BY <1>a DEF PushedFrom
<1>4. h = m
  <2>1. m \in Nat \ b.free_slots.bits /\ h \in Nat /\ h \notin 0..(m - 1)
    BY <1>1, <1>3
  <2> QED
    BY <1>3, <2>1
<1>5. b.free_slots \in Bitmaps(cap)
  BY <1>1 DEF Arenas
<1>6. \A q \in 1..m : q - 1 \in (0..(cap - 1)) \ {h}
  <2>1. 0..(m - 1) \subseteq 0..(cap - 1)
    BY <1>1, <1>5 DEF Bitmaps
  <2>2. \A q \in 1..m : q - 1 \in 0..(m - 1) /\ q - 1 # m
    OBVIOUS
  <2> QED
    BY <1>4, <2>1, <2>2
<1>7. \A q \in 1..(m + 1) : c.data.data[q - 1] = Names[q]
  <2> TAKE q \in 1..(m + 1)
  <2>1. CASE q = m + 1
    BY <1>3, <1>4, <2>1
  <2>2. CASE q # m + 1
    <3>1. q \in 1..m
      BY <2>2
    <3>2. c.data.data[q - 1] = b.data.data[q - 1]
      BY <1>3, <1>6, <3>1
    <3> QED
      BY <1>1, <3>1, <3>2
  <2> QED
    BY <2>1, <2>2
<1>8. c.free_slots.bits = 0..((m + 1) - 1)
  BY <1>1, <1>3, <1>4
<1> QED
  BY <1>3, <1>7, <1>8 DEF BuiltTo, c

\* The first one, for which the arena grows.
LEMMA BuiltFirst ==
    ASSUME 1 \in 1..Len(Names), NEW x \in Seq(Chars)
    PROVE  LET c == Arena_push_back(Arena(Len(Names)), x, TRUE)
           IN  \E cap \in Nat : /\ c \in Arenas(cap) /\ c.free_slots.bits = {0}
                                /\ c.data.data[0] = x
<1> DEFINE a == Arena(Len(Names))
           g == Grown(a, TRUE)
           c == Arena_push_back(a, x, TRUE)
           h == Arena_handle(a, TRUE)
<1>0. Len(Names) \in Nat /\ Len(Names) < Word
  BY NamesAssumption
<1>1. PICK more \in Nat \ {0} : g \in Arenas(more) /\ g.free_slots.bits = {}
  BY <1>0, GrownFresh
<1>2. g.free_slots.bits # 0..(more - 1) /\ more \in Nat
  <2>1. 0 \in 0..(more - 1)
    OBVIOUS
  <2> HIDE DEF g
  <2> QED
    BY <1>1, <2>1
<1>3. Pushed(g, c, h, x, more)
  BY <1>1, <1>2, PushInto
<1> HIDE DEF g, c, h
<1>4. /\ c \in Arenas(more) /\ h \in 0..(more - 1) /\ \A s \in 0..(more - 1) : h <= s
      /\ c.free_slots.bits = {h} /\ c.data.data[h] = x
  BY <1>1, <1>3 DEF Pushed
<1>5. h = 0
  BY <1>1, <1>4
<1> QED
  BY <1>2, <1>4, <1>5 DEF c

\* The initializer list leaves all of them.
LEMMA BuiltOk == BuiltTo(Built, Len(Names))
<1> DEFINE k == Len(Names)
           push(x, p) == Arena_push_back(x, Names[p], TRUE)
           Eq(g) == g = [u \in 0..k |-> IF u = 0 THEN Arena(k) ELSE push(g[u - 1], u)]
           at == CHOOSE g : Eq(g)
           S == {Arena(k)} \cup UNION {Arenas(cap) : cap \in Nat}
           f == [p \in 1..k |-> [x \in S |-> push(x, p)]]
<1>0. k \in Nat /\ \A p \in 1..k : Names[p] \in Seq(Chars)
  BY NamesAssumption
<1>1. Built = at[k]
  BY DEF Built
<1> HIDE DEF k
<1>2. ASSUME NEW p \in 1..k, NEW x \in S PROVE push(x, p) \in S
  <2>1. CASE x = Arena(k)
    <3>1. 1 \in 1..k /\ Names[p] \in Seq(Chars)
      BY <1>0
    <3>2. \E cap \in Nat : push(Arena(k), p) \in Arenas(cap)
      BY <3>1, BuiltFirst, Zenon DEF k
    <3> HIDE DEF push
    <3> QED
      BY <2>1, <3>2
  <2>2. CASE x # Arena(k)
    <3>1. PICK cap \in Nat : x \in Arenas(cap)
      BY <2>2
    <3>2. PushedFrom(x, push(x, p), Arena_handle(x, TRUE), Names[p], cap)
      BY <1>0, <3>1, PushOk, Zenon
    <3> HIDE DEF push
    <3> QED
      BY <3>2 DEF PushedFrom
  <2> QED
    BY <2>1, <2>2
<1>3. \E g : Eq(g)
  <2>0. Arena(k) \in S
    OBVIOUS
  <2> HIDE DEF S, push
  <2>1. f \in [1..k -> [S -> S]]
    BY <1>2
  <2>2. HasHistory(S, k, Arena(k), f)
    <3> HIDE DEF f
    <3> QED
      BY <1>0, <2>0, <2>1, Iterates
  <2>3. PICK g \in [0..k -> S] : g[0] = Arena(k) /\ \A p \in 1..k : g[p] = f[p][g[p - 1]]
    <3> HIDE DEF f
    <3> QED
      BY <2>2 DEF HasHistory
  <2>4. ASSUME NEW p \in 0..k PROVE g[p] = IF p = 0 THEN Arena(k) ELSE push(g[p - 1], p)
    <3>1. CASE p = 0
      BY <2>3, <3>1
    <3>2. CASE p # 0
      <4>1. p \in 1..k /\ p - 1 \in 0..k
        BY <1>0, <3>2
      <4>2. g[p - 1] \in S /\ g[p] = f[p][g[p - 1]]
        BY <2>3, <4>1
      <4> QED
        BY <3>2, <4>1, <4>2
    <3> QED
      BY <3>1, <3>2
  <2>5. Eq(g)
    BY <2>4
  <2> QED
    BY <2>5
<1>4. Eq(at)
  <2> HIDE DEF Eq
  <2> QED
    BY <1>3
<1> HIDE DEF at
<1>5. at[0] = Arena(k) /\ \A p \in 1..k : at[p] = push(at[p - 1], p)
  <2> HIDE DEF push
  <2> QED
    BY <1>0, <1>4
<1> HIDE DEF Eq, S
<1> DEFINE G == {p \in 0..k : p # 0 => BuiltTo(at[p], p)}
<1>6. 0 \in G
  BY <1>0
<1>7. ASSUME NEW p \in 1..k, p - 1 \in G PROVE p \in G
  <2>1. CASE p = 1
    <3>1. at[1] = Arena_push_back(Arena(k), Names[1], TRUE) /\ 1 \in 1..k /\ Names[1] \in Seq(Chars)
      <4>1. 1 \in 1..k /\ 1 - 1 = 0
        BY <1>0, <2>1
      <4> HIDE DEF push
      <4>2. at[1] = push(at[0], 1)
        BY <1>5, <4>1
      <4> USE DEF push
      <4> QED
        BY <1>0, <1>5, <4>1, <4>2, Zenon
    <3>2. PICK cap \in Nat : /\ at[1] \in Arenas(cap) /\ at[1].free_slots.bits = {0}
                             /\ at[1].data.data[0] = Names[1]
      BY <3>1, BuiltFirst, Zenon DEF k
    <3>3. {0} = 0..(1 - 1) /\ \A q \in 1..1 : q = 1 /\ q - 1 = 0
      OBVIOUS
    <3>4. BuiltTo(at[1], 1)
      BY <3>2, <3>3 DEF BuiltTo
    <3> QED
      BY <2>1, <3>4
  <2>2. CASE p # 1
    <3>1. p - 1 \in Nat /\ BuiltTo(at[p - 1], p - 1) /\ (p - 1) + 1 = p /\ p \in 1..Len(Names)
      BY <1>7, <2>2 DEF k
    <3>2. BuiltTo(Arena_push_back(at[p - 1], Names[(p - 1) + 1], TRUE), (p - 1) + 1)
      <4> HIDE DEF G
      <4> QED
        BY <3>1, BuiltNext
    <3>3. BuiltTo(at[p], p)
      BY <1>5, <3>1, <3>2
    <3> QED
      BY <3>3
  <2> QED
    BY <2>1, <2>2
<1> HIDE DEF G
<1>8. k \in G
  <2>1. 0..k \subseteq G
    BY <1>0, <1>6, <1>7, UpTo
  <2> QED
    BY <1>0, <2>1
<1>9. CASE k = 0
  <2>1. Built = Arena(0)
    BY <1>1, <1>5, <1>9
  <2>2. Arena(0).free_slots = [bits |-> {}, sz |-> 0, words |-> 0]
    <3>1. (0 \div Word) * Word = 0
      BY NamesAssumption
    <3> QED
      BY <3>1 DEF Arena, HeapBitmap, InitSize, AlignDown
  <2>4. Arena(0) = [data |-> Arena(0).data, free_slots |-> Arena(0).free_slots]
    BY DEF Arena
  <2>5. Arena(0).data \in Vectors(0)
    BY FreshCells
  <2>6. Arena(0).free_slots \in Bitmaps(0)
    <3>1. 0 * Word = 0
      BY NamesAssumption
    <3> QED
      BY <2>2, <3>1 DEF Bitmaps
  <2>7. Arena(0) \in Arenas(0) /\ Arena(0).free_slots.bits = 0..(0 - 1)
    BY <2>2, <2>4, <2>5, <2>6 DEF Arenas
  <2> QED
    BY <1>9, <2>1, <2>7 DEF BuiltTo, k
<1>10. CASE k # 0
  BY <1>1, <1>8, <1>10 DEF G, k
<1> QED
  BY <1>9, <1>10

-----------------------------------------------------------------------------
(***************************************************************************)
(* The invariant: the cursor is a cursor, the slots of the commands are    *)
(* the bits that are set, and the handles given out are none of the        *)
(* built-in commands'.                                                     *)
(***************************************************************************)
Builtin == 0..(Len(Names) - 1)

\* Every handle that was given out is of a slot in use, and the slot holds its command
\* as long as the arena has not moved.
CommandsInv ==
    /\ cmds.data.capacity \in Nat /\ cmds \in Arenas(cmds.data.capacity)
    /\ Builtin \subseteq cmds.free_slots.bits
    /\ DOMAIN owners \subseteq cmds.free_slots.bits \ Builtin
    /\ moved \in BOOLEAN
    /\ \A h \in DOMAIN owners : owners[h] = Added
    /\ ~moved => /\ \A h \in DOMAIN owners : cmds.data.data[h] = Added
                 /\ \A p \in 1..Len(Names) : cmds.data.data[p - 1] = Names[p]

\* The inductive invariant.
TerminalInv ==
    /\ ScreenKept /\ con \in Consoles /\ clean \in BOOLEAN
    /\ CommandsInv

\* What the commands hold is what HandlesKept promises.
LEMMA CommandsAreSlots == CommandsInv => HandlesKept
<1> SUFFICES ASSUME CommandsInv, ~moved PROVE HandlesKept
  BY DEF HandlesKept
<1> DEFINE cap == cmds.data.capacity
           bits0 == cmds.free_slots.bits
<1>1. cap \in Nat /\ cmds.free_slots \in Bitmaps(cap)
  BY DEF CommandsInv, Arenas
<1>2. bits0 \subseteq 0..(cap - 1)
  BY <1>1 DEF Bitmaps
<1>3. Slots(cmds) = bits0
  BY <1>1, <1>2 DEF Slots
<1>4. \A p \in 1..Len(Names) : p - 1 \in Builtin
  BY NamesAssumption DEF Builtin
<1> QED
  BY <1>3, <1>4 DEF CommandsInv, HandlesKept

\* Adding a command.
LEMMA AddInv ==
    ASSUME CommandsInv, NEW inplace \in BOOLEAN, cmdline_add_command(inplace)
    PROVE  CommandsInv'
<1> DEFINE cap == cmds.data.capacity
           h == Arena_handle(cmds, inplace)
<1>1. cap \in Nat /\ cmds \in Arenas(cap) /\ Added \in Seq(Chars)
  BY NamesAssumption DEF CommandsInv
<1>2. cmds' = Arena_push_back(cmds, Added, inplace)
  BY DEF cmdline_add_command
<1>3. PushedFrom(cmds, cmds', h, Added, cap)
  BY <1>1, <1>2, PushOk
<1>4. owners' = [o \in DOMAIN owners \cup {h} |-> Added]
  BY DEF cmdline_add_command
<1>5. moved' = (moved \/ cmds'.data.block # cmds.data.block)
  BY DEF cmdline_add_command
<1> HIDE DEF cap, h
<1>6. PICK more \in Nat :
        /\ cap <= more /\ cmds' \in Arenas(more)
        /\ h \in (0..(more - 1)) \ cmds.free_slots.bits
        /\ cmds'.free_slots.bits = cmds.free_slots.bits \cup {h}
        /\ cmds'.data.data[h] = Added
        /\ cmds'.data.block = cmds.data.block =>
              \A s \in (0..(cap - 1)) \ {h} : cmds'.data.data[s] = cmds.data.data[s]
  BY <1>3 DEF PushedFrom
<1>7. cmds'.data.capacity = more
  BY <1>6 DEF Arenas, Vectors
<1>8. cmds.free_slots.bits \subseteq 0..(cap - 1)
  BY <1>1 DEF Arenas, Bitmaps
<1>9. Builtin' = Builtin
  BY DEF Builtin
<1>10. Builtin \subseteq cmds'.free_slots.bits
  BY <1>6 DEF CommandsInv
<1>11. DOMAIN owners' = DOMAIN owners \cup {h}
  BY <1>4
<1>12. DOMAIN owners' \subseteq cmds'.free_slots.bits \ Builtin
  BY <1>6, <1>11 DEF CommandsInv
<1>13. \A o \in DOMAIN owners' : owners'[o] = Added
  BY <1>4
<1>14. ASSUME ~moved'
       PROVE  /\ \A o \in DOMAIN owners' : cmds'.data.data[o] = Added
              /\ \A p \in 1..Len(Names) : cmds'.data.data[p - 1] = Names[p]
  <2>1. ~moved /\ cmds'.data.block = cmds.data.block
    BY <1>5, <1>14
  <2>2. \A s \in cmds.free_slots.bits : s \in (0..(cap - 1)) \ {h}
    BY <1>6, <1>8
  <2>3. \A s \in cmds.free_slots.bits : cmds'.data.data[s] = cmds.data.data[s]
    BY <1>6, <2>1, <2>2
  <2>4. \A o \in DOMAIN owners : cmds'.data.data[o] = Added
    BY <2>1, <2>3 DEF CommandsInv
  <2>5. \A p \in 1..Len(Names) : p - 1 \in Builtin
    BY NamesAssumption DEF Builtin
  <2>6. \A p \in 1..Len(Names) : cmds'.data.data[p - 1] = Names[p]
    BY <2>1, <2>3, <2>5 DEF CommandsInv
  <2> QED
    BY <1>6, <1>11, <2>4, <2>6
<1>15. moved' \in BOOLEAN
  BY <1>5
<1> QED
  BY <1>6, <1>7, <1>9, <1>10, <1>12, <1>13, <1>14, <1>15 DEF CommandsInv

\* Removing a command that was added.
LEMMA RemoveInv ==
    ASSUME CommandsInv, NEW h \in DOMAIN owners, cmdline_remove_command(h)
    PROVE  CommandsInv'
<1> DEFINE cap == cmds.data.capacity
<1>1. cap \in Nat /\ cmds \in Arenas(cap)
  BY DEF CommandsInv
<1>2. cmds.free_slots.bits \subseteq 0..(cap - 1)
  BY <1>1 DEF Arenas, Bitmaps
<1>3. h \in 0..(cap - 1) /\ h \notin Builtin
  BY <1>2 DEF CommandsInv
<1>4. cmds' = Arena_remove(cmds, h) /\ moved' = moved
  BY DEF cmdline_remove_command
<1>5. owners' = [o \in DOMAIN owners \ {h} |-> owners[o]]
  BY DEF cmdline_remove_command
<1> HIDE DEF cap
<1>6. /\ cmds' \in Arenas(cap) /\ cmds'.free_slots.bits = cmds.free_slots.bits \ {h}
      /\ \A s \in (0..(cap - 1)) \ {h} : cmds'.data.data[s] = cmds.data.data[s]
  <2>1. RemovedFrom(cmds, cmds', h, cap)
    BY <1>1, <1>3, <1>4, RemoveOk
  <2> QED
    BY <2>1 DEF RemovedFrom
<1>7. cmds'.data.capacity = cap
  BY <1>6 DEF Arenas, Vectors
<1>8. Builtin' = Builtin
  BY DEF Builtin
<1>9. Builtin \subseteq cmds'.free_slots.bits
  BY <1>3, <1>6 DEF CommandsInv
<1>10. DOMAIN owners' = DOMAIN owners \ {h} /\ \A o \in DOMAIN owners' : owners'[o] = owners[o]
  BY <1>5
<1>11. DOMAIN owners' \subseteq cmds'.free_slots.bits \ Builtin
  BY <1>6, <1>10 DEF CommandsInv
<1>12. \A s \in cmds'.free_slots.bits : cmds'.data.data[s] = cmds.data.data[s]
  BY <1>2, <1>6
<1>13. ~moved => \A p \in 1..Len(Names) : cmds'.data.data[p - 1] = Names[p]
  <2>1. \A p \in 1..Len(Names) : p - 1 \in Builtin
    BY NamesAssumption DEF Builtin
  <2> QED
    BY <1>9, <1>12, <2>1 DEF CommandsInv
<1>14. ~moved => \A o \in DOMAIN owners' : cmds'.data.data[o] = Added
  BY <1>10, <1>11, <1>12 DEF CommandsInv
<1>15. \A o \in DOMAIN owners' : owners'[o] = Added
  BY <1>10 DEF CommandsInv
<1> QED
  BY <1>1, <1>4, <1>6, <1>7, <1>8, <1>9, <1>11, <1>13, <1>14, <1>15 DEF CommandsInv

-----------------------------------------------------------------------------
\* The end of a word is the first break.
LEMMA WordEndIs ==
    ASSUME NEW b, NEW from \in Nat, NEW e \in from..(MaxSize - 1), b[e] \in Breaks,
           \A p \in from..(e - 1) : b[p] \notin Breaks
    PROVE  WordEnd(b, from) = e
<1>0. MaxSize \in Nat
  BY LineAssumption
<1> DEFINE P(x) == x \in from..(MaxSize - 1) /\ b[x] \in Breaks
                   /\ \A p \in from..(x - 1) : b[p] \notin Breaks
<1>1. P(e)
  OBVIOUS
<1>2. \A x : P(x) => x = e
  <2> SUFFICES ASSUME NEW x, P(x) PROVE x = e
    OBVIOUS
  <2>1. ~(x < e)
    <3> SUFFICES ASSUME x < e PROVE FALSE
      OBVIOUS
    <3>1. x \in from..(e - 1)
      BY <1>0
    <3> QED
      BY <3>1
  <2>2. ~(e < x)
    <3> SUFFICES ASSUME e < x PROVE FALSE
      OBVIOUS
    <3>1. e \in from..(x - 1)
      BY <1>0
    <3> QED
      BY <3>1
  <2> QED
    BY <1>0, <2>1, <2>2
<1>3. WordEnd(b, from) = CHOOSE x : P(x)
  BY DEF WordEnd
<1> HIDE DEF P
<1> QED
  BY <1>1, <1>2, <1>3

\* A set of positions has a first one.
LEMMA FirstOf ==
    ASSUME NEW T, NEW lo \in Nat, NEW hi \in Nat, T \subseteq lo..hi, T # {}
    PROVE  \E x \in T : \A y \in T : x <= y
<1>1. T \subseteq Nat
  OBVIOUS
<1> QED
  BY <1>1, Smallest

\* Splitting the line in place: the argument is the second word of what was typed.
LEMMA ArgumentFollows == TerminalTypeOK => ArgumentTyped
<1> SUFFICES ASSUME TerminalTypeOK PROVE ArgumentTyped
  OBVIOUS
<1> DEFINE line == [p \in 1..size |-> buf[p - 1]]
           blanks == {p \in 1..size : line[p] = "blank"}
<1> SUFFICES ASSUME blanks # {}, \A p \in 1..size : line[p] # NUL
             PROVE  \E first \in blanks : \E last \in first..size :
                       /\ \A p \in blanks : first <= p /\ p \notin (first + 1)..last
                       /\ last = size \/ last + 1 \in blanks
                       /\ Argument(Line) = SubSeq(line, first + 1, last)
  BY DEF ArgumentTyped
<1>0. MaxSize \in Nat \ {0} /\ size \in 0..(MaxSize - 1) /\ buf \in [0..(MaxSize - 1) -> Chars]
  BY LineAssumption DEF TerminalTypeOK
<1>1. /\ Line[size] = NUL
      /\ \A p \in 0..(size - 1) : Line[p] = buf[p] /\ line[p + 1] = buf[p]
  <2>1. \A p \in 0..(size - 1) : p + 1 \in 1..size /\ (p + 1) - 1 = p
    BY <1>0
  <2>2. \A p \in 0..(size - 1) : p \in 0..(MaxSize - 1) /\ p # size
    BY <1>0
  <2>3. Line[size] = NUL /\ \A p \in 0..(size - 1) : Line[p] = buf[p]
    BY <1>0, <2>2 DEF Line
  <2> QED
    BY <2>1, <2>3
<1>2. \A p \in 0..(size - 1) : Line[p] \in Breaks <=> p + 1 \in blanks
  <2> TAKE p \in 0..(size - 1)
  <2>1. p + 1 \in 1..size /\ Line[p] = line[p + 1]
    BY <1>0, <1>1
  <2>2. line[p + 1] # NUL
    BY <2>1
  <2> HIDE DEF line
  <2> QED
    BY <2>1, <2>2 DEF Breaks
<1>3. blanks \subseteq 1..size
  OBVIOUS
<1> HIDE DEF blanks
<1>4. PICK first \in blanks : \A p \in blanks : first <= p
  <2>1. 1 \in Nat /\ size \in Nat /\ blanks # {}
    BY <1>0
  <2> QED
    BY <1>3, <2>1, FirstOf
<1>5. first \in 1..size /\ first - 1 \in 0..(MaxSize - 1)
  BY <1>0, <1>3
<1>6. WordEnd(Line, 0) = first - 1
  <2>1. Line[first - 1] \in Breaks
    <3>1. first - 1 \in 0..(size - 1) /\ (first - 1) + 1 = first
      BY <1>0, <1>5
    <3> QED
      BY <1>2, <3>1
  <2>2. ASSUME NEW p \in 0..((first - 1) - 1) PROVE Line[p] \notin Breaks
    <3>1. p \in 0..(size - 1) /\ p + 1 < first
      BY <1>0, <1>5
    <3>2. p + 1 \notin blanks
      BY <1>0, <1>4, <1>5, <3>1
    <3> QED
      BY <1>2, <3>1, <3>2
  <2>3. first - 1 \in 0..(MaxSize - 1)
    BY <1>5
  <2> QED
    BY <2>1, <2>2, <2>3, WordEndIs
<1>7. NextWord(Line, 0) = first
  BY <1>5, <1>6 DEF NextWord
<1> DEFINE ends == {p \in first..size : Line[p] \in Breaks}
<1>8. size \in ends
  BY <1>0, <1>1, <1>5 DEF Breaks
<1>9. PICK last \in ends : \A p \in ends : last <= p
  <2>1. ends \subseteq first..size /\ first \in Nat /\ size \in Nat /\ ends # {}
    BY <1>0, <1>5, <1>8
  <2> HIDE DEF ends
  <2> QED
    BY <2>1, FirstOf
<1>10. last \in first..size /\ Line[last] \in Breaks
  OBVIOUS
<1>11. \A p \in first..(last - 1) : Line[p] \notin Breaks
  <2> SUFFICES ASSUME NEW p \in first..(last - 1), Line[p] \in Breaks PROVE FALSE
    OBVIOUS
  <2>1. p \in first..size /\ p < last
    BY <1>0, <1>5, <1>10
  <2> QED
    BY <1>0, <1>5, <1>9, <1>10, <2>1
<1> HIDE DEF ends
<1>12. WordEnd(Line, first) = last
  <2>1. first \in Nat /\ last \in first..(MaxSize - 1)
    BY <1>0, <1>5, <1>10
  <2> QED
    BY <1>10, <1>11, <2>1, WordEndIs
<1>13. \A p \in blanks : first <= p /\ p \notin (first + 1)..last
  <2> SUFFICES ASSUME NEW p \in blanks, p \in (first + 1)..last PROVE FALSE
    BY <1>4
  <2>1. p - 1 \in first..(last - 1) /\ p - 1 \in 0..(size - 1) /\ (p - 1) + 1 = p
    BY <1>0, <1>3, <1>5, <1>10
  <2> QED
    BY <1>2, <1>11, <2>1
<1>14. last = size \/ last + 1 \in blanks
  <2> SUFFICES ASSUME last # size PROVE last + 1 \in blanks
    OBVIOUS
  <2>1. last \in 0..(size - 1)
    BY <1>0, <1>5, <1>10
  <2> QED
    BY <1>2, <1>10, <2>1
<1>15. Argument(Line) = SubSeq(line, first + 1, last)
  <2> DEFINE w == [p \in 1..(last - first) |-> Line[first + p - 1]]
  <2>1. Argument(Line) = w
    BY <1>7, <1>12 DEF Argument, WordAt
  <2>2. line \in Seq(Chars) /\ Len(line) = size
    <3>1. \A p \in 1..size : buf[p - 1] \in Chars
      BY <1>0
    <3> QED
      BY <1>0, <3>1
  <2>3. \A p \in 1..(last - first) : Line[first + p - 1] = line[p + first]
    <3> TAKE p \in 1..(last - first)
    <3>1. first + p - 1 \in 0..(size - 1) /\ (first + p - 1) + 1 = p + first
      BY <1>0, <1>5, <1>10
    <3> HIDE DEF line
    <3> QED
      BY <1>1, <3>1
  <2> HIDE DEF line
  <2>4. SubSeq(line, first + 1, last) = [p \in 1..(last - first) |-> line[p + first]]
    <3>1. first \in Nat /\ last \in Nat /\ first <= last /\ last <= size
      BY <1>0, <1>5, <1>10
    <3> DEFINE t == SubSeq(line, first + 1, last)
    <3>2. t \in Seq(Chars) /\ Len(t) = last - first
      BY <2>2, <3>1
    <3>3. \A p \in 1..(last - first) : t[p] = line[p + first]
      BY <2>2, <3>1
    <3> HIDE DEF t
    <3>4. t = [p \in 1..(last - first) |-> t[p]]
      BY <3>1, <3>2
    <3> QED
      BY <3>3, <3>4 DEF t
  <2> QED
    BY <2>1, <2>3, <2>4
<1> QED
  BY <1>10, <1>13, <1>14, <1>15

-----------------------------------------------------------------------------
(* The steps *)

\* The line that is edited and its place on the screen.
EditInv ==
    /\ buf \in [0..(MaxSize - 1) -> Chars] /\ size \in 0..(MaxSize - 1)
    /\ con \in Consoles /\ clean \in BOOLEAN /\ LineOnScreen

\* A line that was entered ends in a new prompt, or in none.
LEMMA EvaluateInv ==
    ASSUME CommandsInv, NEW c \in Consoles, c.col = 0, size \in Nat,
           cmdline_evaluate_buffer(c)
    PROVE  /\ con' \in Consoles /\ clean' \in BOOLEAN
           /\ clean' => con'.col = Prompt /\ con'.base = Prompt
<1>1. CASE con' = c /\ clean' = FALSE
  BY <1>1
<1>2. CASE \E lines : con' = prompt(Printed(c, lines)) /\ clean' = TRUE
  <2>1. PICK lines : con' = prompt(Printed(c, lines)) /\ clean' = TRUE
    BY <1>2
  <2> DEFINE d == Printed(c, lines)
  <2>2. cmds.data.capacity \in Nat
    BY DEF CommandsInv, Arenas
  <2>3. d \in Consoles /\ d.col = 0
    BY <2>2, LinesPrinted
  <2>4. prompt(d) \in Consoles /\ prompt(d).col = Prompt /\ prompt(d).base = Prompt
    <3> HIDE DEF d
    <3> QED
      BY <2>3, PromptDrawn
  <2> QED
    BY <2>1, <2>4
<1> QED
  BY <1>1, <1>2, Zenon DEF cmdline_evaluate_buffer

\* A key that reaches the line: full buffer, enter, backspace, or one more character.
LEMMA AppendInv ==
    ASSUME EditInv, CommandsInv, NEW ch \in Chars, append_char(ch)
    PROVE  EditInv'
<1>0. /\ MaxSize \in Nat \ {0} /\ NUL \in Chars
      /\ buf \in [0..(MaxSize - 1) -> Chars] /\ size \in 0..(MaxSize - 1)
      /\ con \in Consoles /\ clean \in BOOLEAN
      /\ clean => con.col = con.base + size /\ con.base = Prompt
  BY LineAssumption DEF EditInv, LineOnScreen
<1>a. Consoles' = Consoles
  BY DEF Consoles, Outside
<1>1. CASE con' = printlnk(con) /\ clean' = FALSE /\ UNCHANGED <<buf, size>>
  <2>1. con' \in Consoles
    BY <1>0, <1>1, CursorSteps DEF printlnk
  <2> QED
    BY <1>0, <1>1, <1>a, <2>1 DEF EditInv, LineOnScreen
<1>2. CASE ch = "enter" /\ cmdline_evaluate_buffer(con_putc(con, ch))
           /\ buf' = [Line EXCEPT ![0] = NUL] /\ size' = 0
  <2> DEFINE c == con_putc(con, ch)
  <2>1. c = Newline(con)
    BY <1>2 DEF con_putc, NUL
  <2>2. c \in Consoles /\ c.col = 0
    BY <1>0, <2>1, CursorSteps
  <2> HIDE DEF c
  <2>3. /\ con' \in Consoles /\ clean' \in BOOLEAN
        /\ clean' => con'.col = Prompt /\ con'.base = Prompt
    <3>1. size \in Nat /\ cmdline_evaluate_buffer(c)
      BY <1>0, <1>2 DEF c
    <3> QED
      BY <2>2, <3>1, EvaluateInv
  <2>4. buf' \in [0..(MaxSize - 1) -> Chars] /\ size' \in 0..(MaxSize - 1)
    BY <1>0, <1>2 DEF Line
  <2>5. clean' => con'.col = con'.base + size' /\ con'.base = Prompt
    BY <1>2, <2>3, ScreenAssumption
  <2> QED
    BY <1>a, <2>3, <2>4, <2>5 DEF EditInv, LineOnScreen
<1>3. CASE ch = "backspace" /\ size > 0 /\ con' = con_putc(con, ch) /\ size' = size - 1
           /\ buf' = [buf EXCEPT ![size'] = NUL] /\ clean' = clean
  <2>1. con' = Backspace(con)
    BY <1>3 DEF con_putc, NUL
  <2>2. con' \in Consoles
    BY <1>0, <2>1, CursorSteps
  <2>3. buf' \in [0..(MaxSize - 1) -> Chars] /\ size' \in 0..(MaxSize - 1)
    BY <1>0, <1>3
  <2>4. clean' => con'.col = con'.base + size' /\ con'.base = Prompt
    <3> HAVE clean'
    <3>1. con.col = con.base + size /\ con.base = Prompt
      BY <1>0, <1>3
    <3>2. con.col # Outside
      BY <1>0, <3>1, ScreenAssumption DEF Outside
    <3>3. con'.col = con.col - 1 /\ con'.base = con.base
      BY <1>0, <2>1, <3>2, CursorSteps
    <3> QED
      BY <1>0, <1>3, <3>1, <3>3, ScreenAssumption
  <2> QED
    BY <1>0, <1>3, <1>a, <2>2, <2>3, <2>4 DEF EditInv, LineOnScreen
<1>4. CASE size # MaxSize - 1 /\ ch \notin {"utf8", "enter", "backspace"} /\ con' = con_putc(con, ch)
           /\ clean' = (clean /\ ch # NUL /\ ~Wraps(con))
           /\ buf' = [buf EXCEPT ![size] = ch] /\ size' = size + 1
  <2>1. con' = IF ch = NUL THEN con ELSE Glyph(con)
    BY <1>4 DEF con_putc
  <2>2. con' \in Consoles
    BY <1>0, <2>1, CursorSteps
  <2>3. buf' \in [0..(MaxSize - 1) -> Chars] /\ size' \in 0..(MaxSize - 1)
    BY <1>0, <1>4
  <2>4. clean' => con'.col = con'.base + size' /\ con'.base = Prompt
    <3> HAVE clean'
    <3>1. clean /\ ch # NUL /\ ~Wraps(con)
      BY <1>4
    <3>2. con.col = con.base + size /\ con.base = Prompt
      BY <1>0, <3>1
    <3>3. con.col # Outside
      BY <1>0, <3>2, ScreenAssumption DEF Outside
    <3>4. con'.col = con.col + 1 /\ con'.base = con.base
      BY <1>0, <2>1, <3>1, <3>3, CursorSteps
    <3> QED
      BY <1>0, <1>4, <3>2, <3>4, ScreenAssumption
  <2>5. clean' \in BOOLEAN
    BY <1>4
  <2> QED
    BY <1>a, <2>2, <2>3, <2>4, <2>5 DEF EditInv, LineOnScreen
<1>5. CASE UNCHANGED <<buf, size, con, clean>>
  BY <1>0, <1>5, <1>a DEF EditInv, LineOnScreen
<1> QED
  BY <1>1, <1>2, <1>3, <1>4, <1>5, Zenon DEF append_char

\* Before the terminal is active.
LEMMA TerminalStarts == TerminalInit => TerminalInv
<1> SUFFICES ASSUME TerminalInit PROVE TerminalInv
  OBVIOUS
<1>1. ScreenKept
  BY ScreenAssumption, LineAssumption DEF TerminalInit, ScreenKept, TerminalTypeOK, LineOnScreen
<1>2. con \in Consoles /\ clean \in BOOLEAN
  <2>1. 0 \in {Outside} \cup 0..Columns /\ 0 \in 0..(Rows - 1) /\ 0 \in Int
    BY ScreenAssumption
  <2>2. con = [col |-> 0, row |-> 0, base |-> 0] /\ clean = FALSE
    BY DEF TerminalInit
  <2> QED
    BY <2>1, <2>2 DEF Consoles
<1>3. CommandsInv
  <2>1. BuiltTo(cmds, Len(Names)) /\ owners = <<>> /\ moved = FALSE
    BY BuiltOk DEF TerminalInit
  <2>2. PICK cap \in Nat : /\ cmds \in Arenas(cap) /\ cmds.free_slots.bits = Builtin
                           /\ \A p \in 1..Len(Names) : cmds.data.data[p - 1] = Names[p]
    BY <2>1 DEF BuiltTo, Builtin
  <2>3. cmds.data.capacity = cap
    BY <2>2 DEF Arenas, Vectors
  <2>4. DOMAIN owners = {}
    BY <2>1
  <2> QED
    BY <2>1, <2>2, <2>3, <2>4 DEF CommandsInv
<1> QED
  BY <1>1, <1>2, <1>3 DEF TerminalInv

\* The screen and the line from their parts.
LEMMA Together ==
    ASSUME EditInv', (kbd_state \subseteq Chars)', (lastkey \in Chars)', CommandsInv'
    PROVE  TerminalInv'
<1>1. (con.row \in 0..(Rows - 1) /\ con.col \in {Outside} \cup 0..Columns)'
  BY DEF EditInv, Consoles
<1> QED
  BY <1>1 DEF EditInv, TerminalInv, ScreenKept, TerminalTypeOK

\* And the parts from the whole.
LEMMA Apart ==
    ASSUME TerminalInv
    PROVE  EditInv /\ kbd_state \subseteq Chars /\ lastkey \in Chars /\ CommandsInv
BY DEF EditInv, TerminalInv, ScreenKept, TerminalTypeOK

\* Editing leaves the commands alone, and the commands the line.
LEMMA CommandsSame == ASSUME CommandsInv, UNCHANGED commands PROVE CommandsInv'
BY DEF CommandsInv, commands, Builtin, Arenas, Vectors, Bitmaps, Cell

LEMMA EditSame == ASSUME EditInv, UNCHANGED <<buf, size, con, clean>> PROVE EditInv'
BY DEF EditInv, LineOnScreen, Consoles, Outside

\* Every key, activation, and command added or removed.
LEMMA TerminalSteps == TerminalInv /\ [TerminalNext]_terminalvars => TerminalInv'
<1> SUFFICES ASSUME TerminalInv, [TerminalNext]_terminalvars
             PROVE  EditInv' /\ (kbd_state \subseteq Chars)' /\ (lastkey \in Chars)' /\ CommandsInv'
  BY Together
<1>0. EditInv /\ kbd_state \subseteq Chars /\ lastkey \in Chars /\ CommandsInv
  BY Apart
<1>1. ASSUME NEW ch \in Chars, kbd_press(ch)
      PROVE  EditInv' /\ (kbd_state \subseteq Chars)' /\ (lastkey \in Chars)' /\ CommandsInv'
  <2>1. EditInv'
    BY <1>0, <1>1, AppendInv DEF kbd_press
  <2>2. CommandsInv'
    BY <1>0, <1>1, CommandsSame DEF kbd_press
  <2>3. (kbd_state \subseteq Chars)' /\ (lastkey \in Chars)'
    BY <1>0, <1>1 DEF kbd_press
  <2> QED
    BY <2>1, <2>2, <2>3
<1>2. ASSUME NEW ch \in Chars, kbd_release(ch)
      PROVE  EditInv' /\ (kbd_state \subseteq Chars)' /\ (lastkey \in Chars)' /\ CommandsInv'
  <2>1. EditInv' /\ CommandsInv'
    BY <1>0, <1>2, EditSame, CommandsSame DEF kbd_release
  <2>2. (kbd_state \subseteq Chars)' /\ (lastkey \in Chars)'
    BY <1>0, <1>2 DEF kbd_release
  <2> QED
    BY <2>1, <2>2
<1>3. ASSUME kbd_onrepeat
      PROVE  EditInv' /\ (kbd_state \subseteq Chars)' /\ (lastkey \in Chars)' /\ CommandsInv'
  <2>1. EditInv'
    BY <1>0, <1>3, AppendInv DEF kbd_onrepeat
  <2>2. CommandsInv'
    BY <1>0, <1>3, CommandsSame DEF kbd_onrepeat
  <2>3. (kbd_state \subseteq Chars)' /\ (lastkey \in Chars)'
    BY <1>0, <1>3 DEF kbd_onrepeat
  <2> QED
    BY <2>1, <2>2, <2>3
<1>4. ASSUME Message
      PROVE  EditInv' /\ (kbd_state \subseteq Chars)' /\ (lastkey \in Chars)' /\ CommandsInv'
  <2>1. con' \in Consoles
    BY <1>0, <1>4, CursorSteps DEF Message, printlnk, EditInv
  <2>2. EditInv'
    BY <1>0, <1>4, <2>1 DEF Message, EditInv, LineOnScreen, Consoles, Outside
  <2>3. CommandsInv'
    BY <1>0, <1>4, CommandsSame DEF Message
  <2> QED
    BY <1>0, <1>4, <2>2, <2>3 DEF Message
<1>5. ASSUME cmdline_activate
      PROVE  EditInv' /\ (kbd_state \subseteq Chars)' /\ (lastkey \in Chars)' /\ CommandsInv'
  <2>1. con \in Consoles /\ con' = prompt(con) /\ clean' = (size = 0 /\ con.col = 0)
    BY <1>0, <1>5 DEF cmdline_activate, EditInv
  <2>2. con' \in Consoles /\ (con.col = 0 => con'.col = Prompt /\ con'.base = Prompt)
    BY <2>1, PromptDrawn
  <2>3. UNCHANGED <<buf, size>>
    BY <1>5 DEF cmdline_activate
  <2>4. clean' => con'.col = con'.base + size' /\ con'.base = Prompt
    <3> HAVE clean'
    <3>1. size = 0 /\ con.col = 0
      BY <2>1
    <3> QED
      BY <2>2, <2>3, <3>1, ScreenAssumption
  <2>5. EditInv'
    BY <1>0, <2>1, <2>2, <2>3, <2>4 DEF EditInv, LineOnScreen, Consoles, Outside
  <2>6. CommandsInv'
    BY <1>0, <1>5, CommandsSame DEF cmdline_activate
  <2> QED
    BY <1>0, <1>5, <2>5, <2>6 DEF cmdline_activate
<1>6. ASSUME NEW inplace \in BOOLEAN, cmdline_add_command(inplace)
      PROVE  EditInv' /\ (kbd_state \subseteq Chars)' /\ (lastkey \in Chars)' /\ CommandsInv'
  <2>1. EditInv'
    BY <1>0, <1>6, EditSame DEF cmdline_add_command
  <2>2. CommandsInv'
    BY <1>0, <1>6, AddInv
  <2> QED
    BY <1>0, <1>6, <2>1, <2>2 DEF cmdline_add_command
<1>7. ASSUME NEW h \in DOMAIN owners, cmdline_remove_command(h)
      PROVE  EditInv' /\ (kbd_state \subseteq Chars)' /\ (lastkey \in Chars)' /\ CommandsInv'
  <2>1. EditInv'
    BY <1>0, <1>7, EditSame DEF cmdline_remove_command
  <2>2. CommandsInv'
    BY <1>0, <1>7, RemoveInv
  <2> QED
    BY <1>0, <1>7, <2>1, <2>2 DEF cmdline_remove_command
<1>8. CASE UNCHANGED terminalvars
  <2>1. EditInv' /\ CommandsInv'
    BY <1>0, <1>8, EditSame, CommandsSame DEF terminalvars
  <2> QED
    BY <1>0, <1>8, <2>1 DEF terminalvars
<1> QED
  BY <1>1, <1>2, <1>3, <1>4, <1>5, <1>6, <1>7, <1>8, Zenon DEF TerminalNext

\* TerminalInv holds of every state.
THEOREM TerminalInvariant == TerminalSpec => []TerminalInv
  BY TerminalStarts, TerminalSteps, PTL DEF TerminalSpec

\* The line stays inside input_buffer, and since the last prompt, as long as plain
\* characters were typed, the cursor is behind the line on the screen, however keys,
\* messages and commands alternate (append_char, con_putc, cmdline_evaluate_buffer).
THEOREM ScreenIsKept == TerminalSpec => []ScreenKept
<1>1. TerminalInv => ScreenKept
  BY DEF TerminalInv
<1> QED
  BY <1>1, TerminalInvariant, PTL

\* The argument that StringSplitIterator hands to a command is the word that was typed
\* behind the first blank, whatever earlier lines left in input_buffer.
THEOREM ArgumentIsTyped == TerminalSpec => []ArgumentTyped
<1>1. TerminalInv => ArgumentTyped
  BY ArgumentFollows DEF TerminalInv, ScreenKept
<1> QED
  BY <1>1, TerminalInvariant, PTL

\* A handle of cmdline_add_command leads to that command until cmdline_remove_command
\* gives it back, and the built-in commands stay, whatever comes and goes, unless the
\* slots moved to another block (Arena, HeapBitmap).
THEOREM HandlesAreKept == TerminalSpec => []HandlesKept
<1>1. TerminalInv => HandlesKept
  BY CommandsAreSlots DEF TerminalInv
<1> QED
  BY <1>1, TerminalInvariant, PTL
=============================================================================
