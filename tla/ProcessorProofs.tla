-------------------------- MODULE ProcessorProofs ---------------------------
(***************************************************************************)
(* Proofs about two small components that the others stand on.             *)
(*                                                                         *)
(* Watermark: the blocks of the watermark allocator, for every number of   *)
(* callers, every size and every alignment.                                *)
(*                                                                         *)
(* Context: what the interrupt stubs, the switch and the system call entry *)
(* keep, for every number of threads.                                      *)
(***************************************************************************)
EXTENDS Watermark, Context, TLAPS

End == Base + WM_SIZE
Critical(c) == pc[c] \in {"locked", "measured", "advanced", "charged"}

\* The lock keeps the critical sections apart; a stop leaves it taken.
MutexInv ==
    /\ \A c \in Callers : Critical(c) => wm_mutex = c
    /\ wm_mutex # NoOne => Critical(wm_mutex)
    /\ halted => wm_mutex # NoOne

\* A caller past Call has a request of its own.
RequestInv == \A c \in Callers : pc[c] # "idle" => req[c] \in Requests

\* The cursor is ahead of what was paid for by the block being allocated.
CursorInv ==
    /\ (\A c \in Callers : pc[c] # "advanced") => wm_cursor + wm_free = End
    /\ \A c \in Callers :
           pc[c] = "advanced" => wm_cursor + wm_free = End + Size(c) + alignfix[c]

\* The block being allocated ends at the cursor and starts behind all others.
LocalInv ==
    \A c \in Callers :
        /\ pc[c] = "measured" => alignfix[c] = AlignUp(wm_cursor, Align(c)) - wm_cursor
        /\ pc[c] = "advanced" =>
               /\ ptr[c] + Size(c) = wm_cursor /\ Base <= ptr[c]
               /\ ptr[c] % Align(c) = 0
               /\ \A k \in 1..Len(grants) : grants[k].p + grants[k].size <= ptr[c]

\* The blocks are aligned and lie in order below the cursor.
GrantInv ==
    /\ Base <= wm_cursor
    /\ \A k \in 1..Len(grants) :
           /\ grants[k].size > 0 /\ grants[k].p % grants[k].align = 0
           /\ Base <= grants[k].p /\ grants[k].p + grants[k].size <= End
           /\ grants[k].p + grants[k].size <= wm_cursor
    /\ \A k, l \in 1..Len(grants) : k < l => grants[k].p + grants[k].size <= grants[l].p

IInv == TypeOK /\ MutexInv /\ RequestInv /\ CursorInv /\ LocalInv /\ GrantInv

-----------------------------------------------------------------------------
LEMMA ModOfMultiple ==
    ASSUME NEW q \in Nat, NEW a \in Nat \ {0}
    PROVE  (q * a) % a = 0
OBVIOUS

\* align() of util/bits/arithmetic.hh rounds up to a multiple.
LEMMA AlignUpFacts ==
    ASSUME NEW x \in Nat, NEW a \in Nat \ {0}
    PROVE  AlignUp(x, a) \in Nat /\ AlignUp(x, a) >= x /\ AlignUp(x, a) % a = 0
<1>1. (x + (a - 1)) \div a \in Nat
  OBVIOUS
<1>2. AlignUp(x, a) % a = 0
  BY <1>1, ModOfMultiple DEF AlignUp
<1>3. AlignUp(x, a) \in Nat /\ AlignUp(x, a) >= x
  BY <1>1 DEF AlignUp
<1> QED
  BY <1>2, <1>3

LEMMA SizeFacts ==
    ASSUME NEW c \in Callers, IInv, pc[c] # "idle"
    PROVE  Size(c) \in Nat \ {0} /\ Align(c) \in Nat \ {0}
<1>1. PICK s \in Nat \ {0}, a \in Nat : req[c] = <<s, a>>
  BY RequestsAssumption DEF IInv, RequestInv
<1>2. req[c][1] = s /\ req[c][2] = a
  BY <1>1
<1>3. AlignUp(s, Grain) \in Nat /\ AlignUp(s, Grain) >= s
  BY GrainAssumption, AlignUpFacts
<1>4. Size(c) \in Nat \ {0}
  BY <1>2, <1>3 DEF Size
<1> QED
  BY <1>2, <1>4 DEF Align, Larger

LEMMA InitIInv == Init => IInv
<1> SUFFICES ASSUME Init PROVE IInv
  OBVIOUS
<1> USE DEF Init
<1>1. TypeOK
  <2>1. grants \in Seq(Blocks)
    OBVIOUS
  <2>2. wm_cursor \in Nat /\ wm_free \in 0..WM_SIZE
    BY BaseAssumption, WMSizeAssumption
  <2>3. /\ alignfix \in [Callers -> Nat] /\ ptr \in [Callers -> Nat]
        /\ req \in [Callers -> Requests \cup {NoRequest}]
    OBVIOUS
  <2> QED
    BY <2>1, <2>2, <2>3 DEF TypeOK
<1>2. MutexInv /\ RequestInv /\ LocalInv
  BY DEF MutexInv, Critical, RequestInv, LocalInv
<1>3. CursorInv /\ GrantInv
  BY BaseAssumption, WMSizeAssumption DEF CursorInv, GrantInv, End
<1> QED
  BY <1>1, <1>2, <1>3 DEF IInv

LEMMA CallStep ==
    ASSUME NEW c \in Callers, NEW rq \in Requests, IInv, Call(c, rq)
    PROVE  IInv'
<1> USE DEF Call
<1>1. TypeOK'
  BY DEF IInv, TypeOK
<1>2. MutexInv' /\ RequestInv'
  BY DEF IInv, TypeOK, MutexInv, Critical, RequestInv
<1>3. \A d \in Callers : pc'[d] \notin {"idle", "want"} => pc[d] = pc'[d] /\ req'[d] = req[d]
  BY DEF IInv, TypeOK
<1>4. CursorInv' /\ LocalInv'
  BY <1>3 DEF IInv, TypeOK, CursorInv, LocalInv, Size, Align, End
<1>5. GrantInv'
  BY DEF IInv, GrantInv, End
<1> QED
  BY <1>1, <1>2, <1>4, <1>5 DEF IInv

LEMMA LockStep == ASSUME NEW c \in Callers, IInv, Lock(c) PROVE IInv'
<1> USE DEF Lock, locals
<1>1. TypeOK'
  BY DEF IInv, TypeOK
<1>2. MutexInv' /\ RequestInv'
  BY NoOneAssumption DEF IInv, TypeOK, MutexInv, Critical, RequestInv
<1>3. CursorInv' /\ LocalInv'
  BY DEF IInv, TypeOK, CursorInv, LocalInv, Size, Align, End
<1>4. GrantInv'
  BY DEF IInv, GrantInv, End
<1> QED
  BY <1>1, <1>2, <1>3, <1>4 DEF IInv

LEMMA MeasureStep == ASSUME NEW c \in Callers, IInv, Measure(c) PROVE IInv'
<1> USE DEF Measure
<1>1. /\ Size(c) \in Nat \ {0} /\ Align(c) \in Nat \ {0}
      /\ wm_cursor \in Nat /\ pc[c] = "locked"
  BY SizeFacts DEF IInv, TypeOK
<1>2. AlignUp(wm_cursor, Align(c)) - wm_cursor \in Nat
  BY <1>1, AlignUpFacts
<1>3. TypeOK'
  BY <1>2 DEF IInv, TypeOK
<1>4. MutexInv' /\ RequestInv'
  BY DEF IInv, TypeOK, MutexInv, Critical, RequestInv
<1>5. \A d \in Callers : d # c => pc[d] \notin {"measured", "advanced"}
  BY DEF IInv, MutexInv, Critical
<1>6. CursorInv' /\ LocalInv'
  BY <1>5 DEF IInv, TypeOK, CursorInv, LocalInv, Size, Align, End
<1>7. GrantInv'
  BY DEF IInv, GrantInv, End
<1> QED
  BY <1>3, <1>4, <1>6, <1>7 DEF IInv

LEMMA AdvanceStep == ASSUME NEW c \in Callers, IInv, Advance(c) PROVE IInv'
<1> USE DEF Advance
<1>1. /\ Size(c) \in Nat \ {0} /\ Align(c) \in Nat \ {0}
      /\ wm_cursor \in Nat /\ wm_free \in Nat /\ alignfix[c] \in Nat
      /\ Size(c)' = Size(c) /\ Align(c)' = Align(c)
  <2>1. wm_cursor \in Nat /\ wm_free \in Nat /\ alignfix[c] \in Nat /\ pc[c] # "idle"
    BY WMSizeAssumption DEF IInv, TypeOK
  <2>2. Size(c)' = Size(c) /\ Align(c)' = Align(c)
    BY DEF Size, Align
  <2> QED
    BY <2>1, <2>2, SizeFacts
<1>2. wm_cursor + alignfix[c] = AlignUp(wm_cursor, Align(c))
  <2>1. alignfix[c] = AlignUp(wm_cursor, Align(c)) - wm_cursor
    BY DEF IInv, LocalInv
  <2>2. AlignUp(wm_cursor, Align(c)) \in Nat
    BY <1>1, AlignUpFacts
  <2> QED
    BY <1>1, <2>1, <2>2
<1>3. /\ ptr'[c] = wm_cursor + alignfix[c] /\ ptr'[c] \in Nat
      /\ ptr'[c] % Align(c) = 0 /\ wm_cursor' = ptr'[c] + Size(c)
  BY <1>1, <1>2, AlignUpFacts DEF IInv, TypeOK
<1>4. TypeOK'
  <2>1. wm_cursor' \in Nat /\ wm_cursor + alignfix[c] \in Nat
    BY <1>1
  <2>2. ptr' \in [Callers -> Nat]
    BY <2>1 DEF IInv, TypeOK
  <2>3. pc' \in [Callers -> {"idle", "want", "locked", "measured", "advanced", "charged"}]
    BY DEF IInv, TypeOK
  <2> QED
    BY <2>1, <2>2, <2>3 DEF IInv, TypeOK
<1>5. MutexInv' /\ RequestInv'
  BY DEF IInv, TypeOK, MutexInv, Critical, RequestInv
<1>6. \A d \in Callers : d # c => pc[d] \notin {"measured", "advanced"} /\ pc'[d] = pc[d]
  BY DEF IInv, TypeOK, MutexInv, Critical
<1>7. pc'[c] = "advanced" /\ \A d \in Callers : pc[d] # "advanced"
  BY <1>1, <1>6 DEF IInv, TypeOK
<1>8. CursorInv'
  <2>1. wm_cursor + wm_free = End
    BY <1>7 DEF IInv, CursorInv
  <2>2. wm_cursor' + wm_free' = End + Size(c) + alignfix[c]
    BY <1>1, <1>3, <2>1, BaseAssumption, WMSizeAssumption DEF End
  <2> QED
    BY <1>1, <1>6, <1>7, <2>2 DEF CursorInv, End
<1>9. GrantInv'
  <2>1. wm_cursor' >= wm_cursor
    BY <1>1, <1>3
  <2>2. \A k \in 1..Len(grants) : grants[k] \in Blocks
    BY DEF IInv, TypeOK
  <2>3. \A k \in 1..Len(grants) : grants[k].p \in Nat /\ grants[k].size \in Nat
    BY <2>2 DEF Blocks
  <2>4. /\ Base <= wm_cursor'
        /\ \A k \in 1..Len(grants) : grants[k].p + grants[k].size <= wm_cursor'
    <3>1. wm_cursor \in Nat /\ wm_cursor' \in Nat /\ Base <= wm_cursor
      BY <1>1, <1>3 DEF IInv, GrantInv
    <3>2. \A k \in 1..Len(grants) : grants[k].p + grants[k].size <= wm_cursor
      BY DEF IInv, GrantInv
    <3> QED
      BY <2>1, <2>3, <3>1, <3>2, BaseAssumption
  <2> QED
    BY <2>4 DEF IInv, GrantInv, End
<1>10. LocalInv'
  <2>1. Base <= ptr'[c]
    BY <1>1, <1>3, BaseAssumption DEF IInv, GrantInv
  <2>2. \A k \in 1..Len(grants) : grants[k].p + grants[k].size <= ptr'[c]
    <3> SUFFICES ASSUME NEW k \in 1..Len(grants)
                 PROVE  grants[k].p + grants[k].size <= ptr'[c]
      OBVIOUS
    <3>1. grants[k] \in Blocks
      BY DEF IInv, TypeOK
    <3>2. grants[k].p + grants[k].size <= wm_cursor
      BY DEF IInv, GrantInv
    <3> QED
      BY <1>1, <1>3, <3>1, <3>2 DEF Blocks
  <2> QED
    BY <1>1, <1>3, <1>6, <1>7, <2>1, <2>2 DEF LocalInv
<1> QED
  BY <1>4, <1>5, <1>8, <1>9, <1>10 DEF IInv

LEMMA ChargeStep == ASSUME NEW c \in Callers, IInv, Charge(c) PROVE IInv'
<1>1. /\ Size(c) \in Nat \ {0} /\ Align(c) \in Nat \ {0}
      /\ wm_cursor \in Nat /\ wm_free \in 0..WM_SIZE /\ alignfix[c] \in Nat /\ ptr[c] \in Nat
  BY SizeFacts DEF Charge, IInv, TypeOK
<1>9. /\ pc[c] = "advanced" /\ wm_mutex = c /\ wm_mutex' = c /\ ~halted
      /\ grants \in Seq(Blocks)
      /\ UNCHANGED <<wm_cursor, req, alignfix, ptr>>
  BY DEF Charge, locals, IInv, TypeOK, MutexInv, Critical
<1>2. /\ ptr[c] + Size(c) = wm_cursor /\ Base <= ptr[c] /\ ptr[c] % Align(c) = 0
      /\ \A k \in 1..Len(grants) : grants[k].p + grants[k].size <= ptr[c]
      /\ wm_cursor + wm_free = End + Size(c) + alignfix[c]
  BY <1>9 DEF IInv, LocalInv, CursorInv
<1>5. /\ ptr[c] + Size(c) = wm_cursor
      /\ wm_cursor + wm_free = Base + WM_SIZE + Size(c) + alignfix[c]
  BY <1>2 DEF End
<1>3. CASE wm_free < Size(c) + alignfix[c]
  <2>1. halted' = TRUE /\ UNCHANGED <<wm_free, grants, pc>>
    BY <1>3 DEF Charge
  <2>2. MutexInv'
    BY <1>1, <1>9, <2>1, NoOneAssumption DEF IInv, MutexInv, Critical
  <2>3. TypeOK' /\ RequestInv'
    BY <1>1, <1>9, <2>1 DEF IInv, TypeOK, RequestInv
  <2>4. CursorInv' /\ LocalInv'
    BY <1>1, <1>9, <2>1 DEF IInv, CursorInv, LocalInv, Size, Align, End
  <2>5. GrantInv'
    BY <1>1, <1>9, <2>1 DEF IInv, GrantInv, End
  <2> QED
    BY <2>2, <2>3, <2>4, <2>5 DEF IInv
<1>4. CASE ~(wm_free < Size(c) + alignfix[c])
  <2>1. /\ wm_free' = wm_free - (Size(c) + alignfix[c]) /\ halted' = halted
        /\ grants' = Append(grants, Block(c))
        /\ pc' = [pc EXCEPT ![c] = "charged"]
    BY <1>4 DEF Charge
  <2>2. wm_free' \in 0..WM_SIZE /\ wm_cursor + wm_free' = Base + WM_SIZE
    <3>1. wm_free' = wm_free - (Size(c) + alignfix[c])
      BY <2>1
    <3>2. Size(c) \in Nat /\ alignfix[c] \in Nat /\ wm_cursor \in Nat /\ wm_free \in 0..WM_SIZE
      BY <1>1
    <3>3. wm_free' \in 0..WM_SIZE
      BY <1>4, <3>1, <3>2, WMSizeAssumption
    <3>4. wm_cursor + wm_free = Base + WM_SIZE + Size(c) + alignfix[c]
      BY <1>5
    <3>5. wm_cursor + wm_free' = Base + WM_SIZE
      BY <3>1, <3>2, <3>4, BaseAssumption, WMSizeAssumption
    <3> QED
      BY <3>3, <3>5
  <2>3. Block(c) \in Blocks
    BY <1>1 DEF Block, Blocks
  <2>4. /\ grants' \in Seq(Blocks) /\ Len(grants) \in Nat /\ Len(grants') = Len(grants) + 1
        /\ grants'[Len(grants) + 1] = Block(c)
        /\ \A k \in 1..Len(grants) : grants'[k] = grants[k] /\ grants[k] \in Blocks
    BY <1>1, <1>9, <2>1, <2>3
  <2>10. Len(grants) \in Nat /\ Len(grants') = Len(grants) + 1
    BY <2>4
  <2>5. TypeOK'
    BY <1>1, <1>9, <2>1, <2>2, <2>4 DEF IInv, TypeOK
  <2>6. MutexInv' /\ RequestInv'
    BY <1>1, <1>9, <2>1 DEF IInv, TypeOK, MutexInv, Critical, RequestInv
  <2>7. \A d \in Callers : pc'[d] \notin {"measured", "advanced"}
    BY <1>1, <1>9, <2>1 DEF IInv, TypeOK, MutexInv, Critical
  <2>8. CursorInv' /\ LocalInv'
    BY <1>1, <1>9, <2>2, <2>7 DEF CursorInv, LocalInv, End
  <2>9. GrantInv'
    <3>1. \A k \in 1..Len(grants') : k \in 1..Len(grants) \/ k = Len(grants) + 1
      BY <2>4
    <3>2. /\ Block(c).p = ptr[c] /\ Block(c).size = Size(c) /\ Block(c).align = Align(c)
          /\ ptr[c] + Size(c) <= End
      <4>1. ptr[c] + Size(c) <= Base + WM_SIZE
        BY <1>1, <1>5, <2>2, BaseAssumption, WMSizeAssumption
      <4> QED
        BY <4>1 DEF Block, End
    <3>3. ASSUME NEW k \in 1..Len(grants')
          PROVE  /\ grants'[k].size > 0 /\ grants'[k].p % grants'[k].align = 0
                 /\ Base <= grants'[k].p /\ grants'[k].p + grants'[k].size <= End
                 /\ grants'[k].p + grants'[k].size <= wm_cursor
      <4>1. CASE k \in 1..Len(grants)
        BY <2>4, <4>1 DEF IInv, GrantInv
      <4>2. CASE k = Len(grants) + 1
        <5>1. grants'[k] = Block(c)
          BY <2>4, <4>2
        <5> QED
          BY <1>1, <1>2, <3>2, <5>1
      <4> QED
        BY <3>1, <4>1, <4>2
    <3>4. ASSUME NEW k \in 1..Len(grants'), NEW l \in 1..Len(grants'), k < l
          PROVE  grants'[k].p + grants'[k].size <= grants'[l].p
      <4>1. CASE l \in 1..Len(grants)
        <5>1. k \in 1..Len(grants)
          BY <2>10, <3>4, <4>1
        <5> QED
          BY <2>4, <3>4, <4>1, <5>1 DEF IInv, GrantInv
      <4>2. CASE l = Len(grants) + 1
        <5>1. k \in 1..Len(grants)
          BY <2>10, <3>4, <4>2
        <5> QED
          BY <1>2, <2>4, <3>2, <4>2, <5>1
      <4> QED
        BY <3>1, <4>1, <4>2
    <3>5. Base <= wm_cursor /\ wm_cursor' = wm_cursor
      BY <1>9 DEF IInv, GrantInv
    <3> QED
      BY <3>3, <3>4, <3>5 DEF GrantInv, End
  <2> QED
    BY <2>5, <2>6, <2>8, <2>9 DEF IInv
<1> QED
  BY <1>3, <1>4

LEMMA UnlockStep == ASSUME NEW c \in Callers, IInv, Unlock(c) PROVE IInv'
<1> USE DEF Unlock
<1>1. TypeOK'
  BY DEF IInv, TypeOK
<1>2. MutexInv' /\ RequestInv'
  BY DEF IInv, TypeOK, MutexInv, Critical, RequestInv
<1>3. \A d \in Callers : pc'[d] \notin {"measured", "advanced"} /\ pc[d] # "advanced"
  BY DEF IInv, TypeOK, MutexInv, Critical
<1>4. CursorInv' /\ LocalInv'
  BY <1>3 DEF IInv, CursorInv, LocalInv, End
<1>5. GrantInv'
  BY DEF IInv, GrantInv, End
<1> QED
  BY <1>1, <1>2, <1>4, <1>5 DEF IInv

LEMMA NextIInv == IInv /\ [Next]_vars => IInv'
<1> SUFFICES ASSUME IInv, [Next]_vars PROVE IInv'
  OBVIOUS
<1>1. CASE \E c \in Callers, rq \in Requests : Call(c, rq)
  BY <1>1, CallStep
<1>2. CASE \E c \in Callers : Step(c)
  BY <1>2, LockStep, MeasureStep, AdvanceStep, ChargeStep, UnlockStep DEF Step
<1>3. CASE UNCHANGED vars
  BY <1>3 DEF vars, locals, IInv, TypeOK, MutexInv, Critical, RequestInv, CursorInv,
              LocalInv, GrantInv, Size, Align, End
<1> QED
  BY <1>1, <1>2, <1>3 DEF Next

LEMMA SpecIInv == Spec => []IInv
BY InitIInv, NextIInv, PTL DEF Spec

-----------------------------------------------------------------------------
LEMMA BytesBounds ==
    ASSUME NEW g, g.p \in Nat, g.size \in Nat, NEW x \in Bytes(g)
    PROVE  x \in Int /\ g.p <= x /\ x < g.p + g.size
BY DEF Bytes

LEMMA NoCommonByte ==
    ASSUME NEW p \in Nat, NEW m \in Nat, NEW q \in Nat, NEW n \in Nat, NEW x \in Int,
           p + m <= q \/ q + n <= p, p <= x, x < p + m, q <= x, x < q + n
    PROVE  FALSE
OBVIOUS

\* The state of wm_alloc stays in its ranges: wm_free never wraps.
THEOREM TypeCorrect == Spec => []TypeOK
<1>1. IInv => TypeOK
  BY DEF IInv
<1> QED
  BY <1>1, SpecIInv, PTL

\* wm_alloc returns aligned blocks of the area that never overlap.
THEOREM WatermarkSafe == Spec => []BlocksApart
<1>1. ASSUME IInv PROVE BlocksApart
  <2>1. \A k \in 1..Len(grants) : grants[k] \in Blocks
    BY <1>1 DEF IInv, TypeOK
  <2>2. Len(grants) \in Nat
    BY <1>1 DEF IInv, TypeOK
  <2>3. ASSUME NEW a \in 1..Len(grants), NEW b \in 1..Len(grants), a # b
        PROVE  Bytes(grants[a]) \cap Bytes(grants[b]) = {}
    <3>1. \/ grants[a].p + grants[a].size <= grants[b].p
          \/ grants[b].p + grants[b].size <= grants[a].p
      BY <1>1, <2>2, <2>3 DEF IInv, GrantInv
    <3>2. /\ grants[a].p \in Nat /\ grants[a].size \in Nat
          /\ grants[b].p \in Nat /\ grants[b].size \in Nat
      BY <2>1 DEF Blocks
    <3>3. ASSUME NEW x \in Bytes(grants[a]), x \in Bytes(grants[b]) PROVE FALSE
      <4>1. /\ x \in Int /\ grants[a].p <= x /\ x < grants[a].p + grants[a].size
            /\ grants[b].p <= x /\ x < grants[b].p + grants[b].size
        BY <3>2, <3>3, BytesBounds
      <4> QED
        BY <3>1, <3>2, <4>1, NoCommonByte
    <3> QED
      BY <3>3
  <2>4. \A a \in 1..Len(grants) :
            /\ grants[a].size > 0 /\ grants[a].p % grants[a].align = 0
            /\ Bytes(grants[a]) \subseteq Base..(Base + WM_SIZE - 1)
    <3>1. \A a \in 1..Len(grants) : grants[a].p \in Nat /\ grants[a].size \in Nat
      BY <2>1 DEF Blocks
    <3> QED
      BY <1>1, <3>1, BaseAssumption, WMSizeAssumption DEF IInv, GrantInv, Bytes, End
  <2> QED
    BY <2>3, <2>4 DEF BlocksApart
<1> QED
  BY <1>1, SpecIInv, PTL

\* Cursor and remaining bytes always account for the whole area.
THEOREM NothingLost == Spec => []Conserved
<1>1. IInv => Conserved
  BY NoOneAssumption DEF IInv, MutexInv, Critical, CursorInv, Conserved, End
<1> QED
  BY <1>1, SpecIInv, PTL

\* For any number of callers the watermark area is divided soundly.
THEOREM AreaSafe == Spec => []AreaSound
BY TypeCorrect, WatermarkSafe, NothingLost, PTL DEF AreaSound

-----------------------------------------------------------------------------
(* Context *)

Kinds == {"timer", "driver", "yield", "fault", "exception"}
Sources == {"timer", "driver"}

\* What a register set can hold.
Contents == ((1..Threads) \X {"user", "call"}) \cup ({0} \X (Kinds \cup {"none", "mixed"}))
RegisterSets == [gp : Contents, fx : Contents]

ContextTypes ==
  /\ current \in 1..Threads
  /\ DOMAIN code = 1..Threads
  /\ \A t \in 1..Threads : code[t] = <<UserOf(t)>> \/ code[t] = <<UserOf(t), CallOf(t)>>
  /\ code = [t \in 1..Threads |-> code[t]]
  /\ isrs \in Seq({0} \X Kinds)
  /\ regs \in RegisterSets /\ ist \in Contents /\ sse_state \in Contents
  /\ tasks \in [1..Threads -> RegisterSets]
  /\ ursp \in Contents /\ kframe \in Contents
  /\ inservice \subseteq Sources
  /\ servicing \in {0, 13, 14, 64, 65}
  /\ stopped \in BOOLEAN /\ nested \in BOOLEAN /\ overlapped \in BOOLEAN

Reports(i) == isrs[i] = Isr("exception")

\* The stack of handlers: only the report of an exception is interrupted by another
\* one, and then the machine stops.
ReportInv ==
  /\ ~stopped => \A i \in 1..Len(isrs) : Reports(i) => i = Len(isrs) /\ servicing = 13
  /\ \A i \in 1..Len(isrs) : Reports(i) => i >= Len(isrs) - 1

\* Every interrupt in service has its handler on the stack.
ServiceInv == \A kind \in inservice : \E i \in 1..Len(isrs) : isrs[i] = Isr(kind)

\* The registers of the current thread are in the CPU, or in the frame of the one
\* handler that runs.
FrameInv ==
  ~nested /\ ~overlapped /\ ~stopped =>
    /\ isrs = << >> => regs = [gp |-> Innermost(code[current]), fx |-> UserOf(current)]
    /\ isrs # << >> /\ ~Reports(Len(isrs)) =>
         Len(isrs) = 1 /\ ist = Innermost(code[current]) /\ sse_state = UserOf(current)

\* The one stack of system calls belongs to the one thread in a call.
CallInv ==
  ~overlapped =>
    \A t \in 1..Threads : Len(code[t]) = 2 => ursp = UserOf(t) /\ kframe = UserOf(t)

ContextInv ==
  ContextTypes /\ ReportInv /\ ServiceInv /\ FrameInv /\ CallInv /\ SavedRight

-----------------------------------------------------------------------------
(* The stack of handlers, and what the threads are in *)

LEMMA Pushed ==
    ASSUME NEW S, NEW s \in Seq(S), NEW e \in S
    PROVE  /\ Append(s, e) \in Seq(S) /\ Append(s, e) # << >>
           /\ Len(Append(s, e)) = Len(s) + 1
           /\ \A i \in 1..Len(s) : Append(s, e)[i] = s[i]
           /\ Append(s, e)[Len(s) + 1] = e
  OBVIOUS

LEMMA Prefix ==
    ASSUME NEW S, NEW s, NEW n \in Nat, \A i \in 1..n : s[i] \in S
    PROVE  /\ SubSeq(s, 1, n) \in Seq(S) /\ Len(SubSeq(s, 1, n)) = n
           /\ \A i \in 1..n : SubSeq(s, 1, n)[i] = s[i]
  OBVIOUS

LEMMA SameList ==
    ASSUME NEW S, NEW s \in Seq(S), NEW t \in Seq(S), Len(s) = Len(t),
           \A i \in 1..Len(s) : s[i] = t[i]
    PROVE  s = t
  OBVIOUS

LEMMA Popped ==
    ASSUME NEW S, NEW s \in Seq(S), s # << >>
    PROVE  /\ Outer(s) \in Seq(S) /\ Len(Outer(s)) = Len(s) - 1
           /\ \A i \in 1..(Len(s) - 1) : Outer(s)[i] = s[i]
           /\ Len(s) \in 1..Len(s) /\ Innermost(s) = s[Len(s)]
<1>1. Len(s) \in Nat /\ Len(s) >= 1
  OBVIOUS
<1>2. /\ SubSeq(s, 1, Len(s) - 1) \in Seq(S) /\ Len(SubSeq(s, 1, Len(s) - 1)) = Len(s) - 1
      /\ \A i \in 1..(Len(s) - 1) : SubSeq(s, 1, Len(s) - 1)[i] = s[i]
  <2> DEFINE n == Len(s) - 1
             q == SubSeq(s, 1, n)
  <2>1. n \in Nat /\ \A i \in 1..n : s[i] \in S
    BY <1>1
  <2> HIDE DEF n
  <2>2. q \in Seq(S) /\ Len(q) = n /\ \A i \in 1..n : q[i] = s[i]
    BY <2>1, Prefix
  <2> QED
    BY <2>2 DEF n
<1> QED
  BY <1>1, <1>2 DEF Outer, Innermost

\* A thread's nested code grows by one, and shrinks by one.
LEMMA OneAndTwo ==
    ASSUME NEW a, NEW b
    PROVE  SubSeq(<<a, b>>, 1, 1) = <<a>> /\ Append(<<a>>, b) = <<a, b>>
<1> DEFINE S == {a, b}
           s == <<a, b>>
           p == <<a>>
           q == SubSeq(s, 1, 1)
           r == Append(p, b)
<1>1. s \in Seq(S) /\ Len(s) = 2 /\ s[1] = a /\ s[2] = b /\ b \in S
  OBVIOUS
<1>2. p \in Seq(S) /\ Len(p) = 1 /\ p[1] = a
  OBVIOUS
<1>3. \A i \in 1..1 : s[i] \in S
  OBVIOUS
<1> HIDE DEF S, s, p
<1>4. q \in Seq(S) /\ Len(q) = 1 /\ q[1] = a
  BY <1>1, <1>3, Prefix
<1>5. /\ r \in Seq(S) /\ Len(r) = Len(p) + 1 /\ r[Len(p) + 1] = b
      /\ \A i \in 1..Len(p) : r[i] = p[i]
  <2>1. p \in Seq(S) /\ b \in S
    BY <1>1, <1>2
  <2> QED
    BY <2>1, Pushed
<1> HIDE DEF q, r
<1>6. q = p
  <2>1. \A i \in 1..Len(q) : q[i] = p[i]
    BY <1>2, <1>4
  <2> QED
    BY <1>2, <1>4, <2>1, SameList
<1>7. r = s
  <2>1. \A i \in 1..Len(r) : r[i] = s[i]
    BY <1>1, <1>2, <1>5
  <2> QED
    BY <1>1, <1>2, <1>5, <2>1, SameList
<1> QED
  BY <1>6, <1>7 DEF q, r, s, p

\* The contents of registers tell the threads, and calls from user code, apart.
LEMMA ContentsApart ==
    ASSUME NEW t \in 1..Threads
    PROVE  /\ UserOf(t) \in Contents /\ CallOf(t) \in Contents /\ UserOf(t) # CallOf(t)
           /\ \A u \in 1..Threads : UserOf(u) = UserOf(t) => u = t
  BY DEF UserOf, CallOf, Contents

LEMMA IsrsApart ==
    /\ \A kind \in Kinds \cup {"none", "mixed"} : Isr(kind) \in Contents
    /\ \A kind \in Kinds : Isr(kind) \in {0} \X Kinds
    /\ \A k, l \in Kinds : Isr(k) = Isr(l) => k = l
    /\ \A k : Isr(k)[2] = k
  BY DEF Isr, Contents

\* A thread is in its user code or in a system call.
LEMMA CodeIs ==
    ASSUME ContextTypes, NEW t \in 1..Threads
    PROVE  \/ /\ code[t] = <<UserOf(t)>> /\ Len(code[t]) = 1
              /\ Innermost(code[t]) = UserOf(t)
              /\ Append(code[t], CallOf(t)) = <<UserOf(t), CallOf(t)>>
           \/ /\ code[t] = <<UserOf(t), CallOf(t)>> /\ Len(code[t]) = 2
              /\ Innermost(code[t]) = CallOf(t) /\ Outer(code[t]) = <<UserOf(t)>>
<1>1. CASE code[t] = <<UserOf(t)>>
  <2>1. /\ Len(<<UserOf(t)>>) = 1 /\ <<UserOf(t)>>[1] = UserOf(t)
        /\ Append(<<UserOf(t)>>, CallOf(t)) = <<UserOf(t), CallOf(t)>>
    BY OneAndTwo
  <2> QED
    BY <1>1, <2>1 DEF Innermost
<1>2. CASE code[t] = <<UserOf(t), CallOf(t)>>
  <2>1. Len(code[t]) = 2 /\ code[t][1] = UserOf(t) /\ code[t][2] = CallOf(t)
    BY <1>2
  <2>2. Outer(code[t]) = <<UserOf(t)>>
    <3>1. Outer(code[t]) = SubSeq(<<UserOf(t), CallOf(t)>>, 1, 1)
      BY <1>2, <2>1 DEF Outer
    <3>2. SubSeq(<<UserOf(t), CallOf(t)>>, 1, 1) = <<UserOf(t)>>
      BY OneAndTwo
    <3> QED
      BY <3>1, <3>2
  <2> QED
    BY <1>2, <2>1, <2>2 DEF Innermost
<1> QED
  BY <1>1, <1>2 DEF ContextTypes

-----------------------------------------------------------------------------
(* The steps *)

\* What the stub leaves.
LEMMA SaveIs ==
    ASSUME ContextTypes, NEW kind \in Kinds, Save(kind)
    PROVE  /\ isrs' \in Seq({0} \X Kinds) /\ isrs' # << >> /\ Len(isrs) \in Nat
           /\ Len(isrs') = Len(isrs) + 1 /\ isrs'[Len(isrs')] = Isr(kind)
           /\ \A i \in 1..Len(isrs) : isrs'[i] = isrs[i]
           /\ regs' \in RegisterSets /\ ist' = regs.gp /\ sse_state' = regs.fx
           /\ ist' \in Contents /\ sse_state' \in Contents
<1>1. isrs \in Seq({0} \X Kinds) /\ Isr(kind) \in {0} \X Kinds /\ Isr(kind) \in Contents
  BY IsrsApart DEF ContextTypes
<1>2. isrs' = Append(isrs, Isr(kind))
  BY DEF Save
<1>3. /\ isrs' \in Seq({0} \X Kinds) /\ isrs' # << >> /\ Len(isrs) \in Nat
      /\ Len(isrs') = Len(isrs) + 1 /\ isrs'[Len(isrs')] = Isr(kind)
      /\ \A i \in 1..Len(isrs) : isrs'[i] = isrs[i]
  BY <1>1, <1>2, Pushed
<1>4. /\ regs' \in RegisterSets /\ ist' = regs.gp /\ sse_state' = regs.fx
      /\ ist' \in Contents /\ sse_state' \in Contents
  BY <1>1 DEF Save, ContextTypes, RegisterSets
<1> QED
  BY <1>3, <1>4

\* A handler entered on a machine that runs no handler.
LEMMA EnterKeeps ==
    ASSUME ContextInv, NEW kind \in Kinds \ {"exception"}, isrs = << >>, Alive, Save(kind),
           servicing' \in {0, 13, 14, 64, 65}, inservice' \in {inservice, inservice \cup {kind}},
           inservice' \subseteq Sources, nested' = nested,
           UNCHANGED <<current, code, tasks, ursp, kframe, stopped, overlapped>>
    PROVE  ContextInv'
<1>1. ContextTypes /\ ContextTypes'
  BY SaveIs DEF ContextInv, ContextTypes
<1>2. /\ Len(isrs') = 1 /\ isrs'[1] = Isr(kind) /\ isrs' # << >>
      /\ isrs'[1] # Isr("exception")
  <2>1. /\ Len(isrs') = Len(isrs) + 1 /\ isrs'[Len(isrs')] = Isr(kind) /\ isrs' # << >>
    BY <1>1, SaveIs
  <2>2. Len(isrs) = 0
    OBVIOUS
  <2>3. Isr(kind) # Isr("exception")
    BY IsrsApart DEF Kinds
  <2> QED
    BY <2>1, <2>2, <2>3
<1>3. ReportInv'
  BY <1>2 DEF ReportInv, Reports
<1>4. inservice = {}
  BY DEF ContextInv, ServiceInv
<1>5. ServiceInv'
  BY <1>2, <1>4 DEF ServiceInv
<1>6. FrameInv'
  BY <1>1, <1>2, SaveIs DEF ContextInv, FrameInv, Alive
<1>7. CallInv' /\ SavedRight'
  BY DEF ContextInv, CallInv, SavedRight
<1> QED
  BY <1>1, <1>3, <1>5, <1>6, <1>7 DEF ContextInv

LEMMA InterruptKeeps ==
    ASSUME ContextInv, NEW kind \in Sources, Interrupt(kind) PROVE ContextInv'
<1>1. kind \in Kinds \ {"exception"} /\ (inservice \cup {kind}) \subseteq Sources
  BY DEF Kinds, Sources, ContextInv, ContextTypes
<1> QED
  BY <1>1, EnterKeeps DEF Interrupt, ContextInv, ContextTypes

LEMMA HeapFaultKeeps == ASSUME ContextInv, HeapFault PROVE ContextInv'
<1>0. "fault" \in Kinds \ {"exception"}
  BY DEF Kinds
<1>1. CASE isrs = << >>
  BY <1>0, <1>1, EnterKeeps DEF HeapFault, ContextInv, ContextTypes
<1>2. CASE isrs # << >>
  <2>1. ContextTypes /\ Save("fault")
    BY DEF HeapFault, ContextInv
  <2>2. /\ isrs \in Seq({0} \X Kinds) /\ Innermost(isrs) # Isr("exception")
        /\ Innermost(isrs) = isrs[Len(isrs)] /\ ~stopped /\ Len(isrs) \in Nat
    BY <1>2, <2>1, IsrsApart DEF HeapFault, ContextTypes, Alive, Kinds, Innermost
  <2>3. ContextTypes'
    BY <1>0, <2>1, SaveIs DEF HeapFault, ContextTypes
  <2>4. isrs'[Len(isrs')] # Isr("exception") /\ Len(isrs') = Len(isrs) + 1
        /\ \A i \in 1..Len(isrs) : isrs'[i] = isrs[i]
    BY <1>0, <2>1, SaveIs, IsrsApart DEF Kinds
  <2>5. \A i \in 1..Len(isrs) : ~Reports(i)
    BY <1>2, <2>2 DEF ContextInv, ReportInv, Reports
  <2>6. ReportInv'
    <3>1. \A i \in 1..Len(isrs') : isrs'[i] # Isr("exception")
      BY <2>2, <2>4, <2>5 DEF Reports
    <3> QED
      BY <3>1 DEF ReportInv, Reports
  <2>7. ServiceInv'
    BY <2>2, <2>4 DEF ContextInv, ServiceInv, HeapFault
  <2>8. FrameInv'
    BY <1>2 DEF FrameInv, HeapFault
  <2>9. CallInv' /\ SavedRight'
    BY DEF ContextInv, ContextTypes, CallInv, SavedRight, HeapFault
  <2> QED
    BY <2>3, <2>6, <2>7, <2>8, <2>9 DEF ContextInv
<1> QED
  BY <1>1, <1>2

LEMMA ExceptionKeeps == ASSUME ContextInv, Exception(13) PROVE ContextInv'
<1>1. ContextTypes /\ Save("exception") /\ "exception" \in Kinds /\ ~stopped
  BY DEF Exception, ContextInv, Kinds, Alive
<1>2. /\ isrs' # << >> /\ Len(isrs) \in Nat /\ Len(isrs') = Len(isrs) + 1
      /\ isrs'[Len(isrs')] = Isr("exception")
      /\ \A i \in 1..Len(isrs) : isrs'[i] = isrs[i]
  BY <1>1, SaveIs
<1>3. /\ servicing' = IF servicing = 13 THEN servicing ELSE 13
      /\ stopped' = (servicing = 13)
  BY <1>1 DEF Exception, FaultGuard, ContextTypes
<1>4. ContextTypes'
  BY <1>1, <1>3, SaveIs DEF Exception, ContextTypes
<1>5. ReportInv'
  <2>1. ASSUME NEW i \in 1..Len(isrs'), isrs'[i] = Isr("exception"), i # Len(isrs')
        PROVE  i = Len(isrs) /\ servicing = 13
    BY <1>1, <1>2, <2>1 DEF ContextInv, ReportInv, Reports
  <2>2. ~stopped' => servicing # 13 /\ servicing' = 13
    BY <1>3
  <2>3. \A i \in 1..Len(isrs') :
          isrs'[i] = Isr("exception") => i = Len(isrs') \/ (i = Len(isrs') - 1 /\ servicing = 13)
    BY <1>2, <2>1
  <2> QED
    BY <1>2, <2>2, <2>3 DEF ReportInv, Reports
<1>6. ServiceInv'
  BY <1>2 DEF ContextInv, ServiceInv, Exception
<1>7. FrameInv'
  BY <1>2 DEF FrameInv, Reports
<1>8. CallInv' /\ SavedRight'
  BY DEF ContextInv, CallInv, SavedRight, Exception
<1> QED
  BY <1>4, <1>5, <1>6, <1>7, <1>8 DEF ContextInv

LEMMA HaltKeeps == ASSUME ContextInv, Halt PROVE ContextInv'
<1>1. ContextTypes'
  BY DEF ContextInv, ContextTypes, Halt
<1>2. ReportInv' /\ ServiceInv' /\ FrameInv'
  BY DEF ContextInv, ReportInv, Reports, ServiceInv, FrameInv, Halt
<1>3. CallInv' /\ SavedRight'
  BY DEF ContextInv, CallInv, SavedRight, Halt
<1> QED
  BY <1>1, <1>2, <1>3 DEF ContextInv

LEMMA ReturnKeeps == ASSUME ContextInv, Return PROVE ContextInv'
<1>1. /\ ContextTypes /\ ~stopped /\ isrs \in Seq({0} \X Kinds) /\ isrs # << >>
      /\ isrs' = Outer(isrs)
  BY DEF Return, ContextInv, ContextTypes, Alive
<1>2. /\ isrs' \in Seq({0} \X Kinds) /\ Len(isrs') = Len(isrs) - 1 /\ Len(isrs) \in Nat \ {0}
      /\ \A i \in 1..(Len(isrs) - 1) : isrs'[i] = isrs[i]
      /\ Innermost(isrs) = isrs[Len(isrs)]
  BY <1>1, Popped
<1>3. PICK kind \in {"timer", "driver", "fault"} :
        isrs[Len(isrs)] = Isr(kind) /\ inservice' = inservice \ {kind}
  BY <1>2, IsrsApart DEF Return, Eoi
<1>4. \A i \in 1..Len(isrs) : ~Reports(i)
  BY <1>1, <1>2, <1>3, IsrsApart DEF ContextInv, ReportInv, Reports, Kinds
<1>5. ContextTypes'
  BY <1>1, <1>2, <1>3 DEF Return, Restore, ContextTypes, RegisterSets
<1>6. ReportInv'
  BY <1>2, <1>4 DEF ReportInv, Reports
<1>7. ServiceInv'
  <2> SUFFICES ASSUME NEW k \in inservice, k # kind
               PROVE  \E i \in 1..Len(isrs') : isrs'[i] = Isr(k)
    BY <1>3 DEF ServiceInv
  <2>1. PICK i \in 1..Len(isrs) : isrs[i] = Isr(k)
    BY DEF ContextInv, ServiceInv
  <2>2. i # Len(isrs)
    BY <2>1, <1>1, <1>3, IsrsApart DEF ContextTypes, Sources, Kinds
  <2> QED
    BY <1>2, <2>1, <2>2
<1>8. FrameInv'
  <2>1. CASE nested \/ overlapped
    BY <2>1 DEF FrameInv, Return
  <2>2. CASE ~nested /\ ~overlapped
    <3>1. Len(isrs) = 1 /\ ist = Innermost(code[current]) /\ sse_state = UserOf(current)
      <4>1. ~Reports(Len(isrs))
        BY <1>2, <1>4
      <4> QED
        BY <1>1, <2>2, <4>1, Zenon DEF ContextInv, FrameInv
    <3>2. isrs' = << >>
      BY <1>2, <3>1
    <3> QED
      BY <3>1, <3>2 DEF FrameInv, Return, Restore
  <2> QED
    BY <2>1, <2>2 DEF ContextInv, ContextTypes
<1>9. CallInv' /\ SavedRight'
  BY DEF ContextInv, CallInv, SavedRight, Return
<1> QED
  BY <1>5, <1>6, <1>7, <1>8, <1>9 DEF ContextInv

LEMMA sched_tickKeeps == ASSUME ContextInv, sched_tick PROVE ContextInv'
<1>1. /\ ContextTypes /\ ~stopped /\ Len(isrs) = 1 /\ isrs # << >> /\ isrs' = << >>
      /\ isrs[1] \in {Isr("timer"), Isr("yield")} /\ ~Reports(Len(isrs))
      /\ current' = NextThread
  <2>1. Isr("timer") # Isr("exception") /\ Isr("yield") # Isr("exception")
    BY IsrsApart DEF Kinds
  <2>2. /\ ContextTypes /\ ~stopped /\ Len(isrs) = 1 /\ isrs' = << >>
        /\ isrs[1] \in {Isr("timer"), Isr("yield")} /\ current' = NextThread
    BY Zenon DEF sched_tick, ContextInv, Alive
  <2>3. isrs # << >>
    BY <2>2
  <2>4. ~Reports(Len(isrs))
    BY <2>1, <2>2 DEF Reports
  <2> QED
    BY <2>2, <2>3, <2>4
<1>2. NextThread \in 1..Threads
  BY <1>1, ThreadsAssumption DEF ContextTypes, NextThread
<1>3. /\ tasks' \in [1..Threads -> RegisterSets] /\ tasks'[current] = Saved
      /\ \A t \in (1..Threads) \ {current} : tasks'[t] = tasks[t]
      /\ regs' = tasks'[NextThread] /\ sse_state' = tasks'[NextThread].fx
  BY <1>1, <1>2 DEF sched_tick, ContextTypes, RegisterSets, Saved
<1>4. inservice' = {}
  <2>1. CASE isrs[1] = Isr("timer")
    <3>1. inservice \subseteq {"timer"}
      BY <1>1, <2>1, IsrsApart DEF ContextInv, ContextTypes, ServiceInv, Sources, Kinds
    <3> QED
      BY <2>1, <3>1, IsrsApart DEF sched_tick, SwitchEoi, Eoi
  <2>2. CASE isrs[1] = Isr("yield")
    <3>1. inservice = {}
      BY <1>1, <2>2, IsrsApart DEF ContextInv, ContextTypes, ServiceInv, Sources, Kinds
    <3> QED
      BY <2>2, <3>1, IsrsApart DEF sched_tick, SwitchEoi
  <2> QED
    BY <1>1, <2>1, <2>2
<1>5. ContextTypes'
  BY <1>1, <1>2, <1>3, <1>4 DEF sched_tick, ContextTypes, RegisterSets
<1>6. ReportInv' /\ ServiceInv'
  BY <1>1, <1>4 DEF ReportInv, ServiceInv
<1>7. ASSUME ~nested, ~overlapped, NEW t \in 1..Threads
      PROVE  tasks'[t] = [gp |-> Innermost(code[t]), fx |-> UserOf(t)]
  <2>1. ist = Innermost(code[current]) /\ sse_state = UserOf(current)
    BY <1>1, <1>7 DEF ContextInv, FrameInv
  <2> QED
    BY <1>3, <1>7, <2>1 DEF ContextInv, SavedRight, Saved
<1>8. FrameInv' /\ SavedRight'
  BY <1>1, <1>2, <1>3, <1>7 DEF FrameInv, SavedRight, sched_tick
<1>9. CallInv'
  BY DEF ContextInv, CallInv, sched_tick
<1> QED
  BY <1>5, <1>6, <1>8, <1>9 DEF ContextInv

LEMMA on_syscallKeeps == ASSUME ContextInv, on_syscall PROVE ContextInv'
<1>1. /\ ContextTypes /\ isrs = << >> /\ current \in 1..Threads
      /\ code[current] = <<UserOf(current)>> /\ regs.gp = UserOf(current)
      /\ Append(code[current], CallOf(current)) = <<UserOf(current), CallOf(current)>>
  <2>1. ContextTypes /\ current \in 1..Threads /\ code[current] = <<UserOf(current)>>
    BY DEF ContextInv, ContextTypes, on_syscall
  <2>2. Len(<<UserOf(current)>>) = 1 /\ Len(<<UserOf(current), CallOf(current)>>) = 2
    OBVIOUS
  <2> QED
    BY <2>1, <2>2, CodeIs DEF on_syscall, Alive, Executing
<1>2. /\ DOMAIN code' = 1..Threads /\ code' = [t \in 1..Threads |-> code'[t]]
      /\ code'[current] = <<UserOf(current), CallOf(current)>>
      /\ \A t \in (1..Threads) \ {current} : code'[t] = code[t]
  BY <1>1 DEF ContextTypes, on_syscall
<1>3. regs' = [gp |-> CallOf(current), fx |-> regs.fx] /\ regs' \in RegisterSets
  BY <1>1, ContentsApart DEF ContextTypes, RegisterSets, on_syscall
<1>4. ContextTypes'
  BY <1>1, <1>2, <1>3, ContentsApart DEF on_syscall, ContextTypes
<1>5. ReportInv' /\ ServiceInv'
  BY DEF ContextInv, ReportInv, Reports, ServiceInv, on_syscall
<1>6. Innermost(code'[current]) = CallOf(current)
  BY <1>2 DEF Innermost
<1>7. FrameInv'
  <2>1. isrs' = << >> /\ UNCHANGED <<current, nested, stopped>> /\ (overlapped => overlapped')
    BY <1>1 DEF on_syscall
  <2>2. ~nested /\ ~overlapped /\ ~stopped => regs.fx = UserOf(current)
    <3>1. isrs = << >> /\ FrameInv
      BY <1>1 DEF ContextInv
    <3>2. ~nested /\ ~overlapped /\ ~stopped =>
              regs = [gp |-> Innermost(code[current]), fx |-> UserOf(current)]
      BY <3>1, Zenon DEF FrameInv
    <3> QED
      BY <3>2
  <2> QED
    BY <1>3, <1>6, <2>1, <2>2 DEF FrameInv
<1>8. CallInv'
  BY <1>1, <1>2 DEF CallInv, on_syscall
<1>9. SavedRight'
  BY <1>2 DEF ContextInv, ContextTypes, SavedRight, on_syscall
<1> QED
  BY <1>4, <1>5, <1>7, <1>8, <1>9 DEF ContextInv

LEMMA sysretKeeps == ASSUME ContextInv, sysret PROVE ContextInv'
<1>1. /\ ContextTypes /\ isrs = << >> /\ current \in 1..Threads
      /\ Len(code[current]) = 2 /\ Outer(code[current]) = <<UserOf(current)>>
  <2>1. ContextTypes /\ current \in 1..Threads /\ Len(code[current]) = 2 /\ isrs = << >>
    BY DEF ContextInv, ContextTypes, sysret
  <2> QED
    BY <2>1, CodeIs
<1>2. /\ DOMAIN code' = 1..Threads /\ code' = [t \in 1..Threads |-> code'[t]]
      /\ code'[current] = <<UserOf(current)>>
      /\ \A t \in (1..Threads) \ {current} : code'[t] = code[t]
  BY <1>1 DEF ContextTypes, sysret
<1>3. /\ regs' = [gp |-> IF ursp = kframe THEN kframe ELSE Isr("mixed"), fx |-> regs.fx]
      /\ regs' \in RegisterSets
  BY <1>1, IsrsApart DEF ContextTypes, RegisterSets, sysret
<1>4. ContextTypes'
  BY <1>1, <1>2, <1>3 DEF sysret, ContextTypes
<1>5. ReportInv' /\ ServiceInv'
  BY DEF ContextInv, ReportInv, Reports, ServiceInv, sysret
<1>6. Innermost(code'[current]) = UserOf(current) /\ Len(code'[current]) = 1
  BY <1>2 DEF Innermost
<1>7. ~overlapped => ursp = UserOf(current) /\ kframe = UserOf(current)
  BY <1>1 DEF ContextInv, CallInv
<1>8. FrameInv'
  BY <1>1, <1>3, <1>6, <1>7 DEF ContextInv, FrameInv, sysret, ContextTypes
<1>9. CallInv' /\ SavedRight'
  BY <1>1, <1>2, <1>6 DEF ContextInv, ContextTypes, CallInv, SavedRight, sysret
<1> QED
  BY <1>4, <1>5, <1>8, <1>9 DEF ContextInv

LEMMA InitInv == ContextInit => ContextInv
<1> SUFFICES ASSUME ContextInit PROVE ContextInv
  OBVIOUS
<1>1. 1 \in 1..Threads
  BY ThreadsAssumption
<1>2. /\ \A t \in 1..Threads : code[t] = <<UserOf(t)>> /\ Len(code[t]) = 1
      /\ \A t \in 1..Threads : Innermost(code[t]) = UserOf(t)
  BY DEF ContextInit, Innermost
<1>3. ContextTypes
  <2>1. /\ regs \in RegisterSets /\ ist \in Contents /\ sse_state \in Contents
        /\ ursp \in Contents /\ kframe \in Contents
    BY <1>1, ContentsApart, IsrsApart DEF ContextInit, RegisterSets
  <2>2. tasks \in [1..Threads -> RegisterSets]
    BY ContentsApart DEF ContextInit, RegisterSets
  <2>3. code = [t \in 1..Threads |-> code[t]] /\ DOMAIN code = 1..Threads
    BY DEF ContextInit
  <2>4. /\ isrs \in Seq({0} \X Kinds) /\ inservice \subseteq Sources /\ servicing = 0
        /\ current \in 1..Threads
    BY <1>1 DEF ContextInit
  <2>5. stopped \in BOOLEAN /\ nested \in BOOLEAN /\ overlapped \in BOOLEAN
    BY DEF ContextInit
  <2> QED
    BY <1>2, <2>1, <2>2, <2>3, <2>4, <2>5 DEF ContextTypes
<1>4. ReportInv /\ ServiceInv /\ FrameInv /\ CallInv /\ SavedRight
  BY <1>1, <1>2 DEF ContextInit, ReportInv, ServiceInv, FrameInv, CallInv, SavedRight
<1> QED
  BY <1>3, <1>4 DEF ContextInv

LEMMA StepInv == ContextInv /\ [ContextNext]_contextvars => ContextInv'
<1> SUFFICES ASSUME ContextInv, [ContextNext]_contextvars PROVE ContextInv'
  OBVIOUS
<1>1. CASE Interrupt("timer") \/ Interrupt("driver")
  BY <1>1, InterruptKeeps DEF Sources
<1>2. CASE Yield
  <2>1. "yield" \in Kinds \ {"exception"}
    BY DEF Kinds
  <2> QED
    BY <1>2, <2>1, EnterKeeps DEF Yield, ContextInv, ContextTypes
<1>3. CASE HeapFault \/ Exception(13) \/ Halt \/ Return \/ sched_tick \/ on_syscall \/ sysret
  BY <1>3, HeapFaultKeeps, ExceptionKeeps, HaltKeeps, ReturnKeeps, sched_tickKeeps,
     on_syscallKeeps, sysretKeeps
<1>4. CASE UNCHANGED contextvars
  <2>1. ContextTypes'
    BY <1>4 DEF contextvars, ContextInv, ContextTypes
  <2>2. ReportInv' /\ ServiceInv' /\ FrameInv'
    BY <1>4 DEF contextvars, ContextInv, ReportInv, Reports, ServiceInv, FrameInv
  <2>3. CallInv' /\ SavedRight'
    BY <1>4 DEF contextvars, ContextInv, CallInv, SavedRight
  <2> QED
    BY <2>1, <2>2, <2>3 DEF ContextInv
<1> QED
  BY <1>1, <1>2, <1>3, <1>4 DEF ContextNext

-----------------------------------------------------------------------------
(* The theorems *)

LEMMA InvAlways == ContextSpec => []ContextInv
BY InitInv, StepInv, PTL DEF ContextSpec

\* Code that an interrupt, a switch or a system call took the CPU from gets its own
\* registers back, from the one interrupt frame, the one SSE area and the one
\* system call stack, unless a page fault hit a handler or two calls overlapped;
\* and an exception in onInterrupt's report stops the machine.
THEOREM ContextIsKept == ContextSpec => []ContextKept
<1>1. ContextInv => RegistersKept /\ SavedRight
  BY DEF ContextInv, FrameInv, RegistersKept, Executing
<1>2. ContextInv => ReportOnce
  <2> SUFFICES ASSUME ContextInv, NEW i \in DOMAIN isrs, NEW j \in DOMAIN isrs,
                      NEW k \in DOMAIN isrs, i < j, j < k, Reports(i)
               PROVE  FALSE
    BY DEF ReportOnce, Reports
  <2>1. isrs \in Seq({0} \X Kinds) /\ \A n \in 1..Len(isrs) : Reports(n) => n >= Len(isrs) - 1
    BY DEF ContextInv, ContextTypes, ReportInv
  <2> QED
    BY <2>1
<1> QED
  BY InvAlways, <1>1, <1>2, PTL DEF ContextKept

\* When no handler runs, the local APIC waits for the end of no interrupt: every
\* path out of onInterrupt, also the one through sched_tick that does not come
\* back, has acknowledged what it serviced.
THEOREM TimerAlwaysGoesOn == ContextSpec => []TimerGoesOn
<1>1. ContextInv => TimerGoesOn
  BY DEF ContextInv, ServiceInv, TimerGoesOn
<1> QED
  BY InvAlways, <1>1, PTL
=============================================================================
