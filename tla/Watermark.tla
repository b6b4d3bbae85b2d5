----------------------------- MODULE Watermark -----------------------------
(***************************************************************************)
(* The watermark allocator (wm_alloc, kernel/src/mm/vmm.cc), from which    *)
(* page tables and other early structures come.  Nothing is ever returned  *)
(* to it.  Several contexts call it under wm_mutex.                        *)
(***************************************************************************)
EXTENDS Bitmap, Sequences

CONSTANTS Callers,   \* contexts that call wm_alloc
          Base,      \* wm_cursor as pmm_init sets it
          WM_SIZE,   \* size of the area
          Grain,     \* sizes are rounded up to this (16)
          Requests,  \* the (size, align) pairs of the callers
          NoOne      \* wm_mutex when it is free

ASSUME BaseAssumption == Base \in Nat
ASSUME WMSizeAssumption == WM_SIZE \in Nat
ASSUME GrainAssumption == Grain \in Nat \ {0}
ASSUME RequestsAssumption == Requests \subseteq (Nat \ {0}) \X Nat
ASSUME NoOneAssumption == NoOne \notin Callers

VARIABLES wm_cursor, wm_free,
          wm_mutex,  \* its owner
          pc,        \* where each caller is
          req,       \* the (size, align) pair each caller passed
          alignfix,  \* local variable of each caller
          ptr,       \* p of each caller
          halted,    \* fatal() was reached
          grants     \* the blocks returned, in order (history)

locals == <<req, alignfix, ptr>>
vars == <<wm_cursor, wm_free, wm_mutex, pc, locals, halted, grants>>

Larger(a, b) == IF a > b THEN a ELSE b
Size(c) == AlignUp(req[c][1], Grain)
Align(c) == Larger(Size(c), req[c][2])
Block(c) == [p |-> ptr[c], size |-> Size(c), align |-> Align(c)]

NoRequest == <<0, 0>>

Init ==
    /\ wm_cursor = Base /\ wm_free = WM_SIZE
    /\ wm_mutex = NoOne
    /\ pc = [c \in Callers |-> "idle"]
    /\ req = [c \in Callers |-> NoRequest]
    /\ alignfix = [c \in Callers |-> 0]
    /\ ptr = [c \in Callers |-> 0]
    /\ halted = FALSE
    /\ grants = <<>>

Call(c, rq) ==
    /\ ~halted /\ pc[c] = "idle"
    /\ req' = [req EXCEPT ![c] = rq]
    /\ pc' = [pc EXCEPT ![c] = "want"]
    /\ UNCHANGED <<wm_cursor, wm_free, wm_mutex, alignfix, ptr, halted, grants>>

\* A slip in wm_alloc: the lock is not waited for.
LockNotExclusive(c) ==
    /\ ~halted /\ pc[c] = "want"
    /\ wm_mutex' = c
    /\ pc' = [pc EXCEPT ![c] = "locked"]
    /\ UNCHANGED <<wm_cursor, wm_free, locals, halted, grants>>

Lock(c) ==
    /\ ~halted /\ pc[c] = "want"
    /\ wm_mutex = NoOne
    /\ wm_mutex' = c
    /\ pc' = [pc EXCEPT ![c] = "locked"]
    /\ UNCHANGED <<wm_cursor, wm_free, locals, halted, grants>>

\* The distance to the next multiple of the alignment.
Measure(c) ==
    /\ ~halted /\ pc[c] = "locked"
    /\ alignfix' = [alignfix EXCEPT ![c] = AlignUp(wm_cursor, Align(c)) - wm_cursor]
    /\ pc' = [pc EXCEPT ![c] = "measured"]
    /\ UNCHANGED <<wm_cursor, wm_free, wm_mutex, req, ptr, halted, grants>>

\* The cursor moves past the block before it is known whether there is room.
Advance(c) ==
    /\ ~halted /\ pc[c] = "measured"
    /\ ptr' = [ptr EXCEPT ![c] = wm_cursor + alignfix[c]]
    /\ wm_cursor' = wm_cursor + alignfix[c] + Size(c)
    /\ pc' = [pc EXCEPT ![c] = "advanced"]
    /\ UNCHANGED <<wm_free, wm_mutex, req, alignfix, halted, grants>>

\* The block is the caller's, or the kernel stops.
Charge(c) ==
    /\ ~halted /\ pc[c] = "advanced"
    /\ IF wm_free < Size(c) + alignfix[c]
       THEN halted' = TRUE /\ UNCHANGED <<wm_free, grants, pc>>
       ELSE /\ wm_free' = wm_free - (Size(c) + alignfix[c])
            /\ grants' = Append(grants, Block(c))
            /\ pc' = [pc EXCEPT ![c] = "charged"]
            /\ UNCHANGED halted
    /\ UNCHANGED <<wm_cursor, wm_mutex, locals>>

Unlock(c) ==
    /\ ~halted /\ pc[c] = "charged"
    /\ wm_mutex' = NoOne
    /\ pc' = [pc EXCEPT ![c] = "idle"]
    /\ req' = [req EXCEPT ![c] = NoRequest]
    /\ alignfix' = [alignfix EXCEPT ![c] = 0]
    /\ ptr' = [ptr EXCEPT ![c] = 0]
    /\ UNCHANGED <<wm_cursor, wm_free, halted, grants>>

Step(c) == Lock(c) \/ Measure(c) \/ Advance(c) \/ Charge(c) \/ Unlock(c)

Next ==
    \/ \E c \in Callers, rq \in Requests : Call(c, rq)
    \/ \E c \in Callers : Step(c)

Spec == Init /\ [][Next]_vars

-----------------------------------------------------------------------------
(* Properties *)

Blocks == [p : Nat, size : Nat, align : Nat]
Bytes(g) == g.p..(g.p + g.size - 1)

\* The variables have their types; wm_free does not wrap below zero.
TypeOK ==
    /\ wm_cursor \in Nat /\ wm_free \in 0..WM_SIZE
    /\ wm_mutex \in Callers \cup {NoOne}
    /\ pc \in [Callers -> {"idle", "want", "locked", "measured", "advanced", "charged"}]
    /\ req \in [Callers -> Requests \cup {NoRequest}]
    /\ alignfix \in [Callers -> Nat] /\ ptr \in [Callers -> Nat]
    /\ halted \in BOOLEAN
    /\ grants \in Seq(Blocks)

\* The blocks that wm_alloc returned do not overlap, lie inside the watermark
\* area that pmm_init took out of the bitmap, and start at a multiple of their
\* alignment, for any callers in any order.
BlocksApart ==
    \A a \in 1..Len(grants) :
        /\ grants[a].size > 0 /\ grants[a].p % grants[a].align = 0
        /\ Bytes(grants[a]) \subseteq Base..(Base + WM_SIZE - 1)
        /\ \A b \in 1..Len(grants) :
               a # b => Bytes(grants[a]) \cap Bytes(grants[b]) = {}

\* Whenever nobody is inside wm_alloc, cursor and remaining bytes add up to the
\* end of the area: no byte is lost or counted twice.
Conserved == wm_mutex = NoOne => wm_cursor + wm_free = Base + WM_SIZE

\* The watermark area is divided without overlap and without loss; in
\* particular wm_free never wraps.
AreaSound == TypeOK /\ BlocksApart /\ Conserved
=============================================================================
