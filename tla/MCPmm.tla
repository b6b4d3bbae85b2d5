------------------------------- MODULE MCPmm -------------------------------
(***************************************************************************)
(* Memory maps for model-checking Pmm: pages of 4 bytes, bitmap words of 4 *)
(* bits, a watermark area of one page.                                     *)
(***************************************************************************)
EXTENDS Pmm, TLC

CallerSymmetry == Permutations(Callers)

Entry(base, length, type) == [base |-> base, length |-> length, type |-> type]

\* The first entry hosts the bitmap; the marking runs over its end.
LowHost == <<Entry(0, 2, "usable"), Entry(2, 1, "other"), Entry(3, 2, "usable"),
             Entry(5, 4, "reserved"), Entry(9, 3, "usable"), Entry(15, 1, "reserved")>>

\* The first usable entry is too small; all memory is below the line.
SecondHost == <<Entry(0, 1, "usable"), Entry(1, 1, "other"), Entry(2, 6, "usable"),
                Entry(8, 2, "reserved")>>

\* The last page does not fill a bitmap word.
Ragged == <<Entry(0, 6, "usable"), Entry(6, 1, "reserved"), Entry(7, 4, "usable")>>

\* No entry has room for the watermark area and the bitmap.
NoRoom == <<Entry(0, 1, "usable"), Entry(1, 7, "other"), Entry(8, 1, "usable")>>

MCMMaps == {LowHost, SecondHost, Ragged, NoRoom}
=============================================================================
