------------------------------- MODULE MCPci --------------------------------
(* Machines for Pci: bridges behind bridges, devices of several functions, *)
(* two roots, and AHCI and EHCI controllers with the bars and capabilities *)
(* they come with.                                                         *)
EXTENDS Pci, TLC

Fn(class, sub, hdr, secondary, fnbars, fncaps) ==
  [class |-> class, sub |-> sub, hdr |-> hdr, primary |-> 0,
   secondary |-> secondary, bars |-> fnbars, caps |-> fncaps]
Host == Fn(6, 0, 128, 0, {}, << >>)
Bridged(secondary, multi) == Fn(6, 4, IF multi THEN 129 ELSE 1, secondary, {}, << >>)
Cap(at, id, wide, masks) == [at |-> at, id |-> id, wide |-> wide, masks |-> masks]

BarSet(n) ==
  {[n |-> n, kind |-> "mem", pre |-> p, addr |-> {31, 14}, k |-> k] :
     p \in BOOLEAN, k \in {8, 12, 13, 14}}
    \cup {[n |-> n, kind |-> "mem64", pre |-> TRUE, addr |-> a, k |-> 13] :
            a \in {{31, 13}, {36, 20}}}
    \cup {[n |-> n, kind |-> "io", pre |-> FALSE, addr |-> {14}, k |-> 5]}
CapSet ==
  {<< >>} \cup {<<Cap(64, 1, FALSE, FALSE), Cap(80, 5, w, m),
                    Cap(IF m THEN 104 ELSE 96, 17, FALSE, FALSE)>> :
                  w \in BOOLEAN, m \in BOOLEAN}
    \cup {<<Cap(64, 1, FALSE, FALSE)>>, <<Cap(64, 17, FALSE, FALSE), Cap(80, 5, TRUE, TRUE)>>}

Ahci(b, c) == Fn(1, 6, 0, 0, {b}, c)
Ehci(b) == Fn(12, 3, 128, 0, {b}, <<Cap(80, 5, TRUE, FALSE)>>)

MCMachines ==
  {(<<0, 0, 0>> :> Host) @@ (<<0, 1, 0>> :> Ahci(b, c)) @@ (<<0, 1, 1>> :> Ehci(e)) :
     b \in BarSet(5), c \in CapSet, e \in BarSet(0)}
    \cup
  {(<<0, 0, 0>> :> Host) @@ (<<0, 1, 0>> :> Bridged(1, m)) @@ (<<0, 1, 1>> :> Bridged(2, TRUE))
     @@ (<<1, 0, 0>> :> Bridged(3, FALSE)) @@ (<<3, 1, 1>> :> Ehci(e)) @@ (<<2, 0, 1>> :> Ehci(e)) :
     m \in BOOLEAN, e \in {b \in BarSet(0) : b.k = 13}}
    \cup
  {(<<0, 0, 0>> :> Host) @@ (<<0, 0, 1>> :> Host) @@ (<<0, 1, 0>> :> Bridged(2, FALSE))
     @@ (<<1, 1, 0>> :> Ahci(b, << >>)) @@ (<<2, 0, 0>> :> Fn(6, 1, 2, 0, {}, << >>)) :
     b \in BarSet(5)}
=============================================================================
