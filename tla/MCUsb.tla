-------------------------------- MODULE MCUsb --------------------------------
(* Usb for TLC: a hub with a slow hub below it, two devices on the root ports,  *)
(* and devices that stop the enumeration.                                       *)
EXTENDS Usb, TLC

Simple(len) == [len |-> len, str |-> 0, ints |-> <<0>>]
HubConfig == [len |-> 4, str |-> 0, ints |-> <<9>>]
Dev(hc, up, loc, speed, mps, class, ports, strings, configs) ==
    [hc |-> hc, up |-> up, loc |-> loc, speed |-> speed, mps |-> mps, class |-> class, subclass |-> 0,
     ports |-> ports, strings |-> strings, configs |-> configs]

Deep == << Dev(1, 0, 1, "HS", 8, 9, 2, <<0, 1, 0>>, <<HubConfig>>),
           Dev(1, 1, 1, "FS", 8, 9, 2, <<0, 0, 0>>, <<[len |-> 4, str |-> 1, ints |-> <<0, 0>>]>>),
           Dev(1, 2, 2, "FS", 2, 0, 0, <<1, 0, 1>>, <<Simple(4)>>),
           Dev(2, 0, 2, "HS", 8, 0, 0, <<1, 1, 1>>, <<Simple(4), Simple(3)>>) >>
Pair == << Dev(1, 0, 1, "HS", 8, 0, 0, <<0, 0, 0>>, <<Simple(4)>>),
           Dev(1, 0, 2, "HS", 4, 0, 0, <<0, 0, 0>>, <<Simple(4)>>),
           Dev(2, 0, 1, "FS", 4, 0, 0, <<0, 0, 0>>, <<Simple(4)>>) >>
Stopping == << Dev(1, 0, 1, "HS", 8, 9, 2, <<0, 0, 0>>, <<HubConfig>>),
               Dev(1, 1, 1, "FS", 1, 0, 0, <<1, 1, 1>>, <<Simple(4)>>),
               Dev(1, 1, 2, "LS", 1, 3, 0, <<0, 0, 0>>, <<Simple(4)>>),
               Dev(2, 0, 1, "HS", 3, 3, 0, <<0, 0, 0>>, <<Simple(4)>>) >>
Odd == << Dev(1, 0, 1, "HS", 3, 0, 0, <<0, 0, 0>>, <<Simple(4)>>) >>
Mouse == << Dev(1, 0, 1, "HS", 8, 0, 0, <<0, 0, 0>>, <<[len |-> 4, str |-> 0, ints |-> <<3>>]>>) >>
MCTrees == {Deep, Pair, Stopping, Odd, Mouse}
=============================================================================
