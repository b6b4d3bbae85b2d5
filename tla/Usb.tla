--------------------------------- MODULE Usb ---------------------------------
(***************************************************************************)
(* The EHCI driver (modules/ehci) and the enumeration of USB devices       *)
(* (devmgr/usb: usb.cc, hub.cc, hid.cc) on a bus of controllers, hubs and  *)
(* devices.                                                                *)
(*                                                                         *)
(* The driver is one thread of control with a stack of calls (usb_init,    *)
(* usb_hub_init, usb_hub_send_reset, usb_get_string); the frame on top     *)
(* runs whenever no transfer is under way.  A controller walks its ring of *)
(* queue heads on its own and may be as slow as it likes, which is also    *)
(* how a transfer that was halted looks to the driver.  Descriptors are    *)
(* counted in units of 8 bytes; a buffer tells for each unit which unit of *)
(* the descriptor it holds, 0 if none.                                     *)
(***************************************************************************)
EXTENDS Bitmap, Sequences, FiniteSets

CONSTANTS
    Trees,      \* what may be plugged in: functions from devices 1..n to
                \* [hc, up, loc, speed, mps, class, subclass, ports, strings, configs];
                \* up is the hub above, 0 on a root port; configs is a sequence of
                \* [len, str, ints], ints the classes of the interfaces
    Controllers, RootPorts,     \* 1..n each
    Addresses,  \* bits of the bitmap of addresses (128)
    Tries       \* polls of a port that is being reset (5)

VARIABLES
    tree, plugged,      \* what is plugged in; address and state of every device of it
    hcs,                \* the controllers: their ring and address bitmap
    context,            \* the controller the driver works on
    usbdevs,            \* the Devices of the subsystem USB
    stack, xfer,        \* the calls, and the transfer under way
    nextdev,            \* the next Device of a root port to be initialised
    usbpc,              \* "boot", "run", "fatal", "paused"
    garbled             \* history: a status stage failed, two devices answered at
                        \* once or the addresses ran out

usbvars == <<tree, plugged, hcs, context, usbdevs, stack, xfer, nextdev, usbpc, garbled>>

Smaller(a, b) == IF a < b THEN a ELSE b
Larger(a, b) == IF a < b THEN b ELSE a
NoXfer == [at |-> "none"]
Here == Len(stack)
Top == stack[Here]
Me == usbdevs[Top.dev]
CallFrame(k, at) == [dev |-> k, at |-> at, i |-> 0, j |-> 0, wlen |-> 0, addr |-> 0,
                 desc |-> <<0, 0, 0>>, conf |-> <<0, 0, 0, 0>>]
ResetFrame(hub, port) == [CallFrame(hub, "setfeat") EXCEPT !.i = port]
Goto(label) == [stack EXCEPT ![Here].at = label]
Call(label, frame) == Append(Goto(label), frame)
Returned == SubSeq(stack, 1, Here - 1)

-----------------------------------------------------------------------------
(***************************************************************************)
(* The bus (external): the hubs above a device; a reset, which gives the   *)
(* device address 0 and cuts off what is below it; the hub that translates *)
(* for a slow device; who answers what a queue head asks for.              *)
(***************************************************************************)
Plugs == DOMAIN tree
Above[d \in Plugs] == IF tree[d].up = 0 THEN {} ELSE {tree[d].up} \cup Above[tree[d].up]
PlugsAt(c, up, loc) == {d \in Plugs : tree[d].hc = c /\ tree[d].up = up /\ tree[d].loc = loc}

BusReset(d) == [e \in Plugs |-> IF e = d THEN [addr |-> 0, enabled |-> TRUE]
                               ELSE [plugged[e] EXCEPT !.enabled = @ /\ d \notin Above[e]]]

Translator[d \in Plugs] ==
    IF tree[tree[d].up].speed = "HS" THEN [hub |-> plugged[tree[d].up].addr, port |-> tree[d].loc]
    ELSE Translator[tree[d].up]

Answering(c, qh) ==
    {d \in Plugs : /\ tree[d].hc = c /\ plugged[d].enabled /\ plugged[d].addr = qh.addr
                   /\ tree[d].speed = qh.speed
                   /\ tree[d].speed # "HS" => [hub |-> qh.hub, port |-> qh.port] = Translator[d]}

-----------------------------------------------------------------------------
(***************************************************************************)
(* ehci_send.  The transfer is built, its queue head goes into the ring    *)
(* behind the head with two writes, and the driver waits for its status    *)
(* stage for 500 ms.  Queue heads stay in the ring for ever: links[q] is   *)
(* where queue head q points to, 1 is the head, 0 is no link.              *)
(***************************************************************************)

\* The data stages: as many as the length needs, but the last of several is
\* linked by nobody.
Stages(len, mps) == IF len = 0 THEN 0 ELSE AlignUp(Larger(len, mps), mps) \div mps
LinkedTds(n) == IF n <= 1 THEN n ELSE n - 1

\* Mutant of TransactionHub: the hub the device is plugged into.
TransactionHub_Parent(k) == [addr |-> usbdevs[usbdevs[k].up].addr, port |-> usbdevs[k].loc]

\* The search upstream for a high speed hub.
TransactionHub(k) ==
    LET hub[l \in DOMAIN usbdevs] ==
          LET up == usbdevs[l].up IN
          IF usbdevs[up].up # 0 /\ usbdevs[up].speed # "HS" THEN hub[up]
          ELSE [addr |-> usbdevs[up].addr, port |-> usbdevs[l].loc]
    IN  hub[k]

ehci_qh(k) ==
    LET d == usbdevs[k]
        split == d.up # 0 /\ d.speed # "HS"
        tt == TransactionHub(k)
    IN  [addr |-> d.addr % Addresses, speed |-> IF split THEN d.speed ELSE "HS", mps |-> d.mps,
         hub |-> IF split THEN tt.addr % Addresses ELSE 0, port |-> IF split THEN tt.port ELSE 0]

\* Sends a request for len units to device k; the caller goes on at then.
UsbSend(k, kind, arg, len, st) ==
    /\ context' = usbdevs[k].hc
    /\ xfer' = [at |-> "link", hc |-> usbdevs[k].hc, dev |-> k, kind |-> kind, arg |-> arg, len |-> len,
                tds |-> LinkedTds(Stages(len, usbdevs[k].mps)), sent |-> 0, qh |-> ehci_qh(k),
                id |-> Len(hcs[usbdevs[k].hc].links) + 1, target |-> 0]
    /\ hcs' = [hcs EXCEPT ![usbdevs[k].hc].links = Append(@, 0)]
    /\ stack' = st
    /\ UNCHANGED <<tree, plugged, usbdevs, nextdev, usbpc, garbled>>

Sending == UNCHANGED <<tree, usbdevs, context, stack, nextdev, usbpc>>

\* Mutant of insert_qh: the head points to the queue head before that points on.
insert_qh_Swapped ==
    /\ xfer.at \in {"link", "head"}
    /\ IF xfer.at = "link"
       THEN /\ hcs' = [hcs EXCEPT ![context].links[1] = xfer.id]
            /\ xfer' = [xfer EXCEPT !.at = "head", !.sent = hcs[context].links[1]]
       ELSE /\ hcs' = [hcs EXCEPT ![context].links[xfer.id] = xfer.sent]
            /\ xfer' = [xfer EXCEPT !.at = "setup", !.sent = 0]
    /\ UNCHANGED <<plugged, garbled>> /\ Sending

\* insert_qh: first the new queue head points on, then the head to it.
insert_qh ==
    /\ xfer.at \in {"link", "head"}
    /\ IF xfer.at = "link"
       THEN /\ hcs' = [hcs EXCEPT ![context].links[xfer.id] = hcs[context].links[1]]
            /\ xfer' = [xfer EXCEPT !.at = "head"]
       ELSE hcs' = [hcs EXCEPT ![context].links[1] = xfer.id] /\ xfer' = [xfer EXCEPT !.at = "setup"]
    /\ UNCHANGED <<plugged, garbled>> /\ Sending

\* What the controller meets on its way around the ring.
RingWalk(links) ==
    LET at[n \in 0..Len(links)] ==
            IF n = 0 THEN 1 ELSE LET q == at[n - 1] IN IF q = 0 THEN 0 ELSE links[q]
    IN  {at[n] : n \in 0..Len(links)}

\* The setup stage: some device answers (external).
Setup ==
    /\ xfer.at = "setup" /\ xfer.id \in RingWalk(hcs[xfer.hc].links)
    /\ LET who == Answering(xfer.hc, xfer.qh)
       IN  \E d \in who :
             /\ xfer.kind = "config" => xfer.arg \in DOMAIN tree[d].configs
             /\ xfer' = [xfer EXCEPT !.at = IF xfer.tds = 0 THEN "status" ELSE "data", !.target = d]
             /\ garbled' = (garbled \/ Cardinality(who) > 1)
    /\ UNCHANGED <<plugged, hcs>> /\ Sending

\* A data stage (external): the next packet of the descriptor goes to the start
\* of the buffer; a short one ends the data.
DescriptorLen(d) ==
    CASE xfer.kind = "device" -> 3
      [] xfer.kind = "config" -> tree[d].configs[xfer.arg].len
      [] OTHER -> xfer.len

Tag(config) == 100 * config
Packet(buf, n, from) == [u \in DOMAIN buf |-> IF u <= n THEN from + u ELSE buf[u]]

DataStage ==
    /\ xfer.at = "data"
    /\ LET bytes == Smaller(xfer.len, xfer.qh.mps)
           rest == Smaller(DescriptorLen(xfer.target), xfer.len) - xfer.sent
           n == Smaller(rest, tree[xfer.target].mps)
       IN  /\ stack' = CASE xfer.kind = "device" ->
                              [stack EXCEPT ![Here].desc = Packet(@, n, xfer.sent)]
                         [] xfer.kind = "config" ->
                              [stack EXCEPT ![Here].conf = Packet(@, n, Tag(xfer.arg) + xfer.sent)]
                         [] OTHER -> stack
           /\ xfer' = [xfer EXCEPT !.sent = @ + n, !.tds = @ - 1,
                                   !.at = IF n < bytes \/ xfer.tds = 1 THEN "status" ELSE "data"]
    /\ UNCHANGED <<tree, plugged, hcs, context, usbdevs, nextdev, usbpc, garbled>>

\* The status stage (external) may fail.  With it a device takes its address and
\* a hub resets a port.
Status ==
    /\ xfer.at = "status"
    /\ xfer' = [xfer EXCEPT !.at = "done"]
    /\ \E ok \in BOOLEAN :
         /\ garbled' = (garbled \/ ~ok)
         /\ plugged' = [d \in Plugs |->
              IF ok /\ xfer.kind = "SET_ADDRESS" /\ d = xfer.target
              THEN [plugged[d] EXCEPT !.addr = xfer.arg % Addresses]
              ELSE IF xfer.kind = "PORT_RESET" /\ d \in PlugsAt(xfer.hc, xfer.target, xfer.arg)
              THEN [plugged[d] EXCEPT !.enabled = FALSE] ELSE plugged[d]]
    /\ UNCHANGED hcs /\ Sending

\* The end of the wait: the status stage is over (an error in it is printed),
\* or it is not after 500 ms, and the kernel stops.
ehci_send_Done ==
    /\ xfer.at = "done"
    /\ xfer' = NoXfer
    /\ UNCHANGED <<plugged, hcs, garbled>> /\ Sending

\* Mutant of ehci_send_Timeout: the wait has no limit once the setup went out.
ehci_send_Timeout_Never ==
    /\ xfer.at = "setup"
    /\ usbpc' = "paused" /\ xfer' = NoXfer
    /\ UNCHANGED <<tree, plugged, hcs, context, usbdevs, stack, nextdev, garbled>>

ehci_send_Timeout ==
    /\ xfer.at \in {"setup", "data", "status"}
    /\ usbpc' = "paused" /\ xfer' = NoXfer
    /\ UNCHANGED <<tree, plugged, hcs, context, usbdevs, stack, nextdev, garbled>>

-----------------------------------------------------------------------------
(***************************************************************************)
(* mod_main of the module, for one controller after the other: reset, the  *)
(* ring with only its head, the start, and the root ports.                 *)
(***************************************************************************)
Booting(c, at) == usbpc = "boot" /\ hcs[c].at = at /\ \A b \in Controllers : b < c => hcs[b].at = "up"
UsbBoot == UNCHANGED <<tree, stack, xfer, nextdev, garbled>>
UsbStop(how) == usbpc' = how /\ UNCHANGED <<plugged, hcs, context, usbdevs>> /\ UsbBoot

ehci_main(c) ==
    /\ Booting(c, "off")
    /\ context' = c
    /\ hcs' = [hcs EXCEPT ![c].at = "reset", ![c].addresses = {0}]
    /\ UNCHANGED <<plugged, usbdevs, usbpc>> /\ UsbBoot

\* The reset is over, or is not after 100 ms.
HcReset(c) ==
    /\ Booting(c, "reset")
    /\ \/ UsbStop("fatal")
       \/ /\ hcs' = [hcs EXCEPT ![c].at = "start", ![c].links = <<1>>]
          /\ UNCHANGED <<plugged, context, usbdevs, usbpc>> /\ UsbBoot

\* The asynchronous schedule runs, or does not after 100 ms.
HcStart(c) ==
    /\ Booting(c, "start")
    /\ \/ UsbStop("fatal")
       \/ /\ hcs' = [hcs EXCEPT ![c].at = "ports"]
          /\ UNCHANGED <<plugged, context, usbdevs, usbpc>> /\ UsbBoot

\* usb_device_add_skeleton, at a hub or (up = 0) at a root port.  what is the
\* device that is really there.
Skeleton(c, up, port, speed) ==
    [hc |-> c, up |-> up, loc |-> port, speed |-> speed, addr |-> 0, langid |-> FALSE,
     mps |-> IF speed = "LS" THEN 1 ELSE 8,
     what |-> CHOOSE d \in PlugsAt(c, IF up = 0 THEN 0 ELSE usbdevs[up].what, port) : TRUE]

\* ehci_send_reset0: only a high speed device is enabled by it.
ehci_send_reset0(c, port) ==
    LET d == {e \in PlugsAt(c, 0, port) : tree[e].speed = "HS"}
    IN  IF d = {} THEN plugged ELSE BusReset(CHOOSE e \in d : TRUE)

ehci_init_port(c) ==
    /\ Booting(c, "ports")
    /\ LET p == hcs[c].port IN
       IF p \in RootPorts
       THEN /\ plugged' = ehci_send_reset0(c, p)
            /\ usbdevs' = IF \E d \in PlugsAt(c, 0, p) : tree[d].speed = "HS"
                          THEN Append(usbdevs, Skeleton(c, 0, p, "HS")) ELSE usbdevs
            /\ hcs' = [hcs EXCEPT ![c].port = @ + 1]
            /\ UNCHANGED usbpc
       ELSE /\ hcs' = [hcs EXCEPT ![c].at = "up"]
            /\ usbpc' = IF \A b \in Controllers : b # c => hcs[b].at = "up" THEN "run" ELSE usbpc
            /\ UNCHANGED <<plugged, usbdevs>>
    /\ UNCHANGED context /\ UsbBoot

\* usb_init of the devices of the root ports, in order (external: the loop of
\* usb_init_all, which is commented out).
usb_init_all ==
    /\ usbpc = "run" /\ stack = <<>>
    /\ nextdev <= Len(usbdevs) /\ usbdevs[nextdev].up = 0
    /\ stack' = <<CallFrame(nextdev, "begin")>>
    /\ nextdev' = nextdev + 1
    /\ UNCHANGED <<tree, plugged, hcs, context, usbdevs, xfer, usbpc, garbled>>

-----------------------------------------------------------------------------
(***************************************************************************)
(* The frame on top of the stack runs.                                     *)
(***************************************************************************)
Runs(label) == usbpc = "run" /\ xfer.at = "none" /\ stack # <<>> /\ Top.at = label
Keep == UNCHANGED <<tree, plugged, hcs, context, usbdevs, xfer, nextdev, usbpc, garbled>>
Move(st) == stack' = st /\ Keep
Halt(how) ==
    usbpc' = how /\ UNCHANGED <<tree, plugged, hcs, context, usbdevs, stack, xfer, nextdev, garbled>>

\* A field in unit u of a buffer for the descriptor with that tag: v if the unit
\* is the right one, 0 if it was never read, anything if it holds other data.
Field(buf, tag, u, v, any) ==
    IF u \notin DOMAIN buf THEN any
    ELSE IF buf[u] = tag + u THEN {v} ELSE IF buf[u] = 0 THEN {0} ELSE any
It == tree[Me.what]

\* usb_init: the first GET_DESCRIPTOR, for as much as the packet size is
\* believed to be, and the second reset.
usb_init ==
    /\ Runs("begin")
    /\ IF Me.mps < 3 THEN Halt("fatal") ELSE UsbSend(Top.dev, "device", 0, Me.mps, Goto("reset"))

usb_send_reset ==
    /\ Runs("reset")
    /\ IF Me.up # 0 THEN Move(Call("address", ResetFrame(Me.up, Me.loc)))
       ELSE /\ plugged' = ehci_send_reset0(Me.hc, Me.loc)
            /\ context' = Me.hc
            /\ stack' = Goto("address")
            /\ UNCHANGED <<tree, hcs, usbdevs, xfer, nextdev, usbpc, garbled>>

\* ehci_make_address: -1 becomes 255 when there is none left.
ehci_make_address(c) ==
    LET r == CHOOSE a \in {NotFound} \cup 0..(Addresses - 1) :
                 find_and_set(hcs[c].addresses, Addresses, 0, a)
    IN  IF r = NotFound THEN 2 * Addresses - 1 ELSE r

\* The packet size is known, and an address is made up.
Address ==
    /\ Runs("address")
    /\ \E mps \in Field(Top.desc, 0, 1, It.mps, {}) :
         IF mps \notin {1, 2, 4, 8} THEN Halt("fatal")
         ELSE LET a == ehci_make_address(Me.hc) IN
              /\ usbdevs' = [usbdevs EXCEPT ![Top.dev].mps = mps]
              /\ hcs' = [hcs EXCEPT ![Me.hc].addresses = @ \cup ({a} \cap 0..(Addresses - 1))]
              /\ context' = Me.hc
              /\ garbled' = (garbled \/ a >= Addresses)
              /\ stack' = [stack EXCEPT ![Here].at = "setaddr", ![Here].addr = a]
              /\ UNCHANGED <<tree, plugged, xfer, nextdev, usbpc>>

SetAddress == Runs("setaddr") /\ UsbSend(Top.dev, "SET_ADDRESS", Top.addr, 0, Goto("addressed"))

Addressed ==
    /\ Runs("addressed")
    /\ usbdevs' = [usbdevs EXCEPT ![Top.dev].addr = Top.addr]
    /\ stack' = Goto("describe")
    /\ UNCHANGED <<tree, plugged, hcs, context, xfer, nextdev, usbpc, garbled>>

\* The second GET_DESCRIPTOR, for all of it.
Describe == Runs("describe") /\ UsbSend(Top.dev, "device", 0, 3, Goto("strings"))

\* The names of the manufacturer, the product and the serial number.
Strings ==
    /\ Runs("strings")
    /\ IF Top.j = 3
       THEN Move([stack EXCEPT ![Here].at = "config", ![Here].j = 0, ![Here].wlen = 2])
       ELSE \E idx \in Field(Top.desc, 0, IF Top.j < 2 THEN 2 ELSE 3, It.strings[Top.j + 1], {0, 1}) :
              LET st == [stack EXCEPT ![Here].j = @ + 1]
              IN  Move(IF idx = 0 THEN st ELSE Append(st, CallFrame(Top.dev, "langid")))

\* usb_get_string: the languages are read once for a device, in two steps; so is
\* every string.
usb_get_string ==
    \/ /\ Runs("langid")
       /\ IF Me.langid THEN Move(Goto("string")) ELSE UsbSend(Top.dev, "langids", 0, 1, Goto("langids"))
    \/ Runs("langids") /\ UsbSend(Top.dev, "langids", 0, 1, Goto("language"))
    \/ /\ Runs("language")
       /\ usbdevs' = [usbdevs EXCEPT ![Top.dev].langid = TRUE]
       /\ stack' = Goto("string")
       /\ UNCHANGED <<tree, plugged, hcs, context, xfer, nextdev, usbpc, garbled>>
    \/ Runs("string") /\ UsbSend(Top.dev, "string", 0, 1, Goto("text"))
    \/ Runs("text") /\ UsbSend(Top.dev, "string", 0, 1, Goto("copy"))
    \/ Runs("copy") /\ Move(Returned)

\* The loop over the configurations: the header (of the second one on, as much
\* as the one before had), then all of it into a block of that size.
Config ==
    \/ /\ Runs("config")
       /\ \E n \in Field(Top.desc, 0, 3, Len(It.configs), 0..2) :
            IF Top.i < n THEN UsbSend(Top.dev, "config", Top.i + 1, Top.wlen, Goto("total"))
            ELSE UsbSend(Top.dev, "SET_CONFIGURATION", 0, 0, Goto("class"))
    \/ /\ Runs("total")
       /\ \E total \in Field(Top.conf, Tag(Top.i + 1), 1, It.configs[Top.i + 1].len, 1..4) :
            UsbSend(Top.dev, "config", Top.i + 1, total,
                 [stack EXCEPT ![Here].at = "name", ![Here].wlen = total,
                    ![Here].conf = [u \in 1..total |-> IF u \in DOMAIN Top.conf THEN Top.conf[u] ELSE 0]])
    \/ /\ Runs("name")
       /\ Move(IF It.configs[Top.i + 1].str = 0 THEN Goto("interface")
               ELSE Call("interface", CallFrame(Top.dev, "langid")))

\* usb_hub_init and usb_hid_init for a class code, then on to the next step.
HUB == 9
HID == 3
LaunchClass(class, st) ==
    IF class = HID THEN Halt("paused")
    ELSE Move(IF class = HUB /\ It.subclass = 0 THEN Append(st, CallFrame(Top.dev, "hub")) ELSE st)

Interface ==
    /\ Runs("interface")
    /\ LET ints == It.configs[Top.i + 1].ints
           tag == Tag(Top.i + 1)
           real == IF Top.j < Len(ints) THEN ints[Top.j + 1] ELSE 0
       IN  \E n \in Field(Top.conf, tag, 1, Len(ints), 0..2) :
             IF Top.j < n
             THEN \E class \in Field(Top.conf, tag, 2 + Top.j, real, {0, HUB, HID}) :
                    LaunchClass(class, [stack EXCEPT ![Here].j = @ + 1])
             ELSE Move([stack EXCEPT ![Here].at = "config", ![Here].i = @ + 1, ![Here].j = 0])

\* The configuration is set; what the class of the device asks for.
DeviceClass ==
    \/ /\ Runs("class")
       /\ \E class \in Field(Top.desc, 0, 1, It.class, {0, HUB, HID}) : LaunchClass(class, Goto("end"))
    \/ Runs("end") /\ Move(Returned)

-----------------------------------------------------------------------------
\* usb_hub_send_reset: the port is reset and polled until it is enabled.
usb_hub_send_reset ==
    \/ Runs("setfeat") /\ UsbSend(Top.dev, "PORT_RESET", Top.i, 0, Goto("poll"))
    \/ /\ Runs("poll")
       /\ IF Top.j = Tries THEN Halt("fatal") ELSE UsbSend(Top.dev, "status", Top.i, 1, Goto("polled"))
    \/ /\ Runs("polled")
       /\ \/ Move([stack EXCEPT ![Here].at = "poll", ![Here].j = @ + 1])
          \/ \E d \in PlugsAt(Me.hc, Me.what, Top.i) :
               /\ plugged' = BusReset(d)
               /\ stack' = Returned
               /\ UNCHANGED <<tree, hcs, context, usbdevs, xfer, nextdev, usbpc, garbled>>

\* usb_hub_init: the descriptor in two steps, power for every port, and every
\* port with a device is reset, added and initialised.
usb_hub_init ==
    \/ Runs("hub") /\ UsbSend(Top.dev, "hub", 0, 1, Goto("ports"))
    \/ Runs("ports") /\ UsbSend(Top.dev, "hub", 0, 2, Goto("power"))
    \/ /\ Runs("power")
       /\ IF Top.j < It.ports
          THEN UsbSend(Top.dev, "PORT_POWER", Top.j + 1, 0, [stack EXCEPT ![Here].j = @ + 1])
          ELSE Move(Goto("scan"))
    \/ /\ Runs("scan")
       /\ IF Top.i < It.ports
          THEN UsbSend(Top.dev, "status", Top.i + 1, 1,
                       [stack EXCEPT ![Here].at = "found", ![Here].i = @ + 1])
          ELSE Move(Returned)
    \/ /\ Runs("found")
       /\ Move(IF PlugsAt(Me.hc, Me.what, Top.i) = {} THEN Goto("scan")
               ELSE Call("add", ResetFrame(Top.dev, Top.i)))

AddChild ==
    /\ Runs("add")
    /\ \E d \in PlugsAt(Me.hc, Me.what, Top.i) :
         usbdevs' = Append(usbdevs, Skeleton(Me.hc, Top.dev, Top.i, tree[d].speed))
    /\ stack' = Call("scan", CallFrame(Len(usbdevs) + 1, "begin"))
    /\ UNCHANGED <<tree, plugged, hcs, context, xfer, nextdev, usbpc, garbled>>

-----------------------------------------------------------------------------
UsbInit(trees) ==
    /\ tree \in trees
    /\ plugged = [d \in DOMAIN tree |-> [addr |-> 0, enabled |-> FALSE]]
    /\ hcs = [c \in Controllers |-> [at |-> "off", links |-> <<>>, addresses |-> {}, port |-> 1]]
    /\ context = 0 /\ usbdevs = <<>> /\ stack = <<>> /\ xfer = NoXfer /\ nextdev = 1
    /\ usbpc = "boot" /\ garbled = FALSE

UsbDriver ==
    \/ \E c \in Controllers : ehci_main(c) \/ HcReset(c) \/ HcStart(c) \/ ehci_init_port(c)
    \/ insert_qh \/ ehci_send_Done \/ ehci_send_Timeout
    \/ usb_init \/ usb_send_reset \/ Address \/ SetAddress \/ Addressed \/ Describe \/ Strings
    \/ usb_get_string \/ Config \/ Interface \/ DeviceClass
    \/ usb_hub_send_reset \/ usb_hub_init \/ AddChild

UsbNext == UsbDriver \/ usb_init_all \/ Setup \/ DataStage \/ Status

\* The driver runs; nothing is assumed of the controllers and the devices.
UsbSpec == UsbInit(Trees) /\ [][UsbNext]_usbvars /\ WF_usbvars(UsbDriver)
-----------------------------------------------------------------------------
Alone(c) ==
    Cardinality({d \in Plugs : tree[d].hc = c /\ tree[d].up = 0 /\ tree[d].speed = "HS"}) <= 1

\* A request reaches the device it is meant for and no other: the address, and
\* for a slow device the hub and the port that translate for it, are right,
\* however deep in the tree it is and however often a hub was initialised.
\* Several devices on the root ports of a controller are the exception: all of
\* them are enabled at address 0 before the first gets its own.
AnswerRight ==
    xfer.at = "setup" /\ ~garbled /\ Alone(xfer.hc) =>
        Answering(xfer.hc, xfer.qh) = {usbdevs[xfer.dev].what}

\* After the enumeration the last Device for everything that is enabled has its
\* address, even if its hub was initialised twice.
AddressKnown ==
    usbpc = "run" /\ stack = <<>> /\ ~garbled =>
        \A d \in Plugs : \A k \in DOMAIN usbdevs :
            /\ usbdevs[k].what = d /\ plugged[d].enabled /\ Alone(tree[d].hc)
            /\ \A l \in DOMAIN usbdevs : usbdevs[l].what = d => l <= k
            => usbdevs[k].addr = plugged[d].addr

\* The controller, which may be anywhere in the ring, never meets a queue head
\* without a link, and comes by the one the driver waits for.
RingKept ==
    \A c \in Controllers : hcs[c].links # <<>> =>
        /\ 0 \notin RingWalk(hcs[c].links)
        /\ xfer.at = "setup" /\ xfer.hc = c => xfer.id \in RingWalk(hcs[c].links)

\* A configuration that fits into a packet is in the buffer as a whole when its
\* interfaces are looked at, and so is the device descriptor when the strings
\* are.  Longer ones are not: the stages overwrite each other.
DescriptorsWhole ==
    stack # <<>> /\ xfer.at = "none" =>
        /\ Top.at = "strings" /\ Me.mps >= 3 => Top.desc = <<1, 2, 3>>
        /\ Top.at = "interface" /\ Top.i + 1 \in DOMAIN It.configs
             /\ It.configs[Top.i + 1].len <= Me.mps =>
             Top.conf = [u \in 1..It.configs[Top.i + 1].len |-> Tag(Top.i + 1) + u]

\* The enumeration ends or stops the kernel, whatever the controller and the
\* devices do.
EnumerationEnds == stack # <<>> ~> stack = <<>> \/ usbpc \in {"fatal", "paused"}

\* Control transfers of the enumeration do what usb_init relies on: requests
\* reach their device, its address is remembered, and its descriptors arrive.
RequestsRight == AnswerRight /\ AddressKnown /\ DescriptorsWhole
=============================================================================
