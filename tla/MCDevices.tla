----------------------------- MODULE MCDevices ------------------------------
(***************************************************************************)
(* The bitmap and three that take numbers from it or find each other: the  *)
(* modules (their areas), the bus that starts them, the EHCI driver (its   *)
(* addresses).  Each is explored by itself: the one in focus moves, the    *)
(* others have no device to work on and wait.                              *)
(***************************************************************************)
EXTENDS BitmapScan, MCPci, MCModules, MCUsb

VARIABLE focus

Given(name, states, none) == IF focus = name THEN states ELSE {none}

DevicesInit ==
    /\ focus \in {"bitmap", "pci", "modules", "usb"}
    /\ ScanInit /\ (focus # "bitmap" => bits = {})
    /\ PciInit(Given("pci", Machines, << >>))
    /\ ModulesInit(Given("modules", Archives, << >>), Given("modules", AcpiOrders, << >>))
    /\ UsbInit(Given("usb", Trees, << >>))

DevicesNext ==
    /\ \/ focus = "bitmap" /\ ScanNext /\ UNCHANGED <<pcivars, modulevars, usbvars>>
       \/ focus = "pci" /\ PciNext /\ UNCHANGED <<scanvars, modulevars, usbvars>>
       \/ focus = "modules" /\ ModulesNext /\ UNCHANGED <<scanvars, pcivars, usbvars>>
       \/ focus = "usb" /\ UsbNext /\ UNCHANGED <<scanvars, pcivars, modulevars>>
    /\ UNCHANGED focus

devicevars == <<focus, scanvars, pcivars, modulevars, usbvars>>

(* The search of the bitmap goes on, and so does the driver.               *)
DevicesSpec ==
    /\ DevicesInit /\ [][DevicesNext]_devicevars
    /\ WF_scanvars(focus = "bitmap" /\ Step)
    /\ WF_usbvars(focus = "usb" /\ UsbDriver)

(* WorkEnds: every search of a bitmap returns, and every enumeration ends  *)
(* or stops the kernel.                                                    *)
WorkEnds == CallReturns /\ EnumerationEnds
=============================================================================
