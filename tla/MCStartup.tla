----------------------------- MODULE MCStartup -----------------------------
(* Instance of Startup: five machines. At the ports of the first one's       *)
(* controller are a hub and a keyboard, at those of the hub a mouse and a   *)
(* disk.                                                                    *)
EXTENDS Startup

CONSTANTS hub, keyboard, mouse, disk

MCGadgets   == {hub, keyboard, mouse, disk}
MCClass     == [g \in MCGadgets |-> CASE g = hub -> "Hub"
                                     [] g = disk -> "MassStorage"
                                     [] OTHER -> "HID"]
MCInterval  == [g \in MCGadgets |-> CASE g = keyboard -> 10 [] g = mouse -> 8 [] OTHER -> 0]
MCPacket    == [g \in MCGadgets |-> IF g = disk THEN {0, 8} ELSE {8}]
MCBehind    == [g \in MCGadgets |-> IF g = hub THEN <<mouse, disk>> ELSE <<>>]
MCRootPorts == <<hub, keyboard>>

Bridge ==
    [device |-> 0, function |-> 0, HeaderType |-> 0, kind |-> "Other",
     IRQLine |-> 0, aligned |-> TRUE]
Controller(device, function, line) ==
    [device |-> device, function |-> function, HeaderType |-> 128, kind |-> "OHCI",
     IRQLine |-> line, aligned |-> TRUE]

Usual     == <<Bridge, Controller(4, 0, 11), Controller(4, 1, 10)>>
Two       == <<Controller(3, 0, 11), Controller(4, 0, 10)>>
NoLine    == <<Controller(4, 0, 255)>>
TimerLine == <<Controller(4, 0, 0)>>
Unaligned == <<[Controller(4, 0, 7) EXCEPT !.aligned = FALSE]>>

MCLayouts   == {Usual, Two, NoLine, TimerLine, Unaligned}
MCPopulated == {Usual}
MCFlagged   == {Usual}
MCOthers    == {1, 10}
=============================================================================
