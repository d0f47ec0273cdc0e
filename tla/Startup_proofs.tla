--------------------------- MODULE Startup_proofs ---------------------------
(* Theorems about modules DeviceSetup and Startup, for any machines, any    *)
(* devices behind any hubs, and any number of unanswered requests.          *)
EXTENDS Startup, FiniteSetTheorems, WellFoundedInduction, TLAPS

-----------------------------------------------------------------------------
(* The inductive invariant of the set-up of devices.                        *)
Steps ==
    {"NextPort", "Describe", "SetAddress", "Verify", "ProductString", "ManufacturerString",
     "Configuration", "HID", "Hub", "MassStorage", "LinkAfterRow", "LinkIntoRow",
     "PowerPort", "ResetPort", "Done", "Panic"}

Slots ==
    [Active : BOOLEAN, FunctionAddress : Devices, packet : Nat,
     Interface : Classes \cup {None}, InterfaceClass : Classes \cup {None},
     TransferDescriptor : Devices \cup {Null}, Interval : 0 .. 255]

Loops == [hub : Devices, ports : Seq(Gadgets), unpowered : Seq(Gadgets)]

SetupTypeOK ==
    /\ listens \in [Gadgets -> Devices \cup {Silent}]
    /\ NextED \in [EDs -> EDs \cup {Null}]
    /\ Device \in [Devices -> Slots]
    /\ step \in Steps
    /\ current \in [device : Devices, packet : Nat, power : BOOLEAN]
    /\ loops \in Seq(Loops)
    /\ step \in {"PowerPort", "ResetPort"} => loops # <<>> /\ Head(loops).unpowered # <<>>

(* A device listens where its slot says, unless the address was given in    *)
(* vain or is being verified; and an address that is given is free.         *)
AddressesAreTaken ==
    /\ \A g \in Gadgets : listens[g] \notin {Silent, 0} =>
           \/ listens[g] \in abandoned \/ Device[listens[g]].Active
           \/ step \in {"Verify", "Panic"} /\ listens[g] = current.device
    /\ step \in {"SetAddress", "Verify"} => ~Device[current.device].Active

(* A device has its own descriptor from OHCIDetectHIDDevice on, and only    *)
(* then is its endpoint linked; nothing changes its slot after that.        *)
Fresh == {"ProductString", "ManufacturerString", "Configuration", "HID", "Hub", "MassStorage"}

DescriptorsAreOwn ==
    /\ \A d \in Devices :
           /\ Device[d].TransferDescriptor \in {Null, d}
           /\ Device[d].TransferDescriptor = d =>
                  /\ Device[d].Active
                  /\ Device[d].Interface = "HID" /\ Device[d].InterfaceClass = "HID"
           /\ d \in Visible => Device[d].TransferDescriptor = d
    /\ step \in Fresh => Device[current.device].Active
                         /\ Device[current.device].TransferDescriptor = Null
    /\ step = "HID" => Device[current.device].Interface = "HID"
    /\ step \in {"LinkAfterRow", "LinkIntoRow"} =>
           Device[current.device].TransferDescriptor = current.device
    /\ \A n \in DOMAIN loops : loops[n].hub # 0 =>
           /\ Device[loops[n].hub].Active
           /\ Device[loops[n].hub].TransferDescriptor = Null
           /\ step \in Fresh => loops[n].hub # current.device

(* Where the links of the tree lead: from each row to the devices of that   *)
(* row and on to the row after it. A set is closed if no link leads out.    *)
RowEDs == 0 .. 30
RowOfDevice(d) == RowOf(Device[d].Interval)
IsClosed(S) == \A ed \in S : NextED[ed] \in S \cup {Null}
LinksWithin(ed, row) ==
    \/ NextED[ed] = LinkAfter(row)
    \/ \E d \in Devices : NextED[ed] = EDOf(d) /\ RowOfDevice(d) = row

RowsLeadOn ==
    /\ \A S \in SUBSET EDs, row \in RowEDs : IsClosed(S) /\ row \in S =>
           /\ LinkAfter(row) \in S \cup {Null}
           /\ \A d \in Visible : RowOfDevice(d) = row => EDOf(d) \in S
    /\ \A row \in RowEDs : LinksWithin(row, row)
    /\ \A d \in Visible : LinksWithin(EDOf(d), RowOfDevice(d))
    /\ step \in {"LinkAfterRow", "LinkIntoRow"} => current.device \notin Visible
    /\ step = "LinkIntoRow" => NextED[EDOf(current.device)] = NextED[Row]

(* A packet size is zero only after a request that brought nothing, or if   *)
(* a device says so.                                                        *)
SaysZero == \E g \in Gadgets : listens[g] # Silent /\ 0 \in Packet[g]

SizesAreExplained ==
    /\ step \in {"SetAddress", "Verify"} /\ current.packet = 0 => ~honest \/ SaysZero
    /\ step = "ProductString" /\ Device[current.device].packet = 0 => ~honest \/ SaysZero
    /\ step = "Panic" => ~honest \/ SaysZero

SetupInv ==
    /\ SetupTypeOK
    /\ AddressesAreTaken /\ AddressIsOwn
    /\ DescriptorsAreOwn
    /\ RowsLeadOn
    /\ SizesAreExplained

-----------------------------------------------------------------------------
(* The inductive invariant of the boot order.                               *)
Early   == {"FirstPrint", "PushEntries", "lgdt"}
Loading == {"DataSelectors", "CodeSelector", "TaskRegister", "Gates", "lidt"}
Starting == {"Gate", "UnmaskSlave", "UnmaskMaster", "Registers", "Reset", "Enable", "Devices"}
Running  == {"Scan", "Prompt"} \cup Starting

Chips == [open : SUBSET (0 .. 7), vector : Nat, init : BOOLEAN]

TypeOK ==
    /\ layout \in Layouts
    /\ pc \in Early \cup Loading \cup {"PIC"} \cup Running \cup Stopped
    /\ PIC \in [master : Chips, slave : Chips]
    /\ writes \in 0 .. 8
    /\ scan \in [device : 0 .. PCIDevices, function : {0}]
    /\ gOHCIRegisters \in {NoFunction} \cup DOMAIN layout
    /\ live \subseteq DOMAIN layout
    /\ started \in Seq(DOMAIN layout)

(* Whose tables are in use, and what is in them by then.                    *)
TablesAreReady ==
    /\ pc = "FirstPrint" => gGDTEntries = <<>>
    /\ pc = "PushEntries" => \E n \in 0 .. Len(Entries) : gGDTEntries = SubSeq(Entries, 1, n)
    /\ pc \in {"lgdt"} \cup Loading \cup {"PIC"} \cup Running => gGDTEntries = Entries
    /\ pc \in Early => tables = [gdt |-> "Firmware", idt |-> "Firmware"]
    /\ pc \in Loading => tables = [gdt |-> "Kernel", idt |-> "Firmware"]
    /\ pc \in {"PIC"} \cup Running => tables = [gdt |-> "Kernel", idt |-> "Kernel"]

(* The gate of an input is set before the input is opened.                  *)
Gated(irq) ==
    /\ INTERRUPT_IRQ0 + irq \in DOMAIN gIDTEntries
    /\ gIDTEntries[INTERRUPT_IRQ0 + irq] \in {"irq0", "OHCI"}

GatesAreSet ==
    /\ pc \in Early \cup Loading => writes = 0
    /\ pc \in {"lidt", "PIC"} \cup Running => Gated(0)
    /\ pc = "PIC" => /\ writes < 8
                     /\ writes > 2 => PIC.master.vector = 32
                     /\ writes > 3 => PIC.slave.vector = 40
                     /\ writes > 6 => PIC.master.open = {0}
    /\ pc \in Running =>
           /\ PIC.master.vector = 32 /\ PIC.slave.vector = 40
           /\ \A i \in PIC.master.open \ {2} : Gated(i)
           /\ \A i \in PIC.slave.open : Gated(i + 8)
    /\ pc \in {"UnmaskSlave", "UnmaskMaster"} => Line \in 0 .. 15 /\ Gated(Line)
    /\ pc = "UnmaskSlave" => Line >= 8

(* The controllers of the devices scanned have been started, one after the  *)
(* other, and the registers are those of the last.                          *)
IsController(n) == layout[n].kind = "OHCI" /\ layout[n].function = 0

Scanned(n) ==
    \/ layout[n].device < scan.device
    \/ pc = "Devices" /\ layout[n].device = scan.device

ScanIsInOrder ==
    /\ \A n, k \in DOMAIN started : n # k => started[n] # started[k]
    /\ \A n \in DOMAIN started :
           /\ IsController(started[n])
           /\ gOHCIRegisters # NoFunction
           /\ started[n] # gOHCIRegisters =>
                  layout[gOHCIRegisters].device > layout[started[n]].device
    /\ pc \in Early \cup Loading \cup {"PIC"} => started = <<>> /\ scan.device = 0
    /\ pc \in Running =>
           /\ \A n \in DOMAIN started : Scanned(started[n])
           /\ \A n \in DOMAIN layout : IsController(n) /\ Scanned(n) =>
                  \E k \in DOMAIN started : started[k] = n
    /\ pc = "Prompt" => scan.device = PCIDevices
    /\ pc \in Starting => Function(scan.device, 0) # {} /\ layout[Current].kind = "OHCI"
    /\ pc \in {"Reset", "Enable", "Devices"} => gOHCIRegisters = Current

(* Without registers, no gate leads to the driver but while it sets up the  *)
(* first one.                                                               *)
GateAwaitsRegisters ==
    gOHCIRegisters = NoFunction =>
        \/ pc \in {"UnmaskSlave", "UnmaskMaster", "Registers"} \cup Stopped
        \/ \A vector \in DOMAIN gIDTEntries : gIDTEntries[vector] # "OHCI"

KernelInv ==
    /\ TypeOK /\ TablesAreReady /\ GatesAreSet /\ ScanIsInOrder
    /\ GateAwaitsRegisters /\ StopsHaveACause /\ HandlerFindsItsState

IInv == SetupInv /\ KernelInv

-----------------------------------------------------------------------------
LEMMA LeastNumber ==
    ASSUME NEW S \in SUBSET Nat, S # {}
    PROVE  \E d \in S : \A e \in S : d <= e
<1>. DEFINE R == OpToRel(<, Nat)
<1>1. IsWellFoundedOn(R, Nat)
  BY NatLessThanWellFounded
<1>2. \A x, y \in Nat : x < y => <<x, y>> \in R
  BY DEF OpToRel
<1>. HIDE DEF R
<1>3. PICK d \in S : \A e \in S : ~(<<e, d>> \in R)
  BY <1>1, WFMin
<1>4. \A e \in S : ~(e < d)
  BY <1>2, <1>3
<1>5. \A e \in S : e \in Nat /\ d \in Nat
  OBVIOUS
<1>6. \A e \in S : d <= e
  BY <1>4, <1>5
<1>. QED  BY <1>6

-----------------------------------------------------------------------------
(* The tree of endpoints *)
LEMMA RowsAreEndpoints ==
    /\ \A interval \in 0 .. 255 : RowOf(interval) \in EDs /\ RowOf(interval) <= 30
    /\ \A ed \in EDs : LinkAfter(ed) \in EDs \cup {Null} /\ LinkAfter(ed) <= 30
<1>1. MaxDevices \in Nat \ {0} /\ EDs = 0 .. 30 + MaxDevices
  BY GadgetsAssumption DEF EDs
<1>2. \A interval \in 0 .. 255 : RowOf(interval) \in 0 .. 30
  BY DEF RowOf, Row1Index, Row2Index, Row3Index, Row4Index, Row5Index, BIT
<1>3. \A i \in 0 .. 31 : /\ Row2Index(i) \in 0 .. 30 /\ Row3Index(i) \in 0 .. 30
                         /\ Row4Index(i) \in 0 .. 30
  BY DEF Row2Index, Row3Index, Row4Index, BIT
<1>4. \A ed \in 0 .. 15 : \E i \in 0 .. 31 : Row1Index(i) = ed
  BY DEF Row1Index, BIT
<1>5. \A ed \in 16 .. 23 : \E i \in 0 .. 31 : Row2Index(i) = ed
  BY DEF Row2Index, BIT
<1>6. \A ed \in 24 .. 27 : \E i \in 0 .. 31 : Row3Index(i) = ed
  BY DEF Row3Index, BIT
<1>7. ASSUME NEW ed \in EDs  PROVE LinkAfter(ed) \in 0 .. 30 \cup {Null}
  <2>1. ed \in 0 .. 15 => (CHOOSE i \in 0 .. 31 : Row1Index(i) = ed) \in 0 .. 31
    BY <1>4
  <2>2. ed \in 16 .. 23 => (CHOOSE i \in 0 .. 31 : Row2Index(i) = ed) \in 0 .. 31
    BY <1>5
  <2>3. ed \in 24 .. 27 => (CHOOSE i \in 0 .. 31 : Row3Index(i) = ed) \in 0 .. 31
    BY <1>6
  <2>4. Row5Index \in 0 .. 30
    BY DEF Row5Index
  <2>5. /\ ed \in 0 .. 15 => LinkAfter(ed) \in 0 .. 30
        /\ ed \in 16 .. 23 => LinkAfter(ed) \in 0 .. 30
        /\ ed \in 24 .. 27 => LinkAfter(ed) \in 0 .. 30
        /\ ed \in 28 .. 29 => LinkAfter(ed) \in 0 .. 30
    BY <1>3, <2>1, <2>2, <2>3, <2>4 DEF LinkAfter
  <2>6. ed \notin 0 .. 29 => LinkAfter(ed) = Null
    BY <1>1 DEF LinkAfter
  <2>. QED  BY <1>1, <2>5, <2>6
<1>8. \A ed \in 0 .. 30 \cup {Null} : ed \in EDs \cup {Null} /\ ed <= 30
  BY <1>1 DEF Null
<1>9. \A interval \in 0 .. 255 : RowOf(interval) \in EDs /\ RowOf(interval) <= 30
  <2>1. \A ed \in 0 .. 30 : ed \in EDs /\ ed <= 30
    BY <1>1
  <2>. QED  BY <1>2, <2>1, Zenon
<1>10. \A ed \in EDs : LinkAfter(ed) \in EDs \cup {Null} /\ LinkAfter(ed) <= 30
  <2>1. ASSUME NEW ed \in EDs  PROVE LinkAfter(ed) \in 0 .. 30 \cup {Null}
    BY <1>7
  <2>. QED  BY <1>8, <2>1, Zenon
<1>. QED  BY <1>9, <1>10

-----------------------------------------------------------------------------
(* Control requests *)
LEMMA WhatRepliesAre ==
    ASSUME NEW address, NEW r \in Replies(address)
    PROVE  /\ r.took \in SUBSET Gadgets /\ \A g \in r.took : listens[g] = address
           /\ r.from = None \/ r.from \in Gadgets
BY DEF Replies, Listeners

LEMMA WhatSentDoes ==
    ASSUME NEW r, NEW hasData, Sent(r, hasData)
    PROVE  /\ ~honest => ~honest'
           /\ hasData /\ Succeeded(r) /\ r.from = None => ~honest'
BY Zenon DEF Sent

LEMMA SizesInPackets ==
    ASSUME NEW address, NEW r \in Replies(address), NEW size \in PacketSizeIn(r)
    PROVE  size \in Nat
<1>1. r.from = None \/ r.from \in Gadgets
  BY WhatRepliesAre
<1>2. \A g \in Gadgets : Packet[g] \subseteq PacketSizes
  BY GadgetsAssumption
<1>. QED  BY <1>1, <1>2 DEF PacketSizeIn, PacketSizes

(* A loop over no ports is over the ports of no hub.                        *)
LEMMA LoopsAreTyped ==
    ASSUME SetupTypeOK, loops # <<>>
    PROVE  /\ Head(loops) \in Loops
           /\ Head(loops) = loops[1] /\ 1 \in DOMAIN loops /\ Len(loops) \in Nat \ {0}
           /\ Tail(loops) \in Seq(Loops)
BY DEF SetupTypeOK

(* What is left of the innermost loop.                                      *)
LEMMA LoopGoesOn ==
    ASSUME SetupTypeOK, loops # <<>>,
           \/ loops' = [loops EXCEPT ![1].ports = Tail(@)] /\ loops[1].ports # <<>>
           \/ loops' = [loops EXCEPT ![1].unpowered = Tail(@)] /\ loops[1].unpowered # <<>>
    PROVE  /\ loops' \in Seq(Loops) /\ DOMAIN loops' = DOMAIN loops
           /\ \A n \in DOMAIN loops : loops'[n].hub = loops[n].hub
<1>1. /\ loops \in Seq(Loops) /\ loops[1] \in Loops /\ 1 \in DOMAIN loops
      /\ DOMAIN loops = 1 .. Len(loops)
  BY LoopsAreTyped DEF SetupTypeOK
<1>2. PICK loop : /\ loops' = [loops EXCEPT ![1] = loop] /\ loop \in Loops
                  /\ loop.hub = loops[1].hub
  <2>1. CASE loops' = [loops EXCEPT ![1].ports = Tail(@)] /\ loops[1].ports # <<>>
    <3>1. loops' = [loops EXCEPT ![1] = [loops[1] EXCEPT !.ports = Tail(loops[1].ports)]]
      BY <2>1
    <3>2. Tail(loops[1].ports) \in Seq(Gadgets)
      BY <1>1, <2>1 DEF Loops
    <3>3. /\ [loops[1] EXCEPT !.ports = Tail(loops[1].ports)] \in Loops
          /\ [loops[1] EXCEPT !.ports = Tail(loops[1].ports)].hub = loops[1].hub
      BY <1>1, <3>2 DEF Loops
    <3>. QED  BY <3>1, <3>3
  <2>2. CASE loops' = [loops EXCEPT ![1].unpowered = Tail(@)] /\ loops[1].unpowered # <<>>
    <3>1. loops' = [loops EXCEPT ![1] = [loops[1] EXCEPT !.unpowered = Tail(loops[1].unpowered)]]
      BY <2>2
    <3>2. Tail(loops[1].unpowered) \in Seq(Gadgets)
      BY <1>1, <2>2 DEF Loops
    <3>3. /\ [loops[1] EXCEPT !.unpowered = Tail(loops[1].unpowered)] \in Loops
          /\ [loops[1] EXCEPT !.unpowered = Tail(loops[1].unpowered)].hub = loops[1].hub
      BY <1>1, <3>2 DEF Loops
    <3>. QED  BY <3>1, <3>3
  <2>. QED  BY <2>1, <2>2
<1>3. loops' \in Seq(Loops) /\ DOMAIN loops' = DOMAIN loops
  BY <1>1, <1>2
<1>4. loops'[1].hub = loops[1].hub /\ \A n \in DOMAIN loops \ {1} : loops'[n] = loops[n]
  BY <1>1, <1>2
<1>. QED  BY <1>3, <1>4

-----------------------------------------------------------------------------
(* Types *)
LEMMA PortsAreTyped ==
    ASSUME SetupTypeOK, NextRootPort \/ NextHubPort \/ PortNotEnabledYet \/ PortsDone
    PROVE  SetupTypeOK'
<1>1. loops # <<>>
  BY DEF NextRootPort, NextHubPort, PortNotEnabledYet, PortsDone
<1>2. CASE NextRootPort \/ NextHubPort \/ PortNotEnabledYet
  <2>1. /\ Head(loops).ports # <<>> /\ loops' = [loops EXCEPT ![1].ports = Tail(@)]
        /\ UNCHANGED <<listens, NextED, Device, current>>
        /\ step' \in {"NextPort", "Describe"}
    BY <1>2 DEF NextRootPort, NextHubPort, PortNotEnabledYet, busVars
  <2>2. loops' \in Seq(Loops)
    BY <1>1, <2>1, LoopsAreTyped, LoopGoesOn
  <2>. QED  BY <2>1, <2>2 DEF SetupTypeOK, Steps
<1>3. CASE PortsDone
  <2>1. /\ loops' = Tail(loops) /\ step' \in {"Done", "NextPort"}
        /\ UNCHANGED <<listens, NextED, current>>
        /\ Device' = IF Head(loops).hub = 0 THEN Device
                     ELSE [Device EXCEPT ![Head(loops).hub].InterfaceClass = "Hub"]
    BY <1>3 DEF PortsDone, busVars
  <2>2. Device' \in [Devices -> Slots]
    <3>1. \A slot \in Slots : [slot EXCEPT !.InterfaceClass = "Hub"] \in Slots
      BY DEF Slots, Classes
    <3>2. Head(loops).hub \in Devices
      BY <1>1, LoopsAreTyped DEF Loops
    <3>. QED  BY <2>1, <3>1, <3>2 DEF SetupTypeOK
  <2>. QED  BY <1>1, <2>1, <2>2, LoopsAreTyped DEF SetupTypeOK, Steps
<1>. QED  BY <1>2, <1>3 DEF NextRootPort, NextHubPort, PortNotEnabledYet, PortsDone

(* The slot that is chosen is the first free one.                           *)
LEMMA FirstFreeSlot ==
    ASSUME \E d \in Devices : IsFree(d)
    PROVE  LET d == CHOOSE d \in Devices : IsFree(d) /\ \A e \in 0 .. d - 1 : ~ IsFree(e)
           IN  d \in Devices /\ IsFree(d)
<1>. DEFINE free == {d \in Devices : IsFree(d)}
<1>1. MaxDevices \in Nat \ {0} /\ Devices \in SUBSET Nat /\ free \in SUBSET Devices
  BY GadgetsAssumption DEF Devices
<1>2. PICK d \in free : \A e \in free : d <= e
  <2>1. free # {}
    BY Zenon
  <2>. HIDE DEF free
  <2>. QED  BY <1>1, <2>1, LeastNumber
<1>3. d \in Devices /\ IsFree(d) /\ \A e \in 0 .. d - 1 : ~ IsFree(e)
  BY <1>1, <1>2 DEF Devices
<1>. QED  BY <1>3

LEMMA RequestsAreTyped ==
    ASSUME SetupTypeOK, Describe \/ SetAddress \/ Verify
    PROVE  SetupTypeOK'
<1>1. CASE Describe
  <2>1. /\ UNCHANGED <<listens, NextED, Device, loops>>
        /\ step' \in {"SetAddress", "NextPort"}
    BY <1>1 DEF Describe
  <2>2. current' \in [device : Devices, packet : Nat, power : BOOLEAN]
    <3>1. PICK r, size :
            /\ r \in Replies(0) /\ size \in PacketSizeIn(r)
            /\ \/ UNCHANGED current
               \/ /\ \E d \in Devices : IsFree(d)
                  /\ current' = [current EXCEPT
                         !.device = CHOOSE d \in Devices :
                                       IsFree(d) /\ \A e \in 0 .. d - 1 : ~ IsFree(e),
                         !.packet = size]
      BY <1>1, Zenon DEF Describe
    <3>2. size \in Nat
      BY <3>1, SizesInPackets
    <3>. QED  BY <3>1, <3>2, FirstFreeSlot DEF SetupTypeOK
  <2>. QED  BY <2>1, <2>2 DEF SetupTypeOK, Steps
<1>2. CASE SetAddress
  <2>1. /\ UNCHANGED <<NextED, Device, current, loops>>
        /\ step' \in {"Verify", "NextPort"}
        /\ \E S : listens' = [g \in Gadgets |-> IF g \in S THEN current.device ELSE listens[g]]
    BY <1>2 DEF SetAddress
  <2>. QED  BY <2>1 DEF SetupTypeOK, Steps
<1>3. CASE Verify
  <2>1. /\ UNCHANGED <<listens, NextED, current, loops>>
        /\ step' \in {"Panic", "ProductString", "NextPort"}
    BY <1>3 DEF Verify, DivideByZero, busVars
  <2>2. Device' \in [Devices -> Slots]
    <3>1. \/ UNCHANGED Device
          \/ \E size \in Nat : Device' = [Device EXCEPT ![current.device] = Entered(@, size)]
      BY <1>3, SizesInPackets DEF Verify, DivideByZero
    <3>2. \A size \in Nat : \A slot \in Slots : Entered(slot, size) \in Slots
      BY DEF SetupTypeOK, Slots, Entered
    <3>3. CASE UNCHANGED Device
      BY <3>3 DEF SetupTypeOK
    <3>4. CASE \E size \in Nat : Device' = [Device EXCEPT ![current.device] = Entered(@, size)]
      <4>1. PICK size \in Nat : Device' = [Device EXCEPT ![current.device] = Entered(@, size)]
        BY <3>4
      <4>2. Device \in [Devices -> Slots] /\ current.device \in Devices
        BY DEF SetupTypeOK
      <4>3. Entered(Device[current.device], size) \in Slots
        BY <3>2, <4>2
      <4>. QED  BY <4>1, <4>2, <4>3
    <3>. QED  BY <3>1, <3>3, <3>4
  <2>. QED  BY <2>1, <2>2 DEF SetupTypeOK, Steps
<1>. QED  BY <1>1, <1>2, <1>3

LEMMA WhatConfigurationDoes ==
    ASSUME SetupTypeOK, Configuration
    PROVE  \E class \in Classes, wish \in 0 .. 255 :
              \/ UNCHANGED Device /\ step' = "NextPort"
              \/ /\ Device' = [Device EXCEPT ![current.device] =
                         [Device[current.device] EXCEPT !.Interface = class, !.Interval = wish]]
                 /\ step' = IF class \in Detected THEN class ELSE "NextPort"
<1>1. PICK r : /\ r.from = None \/ r.from \in Gadgets
               /\ \/ UNCHANGED Device /\ step' = "NextPort"
                  \/ LET class == IF r.from = None THEN "Vendor" ELSE Class[r.from]
                         wish == IF r.from = None THEN 0 ELSE Interval[r.from]
                     IN  /\ Device' = [Device EXCEPT ![current.device].Interface = class,
                                                     ![current.device].Interval = wish]
                         /\ step' = IF class \in Detected THEN class ELSE "NextPort"
  BY WhatRepliesAre DEF Configuration
<1>2. PICK class, wish : /\ class = IF r.from = None THEN "Vendor" ELSE Class[r.from]
                         /\ wish = IF r.from = None THEN 0 ELSE Interval[r.from]
  OBVIOUS
<1>3. class \in Classes /\ wish \in 0 .. 255
  BY <1>1, <1>2, GadgetsAssumption DEF Classes
<1>4. [Device EXCEPT ![current.device].Interface = class, ![current.device].Interval = wish]
          = [Device EXCEPT ![current.device] =
                [Device[current.device] EXCEPT !.Interface = class, !.Interval = wish]]
  BY DEF SetupTypeOK
<1>5. \/ UNCHANGED Device /\ step' = "NextPort"
      \/ /\ Device' = [Device EXCEPT ![current.device].Interface = class,
                                      ![current.device].Interval = wish]
         /\ step' = IF class \in Detected THEN class ELSE "NextPort"
  BY <1>1, <1>2
<1>. QED  BY <1>3, <1>4, <1>5

LEMMA WhatDetectionDoes ==
    ASSUME SetupTypeOK, DetectHIDDevice
    PROVE  Device' = [Device EXCEPT ![current.device] =
                         [Device[current.device] EXCEPT !.InterfaceClass = "HID",
                                                        !.TransferDescriptor = current.device]]
BY DEF SetupTypeOK, DetectHIDDevice

LEMMA DetectionIsTyped ==
    ASSUME SetupTypeOK, \/ ProductString \/ ManufacturerString \/ Configuration \/ LateError
                        \/ DetectMassStorageDevice \/ DetectHIDDevice
    PROVE  SetupTypeOK'
<1>1. UNCHANGED <<listens, NextED, current, loops>>
  BY DEF ProductString, ManufacturerString, Configuration, LateError, DetectMassStorageDevice,
         DetectHIDDevice, DivideByZero, busVars
<1>2. CASE ProductString \/ ManufacturerString \/ LateError
  <2>1. UNCHANGED Device /\ step' \in {step, "Panic", "ManufacturerString", "Configuration"}
    BY <1>2 DEF ProductString, ManufacturerString, LateError, DivideByZero
  <2>. QED  BY <1>1, <2>1 DEF SetupTypeOK, Steps
<1>3. CASE Configuration
  <2>1. step' \in {"HID", "Hub", "MassStorage", "NextPort"}
    BY <1>3 DEF Configuration, Detected
  <2>2. PICK class \in Classes, wish \in 0 .. 255 :
            \/ UNCHANGED Device
            \/ Device' = [Device EXCEPT ![current.device] =
                   [Device[current.device] EXCEPT !.Interface = class, !.Interval = wish]]
    BY <1>3, WhatConfigurationDoes
  <2>3. \A slot \in Slots : [slot EXCEPT !.Interface = class, !.Interval = wish] \in Slots
    BY DEF Slots
  <2>4. Device' \in [Devices -> Slots]
    <3>1. Device[current.device] \in Slots
      BY DEF SetupTypeOK
    <3>2. [Device[current.device] EXCEPT !.Interface = class, !.Interval = wish] \in Slots
      BY <2>3, <3>1, Zenon
    <3>. QED  BY <2>2, <3>2 DEF SetupTypeOK
  <2>. QED  BY <1>1, <2>1, <2>4 DEF SetupTypeOK, Steps
<1>4. CASE DetectMassStorageDevice
  <2>1. \A slot \in Slots : [slot EXCEPT !.InterfaceClass = "MassStorage"] \in Slots
    BY DEF Slots, Classes
  <2>. QED  BY <1>1, <1>4, <2>1 DEF DetectMassStorageDevice, SetupTypeOK, Steps
<1>5. CASE DetectHIDDevice
  <2>1. \A slot \in Slots, d \in Devices :
            [slot EXCEPT !.InterfaceClass = "HID", !.TransferDescriptor = d] \in Slots
    BY DEF Slots, Classes
  <2>2. Device' \in [Devices -> Slots]
    BY <1>5, <2>1 DEF DetectHIDDevice, SetupTypeOK
  <2>3. step' = "LinkAfterRow"
    BY <1>5 DEF DetectHIDDevice
  <2>. QED  BY <1>1, <2>2, <2>3 DEF SetupTypeOK, Steps
<1>. QED  BY <1>2, <1>3, <1>4, <1>5

LEMMA LinksAndHubsAreTyped ==
    ASSUME SetupTypeOK, LinkAfterRow \/ LinkIntoRow \/ DetectHubDevice \/ PowerPort \/ ResetPort
    PROVE  SetupTypeOK'
<1>1. CASE LinkAfterRow \/ LinkIntoRow
  <2>1. /\ UNCHANGED <<listens, Device, current, loops>>
        /\ step' \in {"LinkIntoRow", "NextPort"}
    BY <1>1 DEF LinkAfterRow, LinkIntoRow, busVars
  <2>2. Row \in EDs /\ EDOf(current.device) \in EDs
    <3>1. /\ current.device \in Devices /\ Device[current.device].Interval \in 0 .. 255
          /\ MaxDevices \in Nat
      BY GadgetsAssumption DEF SetupTypeOK, Slots
    <3>2. Row \in EDs
      BY <3>1, RowsAreEndpoints DEF Row
    <3>. QED  BY <3>1, <3>2 DEF Devices, EDs, EDOf
  <2>3. NextED' \in [EDs -> EDs \cup {Null}]
    BY <1>1, <2>2 DEF LinkAfterRow, LinkIntoRow, LinkOf, SetupTypeOK
  <2>. QED  BY <2>1, <2>3 DEF SetupTypeOK, Steps
<1>2. CASE DetectHubDevice
  <2>1. PICK ports \in Seq(Gadgets) :
            /\ loops' = <<[hub |-> current.device, ports |-> ports, unpowered |-> ports]>> \o loops
            /\ step' = IF ports = <<>> THEN "NextPort" ELSE "PowerPort"
    <3>1. PICK r : /\ r.from = None \/ r.from \in Gadgets
                   /\ LET ports == IF r.from = None THEN <<>> ELSE Behind[r.from]
                      IN  /\ loops' = <<[hub |-> current.device, ports |-> ports,
                                         unpowered |-> ports]>> \o loops
                          /\ step' = IF ports = <<>> THEN "NextPort" ELSE "PowerPort"
      BY <1>2, WhatRepliesAre DEF DetectHubDevice
    <3>2. (IF r.from = None THEN <<>> ELSE Behind[r.from]) \in Seq(Gadgets)
      BY <3>1, GadgetsAssumption
    <3>. QED  BY <3>1, <3>2
  <2>2. [hub |-> current.device, ports |-> ports, unpowered |-> ports] \in Loops
    BY DEF SetupTypeOK, Loops
  <2>3. loops' \in Seq(Loops) /\ loops' # <<>> /\ Head(loops').unpowered = ports
    BY <2>1, <2>2 DEF SetupTypeOK
  <2>. QED  BY <1>2, <2>1, <2>3 DEF DetectHubDevice, SetupTypeOK, Steps
<1>3. CASE PowerPort
  <2>1. PICK p \in BOOLEAN : current' = [current EXCEPT !.power = p]
    BY <1>3, Zenon DEF PowerPort
  <2>. QED  BY <1>3, <2>1 DEF PowerPort, SetupTypeOK, Steps
<1>4. CASE ResetPort
  <2>1. /\ UNCHANGED <<NextED, Device, current>> /\ loops' = [loops EXCEPT ![1].unpowered = Tail(@)]
        /\ loops # <<>> /\ Head(loops).unpowered # <<>>
        /\ step' = IF loops'[1].unpowered = <<>> THEN "NextPort" ELSE "PowerPort"
    BY <1>4 DEF ResetPort, SetupTypeOK
  <2>2. loops' \in Seq(Loops) /\ loops' # <<>> /\ Head(loops') = loops'[1]
    BY <2>1, LoopGoesOn, LoopsAreTyped DEF SetupTypeOK
  <2>3. listens' \in [Gadgets -> Devices \cup {Silent}]
    <3>1. PICK address \in {0, listens[Head(Head(loops).unpowered)]} :
              listens' = [listens EXCEPT ![Head(Head(loops).unpowered)] = address]
      BY <1>4 DEF ResetPort
    <3>2. 0 \in Devices
      BY GadgetsAssumption DEF Devices
    <3>. QED  BY <3>1, <3>2 DEF SetupTypeOK
  <2>. QED  BY <2>1, <2>2, <2>3 DEF SetupTypeOK, Steps
<1>. QED  BY <1>1, <1>2, <1>3, <1>4

LEMMA SetupIsTyped ==
    ASSUME SetupTypeOK, SetupNext
    PROVE  SetupTypeOK'
BY PortsAreTyped, RequestsAreTyped, DetectionIsTyped, LinksAndHubsAreTyped DEF SetupNext

-----------------------------------------------------------------------------
(* Addresses *)

(* Every other step leaves the addresses alone.                             *)
OtherSteps ==
    \/ NextRootPort \/ NextHubPort \/ PortNotEnabledYet \/ PortsDone
    \/ ProductString \/ ManufacturerString \/ Configuration
    \/ DetectMassStorageDevice \/ DetectHIDDevice \/ LinkAfterRow \/ LinkIntoRow
    \/ DetectHubDevice \/ PowerPort \/ ResetPort

LEMMA WhatOtherStepsDo ==
    ASSUME SetupTypeOK, OtherSteps
    PROVE  /\ step \notin {"SetAddress", "Verify", "Panic"} /\ step' \notin {"SetAddress", "Verify"}
           /\ UNCHANGED <<abandoned, shared>>
           /\ \A g \in Gadgets : listens'[g] \in {listens[g], 0}
           /\ \A d \in Devices : Device'[d].Active = Device[d].Active
<1>1. /\ step \notin {"SetAddress", "Verify", "Panic"} /\ UNCHANGED <<abandoned, shared>>
  BY DEF OtherSteps, NextRootPort, NextHubPort, PortNotEnabledYet, PortsDone, ProductString,
         ManufacturerString, Configuration, DetectMassStorageDevice, DetectHIDDevice, LinkAfterRow,
         LinkIntoRow, DetectHubDevice, PowerPort, ResetPort, DivideByZero
<1>2. step' \notin {"SetAddress", "Verify"}
  BY DEF OtherSteps, NextRootPort, NextHubPort, PortNotEnabledYet, PortsDone, ProductString,
         ManufacturerString, Configuration, Detected, DetectMassStorageDevice, DetectHIDDevice,
         LinkAfterRow, LinkIntoRow, DetectHubDevice, PowerPort, ResetPort, DivideByZero
<1>3. \A g \in Gadgets : listens'[g] \in {listens[g], 0}
  <2>1. CASE ResetPort
    <3>1. PICK address : /\ listens' = [listens EXCEPT ![Head(Head(loops).unpowered)] = address]
                         /\ address \in {0, listens[Head(Head(loops).unpowered)]}
      BY <2>1 DEF ResetPort
    <3>. QED  BY <3>1 DEF SetupTypeOK
  <2>2. CASE ~ ResetPort
    <3>1. UNCHANGED listens
      BY <2>2 DEF OtherSteps, NextRootPort, NextHubPort, PortNotEnabledYet, PortsDone, ProductString,
         ManufacturerString, Configuration, DetectMassStorageDevice, DetectHIDDevice, LinkAfterRow,
         LinkIntoRow, DetectHubDevice, PowerPort, DivideByZero, busVars
    <3>. QED  BY <3>1
  <2>. QED  BY <2>1, <2>2
<1>4. \A d \in Devices : Device'[d].Active = Device[d].Active
  <2>1. Device \in [Devices -> Slots]
    BY DEF SetupTypeOK
  <2>2. CASE PortsDone
    <3>1. \/ UNCHANGED Device
          \/ Device' = [Device EXCEPT ![Head(loops).hub].InterfaceClass = "Hub"]
      BY <2>2 DEF PortsDone
    <3>. QED  BY <2>1, <3>1 DEF Slots
  <2>3. CASE Configuration
    <3>1. PICK class, wish :
              \/ UNCHANGED Device
              \/ Device' = [Device EXCEPT ![current.device] =
                     [Device[current.device] EXCEPT !.Interface = class, !.Interval = wish]]
      BY <2>3, WhatConfigurationDoes
    <3>2. \A slot \in Slots :
              [slot EXCEPT !.Interface = class, !.Interval = wish].Active = slot.Active
      BY DEF Slots
    <3>. QED  BY <2>1, <3>1, <3>2
  <2>4. CASE DetectMassStorageDevice
    BY <2>1, <2>4 DEF DetectMassStorageDevice, Slots
  <2>6. CASE DetectHIDDevice
    <3>1. \A slot \in Slots, d \in Devices :
              [slot EXCEPT !.InterfaceClass = "HID", !.TransferDescriptor = d].Active = slot.Active
      BY DEF Slots
    <3>2. current.device \in Devices
      BY DEF SetupTypeOK
    <3>3. PICK slot : /\ Device' = [Device EXCEPT ![current.device] = slot]
                      /\ slot.Active = Device[current.device].Active
      BY ZenonT(60), <2>1, <2>6, <3>1, <3>2, WhatDetectionDoes
    <3>. QED  BY <2>1, <3>3
  <2>5. CASE ~ (PortsDone \/ Configuration \/ DetectMassStorageDevice \/ DetectHIDDevice)
    <3>1. UNCHANGED Device
      BY <2>5 DEF OtherSteps, NextRootPort, NextHubPort, PortNotEnabledYet, ProductString,
         ManufacturerString, LinkAfterRow, LinkIntoRow, DetectHubDevice, PowerPort, ResetPort,
         DivideByZero
    <3>. QED  BY <3>1
  <2>. QED  BY <2>2, <2>3, <2>4, <2>5, <2>6
<1>. QED  BY <1>1, <1>2, <1>3, <1>4

LEMMA AddressesAreKept ==
    ASSUME SetupTypeOK, AddressesAreTaken, AddressIsOwn, SetupNext
    PROVE  AddressesAreTaken' /\ AddressIsOwn'
<1>0. SetupTypeOK'
  BY SetupIsTyped
<1>1. CASE OtherSteps
  BY <1>0, <1>1, WhatOtherStepsDo DEF AddressesAreTaken, AddressIsOwn, SetupTypeOK
<1>2. CASE LateError
  BY <1>2 DEF LateError, AddressesAreTaken, AddressIsOwn
<1>3. CASE Describe
  <2>1. /\ step = "Describe" /\ UNCHANGED <<listens, Device, shared, abandoned>>
        /\ step' # "Verify"
        /\ step' = "SetAddress" =>
               /\ \E d \in Devices : IsFree(d)
               /\ current'.device = CHOOSE d \in Devices : IsFree(d) /\ \A e \in 0 .. d - 1 : ~ IsFree(e)
    BY <1>3 DEF Describe, SetupTypeOK
  <2>2. step' = "SetAddress" => ~ Device[current'.device].Active
    BY <2>1, FirstFreeSlot DEF IsFree
  <2>. QED  BY <2>1, <2>2 DEF AddressesAreTaken, AddressIsOwn
<1>4. CASE SetAddress
  <2>1. PICK r : /\ r \in Replies(0)
                 /\ listens' = [g \in Gadgets |-> IF g \in r.took THEN current.device ELSE listens[g]]
                 /\ shared' = shared \cup IF Cardinality(r.took) > 1 THEN {r.took} ELSE {}
                 /\ \/ step' = "Verify" /\ UNCHANGED abandoned
                    \/ step' = "NextPort" /\ abandoned' = abandoned \cup {current.device}
    BY <1>4 DEF SetAddress
  <2>2. step = "SetAddress" /\ UNCHANGED <<Device, current>> /\ r.took \in SUBSET Gadgets
    BY <1>4, <2>1, WhatRepliesAre DEF SetAddress
  <2>3. AddressesAreTaken'
    BY <2>1, <2>2 DEF AddressesAreTaken
  <2>4. ASSUME NEW g \in Gadgets, NEW h \in Gadgets, g # h, g \in r.took, h \in r.took
        PROVE  \E S \in shared' : {g, h} \subseteq S
    <3>1. IsFiniteSet(r.took)
      BY <2>2, GadgetsAssumption, FS_Subset
    <3>2. Cardinality(r.took) \in Nat /\ Cardinality(r.took) \notin {0, 1}
      BY <2>4, <3>1, FS_EmptySet, FS_Singleton, FS_CardinalityType
    <3>3. Cardinality(r.took) > 1 /\ {g, h} \subseteq r.took
      BY <2>4, <3>2
    <3>. QED  BY <2>1, <3>3
  <2>5. ASSUME NEW g \in Gadgets, NEW h \in Gadgets, listens'[g] = listens'[h],
               listens'[g] \notin {Silent, 0}, g \in r.took, h \notin r.took
        PROVE  listens'[g] \in abandoned'
    <3>1. listens[h] = current.device /\ listens[h] \notin {Silent, 0}
      BY <2>1, <2>5
    <3>2. listens[h] \in abandoned
      BY <2>2, <3>1 DEF AddressesAreTaken
    <3>. QED  BY <2>1, <2>5, <3>1, <3>2
  <2>6. ASSUME NEW g \in Gadgets, NEW h \in Gadgets, g # h, listens'[g] = listens'[h],
               listens'[g] \notin {Silent, 0}
        PROVE  listens'[g] \in abandoned' \/ \E S \in shared' : {g, h} \subseteq S
    <3>1. CASE g \notin r.took /\ h \notin r.took
      BY <2>1, <2>6, <3>1 DEF AddressIsOwn
    <3>. QED  BY <2>4, <2>5, <2>6, <3>1
  <2>. QED  BY <2>3, <2>6 DEF AddressIsOwn
<1>5. CASE Verify
  <2>1. /\ step = "Verify" /\ UNCHANGED <<listens, current, shared>>
        /\ \E size : \/ step' = "Panic" /\ UNCHANGED <<Device, abandoned>>
                  \/ /\ step' = "ProductString" /\ UNCHANGED abandoned
                     /\ Device' = [Device EXCEPT ![current.device] = Entered(@, size)]
                  \/ /\ step' = "NextPort" /\ UNCHANGED Device
                     /\ abandoned' = abandoned \cup {current.device}
    BY <1>5 DEF Verify, DivideByZero, busVars
  <2>2. step' = "ProductString" =>
            /\ Device'[current.device].Active
            /\ \A d \in Devices : Device[d].Active => Device'[d].Active
    <3>1. \A size : \A slot \in Slots : Entered(slot, size).Active
      BY DEF Slots, Entered
    <3>2. CASE step' = "ProductString"
      <4>1. PICK slot : Device' = [Device EXCEPT ![current.device] = slot] /\ slot.Active
        BY <2>1, <3>1, <3>2 DEF SetupTypeOK
      <4>. QED  BY <4>1 DEF SetupTypeOK
    <3>. QED  BY <3>2
  <2>3. abandoned \subseteq abandoned'
    BY <2>1
  <2>4. AddressesAreTaken'
    BY <1>0, <2>1, <2>2 DEF AddressesAreTaken, SetupTypeOK
  <2>. QED  BY <2>1, <2>3, <2>4 DEF AddressIsOwn
<1>. QED  BY <1>1, <1>2, <1>3, <1>4, <1>5 DEF SetupNext, OtherSteps

-----------------------------------------------------------------------------
(* Descriptors *)

LEMMA NumbersOfDevices ==
    /\ Devices \in SUBSET Nat /\ Null \notin Devices /\ 0 \in Devices
    /\ \A d \in Devices : EDOf(d) \in EDs /\ EDOf(d) > 30
    /\ \A d, e \in Devices : EDOf(d) = EDOf(e) => d = e
BY GadgetsAssumption DEF Devices, Null, EDOf, EDs

(* Links go where devices are linked already, or to the current one.        *)
LEMMA WhatLinksDo ==
    ASSUME SetupTypeOK, LinkAfterRow \/ LinkIntoRow
    PROVE  Visible' \subseteq Visible \cup {current.device}
<1>1. /\ current.device \in Devices /\ NextED \in [EDs -> EDs \cup {Null}]
      /\ Device[current.device].Interval \in 0 .. 255
  BY DEF SetupTypeOK, Slots
<1>2. Row \in EDs
  BY <1>1, RowsAreEndpoints DEF Row
<1>3. \A ed \in EDs : NextED'[ed] = EDOf(current.device) \/ \E from \in EDs : NextED'[ed] = NextED[from]
  BY <1>1, <1>2 DEF LinkAfterRow, LinkIntoRow, LinkOf
<1>4. ASSUME NEW d \in Devices, NEW ed \in EDs, NextED'[ed] = EDOf(d)
      PROVE  d \in Visible \cup {current.device}
  <2>1. CASE NextED'[ed] = EDOf(current.device)
    BY <1>1, <1>4, <2>1, NumbersOfDevices
  <2>2. CASE \E from \in EDs : NextED'[ed] = NextED[from]
    BY <1>4, <2>2 DEF Visible
  <2>. QED  BY <1>3, <2>1, <2>2
<1>. QED  BY <1>4 DEF Visible

LEMMA ReportsAreFound ==
    ASSUME SetupTypeOK, DescriptorsAreOwn
    PROVE  ReportsFindTheirDevice
<1>1. SUFFICES ASSUME NEW d \in Visible, NEW read \in {"HID", None}
      PROVE  LET class(e) == IF Device[e].Interface = None THEN read ELSE Device[e].Interface
                 found == {e \in Devices : /\ Device[e].Active
                                           /\ class(e) \in {"HID", "OtherHID"}
                                           /\ Device[e].TransferDescriptor = d}
             IN  found = {d} /\ Device[d].InterfaceClass = "HID"
  BY DEF ReportsFindTheirDevice
<1>2. d \in Devices /\ d # Null
  BY NumbersOfDevices DEF Visible
<1>3. /\ Device[d].TransferDescriptor = d /\ Device[d].Active
      /\ Device[d].Interface = "HID" /\ Device[d].InterfaceClass = "HID"
  BY <1>2 DEF DescriptorsAreOwn
<1>4. \A e \in Devices : Device[e].TransferDescriptor = d => e = d
  BY <1>2 DEF DescriptorsAreOwn
<1>. QED  BY <1>2, <1>3, <1>4 DEF None

(* What is left of the invariant when only the loops go on.                 *)
LEMMA DescriptorsStay ==
    ASSUME SetupTypeOK, DescriptorsAreOwn, UNCHANGED <<Device, NextED>>,
           \A n \in DOMAIN loops' : \E k \in DOMAIN loops : loops'[n].hub = loops[k].hub,
           \/ step' \notin Fresh \cup {"LinkAfterRow", "LinkIntoRow"}
           \/ UNCHANGED <<step, current>>
           \/ /\ step \in Fresh \ {"HID"} /\ step' \in Fresh \ {"HID"} /\ UNCHANGED current
    PROVE  DescriptorsAreOwn'
<1>1. Visible' = Visible
  BY DEF Visible
<1>2. step' \in Fresh => step \in Fresh /\ current' = current
  BY DEF Fresh
<1>3. step' = "HID" => step = "HID" /\ current' = current
  BY DEF Fresh
<1>4. step' \in {"LinkAfterRow", "LinkIntoRow"} => step' = step /\ current' = current
  BY DEF Fresh
<1>. QED  BY <1>1, <1>2, <1>3, <1>4 DEF DescriptorsAreOwn

LEMMA DescriptorsAreKept ==
    ASSUME SetupTypeOK, AddressesAreTaken, DescriptorsAreOwn, SetupNext
    PROVE  DescriptorsAreOwn'
<1>0. /\ Device \in [Devices -> Slots] /\ current.device \in Devices
      /\ \A n \in DOMAIN loops : loops[n].hub \in Devices
  <2>1. \A loop \in Loops : loop.hub \in Devices
    BY DEF Loops
  <2>. QED  BY <2>1 DEF SetupTypeOK
<1>1. CASE NextRootPort \/ NextHubPort \/ PortNotEnabledYet \/ ResetPort
  <2>1. /\ loops # <<>> /\ UNCHANGED <<Device, NextED>>
        /\ \/ loops' = [loops EXCEPT ![1].ports = Tail(@)] /\ loops[1].ports # <<>>
           \/ loops' = [loops EXCEPT ![1].unpowered = Tail(@)] /\ loops[1].unpowered # <<>>
        /\ step' \in {"NextPort", "Describe", "PowerPort"}
    BY <1>1, LoopsAreTyped DEF NextRootPort, NextHubPort, PortNotEnabledYet, ResetPort, SetupTypeOK
  <2>2. \A n \in DOMAIN loops' : \E k \in DOMAIN loops : loops'[n].hub = loops[k].hub
    BY <2>1, LoopGoesOn
  <2>. QED  BY <2>1, <2>2, DescriptorsStay DEF Fresh
<1>2. CASE PortsDone
  <2>1. /\ loops' = Tail(loops) /\ loops # <<>> /\ Head(loops) = loops[1] /\ 1 \in DOMAIN loops
        /\ step' \in {"Done", "NextPort"} /\ UNCHANGED NextED
        /\ Device' = IF Head(loops).hub = 0 THEN Device
                     ELSE [Device EXCEPT ![Head(loops).hub].InterfaceClass = "Hub"]
    BY <1>2, LoopsAreTyped DEF PortsDone
  <2>2. \A n \in DOMAIN loops' : \E k \in DOMAIN loops : loops'[n].hub = loops[k].hub
    <3>1. \A n \in DOMAIN loops' : n + 1 \in DOMAIN loops /\ loops'[n] = loops[n + 1]
      BY <2>1 DEF SetupTypeOK
    <3>. QED  BY <3>1
  <2>3. CASE Head(loops).hub = 0
    BY <2>1, <2>2, <2>3, DescriptorsStay DEF Fresh
  <2>4. CASE Head(loops).hub # 0
    <3>1. PICK hub \in Devices : /\ hub = Head(loops).hub
                                 /\ Device' = [Device EXCEPT ![hub].InterfaceClass = "Hub"]
                                 /\ Device[hub].TransferDescriptor = Null
      <4>1. loops[1].hub \in Devices /\ Device[loops[1].hub].TransferDescriptor = Null
        BY <1>0, <2>1, <2>4 DEF DescriptorsAreOwn
      <4>2. Head(loops).hub \in Devices /\ Device[Head(loops).hub].TransferDescriptor = Null
        BY <2>1, <4>1
      <4>. QED  BY <2>1, <2>4, <4>2
    <3>2. \A d \in Devices :
              /\ Device'[d].TransferDescriptor = Device[d].TransferDescriptor
              /\ Device'[d].Active = Device[d].Active
              /\ d # hub => Device'[d] = Device[d]
      BY <1>0, <3>1 DEF Slots
    <3>3. Visible' = Visible /\ step' \notin Fresh \cup {"LinkAfterRow", "LinkIntoRow"}
      BY <2>1 DEF Visible, Fresh
    <3>4. \A n \in DOMAIN loops' : loops'[n].hub # 0 =>
              /\ loops'[n].hub \in Devices /\ Device[loops'[n].hub].Active
              /\ Device[loops'[n].hub].TransferDescriptor = Null
      BY <1>0, <2>2 DEF DescriptorsAreOwn
    <3>5. \A d \in Devices :
              /\ Device'[d].TransferDescriptor \in {Null, d}
              /\ Device'[d].TransferDescriptor = d =>
                     /\ Device'[d].Active
                     /\ Device'[d].Interface = "HID" /\ Device'[d].InterfaceClass = "HID"
              /\ d \in Visible' => Device'[d].TransferDescriptor = d
      BY <3>1, <3>2, <3>3, NumbersOfDevices DEF DescriptorsAreOwn
    <3>6. step' # "HID" /\ step' \notin {"LinkAfterRow", "LinkIntoRow"} /\ step' \notin Fresh
      BY <3>3 DEF Fresh
    <3>7. \A n \in DOMAIN loops' : loops'[n].hub # 0 =>
              /\ Device'[loops'[n].hub].Active
              /\ Device'[loops'[n].hub].TransferDescriptor = Null
      BY <3>2, <3>4
    <3>. QED  BY <3>5, <3>6, <3>7 DEF DescriptorsAreOwn
  <2>. QED  BY <2>3, <2>4
<1>3. CASE Describe \/ SetAddress \/ ProductString \/ ManufacturerString \/ LateError \/ PowerPort
  <2>1. UNCHANGED <<Device, NextED, loops>>
    BY <1>3 DEF Describe, SetAddress, ProductString, ManufacturerString, LateError, PowerPort,
                DivideByZero
  <2>2. \/ step' \notin Fresh \cup {"LinkAfterRow", "LinkIntoRow"}
        \/ UNCHANGED <<step, current>>
        \/ /\ step \in Fresh \ {"HID"} /\ step' \in Fresh \ {"HID"} /\ UNCHANGED current
    BY <1>3 DEF Describe, SetAddress, ProductString, ManufacturerString, LateError, PowerPort,
                DivideByZero, Fresh
  <2>. QED  BY <2>1, <2>2, DescriptorsStay
<1>4. CASE Verify
  <2>1. /\ step = "Verify" /\ UNCHANGED <<NextED, current, loops>>
        /\ \E size : \/ step' \in {"Panic", "NextPort"} /\ UNCHANGED Device
                  \/ /\ step' = "ProductString"
                     /\ Device' = [Device EXCEPT ![current.device] = Entered(@, size)]
    BY <1>4 DEF Verify, DivideByZero
  <2>2. CASE step' \in {"Panic", "NextPort"} /\ UNCHANGED Device
    BY <2>1, <2>2, DescriptorsStay DEF Fresh
  <2>3. CASE step' = "ProductString" /\ \E size : Device' = [Device EXCEPT ![current.device] = Entered(@, size)]
    <3>1. \A size : \A slot \in Slots :
              /\ Entered(slot, size).Active
              /\ Entered(slot, size).TransferDescriptor = slot.TransferDescriptor
              /\ Entered(slot, size).Interface = slot.Interface
              /\ Entered(slot, size).InterfaceClass = slot.InterfaceClass
      BY DEF Slots, Entered
    <3>2. \A d \in Devices :
              /\ Device'[d].TransferDescriptor = Device[d].TransferDescriptor
              /\ Device'[d].Interface = Device[d].Interface
              /\ Device'[d].InterfaceClass = Device[d].InterfaceClass
              /\ Device[d].Active \/ d = current.device => Device'[d].Active
      BY <1>0, <2>3, <3>1
    <3>3. ~ Device[current.device].Active /\ Device[current.device].TransferDescriptor = Null
      BY <1>0, <2>1 DEF AddressesAreTaken, DescriptorsAreOwn
    <3>4. Visible' = Visible /\ UNCHANGED <<current, loops>> /\ step' = "ProductString"
      BY <2>1, <2>3 DEF Visible
    <3>5. \A d \in Devices :
              /\ Device'[d].TransferDescriptor \in {Null, d}
              /\ Device'[d].TransferDescriptor = d =>
                     /\ Device'[d].Active
                     /\ Device'[d].Interface = "HID" /\ Device'[d].InterfaceClass = "HID"
              /\ d \in Visible' => Device'[d].TransferDescriptor = d
      BY <3>2, <3>4 DEF DescriptorsAreOwn
    <3>6. \A n \in DOMAIN loops' : loops'[n].hub # 0 =>
              /\ Device'[loops'[n].hub].Active
              /\ Device'[loops'[n].hub].TransferDescriptor = Null
              /\ loops'[n].hub # current'.device
      BY <1>0, <3>2, <3>3, <3>4 DEF DescriptorsAreOwn
    <3>7. Device'[current'.device].Active /\ Device'[current'.device].TransferDescriptor = Null
      BY <1>0, <3>2, <3>3, <3>4
    <3>. QED  BY <3>4, <3>5, <3>6, <3>7 DEF DescriptorsAreOwn
  <2>. QED  BY <2>1, <2>2, <2>3
<1>5. CASE Configuration \/ DetectMassStorageDevice
  <2>1. PICK slot :
            /\ Device' = [Device EXCEPT ![current.device] = slot]
            /\ slot.TransferDescriptor = Device[current.device].TransferDescriptor
            /\ slot.Active = Device[current.device].Active
            /\ step' = "HID" => slot.Interface = "HID"
    <3>1. CASE Configuration
      <4>1. PICK class, wish :
                \/ UNCHANGED Device /\ step' = "NextPort"
                \/ /\ Device' = [Device EXCEPT ![current.device] =
                         [Device[current.device] EXCEPT !.Interface = class, !.Interval = wish]]
                   /\ step' = IF class \in Detected THEN class ELSE "NextPort"
        BY <3>1, WhatConfigurationDoes
      <4>2. \A s \in Slots :
                LET t == [s EXCEPT !.Interface = class, !.Interval = wish]
                IN  /\ t.TransferDescriptor = s.TransferDescriptor
                    /\ t.Active = s.Active /\ t.Interface = class
        BY DEF Slots
      <4>3. CASE UNCHANGED Device /\ step' = "NextPort"
        <5>1. Device' = [Device EXCEPT ![current.device] = Device[current.device]]
          BY <1>0, <4>3
        <5>. QED  BY <4>3, <5>1
      <4>4. CASE ~ (UNCHANGED Device /\ step' = "NextPort")
        <5>1. step' = "HID" => class = "HID"
          BY <4>1, <4>4 DEF Detected
        <5>2. Device[current.device] \in Slots
          BY <1>0
        <5>. QED  BY <4>1, <4>2, <4>4, <5>1, <5>2
      <4>. QED  BY <4>3, <4>4
    <3>2. CASE DetectMassStorageDevice
      <4>1. \A s \in Slots :
                LET t == [s EXCEPT !.InterfaceClass = "MassStorage"]
                IN  t.TransferDescriptor = s.TransferDescriptor /\ t.Active = s.Active
        BY DEF Slots
      <4>. QED  BY <1>0, <3>2, <4>1 DEF DetectMassStorageDevice
    <3>. QED  BY <1>5, <3>1, <3>2
  <2>2. /\ step \in Fresh \ {"HID"} /\ UNCHANGED <<NextED, current, loops>>
        /\ step' \in {"HID", "Hub", "MassStorage", "NextPort"}
    BY <1>5 DEF Configuration, DetectMassStorageDevice, Detected, Fresh
  <2>3. /\ Device[current.device].Active /\ Device[current.device].TransferDescriptor = Null
        /\ \A n \in DOMAIN loops : loops[n].hub # 0 => loops[n].hub # current.device
    BY <2>2 DEF DescriptorsAreOwn
  <2>4. /\ Device'[current.device] = slot /\ slot.TransferDescriptor = Null /\ slot.Active
        /\ \A d \in Devices : d # current.device => Device'[d] = Device[d]
    BY <1>0, <2>1, <2>3
  <2>5. Visible' = Visible
    BY <2>2 DEF Visible
  <2>6. \A d \in Devices :
            /\ Device'[d].TransferDescriptor \in {Null, d}
            /\ Device'[d].TransferDescriptor = d =>
                   /\ Device'[d].Active
                   /\ Device'[d].Interface = "HID" /\ Device'[d].InterfaceClass = "HID"
            /\ d \in Visible' => Device'[d].TransferDescriptor = d
    BY <2>3, <2>4, <2>5, NumbersOfDevices DEF DescriptorsAreOwn
  <2>7. \A n \in DOMAIN loops' : loops'[n].hub # 0 =>
            /\ Device'[loops'[n].hub].Active
            /\ Device'[loops'[n].hub].TransferDescriptor = Null
            /\ loops'[n].hub # current'.device
    BY <1>0, <2>2, <2>3, <2>4 DEF DescriptorsAreOwn
  <2>. QED  BY <2>1, <2>2, <2>4, <2>6, <2>7 DEF DescriptorsAreOwn
<1>6. CASE DetectHIDDevice
  <2>1. PICK slot :
            /\ Device' = [Device EXCEPT ![current.device] = slot]
            /\ slot.TransferDescriptor = current.device /\ slot.InterfaceClass = "HID"
            /\ slot.Active = Device[current.device].Active
            /\ slot.Interface = Device[current.device].Interface
    <3>1. \A s \in Slots, d \in Devices :
              LET t == [s EXCEPT !.InterfaceClass = "HID", !.TransferDescriptor = d]
              IN  /\ t.TransferDescriptor = d /\ t.InterfaceClass = "HID"
                  /\ t.Active = s.Active /\ t.Interface = s.Interface
      BY DEF Slots
    <3>2. Device[current.device] \in Slots
      BY <1>0
    <3>3. PICK slot : slot = [Device[current.device] EXCEPT !.InterfaceClass = "HID",
                                                            !.TransferDescriptor = current.device]
      OBVIOUS
    <3>4. Device' = [Device EXCEPT ![current.device] = slot]
      BY <1>6, <3>3, WhatDetectionDoes
    <3>5. /\ slot.TransferDescriptor = current.device /\ slot.InterfaceClass = "HID"
          /\ slot.Active = Device[current.device].Active
          /\ slot.Interface = Device[current.device].Interface
      BY <1>0, <3>1, <3>2, <3>3
    <3>. QED  BY <3>4, <3>5
  <2>2. /\ step = "HID" /\ step \in Fresh /\ UNCHANGED <<NextED, current, loops>>
        /\ step' = "LinkAfterRow" /\ step' \notin Fresh
    BY <1>6 DEF DetectHIDDevice, Fresh
  <2>3. /\ Device[current.device].Active /\ Device[current.device].Interface = "HID"
        /\ Device[current.device].TransferDescriptor = Null
        /\ \A n \in DOMAIN loops : loops[n].hub # 0 => loops[n].hub # current.device
    BY <2>2 DEF DescriptorsAreOwn
  <2>4. /\ Device'[current.device] = slot
        /\ \A d \in Devices : d # current.device => Device'[d] = Device[d]
    BY <1>0, <2>1
  <2>5. Visible' = Visible
    BY <2>2 DEF Visible
  <2>6. \A d \in Devices :
            /\ Device'[d].TransferDescriptor \in {Null, d}
            /\ Device'[d].TransferDescriptor = d =>
                   /\ Device'[d].Active
                   /\ Device'[d].Interface = "HID" /\ Device'[d].InterfaceClass = "HID"
            /\ d \in Visible' => Device'[d].TransferDescriptor = d
    BY ZenonT(60), <2>1, <2>3, <2>4, <2>5 DEF DescriptorsAreOwn
  <2>7. \A n \in DOMAIN loops' : loops'[n].hub # 0 =>
            /\ Device'[loops'[n].hub].Active
            /\ Device'[loops'[n].hub].TransferDescriptor = Null
    BY <1>0, <2>2, <2>3, <2>4 DEF DescriptorsAreOwn
  <2>8. Device'[current'.device].TransferDescriptor = current'.device
    BY <2>1, <2>2, <2>4
  <2>. QED  BY <2>2, <2>6, <2>7, <2>8 DEF DescriptorsAreOwn
<1>7. CASE LinkAfterRow \/ LinkIntoRow
  <2>1. /\ step \in {"LinkAfterRow", "LinkIntoRow"} /\ UNCHANGED <<Device, current, loops>>
        /\ step' \in {"LinkIntoRow", "NextPort"} /\ step' \notin Fresh
    BY <1>7 DEF LinkAfterRow, LinkIntoRow, Fresh
  <2>2. Visible' \subseteq Visible \cup {current.device}
    BY <1>7, WhatLinksDo
  <2>. QED  BY <2>1, <2>2 DEF DescriptorsAreOwn
<1>8. CASE DetectHubDevice
  <2>1. PICK ports : /\ loops' = <<[hub |-> current.device, ports |-> ports, unpowered |-> ports]>> \o loops
                     /\ step' = IF ports = <<>> THEN "NextPort" ELSE "PowerPort"
    BY <1>8 DEF DetectHubDevice
  <2>2. step = "Hub" /\ step \in Fresh /\ UNCHANGED <<Device, NextED, current>>
    BY <1>8 DEF DetectHubDevice, Fresh
  <2>3. \A n \in DOMAIN loops' : \/ loops'[n].hub = current.device
                                 \/ \E k \in DOMAIN loops : loops'[n] = loops[k]
    <3>1. loops \in Seq(Loops)
      BY DEF SetupTypeOK
    <3>2. \A n \in DOMAIN loops' : \/ n = 1 /\ loops'[n].hub = current.device
                                   \/ n - 1 \in DOMAIN loops /\ loops'[n] = loops[n - 1]
      BY <2>1, <3>1
    <3>. QED  BY <3>2
  <2>4. /\ Device[current.device].Active /\ Device[current.device].TransferDescriptor = Null
    BY <2>2 DEF DescriptorsAreOwn
  <2>5. \A n \in DOMAIN loops' : loops'[n].hub # 0 =>
            /\ Device[loops'[n].hub].Active
            /\ Device[loops'[n].hub].TransferDescriptor = Null
    BY <2>3, <2>4 DEF DescriptorsAreOwn
  <2>6. Visible' = Visible /\ step' \notin Fresh \cup {"LinkAfterRow", "LinkIntoRow"}
    BY <2>1, <2>2 DEF Visible, Fresh
  <2>7. step' # "HID"
    BY <2>1
  <2>. QED  BY <2>2, <2>5, <2>6, <2>7 DEF DescriptorsAreOwn
<1>. QED  BY <1>1, <1>2, <1>3, <1>4, <1>5, <1>6, <1>7, <1>8 DEF SetupNext

-----------------------------------------------------------------------------
(* Links *)

LEMMA WhatIntervalsDo ==
    ASSUME SetupTypeOK, DescriptorsAreOwn, SetupNext, ~ LinkAfterRow, ~ LinkIntoRow
    PROVE  /\ NextED' = NextED /\ Visible' = Visible
           /\ \A d \in Visible : RowOfDevice(d)' = RowOfDevice(d)
           /\ \/ step' \notin {"LinkAfterRow", "LinkIntoRow"}
              \/ UNCHANGED <<step, current, Device>>
              \/ step' = "LinkAfterRow" /\ step = "HID" /\ UNCHANGED current
<1>1. NextED' = NextED
  BY DEF SetupNext, NextRootPort, NextHubPort, PortNotEnabledYet, PortsDone, Describe, SetAddress,
         Verify, ProductString, ManufacturerString, Configuration, LateError,
         DetectMassStorageDevice, DetectHIDDevice, DetectHubDevice, PowerPort, ResetPort, DivideByZero
<1>2. \/ step' \notin {"LinkAfterRow", "LinkIntoRow"}
      \/ UNCHANGED <<step, current, Device>>
      \/ step' = "LinkAfterRow" /\ step = "HID" /\ UNCHANGED current
  BY DEF SetupNext, NextRootPort, NextHubPort, PortNotEnabledYet, PortsDone, Describe, SetAddress,
         Verify, ProductString, ManufacturerString, Configuration, LateError, Detected,
         DetectMassStorageDevice, DetectHIDDevice, DetectHubDevice, PowerPort, ResetPort, DivideByZero
<1>3. Visible' = Visible
  BY <1>1 DEF Visible
<1>4. /\ Device \in [Devices -> Slots] /\ current.device \in Devices
      /\ Visible \in SUBSET Devices
  BY DEF SetupTypeOK, Visible
<1>5. ASSUME NEW d \in Visible  PROVE Device'[d].Interval = Device[d].Interval
  <2>0. d \in Devices
    BY <1>4
  <2>1. CASE PortsDone
    <3>1. \/ UNCHANGED Device
          \/ Device' = [Device EXCEPT ![Head(loops).hub].InterfaceClass = "Hub"]
      BY <2>1 DEF PortsDone
    <3>. QED  BY <1>4, <2>0, <3>1 DEF Slots
  <2>2. CASE Configuration
    <3>1. PICK slot : Device' \in {Device, [Device EXCEPT ![current.device] = slot]}
      BY <2>2, WhatConfigurationDoes
    <3>2. step \in Fresh
      BY <2>2 DEF Configuration, Fresh
    <3>3. d # current.device
      BY <1>4, <3>2, NumbersOfDevices DEF DescriptorsAreOwn
    <3>. QED  BY <1>4, <2>0, <3>1, <3>3
  <2>3. CASE DetectMassStorageDevice
    BY <1>4, <2>0, <2>3 DEF DetectMassStorageDevice, Slots
  <2>4. CASE DetectHIDDevice
    <3>1. step \in Fresh
      BY <2>4 DEF DetectHIDDevice, Fresh
    <3>2. d # current.device
      BY <1>4, <3>1, NumbersOfDevices DEF DescriptorsAreOwn
    <3>. QED  BY <1>4, <2>0, <2>4, <3>2, WhatDetectionDoes
  <2>5. CASE Verify
    <3>1. \A size : \A slot \in Slots : Entered(slot, size).Interval = slot.Interval
      BY DEF Slots, Entered
    <3>2. \/ UNCHANGED Device
          \/ \E size : Device' = [Device EXCEPT ![current.device] = Entered(@, size)]
      BY <2>5 DEF Verify, DivideByZero
    <3>. QED  BY <1>4, <2>0, <3>1, <3>2
  <2>6. CASE ~ (PortsDone \/ Configuration \/ DetectMassStorageDevice \/ DetectHIDDevice \/ Verify)
    <3>1. UNCHANGED Device
      BY <2>6 DEF SetupNext, NextRootPort, NextHubPort, PortNotEnabledYet, Describe, SetAddress,
         ProductString, ManufacturerString, LateError, DetectHubDevice, PowerPort, ResetPort,
         DivideByZero
    <3>. QED  BY <3>1
  <2>. QED  BY <2>1, <2>2, <2>3, <2>4, <2>5, <2>6
<1>6. \A d \in Visible : RowOfDevice(d)' = RowOfDevice(d)
  BY <1>5 DEF RowOfDevice
<1>. QED  BY <1>1, <1>2, <1>3, <1>6

LEMMA RowsOfDevices ==
    ASSUME SetupTypeOK, NEW d \in Devices
    PROVE  RowOfDevice(d) \in RowEDs /\ RowOfDevice(d) \in EDs
<1>1. Device[d].Interval \in 0 .. 255
  BY DEF SetupTypeOK, Slots
<1>2. RowOfDevice(d) \in EDs /\ RowOfDevice(d) <= 30
  BY <1>1, RowsAreEndpoints DEF RowOfDevice
<1>. QED  BY <1>2 DEF EDs, RowEDs

LEMMA RowsLeadOnAtFirst ==
    ASSUME NEW ports \in Seq(Gadgets), SetupInit(ports), SetupTypeOK, Visible = {}
    PROVE  RowsLeadOn
<1>1. \A ed \in EDs : NextED[ed] = LinkAfter(ed)
  BY DEF SetupInit
<1>2. step = "NextPort" /\ RowEDs \subseteq EDs
  <2>1. RowEDs \subseteq EDs
    BY GadgetsAssumption DEF RowEDs, EDs
  <2>. QED  BY <2>1 DEF SetupInit
<1>3. \A row \in RowEDs : LinksWithin(row, row)
  BY <1>1, <1>2 DEF LinksWithin
<1>4. ASSUME NEW S \in SUBSET EDs, NEW row \in RowEDs, IsClosed(S), row \in S
      PROVE  LinkAfter(row) \in S \cup {Null}
  BY <1>1, <1>2, <1>4 DEF IsClosed
<1>. QED  BY <1>2, <1>3, <1>4 DEF RowsLeadOn

(* A device that nothing is linked to can be left out of a closed set.      *)
LEMMA RowsAreKept ==
    ASSUME SetupTypeOK, DescriptorsAreOwn, RowsLeadOn, SetupNext
    PROVE  RowsLeadOn'
<1>0. /\ current.device \in Devices /\ NextED \in [EDs -> EDs \cup {Null}]
      /\ EDOf(current.device) \in EDs /\ EDOf(current.device) \notin RowEDs
      /\ Row = RowOfDevice(current.device) /\ Row \in RowEDs /\ Row \in EDs
      /\ RowEDs \subseteq EDs /\ Null \notin EDs /\ Visible \in SUBSET Devices
      /\ \A d \in Visible : EDOf(d) \in EDs \ RowEDs
  <2>1. current.device \in Devices /\ NextED \in [EDs -> EDs \cup {Null}]
    BY DEF SetupTypeOK
  <2>2. \A d \in Devices : EDOf(d) \in EDs /\ EDOf(d) \notin RowEDs
    BY NumbersOfDevices DEF RowEDs, EDs
  <2>3. Row = RowOfDevice(current.device)
    BY DEF Row, RowOfDevice
  <2>4. RowEDs \subseteq EDs /\ Null \notin EDs
    BY GadgetsAssumption DEF EDs, RowEDs, Null
  <2>. QED  BY <2>1, <2>2, <2>3, <2>4, RowsOfDevices DEF Visible
<1>1. CASE ~ LinkAfterRow /\ ~ LinkIntoRow
  <2>1. /\ NextED' = NextED /\ Visible' = Visible
        /\ \A d \in Visible : RowOfDevice(d)' = RowOfDevice(d)
        /\ \/ step' \notin {"LinkAfterRow", "LinkIntoRow"}
           \/ UNCHANGED <<step, current, Device>>
           \/ step' = "LinkAfterRow" /\ step = "HID" /\ UNCHANGED current
    BY <1>1, WhatIntervalsDo
  <2>2. \A S : IsClosed(S)' = IsClosed(S)
    BY <2>1 DEF IsClosed
  <2>3. ASSUME NEW ed \in EDs, NEW row, LinksWithin(ed, row)  PROVE LinksWithin(ed, row)'
    <3>1. CASE NextED[ed] = LinkAfter(row)
      BY <2>1, <3>1 DEF LinksWithin
    <3>2. CASE \E d \in Devices : NextED[ed] = EDOf(d) /\ RowOfDevice(d) = row
      <4>1. PICK d \in Visible : NextED[ed] = EDOf(d) /\ RowOfDevice(d) = row
        BY <2>3, <3>2 DEF Visible
      <4>2. d \in Devices /\ NextED'[ed] = EDOf(d) /\ RowOfDevice(d)' = row
        BY <1>0, <2>1, <4>1
      <4>. QED  BY <4>2 DEF LinksWithin
    <3>. QED  BY <2>3, <3>1, <3>2 DEF LinksWithin
  <2>4. \A S \in SUBSET EDs, row \in RowEDs : IsClosed(S)' /\ row \in S =>
            /\ LinkAfter(row) \in S \cup {Null}
            /\ \A d \in Visible' : RowOfDevice(d)' = row => EDOf(d) \in S
    BY <2>1, <2>2 DEF RowsLeadOn
  <2>5. \A row \in RowEDs : LinksWithin(row, row)'
    BY <1>0, <2>3 DEF RowsLeadOn
  <2>6. \A d \in Visible' : LinksWithin(EDOf(d), RowOfDevice(d))'
    BY <1>0, <2>1, <2>3 DEF RowsLeadOn
  <2>7. step' \in {"LinkAfterRow", "LinkIntoRow"} => current'.device \notin Visible'
    <3>1. step = "HID" => current.device \notin Visible
      BY <1>0, NumbersOfDevices DEF DescriptorsAreOwn, Fresh
    <3>. QED  BY <2>1, <3>1 DEF RowsLeadOn
  <2>8. step' = "LinkIntoRow" => NextED'[EDOf(current'.device)] = NextED'[Row']
    BY <2>1 DEF RowsLeadOn, Row
  <2>. QED  BY <2>4, <2>5, <2>6, <2>7, <2>8 DEF RowsLeadOn
<1>2. CASE LinkAfterRow
  <2>1. /\ NextED' = [NextED EXCEPT ![EDOf(current.device)] = NextED[Row]]
        /\ UNCHANGED <<Device, current>> /\ step = "LinkAfterRow" /\ step' = "LinkIntoRow"
    BY <1>2 DEF LinkAfterRow, LinkOf
  <2>2. current.device \notin Visible /\ \A ed \in EDs : NextED[ed] # EDOf(current.device)
    BY <1>0, <2>1 DEF RowsLeadOn, Visible
  <2>3. /\ NextED'[EDOf(current.device)] = NextED[Row]
        /\ \A ed \in EDs : ed # EDOf(current.device) => NextED'[ed] = NextED[ed]
    BY <1>0, <2>1
  <2>4. Visible' \subseteq Visible
    BY <1>0, <2>3 DEF Visible
  <2>5. \A d : RowOfDevice(d)' = RowOfDevice(d)
    BY <2>1 DEF RowOfDevice
  <2>6. ASSUME NEW S \in SUBSET EDs, NEW row \in RowEDs, IsClosed(S)', row \in S
        PROVE  /\ LinkAfter(row) \in S \cup {Null}
               /\ \A d \in Visible' : RowOfDevice(d)' = row => EDOf(d) \in S
    <3>1. PICK T \in SUBSET EDs : T = S \ {EDOf(current.device)}
      OBVIOUS
    <3>2. IsClosed(T)
      <4>1. ASSUME NEW ed \in T  PROVE NextED[ed] \in T \cup {Null}
        <5>1. NextED'[ed] = NextED[ed] /\ NextED'[ed] \in S \cup {Null}
          BY <2>3, <2>6, <3>1 DEF IsClosed
        <5>. QED  BY <2>2, <3>1, <5>1
      <4>. QED  BY <4>1 DEF IsClosed
    <3>3. row \in T
      BY <1>0, <2>6, <3>1
    <3>. QED  BY <2>4, <2>5, <3>1, <3>2, <3>3 DEF RowsLeadOn
  <2>7. \A ed \in EDs : \A row : ed # EDOf(current.device) /\ LinksWithin(ed, row) => LinksWithin(ed, row)'
    BY <2>3, <2>5 DEF LinksWithin
  <2>8. \A row \in RowEDs : LinksWithin(row, row)'
    BY <1>0, <2>7 DEF RowsLeadOn
  <2>9. \A d \in Visible' : LinksWithin(EDOf(d), RowOfDevice(d))'
    <3>1. \A d \in Visible : EDOf(d) # EDOf(current.device)
      BY <1>0, <2>2, NumbersOfDevices
    <3>. QED  BY <1>0, <2>4, <2>5, <2>7, <3>1 DEF RowsLeadOn
  <2>10. /\ current'.device \notin Visible'
         /\ NextED'[EDOf(current'.device)] = NextED'[Row']
    BY <1>0, <2>1, <2>2, <2>3, <2>4 DEF Row
  <2>. QED  BY <2>1, <2>6, <2>8, <2>9, <2>10 DEF RowsLeadOn
<1>3. CASE LinkIntoRow
  <2>1. /\ NextED' = [NextED EXCEPT ![Row] = EDOf(current.device)]
        /\ UNCHANGED <<Device, current>> /\ step = "LinkIntoRow" /\ step' = "NextPort"
    BY <1>3 DEF LinkIntoRow
  <2>2. NextED[EDOf(current.device)] = NextED[Row]
    BY <2>1 DEF RowsLeadOn
  <2>3. /\ NextED'[Row] = EDOf(current.device)
        /\ \A ed \in EDs : ed # Row => NextED'[ed] = NextED[ed]
    BY <1>0, <2>1
  <2>4. Visible' \subseteq Visible \cup {current.device}
    BY <1>3, WhatLinksDo
  <2>5. \A d : RowOfDevice(d)' = RowOfDevice(d)
    BY <2>1 DEF RowOfDevice
  <2>6. ASSUME NEW S \in SUBSET EDs, NEW row \in RowEDs, IsClosed(S)', row \in S
        PROVE  /\ LinkAfter(row) \in S \cup {Null}
               /\ \A d \in Visible' : RowOfDevice(d)' = row => EDOf(d) \in S
    <3>1. Row \in S => EDOf(current.device) \in S /\ NextED[Row] \in S \cup {Null}
      <4>1. Row \in S => EDOf(current.device) \in S
        BY <1>0, <2>3, <2>6 DEF IsClosed
      <4>2. EDOf(current.device) \in S => NextED[EDOf(current.device)] \in S \cup {Null}
        BY <1>0, <2>3, <2>6 DEF IsClosed
      <4>. QED  BY <2>2, <4>1, <4>2
    <3>2. IsClosed(S)
      BY <2>3, <2>6, <3>1 DEF IsClosed
    <3>3. row = Row => EDOf(current.device) \in S
      BY <2>6, <3>1
    <3>. QED  BY <1>0, <2>4, <2>5, <2>6, <3>2, <3>3 DEF RowsLeadOn
  <2>7. \A ed \in EDs : \A row : ed # Row /\ LinksWithin(ed, row) => LinksWithin(ed, row)'
    BY <2>3, <2>5 DEF LinksWithin
  <2>8. PICK changed \in RowEDs : changed = Row
    BY <1>0
  <2>9. \A row \in RowEDs : LinksWithin(row, row)'
    <3>1. LinksWithin(changed, changed)'
      <4>1. PICK d \in Devices : d = current.device
        BY <1>0
      <4>2. NextED'[changed] = EDOf(d)
        BY <2>3, <2>8, <4>1
      <4>3. RowOfDevice(d)' = changed
        BY <1>0, <2>5, <2>8, <4>1
      <4>. QED  BY <4>2, <4>3 DEF LinksWithin
    <3>2. \A row \in RowEDs : row # changed => LinksWithin(row, row)'
      BY <1>0, <2>7, <2>8 DEF RowsLeadOn
    <3>. QED  BY <3>1, <3>2
  <2>10. \A d \in Visible' : LinksWithin(EDOf(d), RowOfDevice(d))'
    <3>1. LinksWithin(EDOf(current.device), Row)
      <4>1. LinksWithin(Row, Row)
        BY <1>0 DEF RowsLeadOn
      <4>. QED  BY <2>2, <4>1 DEF LinksWithin
    <3>2. \A d \in Visible \cup {current.device} :
             EDOf(d) \in EDs /\ EDOf(d) # Row /\ LinksWithin(EDOf(d), RowOfDevice(d))
      BY <1>0, <3>1 DEF RowsLeadOn
    <3>. QED  BY <2>4, <2>5, <2>7, <3>2
  <2>. QED  BY <2>1, <2>6, <2>9, <2>10 DEF RowsLeadOn
<1>. QED  BY <1>1, <1>2, <1>3

-----------------------------------------------------------------------------
(* The turns of the tree: which rows they come by, and how often *)

LEMMA BitsOfTurns ==
    \A i \in 0 .. 31 : /\ BIT(0, i) = i % 2 /\ BIT(1, i) = (i \div 2) % 2
                       /\ BIT(2, i) = (i \div 4) % 2 /\ BIT(3, i) = (i \div 8) % 2
<1>1. 2 ^ 0 = 1 /\ 2 ^ 1 = 2 /\ 2 ^ 2 = 4 /\ 2 ^ 3 = 8
  OBVIOUS
<1>. QED  BY <1>1 DEF BIT

LEMMA RowsOfTurns ==
    ASSUME NEW i \in 0 .. 31, NEW j \in 0 .. 31
    PROVE  /\ Row1Index(i) \in 0 .. 15 /\ Row2Index(i) \in 16 .. 23
           /\ Row3Index(i) \in 24 .. 27 /\ Row4Index(i) \in 28 .. 29 /\ Row5Index = 30
           /\ Row1Index(i) = Row1Index(j) => Row2Index(i) = Row2Index(j)
           /\ Row2Index(i) = Row2Index(j) => Row3Index(i) = Row3Index(j)
           /\ Row3Index(i) = Row3Index(j) => Row4Index(i) = Row4Index(j)
<1>1. PICK a \in 0 .. 1, b \in 0 .. 1, c \in 0 .. 1, d \in 0 .. 1 :
          BIT(0, i) = a /\ BIT(1, i) = b /\ BIT(2, i) = c /\ BIT(3, i) = d
  BY BitsOfTurns
<1>2. PICK p \in 0 .. 1, q \in 0 .. 1, r \in 0 .. 1, s \in 0 .. 1 :
          BIT(0, j) = p /\ BIT(1, j) = q /\ BIT(2, j) = r /\ BIT(3, j) = s
  BY BitsOfTurns
<1>3. /\ Row1Index(i) = a * 8 + b * 4 + c * 2 + d /\ Row1Index(j) = p * 8 + q * 4 + r * 2 + s
      /\ Row2Index(i) = a * 4 + b * 2 + c + 16 /\ Row2Index(j) = p * 4 + q * 2 + r + 16
      /\ Row3Index(i) = a * 2 + b + 16 + 8 /\ Row3Index(j) = p * 2 + q + 16 + 8
      /\ Row4Index(i) = a + 16 + 8 + 4 /\ Row4Index(j) = p + 16 + 8 + 4
  BY <1>1, <1>2 DEF Row1Index, Row2Index, Row3Index, Row4Index
<1>4. Row5Index = 30
  BY DEF Row5Index
<1>. QED  BY <1>3, <1>4

LEMMA LinksOfTurns ==
    ASSUME NEW i \in 0 .. 31
    PROVE  /\ LinkAfter(Row1Index(i)) = Row2Index(i)
           /\ LinkAfter(Row2Index(i)) = Row3Index(i)
           /\ LinkAfter(Row3Index(i)) = Row4Index(i)
           /\ LinkAfter(Row4Index(i)) = Row5Index
           /\ LinkAfter(Row5Index) = Null
<1>1. LinkAfter(Row1Index(i)) = Row2Index(i)
  <2>. DEFINE j == CHOOSE j \in 0 .. 31 : Row1Index(j) = Row1Index(i)
  <2>1. j \in 0 .. 31 /\ Row1Index(j) = Row1Index(i)
    OBVIOUS
  <2>2. PICK ed \in 0 .. 15 : ed = Row1Index(i)
    BY RowsOfTurns
  <2>3. LinkAfter(ed) = Row2Index(CHOOSE k \in 0 .. 31 : Row1Index(k) = ed)
    BY <2>2 DEF LinkAfter
  <2>4. LinkAfter(Row1Index(i)) = Row2Index(j)
    BY <2>2, <2>3
  <2>. HIDE DEF j
  <2>. QED  BY <2>1, <2>4, RowsOfTurns
<1>2. LinkAfter(Row2Index(i)) = Row3Index(i)
  <2>. DEFINE j == CHOOSE j \in 0 .. 31 : Row2Index(j) = Row2Index(i)
  <2>1. j \in 0 .. 31 /\ Row2Index(j) = Row2Index(i)
    OBVIOUS
  <2>2. PICK ed \in 16 .. 23 : ed = Row2Index(i)
    BY RowsOfTurns
  <2>3. LinkAfter(ed) = Row3Index(CHOOSE k \in 0 .. 31 : Row2Index(k) = ed)
    BY <2>2 DEF LinkAfter
  <2>4. LinkAfter(Row2Index(i)) = Row3Index(j)
    BY <2>2, <2>3
  <2>. HIDE DEF j
  <2>. QED  BY <2>1, <2>4, RowsOfTurns
<1>3. LinkAfter(Row3Index(i)) = Row4Index(i)
  <2>. DEFINE j == CHOOSE j \in 0 .. 31 : Row3Index(j) = Row3Index(i)
  <2>1. j \in 0 .. 31 /\ Row3Index(j) = Row3Index(i)
    OBVIOUS
  <2>2. PICK ed \in 24 .. 27 : ed = Row3Index(i)
    BY RowsOfTurns
  <2>3. LinkAfter(ed) = Row4Index(CHOOSE k \in 0 .. 31 : Row3Index(k) = ed)
    BY <2>2 DEF LinkAfter
  <2>4. LinkAfter(Row3Index(i)) = Row4Index(j)
    BY <2>2, <2>3
  <2>. HIDE DEF j
  <2>. QED  BY <2>1, <2>4, RowsOfTurns
<1>4. LinkAfter(Row4Index(i)) = Row5Index /\ LinkAfter(Row5Index) = Null
  <2>1. PICK ed \in 28 .. 29 : ed = Row4Index(i)
    BY RowsOfTurns
  <2>2. LinkAfter(ed) = Row5Index /\ LinkAfter(30) = Null
    BY DEF LinkAfter
  <2>. QED  BY <2>1, <2>2, RowsOfTurns
<1>. QED  BY <1>1, <1>2, <1>3, <1>4

(* How often the row of a device comes up.                                  *)
Wish(interval) == CASE interval = 0 -> 8 [] interval > 16 -> 16 [] OTHER -> interval

ChainOf(i) == {Row1Index(i), Row2Index(i), Row3Index(i), Row4Index(i), Row5Index}

LEMMA TurnsComeUp ==
    ASSUME NEW i \in 0 .. 31
    PROVE  /\ \E k \in 0 .. 15 : (i + k) % 16 = 15
           /\ \E k \in 0 .. 7 : (i + k) % 8 = 7
           /\ \E k \in 0 .. 3 : (i + k) % 4 = 3
           /\ \E k \in 0 .. 1 : (i + k) % 2 = 1
<1>1. \E k \in 0 .. 15 : (i + k) % 16 = 15
  OBVIOUS
<1>2. \E k \in 0 .. 7 : (i + k) % 8 = 7
  OBVIOUS
<1>3. \E k \in 0 .. 3 : (i + k) % 4 = 3
  OBVIOUS
<1>4. \E k \in 0 .. 1 : (i + k) % 2 = 1
  OBVIOUS
<1>. QED  BY <1>1, <1>2, <1>3, <1>4

LEMMA RowsComeUpOnTime ==
    ASSUME NEW interval \in 0 .. 255, NEW i \in 0 .. 31
    PROVE  \E k \in 0 .. Wish(interval) - 1 : RowOf(interval) \in ChainOf((i + k) % 32)
<1>1. ASSUME NEW k \in 0 .. 15
      PROVE  /\ (i + k) % 16 = 15 => Row1Index((i + k) % 32) = Row1Index(31)
             /\ (i + k) % 8 = 7 => Row2Index((i + k) % 32) = Row2Index(31)
             /\ (i + k) % 4 = 3 => Row3Index((i + k) % 32) = Row3Index(31)
             /\ (i + k) % 2 = 1 => Row4Index((i + k) % 32) = Row4Index(31)
  <2>1. PICK j \in 0 .. 31 : j = (i + k) % 32
    OBVIOUS
  <2>2. j % 16 = (i + k) % 16 /\ j % 8 = (i + k) % 8 /\ j % 4 = (i + k) % 4 /\ j % 2 = (i + k) % 2
    BY <2>1
  <2>3. /\ BIT(0, 31) = 1 /\ BIT(1, 31) = 1 /\ BIT(2, 31) = 1 /\ BIT(3, 31) = 1
    BY BitsOfTurns
  <2>4. /\ j % 16 = 15 => BIT(0, j) = 1 /\ BIT(1, j) = 1 /\ BIT(2, j) = 1 /\ BIT(3, j) = 1
        /\ j % 8 = 7 => BIT(0, j) = 1 /\ BIT(1, j) = 1 /\ BIT(2, j) = 1
        /\ j % 4 = 3 => BIT(0, j) = 1 /\ BIT(1, j) = 1
        /\ j % 2 = 1 => BIT(0, j) = 1
    BY BitsOfTurns
  <2>. QED  BY <2>1, <2>2, <2>3, <2>4 DEF Row1Index, Row2Index, Row3Index, Row4Index
<1>2. CASE interval >= 16
  <2>1. RowOf(interval) = Row1Index(31) /\ Wish(interval) \in 16 .. 16
    BY <1>2 DEF RowOf, Wish
  <2>2. PICK k \in 0 .. 15 : (i + k) % 16 = 15
    BY TurnsComeUp
  <2>3. k \in 0 .. 15 /\ k \in 0 .. Wish(interval) - 1
    BY <2>1
  <2>4. Row1Index((i + k) % 32) = RowOf(interval)
    BY <1>1, <2>1, <2>2, <2>3
  <2>. QED  BY <2>3, <2>4 DEF ChainOf
<1>3. CASE interval \in 8 .. 15 \/ interval = 0
  <2>1. RowOf(interval) = Row2Index(31) /\ Wish(interval) \in 8 .. 16
    BY <1>3 DEF RowOf, Wish
  <2>2. PICK k \in 0 .. 7 : (i + k) % 8 = 7
    BY TurnsComeUp
  <2>3. k \in 0 .. 15 /\ k \in 0 .. Wish(interval) - 1
    BY <2>1
  <2>4. Row2Index((i + k) % 32) = RowOf(interval)
    BY <1>1, <2>1, <2>2, <2>3
  <2>. QED  BY <2>3, <2>4 DEF ChainOf
<1>4. CASE interval \in 4 .. 7
  <2>1. RowOf(interval) = Row3Index(31) /\ Wish(interval) \in 4 .. 16
    BY <1>4 DEF RowOf, Wish
  <2>2. PICK k \in 0 .. 3 : (i + k) % 4 = 3
    BY TurnsComeUp
  <2>3. k \in 0 .. 15 /\ k \in 0 .. Wish(interval) - 1
    BY <2>1
  <2>4. Row3Index((i + k) % 32) = RowOf(interval)
    BY <1>1, <2>1, <2>2, <2>3
  <2>. QED  BY <2>3, <2>4 DEF ChainOf
<1>5. CASE interval \in 2 .. 3
  <2>1. RowOf(interval) = Row4Index(31) /\ Wish(interval) \in 2 .. 16
    BY <1>5 DEF RowOf, Wish
  <2>2. PICK k \in 0 .. 1 : (i + k) % 2 = 1
    BY TurnsComeUp
  <2>3. k \in 0 .. 15 /\ k \in 0 .. Wish(interval) - 1
    BY <2>1
  <2>4. Row4Index((i + k) % 32) = RowOf(interval)
    BY <1>1, <2>1, <2>2, <2>3
  <2>. QED  BY <2>3, <2>4 DEF ChainOf
<1>6. CASE interval = 1
  BY <1>6 DEF RowOf, Wish, ChainOf
<1>. QED  BY <1>2, <1>3, <1>4, <1>5, <1>6

-----------------------------------------------------------------------------
(* What the controller comes by in a turn *)

(* The walk along the links, from one endpoint to the next.                 *)
WithNext(X) == X \cup ({NextED[ed] : ed \in X} \ {Null})
IsWalk(f, n, first) == f = [k \in 0 .. n |-> IF k = 0 THEN {first} ELSE WithNext(f[k - 1])]

LEMMA WalksExist ==
    ASSUME NEW n \in Nat, NEW first
    PROVE  \E f : IsWalk(f, n, first)
<1>. DEFINE Bad == {m \in Nat : ~ \E f : IsWalk(f, m, first)}
<1>1. SUFFICES ASSUME Bad # {}  PROVE FALSE
  OBVIOUS
<1>2. PICK m \in Bad : \A k \in Bad : m <= k
  <2>. HIDE DEF Bad
  <2>1. Bad \in SUBSET Nat
    BY DEF Bad
  <2>. QED  BY <1>1, <2>1, LeastNumber
<1>3. m \in Nat /\ ~ \E f : IsWalk(f, m, first)
  OBVIOUS
<1>4. CASE m = 0
  <2>1. PICK f : f = [k \in 0 .. 0 |-> {first}]
    OBVIOUS
  <2>2. IsWalk(f, 0, first)
    BY <2>1 DEF IsWalk
  <2>. QED  BY <1>3, <1>4, <2>2
<1>5. CASE m # 0
  <2>1. m - 1 \in Nat /\ m - 1 \notin Bad
    BY <1>2, <1>3, <1>5
  <2>2. PICK f : IsWalk(f, m - 1, first)
    BY <2>1
  <2>3. PICK g : g = [k \in 0 .. m |-> IF k = m THEN WithNext(f[m - 1]) ELSE f[k]]
    OBVIOUS
  <2>4. \A k \in 0 .. m - 1 : g[k] = f[k] /\ f[k] = IF k = 0 THEN {first} ELSE WithNext(f[k - 1])
    <3>1. \A k \in 0 .. m - 1 : f[k] = IF k = 0 THEN {first} ELSE WithNext(f[k - 1])
      BY <2>2 DEF IsWalk
    <3>2. \A k \in 0 .. m - 1 : k \in 0 .. m /\ k # m
      BY <1>3
    <3>. QED  BY <2>3, <3>1, <3>2
  <2>5. \A k \in 0 .. m : g[k] = IF k = 0 THEN {first} ELSE WithNext(g[k - 1])
    <3>1. g[m] = WithNext(g[m - 1])
      BY <1>3, <1>5, <2>1, <2>3, <2>4
    <3>2. \A k \in 0 .. m - 1 : k # 0 => k - 1 \in 0 .. m - 1 /\ g[k - 1] = f[k - 1]
      BY <1>3, <2>4
    <3>3. \A k \in 0 .. m : k = m \/ k \in 0 .. m - 1
      BY <1>3
    <3>. QED  BY <1>5, <2>4, <3>1, <3>2, <3>3
  <2>6. IsWalk(g, m, first)
    <3>1. g = [k \in 0 .. m |-> g[k]]
      BY <2>3
    <3>. QED  BY <2>5, <3>1 DEF IsWalk
  <2>. QED  BY <1>3, <2>6
<1>. QED  BY <1>4, <1>5

LEMMA PolledIsAWalk ==
    ASSUME NEW i
    PROVE  \E f : /\ IsWalk(f, 4 + MaxDevices, Row1Index(i))
                  /\ PolledIn(i) = f[4 + MaxDevices]
<1>. DEFINE f == CHOOSE f : IsWalk(f, 4 + MaxDevices, Row1Index(i))
<1>1. 4 + MaxDevices \in Nat
  BY GadgetsAssumption
<1>2. IsWalk(f, 4 + MaxDevices, Row1Index(i))
  BY <1>1, WalksExist
<1>3. PolledIn(i) = f[4 + MaxDevices]
  BY DEF PolledIn, IsWalk, WithNext
<1>. QED  BY <1>2, <1>3

(* A walk within a finite set goes on to new endpoints until it has come to *)
(* all that it will ever come to.                                           *)
LEMMA WalkGoesOn ==
    ASSUME NEW n \in Nat, NEW first, NEW U, IsFiniteSet(U), first \in U,
           \A ed \in U : NextED[ed] \in U \cup {Null},
           NEW f, IsWalk(f, n, first), NEW m \in 0 .. n
    PROVE  /\ f[m] \in SUBSET U /\ first \in f[m]
           /\ \/ IsClosed(f[m])
              \/ Cardinality(f[m]) > m
<1>. DEFINE Good(k) == /\ f[k] \in SUBSET U /\ first \in f[k]
                       /\ IsClosed(f[k]) \/ Cardinality(f[k]) > k
            Bad == {k \in 0 .. n : ~ Good(k)}
<1>1. SUFFICES ASSUME Bad # {}  PROVE FALSE
  OBVIOUS
<1>2. PICK b \in Bad : \A k \in Bad : b <= k
  <2>. HIDE DEF Bad
  <2>1. Bad \in SUBSET Nat
    BY DEF Bad
  <2>. QED  BY <1>1, <2>1, LeastNumber
<1>3. b \in 0 .. n /\ ~ Good(b)
  BY <1>2
<1>4. \A k \in 0 .. n : f[k] = IF k = 0 THEN {first} ELSE WithNext(f[k - 1])
  BY DEF IsWalk
<1>5. CASE b = 0
  <2>1. f[0] = {first} /\ Cardinality({first}) = 1
    <3>1. 0 \in 0 .. n
      OBVIOUS
    <3>. QED  BY <1>4, <3>1, FS_Singleton
  <2>2. Good(0)
    BY <2>1
  <2>. QED  BY <1>3, <1>5, <2>2
<1>6. CASE b # 0
  <2>1. PICK k \in 0 .. n : k = b - 1 /\ k + 1 = b
    BY <1>3, <1>6
  <2>2. k \notin Bad
    <3>1. ~ (b <= k)
      BY <1>3, <2>1
    <3>. QED  BY <1>2, <3>1
  <2>3. Good(k)
    BY <2>2
  <2>4. f[b] = f[k] \cup ({NextED[ed] : ed \in f[k]} \ {Null})
    BY <1>3, <1>4, <1>6, <2>1 DEF WithNext
  <2>5. f[b] \in SUBSET U /\ first \in f[b] /\ f[k] \subseteq f[b]
    BY <2>3, <2>4
  <2>6. CASE IsClosed(f[k])
    <3>1. f[b] = f[k]
      BY <2>4, <2>6 DEF IsClosed
    <3>. QED  BY <1>3, <2>5, <2>6, <3>1
  <2>7. CASE ~ IsClosed(f[k])
    <3>1. f[b] # f[k]
      BY <2>4, <2>7 DEF IsClosed
    <3>2. IsFiniteSet(f[b])
      BY <2>5, FS_Subset
    <3>3. /\ Cardinality(f[k]) <= Cardinality(f[b])
          /\ Cardinality(f[b]) = Cardinality(f[k]) => f[b] = f[k]
      BY <2>5, <3>2, FS_Subset
    <3>4. IsFiniteSet(f[k])
      BY <2>5, <3>2, FS_Subset
    <3>5. Cardinality(f[k]) \in Nat /\ Cardinality(f[b]) \in Nat
      BY <3>2, <3>4, FS_CardinalityType
    <3>6. Cardinality(f[k]) > k
      BY <2>3, <2>7
    <3>7. Cardinality(f[b]) > b
      BY <2>1, <3>1, <3>3, <3>5, <3>6
    <3>. QED  BY <1>3, <2>5, <3>7
  <2>. QED  BY <2>6, <2>7
<1>. QED  BY <1>5, <1>6

(* The endpoints that the walk of a turn may come to: its rows, and what is *)
(* linked into them.                                                        *)
Ahead(i) ==
    ChainOf(i) \cup {EDOf(d) : d \in {d \in Visible : RowOfDevice(d) \in ChainOf(i)}}

LEMMA ChainIsOfRows ==
    ASSUME NEW i \in 0 .. 31
    PROVE  /\ ChainOf(i) \in SUBSET RowEDs
           /\ \A row \in ChainOf(i) : LinkAfter(row) \in ChainOf(i) \cup {Null}
<1>1. \A row \in ChainOf(i) : row \in RowEDs
  <2>1. /\ 0 .. 15 \subseteq RowEDs /\ 16 .. 23 \subseteq RowEDs /\ 24 .. 27 \subseteq RowEDs
        /\ 28 .. 29 \subseteq RowEDs /\ 30 \in RowEDs
    BY DEF RowEDs
  <2>2. /\ Row1Index(i) \in 0 .. 15 /\ Row2Index(i) \in 16 .. 23 /\ Row3Index(i) \in 24 .. 27
        /\ Row4Index(i) \in 28 .. 29 /\ Row5Index = 30
    BY RowsOfTurns
  <2>. QED  BY <2>1, <2>2, Zenon DEF ChainOf
<1>2. \A row \in ChainOf(i) : LinkAfter(row) \in ChainOf(i) \cup {Null}
  BY LinksOfTurns DEF ChainOf
<1>. QED  BY <1>1, <1>2

LEMMA AheadIsClosed ==
    ASSUME SetupTypeOK, RowsLeadOn, NEW i \in 0 .. 31
    PROVE  /\ \A ed \in Ahead(i) : NextED[ed] \in Ahead(i) \cup {Null}
           /\ Ahead(i) \in SUBSET EDs
<1>1. Visible \in SUBSET Devices /\ \A d \in Devices : EDOf(d) \in EDs
  BY NumbersOfDevices DEF Visible
<1>2. ChainOf(i) \in SUBSET EDs /\ ChainOf(i) \in SUBSET RowEDs
  <2>1. RowEDs \subseteq EDs
    BY GadgetsAssumption DEF RowEDs, EDs
  <2>. QED  BY <2>1, ChainIsOfRows
<1>3. ASSUME NEW ed \in EDs, NEW row \in ChainOf(i), LinksWithin(ed, row)
      PROVE  NextED[ed] \in Ahead(i) \cup {Null}
  <2>1. CASE NextED[ed] = LinkAfter(row)
    BY <2>1, ChainIsOfRows DEF Ahead
  <2>2. CASE \E d \in Devices : NextED[ed] = EDOf(d) /\ RowOfDevice(d) = row
    <3>1. PICK d \in Visible : NextED[ed] = EDOf(d) /\ RowOfDevice(d) = row
      BY <2>2 DEF Visible
    <3>. QED  BY <3>1 DEF Ahead
  <2>. QED  BY <1>3, <2>1, <2>2 DEF LinksWithin
<1>4. ASSUME NEW ed \in Ahead(i)  PROVE NextED[ed] \in Ahead(i) \cup {Null}
  <2>1. CASE ed \in ChainOf(i)
    <3>1. ed \in EDs /\ LinksWithin(ed, ed)
      BY <1>2, <2>1 DEF RowsLeadOn
    <3>. QED  BY <1>3, <2>1, <3>1
  <2>2. CASE ed \notin ChainOf(i)
    <3>1. PICK d \in Visible : RowOfDevice(d) \in ChainOf(i) /\ ed = EDOf(d)
      BY <1>4, <2>2 DEF Ahead
    <3>2. ed \in EDs /\ LinksWithin(ed, RowOfDevice(d))
      BY <1>1, <3>1 DEF RowsLeadOn
    <3>. QED  BY <1>3, <3>1, <3>2
  <2>. QED  BY <2>1, <2>2
<1>5. Ahead(i) \in SUBSET EDs
  BY <1>1, <1>2 DEF Ahead
<1>. QED  BY <1>4, <1>5

LEMMA OneMore ==
    ASSUME NEW S, NEW x, NEW n \in Nat, IsFiniteSet(S), Cardinality(S) <= n
    PROVE  IsFiniteSet(S \cup {x}) /\ Cardinality(S \cup {x}) <= n + 1
<1>1. /\ IsFiniteSet(S \cup {x}) /\ Cardinality(S) \in Nat
      /\ Cardinality(S \cup {x}) = IF x \in S THEN Cardinality(S) ELSE Cardinality(S) + 1
  BY FS_AddElement, FS_CardinalityType
<1>. QED  BY <1>1

LEMMA AheadIsSmall ==
    ASSUME NEW i \in 0 .. 31
    PROVE  IsFiniteSet(Ahead(i)) /\ Cardinality(Ahead(i)) <= 5 + MaxDevices
<1>1. MaxDevices \in Nat \ {0} /\ Visible \subseteq Devices /\ Devices = 0 .. MaxDevices - 1
  BY GadgetsAssumption DEF Visible, Devices
<1>. DEFINE S0 == 31 .. 30 + MaxDevices
            S1 == S0 \cup {Row1Index(i)}  S2 == S1 \cup {Row2Index(i)}  S3 == S2 \cup {Row3Index(i)}
            S4 == S3 \cup {Row4Index(i)}  S5 == S4 \cup {Row5Index}
<1>2. IsFiniteSet(S0) /\ Cardinality(S0) <= MaxDevices
  <2>1. 31 \in Int /\ 30 + MaxDevices \in Int /\ ~ (31 > 30 + MaxDevices)
        /\ (30 + MaxDevices) - 31 + 1 = MaxDevices
    BY <1>1
  <2>2. IsFiniteSet(31 .. 30 + MaxDevices) /\ Cardinality(31 .. 30 + MaxDevices) = MaxDevices
    BY <2>1, FS_Interval
  <2>. QED  BY <1>1, <2>2
<1>3. Ahead(i) \in SUBSET S5
  BY <1>1 DEF Ahead, ChainOf, EDOf
<1>. HIDE DEF S0
<1>4. PICK n1 \in Nat : n1 = MaxDevices + 1 /\ IsFiniteSet(S1) /\ Cardinality(S1) <= n1
  <2>1. IsFiniteSet(S1) /\ Cardinality(S1) <= MaxDevices + 1
    BY <1>1, <1>2, OneMore
  <2>2. MaxDevices + 1 = MaxDevices + 1 /\ MaxDevices + 1 \in Nat
    BY <1>1
  <2>. QED  BY <2>1, <2>2
<1>. HIDE DEF S1
<1>5. PICK n2 \in Nat : n2 = MaxDevices + 2 /\ IsFiniteSet(S2) /\ Cardinality(S2) <= n2
  <2>1. IsFiniteSet(S2) /\ Cardinality(S2) <= n1 + 1
    BY <1>1, <1>4, OneMore
  <2>2. n1 + 1 = MaxDevices + 2 /\ MaxDevices + 2 \in Nat
    BY <1>1, <1>4
  <2>. QED  BY <2>1, <2>2
<1>. HIDE DEF S2
<1>6. PICK n3 \in Nat : n3 = MaxDevices + 3 /\ IsFiniteSet(S3) /\ Cardinality(S3) <= n3
  <2>1. IsFiniteSet(S3) /\ Cardinality(S3) <= n2 + 1
    BY <1>1, <1>5, OneMore
  <2>2. n2 + 1 = MaxDevices + 3 /\ MaxDevices + 3 \in Nat
    BY <1>1, <1>5
  <2>. QED  BY <2>1, <2>2
<1>. HIDE DEF S3
<1>7. PICK n4 \in Nat : n4 = MaxDevices + 4 /\ IsFiniteSet(S4) /\ Cardinality(S4) <= n4
  <2>1. IsFiniteSet(S4) /\ Cardinality(S4) <= n3 + 1
    BY <1>1, <1>6, OneMore
  <2>2. n3 + 1 = MaxDevices + 4 /\ MaxDevices + 4 \in Nat
    BY <1>1, <1>6
  <2>. QED  BY <2>1, <2>2
<1>. HIDE DEF S4
<1>8. PICK n5 \in Nat : n5 = MaxDevices + 5 /\ IsFiniteSet(S5) /\ Cardinality(S5) <= n5
  <2>1. IsFiniteSet(S5) /\ Cardinality(S5) <= n4 + 1
    BY <1>1, <1>7, OneMore
  <2>2. n4 + 1 = MaxDevices + 5 /\ MaxDevices + 5 \in Nat
    BY <1>1, <1>7
  <2>. QED  BY <2>1, <2>2
<1>. HIDE DEF S5
<1>9. IsFiniteSet(Ahead(i)) /\ Cardinality(Ahead(i)) <= Cardinality(S5)
  BY <1>3, <1>8, FS_Subset
<1>10. Cardinality(Ahead(i)) \in Nat /\ Cardinality(S5) \in Nat
  BY <1>8, <1>9, FS_CardinalityType
<1>. QED  BY <1>1, <1>8, <1>9, <1>10

(* The controller comes by every device that is linked into a row of the    *)
(* turn.                                                                    *)
LEMMA TurnsPollTheirRows ==
    ASSUME SetupTypeOK, RowsLeadOn, NEW i \in 0 .. 31, NEW d \in Visible,
           RowOfDevice(d) \in ChainOf(i)
    PROVE  EDOf(d) \in PolledIn(i)
<1>1. PICK n \in Nat : n = 4 + MaxDevices
  BY GadgetsAssumption
<1>2. PICK f : IsWalk(f, n, Row1Index(i)) /\ PolledIn(i) = f[n]
  BY <1>1, PolledIsAWalk
<1>3. /\ IsFiniteSet(Ahead(i)) /\ Cardinality(Ahead(i)) <= n + 1
      /\ \A ed \in Ahead(i) : NextED[ed] \in Ahead(i) \cup {Null}
      /\ Ahead(i) \in SUBSET EDs /\ Row1Index(i) \in Ahead(i) /\ EDOf(d) \in Ahead(i)
  <2>1. n + 1 = 5 + MaxDevices
    BY <1>1, GadgetsAssumption
  <2>2. Row1Index(i) \in Ahead(i) /\ EDOf(d) \in Ahead(i)
    BY DEF Ahead, ChainOf
  <2>. QED  BY <2>1, <2>2, AheadIsSmall, AheadIsClosed
<1>4. n \in 0 .. n
  OBVIOUS
<1>5. /\ f[n] \in SUBSET Ahead(i) /\ Row1Index(i) \in f[n]
      /\ IsClosed(f[n]) \/ Cardinality(f[n]) > n
  BY <1>2, <1>3, <1>4, WalkGoesOn
<1>6. CASE IsClosed(f[n])
  <2>1. /\ f[n] \in SUBSET EDs
        /\ \A row \in RowEDs : row \in f[n] =>
              /\ LinkAfter(row) \in f[n] \cup {Null}
              /\ \A e \in Visible : RowOfDevice(e) = row => EDOf(e) \in f[n]
    BY <1>3, <1>5, <1>6 DEF RowsLeadOn
  <2>2. \A row \in ChainOf(i) : row \in RowEDs /\ row # Null
    BY ChainIsOfRows DEF RowEDs, Null
  <2>3. ChainOf(i) \subseteq f[n]
    <3>1. Row2Index(i) \in f[n]
      BY <1>5, <2>1, <2>2, LinksOfTurns DEF ChainOf
    <3>2. Row3Index(i) \in f[n]
      BY <2>1, <2>2, <3>1, LinksOfTurns DEF ChainOf
    <3>3. Row4Index(i) \in f[n]
      BY <2>1, <2>2, <3>2, LinksOfTurns DEF ChainOf
    <3>4. Row5Index \in f[n]
      BY <2>1, <2>2, <3>3, LinksOfTurns DEF ChainOf
    <3>. QED  BY <1>5, <3>1, <3>2, <3>3, <3>4 DEF ChainOf
  <2>. QED  BY <1>2, <2>1, <2>2, <2>3
<1>7. CASE Cardinality(f[n]) > n
  <2>1. /\ Cardinality(f[n]) <= Cardinality(Ahead(i)) /\ IsFiniteSet(f[n])
        /\ Cardinality(Ahead(i)) = Cardinality(f[n]) => Ahead(i) = f[n]
    BY <1>3, <1>5, FS_Subset
  <2>2. Cardinality(f[n]) \in Nat /\ Cardinality(Ahead(i)) \in Nat
    BY <1>3, <2>1, FS_CardinalityType
  <2>3. Cardinality(f[n]) = Cardinality(Ahead(i))
    BY <1>3, <1>7, <2>1, <2>2
  <2>. QED  BY <1>2, <1>3, <2>1, <2>3
<1>. QED  BY <1>5, <1>6, <1>7

LEMMA DevicesArePolled ==
    ASSUME SetupTypeOK, RowsLeadOn
    PROVE  PolledOnTime
<1>1. ASSUME NEW d \in Visible, NEW i \in 0 .. 31
      PROVE  \E k \in 0 .. Wish(Device[d].Interval) - 1 : EDOf(d) \in PolledIn((i + k) % 32)
  <2>1. Device[d].Interval \in 0 .. 255
    BY DEF SetupTypeOK, Slots, Visible
  <2>2. PICK k \in 0 .. Wish(Device[d].Interval) - 1 : RowOfDevice(d) \in ChainOf((i + k) % 32)
    BY <2>1, RowsComeUpOnTime DEF RowOfDevice
  <2>3. (i + k) % 32 \in 0 .. 31
    <3>1. Wish(Device[d].Interval) \in 0 .. 16
      BY <2>1 DEF Wish
    <3>. QED  BY <3>1
  <2>. QED  BY <2>2, <2>3, TurnsPollTheirRows
<1>2. ASSUME NEW d \in Visible, NEW i \in 0 .. 31,
             NEW k \in 0 .. Wish(Device[d].Interval) - 1, EDOf(d) \in PolledIn((i + k) % 32)
      PROVE  (i + k) % 32 \in {j \in 0 .. 31 : EDOf(d) \in PolledIn(j)}
  <2>1. Device[d].Interval \in 0 .. 255
    BY DEF SetupTypeOK, Slots, Visible
  <2>2. Wish(Device[d].Interval) \in 0 .. 16
    BY <2>1 DEF Wish
  <2>3. (i + k) % 32 \in 0 .. 31
    BY <2>2
  <2>. QED  BY <1>2, <2>3
<1>. QED  BY <1>1, <1>2 DEF PolledOnTime, Wish

-----------------------------------------------------------------------------
(* Sizes of packets *)

(* A device that listens somewhere goes on listening somewhere.             *)
LEMMA SilenceIsOver ==
    ASSUME SetupTypeOK, SetupNext, NEW g \in Gadgets, listens[g] # Silent
    PROVE  listens'[g] # Silent
<1>1. CASE SetAddress
  <2>1. current.device # Silent
    BY NumbersOfDevices DEF SetupTypeOK, Silent
  <2>. QED  BY <1>1, <2>1 DEF SetAddress
<1>2. CASE ResetPort
  BY <1>2 DEF ResetPort, SetupTypeOK, Silent
<1>3. CASE ~ SetAddress /\ ~ ResetPort
  <2>1. UNCHANGED listens
    BY <1>3 DEF SetupNext, NextRootPort, NextHubPort, PortNotEnabledYet, PortsDone, Describe, Verify,
         DivideByZero, busVars, ProductString, ManufacturerString, Configuration, LateError,
         DetectMassStorageDevice, DetectHIDDevice, LinkAfterRow, LinkIntoRow, DetectHubDevice, PowerPort
  <2>. QED  BY <2>1
<1>. QED  BY <1>1, <1>2, <1>3

LEMMA SizesComeFromDevices ==
    ASSUME SetupTypeOK, NEW address \in Devices, NEW r \in Replies(address), 0 \in PacketSizeIn(r)
    PROVE  r.from = None \/ SaysZero
<1>1. r.from # None => r.from \in Gadgets /\ listens[r.from] = address
  BY DEF Replies, Listeners
<1>2. address # Silent
  BY NumbersOfDevices DEF Silent
<1>. QED  BY <1>1, <1>2 DEF PacketSizeIn, SaysZero

LEMMA SizesAreKept ==
    ASSUME SetupTypeOK, SizesAreExplained, SetupNext
    PROVE  SizesAreExplained'
<1>0. SaysZero => SaysZero'
  BY SilenceIsOver DEF SaysZero
<1>1. CASE Describe
  <2>1. PICK r, size :
                 /\ r \in Replies(0) /\ size \in PacketSizeIn(r)
                 /\ Sent(r, TRUE)
                 /\ \/ step' = "NextPort"
                    \/ /\ step' = "SetAddress" /\ Succeeded(r)
                       /\ current'.packet = size
    <3>1. PICK r, size :
                   /\ r \in Replies(0) /\ size \in PacketSizeIn(r)
                   /\ Sent(r, TRUE)
                   /\ \/ step' = "NextPort"
                      \/ /\ step' = "SetAddress" /\ Succeeded(r)
                         /\ \E d : current' = [current EXCEPT !.device = d, !.packet = size]
      BY <1>1, Zenon DEF Describe
    <3>. QED  BY <3>1 DEF SetupTypeOK
  <2>2. size = 0 /\ Succeeded(r) => ~ honest' \/ SaysZero'
    BY <2>1, <1>0, NumbersOfDevices, SizesComeFromDevices, WhatSentDoes
  <2>3. step' # "Panic"
    BY <2>1
  <2>. QED  BY <2>1, <2>2, <2>3 DEF SizesAreExplained
<1>2. CASE SetAddress
  <2>1. step = "SetAddress" /\ step' \in {"Verify", "NextPort"} /\ UNCHANGED current
    BY <1>2 DEF SetAddress
  <2>2. ~ honest => ~ honest'
    BY <1>2, WhatSentDoes DEF SetAddress
  <2>. QED  BY <1>0, <2>1, <2>2 DEF SizesAreExplained
<1>3. CASE Verify
  <2>1. CASE current.packet = 0
    <3>1. step = "Verify" /\ step' = "Panic" /\ UNCHANGED honest
      BY <1>3, <2>1 DEF Verify, DivideByZero, busVars
    <3>. QED  BY <1>0, <2>1, <3>1 DEF SizesAreExplained
  <2>2. CASE current.packet # 0
    <3>1. PICK r, size :
                   /\ r \in Replies(current.device) /\ size \in PacketSizeIn(r)
                   /\ Sent(r, TRUE)
                   /\ \/ step' = "NextPort"
                      \/ /\ step' = "ProductString" /\ Succeeded(r)
                         /\ Device' = [Device EXCEPT ![current.device] = Entered(@, size)]
      BY <1>3, <2>2 DEF Verify
    <3>2. UNCHANGED current
      BY <1>3, <2>2 DEF Verify
    <3>3. step' = "ProductString" => Device'[current.device].packet = size
      <4>1. \A slot \in Slots : Entered(slot, size).packet = size
        BY DEF Slots, Entered
      <4>. QED  BY <3>1, <4>1 DEF SetupTypeOK
    <3>4. size = 0 /\ Succeeded(r) => ~ honest' \/ SaysZero'
      <4>1. current.device \in Devices
        BY DEF SetupTypeOK
      <4>. QED  BY <3>1, <4>1, <1>0, SizesComeFromDevices, WhatSentDoes
    <3>. QED  BY <3>1, <3>2, <3>3, <3>4 DEF SizesAreExplained
  <2>. QED  BY <2>1, <2>2
<1>4. CASE ProductString
  <2>1. CASE Device[current.device].packet = 0
    <3>1. step = "ProductString" /\ step' = "Panic" /\ UNCHANGED honest
      BY <1>4, <2>1 DEF ProductString, DivideByZero, busVars
    <3>. QED  BY <1>0, <2>1, <3>1 DEF SizesAreExplained
  <2>2. CASE Device[current.device].packet # 0
    BY <1>4, <2>2 DEF ProductString, SizesAreExplained
  <2>. QED  BY <2>1, <2>2
<1>5. CASE LateError
  BY <1>0, <1>5 DEF LateError, SizesAreExplained
<1>6. CASE OtherSteps /\ ~ ProductString
  <2>1. step' \notin {"SetAddress", "Verify", "ProductString", "Panic"}
    BY <1>6 DEF OtherSteps, NextRootPort, NextHubPort, PortNotEnabledYet, PortsDone,
         ManufacturerString, Configuration, Detected, DetectMassStorageDevice, DetectHIDDevice,
         LinkAfterRow, LinkIntoRow, DetectHubDevice, PowerPort, ResetPort
  <2>2. step \notin {"Panic"} /\ step' # "Panic"
    BY <1>6, <2>1, WhatOtherStepsDo
  <2>. QED  BY <2>1, <2>2 DEF SizesAreExplained
<1>. QED  BY <1>1, <1>2, <1>3, <1>4, <1>5, <1>6 DEF SetupNext, OtherSteps

-----------------------------------------------------------------------------
(* The set-up as a whole *)

LEMMA SetupBegins ==
    ASSUME NEW ports \in Seq(Gadgets), SetupInit(ports)
    PROVE  SetupInv
<1>1. SetupTypeOK
  <2>1. listens \in [Gadgets -> Devices \cup {Silent}]
    BY NumbersOfDevices DEF SetupInit
  <2>2. NextED \in [EDs -> EDs \cup {Null}]
    BY RowsAreEndpoints DEF SetupInit
  <2>3. Device \in [Devices -> Slots]
    <3>1. \A active \in BOOLEAN : [Unused EXCEPT !.Active = active] \in Slots
      BY NumbersOfDevices DEF Unused, Slots
    <3>. QED  BY <3>1 DEF SetupInit
  <2>4. current \in [device : Devices, packet : Nat, power : BOOLEAN]
    BY NumbersOfDevices DEF SetupInit
  <2>5. loops \in Seq(Loops)
    <3>1. [hub |-> 0, ports |-> ports, unpowered |-> <<>>] \in Loops
      BY NumbersOfDevices DEF Loops
    <3>. QED  BY <3>1 DEF SetupInit
  <2>6. step = "NextPort" /\ step \in Steps
    BY DEF SetupInit, Steps
  <2>. QED  BY <2>1, <2>2, <2>3, <2>4, <2>5, <2>6 DEF SetupTypeOK
<1>2. AddressesAreTaken /\ AddressIsOwn
  BY DEF SetupInit, AddressesAreTaken, AddressIsOwn, Silent
<1>3. Visible = {}
  <2>1. \A ed \in EDs : NextED[ed] <= 30
    BY RowsAreEndpoints DEF SetupInit
  <2>2. \A ed \in EDs : NextED[ed] \in Int
    BY <1>1 DEF SetupTypeOK, EDs, Null
  <2>3. \A d \in Devices : EDOf(d) \in Int /\ EDOf(d) > 30
    BY NumbersOfDevices DEF EDs
  <2>. QED  BY <2>1, <2>2, <2>3 DEF Visible
<1>4. DescriptorsAreOwn
  <2>1. \A d \in Devices : Device[d].TransferDescriptor = Null /\ d # Null
    BY NumbersOfDevices DEF SetupInit, Unused
  <2>2. \A n \in DOMAIN loops : loops[n].hub = 0
    BY DEF SetupInit
  <2>3. step \notin Fresh \cup {"LinkAfterRow", "LinkIntoRow"} /\ step # "HID"
    BY DEF SetupInit, Fresh
  <2>. QED  BY <1>3, <2>1, <2>2, <2>3 DEF DescriptorsAreOwn
<1>5. RowsLeadOn
  BY <1>1, <1>3, RowsLeadOnAtFirst
<1>6. SizesAreExplained
  BY DEF SetupInit, SizesAreExplained
<1>. QED  BY <1>1, <1>2, <1>4, <1>5, <1>6 DEF SetupInv

LEMMA SetupIsKept ==
    ASSUME SetupInv, SetupNext
    PROVE  SetupInv'
BY SetupIsTyped, AddressesAreKept, DescriptorsAreKept, RowsAreKept, SizesAreKept DEF SetupInv

LEMMA SetupStays ==
    ASSUME SetupInv, UNCHANGED setupVars
    PROVE  SetupInv'
<1>1. UNCHANGED <<listens, NextED, Device, step, current, loops, honest, shared, abandoned>>
  BY DEF setupVars, busVars
<1>2. SetupTypeOK' /\ AddressesAreTaken' /\ AddressIsOwn' /\ SizesAreExplained'
  BY <1>1 DEF SetupInv, SetupTypeOK, AddressesAreTaken, AddressIsOwn, SizesAreExplained, SaysZero
<1>3. DescriptorsAreOwn'
  BY <1>1 DEF SetupInv, DescriptorsAreOwn, Visible
<1>4. RowsLeadOn'
  <2>1. Visible' = Visible /\ Row' = Row /\ \A d : RowOfDevice(d)' = RowOfDevice(d)
    BY <1>1 DEF Visible, Row, RowOfDevice
  <2>2. \A S : IsClosed(S)' = IsClosed(S)
    BY <1>1 DEF IsClosed
  <2>3. \A ed, row : LinksWithin(ed, row)' = LinksWithin(ed, row)
    BY <1>1, <2>1 DEF LinksWithin
  <2>4. \A d \in Visible' : LinksWithin(EDOf(d), RowOfDevice(d))'
    <3>1. \A d \in Visible : LinksWithin(EDOf(d), RowOfDevice(d))
      BY DEF SetupInv, RowsLeadOn
    <3>. QED  BY <1>1, <2>1, <3>1 DEF LinksWithin
  <2>. QED  BY <1>1, <2>1, <2>2, <2>3, <2>4 DEF SetupInv, RowsLeadOn
<1>. QED  BY <1>2, <1>3, <1>4 DEF SetupInv

-----------------------------------------------------------------------------
(* Machines *)

LEMMA MachinesAreSequences ==
    ASSUME TypeOK
    PROVE  /\ \A n \in DOMAIN layout :
                 /\ n \in Nat \ {0} /\ layout[n].device \in 0 .. PCIDevices - 1
                 /\ layout[n].HeaderType \in HeaderTypes /\ layout[n].IRQLine \in IRQLines
                 /\ layout[n].function \in 0 .. 7
           /\ \A n, k \in DOMAIN layout :
                 layout[n].device = layout[k].device /\ layout[n].function = layout[k].function
                 => n = k
           /\ PCIDevices \in Nat
<1>1. layout \in Layouts
  BY DEF TypeOK
<1>. DEFINE Description == [device : 0 .. PCIDevices - 1, function : 0 .. 7,
                           HeaderType : HeaderTypes, kind : {"OHCI", "Other"},
                           IRQLine : IRQLines, aligned : BOOLEAN]
<1>2. /\ layout \in Seq(Description) /\ PCIDevices \in Nat
      /\ \A n, k \in DOMAIN layout :
            layout[n].device = layout[k].device /\ layout[n].function = layout[k].function => n = k
  BY <1>1, LayoutsAssumption
<1>3. \A f \in Description : /\ f.device \in 0 .. PCIDevices - 1
                             /\ f.HeaderType \in HeaderTypes /\ f.IRQLine \in IRQLines
                             /\ f.function \in 0 .. 7
  OBVIOUS
<1>. HIDE DEF Description
<1>4. \A n \in DOMAIN layout : n \in Nat \ {0} /\ layout[n] \in Description
  BY <1>2
<1>. QED  BY <1>2, <1>3, <1>4

LEMMA OneFunctionIsRead ==
    ASSUME TypeOK, Function(scan.device, 0) # {}
    PROVE  /\ Current \in DOMAIN layout
           /\ layout[Current].device = scan.device /\ layout[Current].function = 0
           /\ \A n \in DOMAIN layout :
                 layout[n].device = scan.device /\ layout[n].function = 0 => n = Current
<1>1. Current \in Function(scan.device, 0)
  BY DEF Current
<1>. QED  BY <1>1, MachinesAreSequences DEF Function

(* Bit 6 of a header type is never set.                                     *)
LEMMA FunctionZeroOnly ==
    ASSUME TypeOK, NEW n \in DOMAIN layout
    PROVE  After(n) = NextDevice(scan.device)
<1>1. \A h \in HeaderTypes : ~ Flagged(h)
  BY DEF HeaderTypes, Flagged, BIT
<1>2. scan.function = 0
  BY DEF TypeOK
<1>3. ~ Flagged(layout[n].HeaderType)
  BY <1>1, MachinesAreSequences
<1>. QED  BY <1>2, <1>3 DEF After

LEMMA DevicesAreCounted ==
    ASSUME TypeOK, Function(scan.device, 0) # {} \/ scan.device # PCIDevices
    PROVE  /\ NextDevice(scan.device) \in [device : 0 .. PCIDevices, function : {0}]
           /\ NextDevice(scan.device).device = scan.device + 1
           /\ scan.device \in Nat
<1>1. scan.device \in 0 .. PCIDevices /\ PCIDevices \in Nat
  BY MachinesAreSequences DEF TypeOK
<1>2. scan.device \in 0 .. PCIDevices - 1
  BY <1>1, OneFunctionIsRead, MachinesAreSequences
<1>. QED  BY <1>1, <1>2 DEF NextDevice

-----------------------------------------------------------------------------
(* Types of the kernel *)

(* The steps up to the interrupt controllers, and their ways.               *)
Beginning == FirstPrint \/ PushEntry \/ LoadGDT \/ LoadSelectors \/ SetGates \/ LoadIDT

LEMMA WhatTheBeginningDoes ==
    ASSUME Beginning, TypeOK, TablesAreReady
    PROVE  /\ pc \in Early \cup Loading
           /\ pc' \in Early \cup Loading \cup {"PIC"}
           /\ UNCHANGED <<layout, PIC, writes, scan, gOHCIRegisters, live, started, unserved, crash,
                          step, honest>>
<1>1. UNCHANGED <<layout, PIC, writes, scan, gOHCIRegisters, live, started, unserved, crash,
                  step, honest>>
  BY DEF Beginning, FirstPrint, PushEntry, LoadGDT, LoadSelectors, SetGates, LoadIDT, picVars,
         driverVars, crashVars, setupVars, busVars
<1>2. CASE FirstPrint \/ LoadGDT \/ SetGates \/ LoadIDT
  BY <1>1, <1>2 DEF FirstPrint, LoadGDT, SetGates, LoadIDT, Early, Loading
<1>3. CASE PushEntry
  <2>1. PICK n \in 0 .. 5 : gGDTEntries = SubSeq(Entries, 1, n)
    BY <1>3 DEF PushEntry, TablesAreReady, Entries
  <2>2. Len(Entries) = 5 /\ Entries \in Seq({"Null", "Code", "Data", "TSS", "TSSHigh"})
    BY DEF Entries
  <2>3. Len(gGDTEntries) = n
    BY <2>1, <2>2
  <2>4. pc = "PushEntries" /\ pc' \in {"PushEntries", "lgdt"}
    BY <1>3, <2>2, <2>3 DEF PushEntry, MAX_GDT_ENTRIES
  <2>5. pc \in Early /\ pc' \in Early
    BY <2>4 DEF Early
  <2>. QED  BY <1>1, <2>5
<1>4. CASE LoadSelectors
  <2>1. pc \in Loading /\ gGDTEntries = Entries /\ tables.gdt = "Kernel"
    BY <1>4 DEF LoadSelectors, Loading, TablesAreReady
  <2>2. Selected(16) = "Data" /\ Selected(8) = "Code" /\ Selected(24) = "TSS"
    BY <2>1 DEF Selected, Entries
  <2>. QED  BY <1>1, <1>4, <2>1, <2>2 DEF LoadSelectors, Load, Loading
<1>. QED  BY <1>2, <1>3, <1>4 DEF Beginning

LEMMA WhatAWriteDoes ==
    /\ \A chip \in Chips, value \in {0} : Written(chip, "ICW1", value) \in Chips
                  /\ Written(chip, "ICW1", value).vector = chip.vector
    /\ \A chip \in Chips, value \in Nat : Written(chip, "ICW2", value) \in Chips
                  /\ Written(chip, "ICW2", value).vector = value
    /\ \A chip \in Chips, value \in {0} : Written(chip, "ICW4", value) \in Chips
                  /\ Written(chip, "ICW4", value).vector = chip.vector
    /\ \A chip \in Chips, value \in SUBSET (0 .. 7) : Written(chip, "Open", value) \in Chips
                  /\ Written(chip, "Open", value).vector = chip.vector
                  /\ Written(chip, "Open", value).open = value
BY DEF Written, Chips

LEMMA WhatWritesDo ==
    ASSUME TypeOK, WritePIC, writes < 8
    PROVE  /\ PIC' \in [master : Chips, slave : Chips]
           /\ writes \in 0 .. 7 /\ writes' = writes + 1
           /\ pc' = IF writes' = 8 THEN "Scan" ELSE "PIC"
           /\ PIC'.master.vector = IF writes = 2 THEN 32 ELSE PIC.master.vector
           /\ PIC'.slave.vector = IF writes = 3 THEN 40 ELSE PIC.slave.vector
           /\ writes = 6 => PIC'.master.open = {0}
           /\ writes = 7 => PIC'.slave.open = {} /\ PIC'.master.open = PIC.master.open
<1>1. writes \in 0 .. 7 /\ Len(PICWrites) = 8
  BY DEF TypeOK, PICWrites
<1>2. writes' = writes + 1 /\ pc' = IF writes' = 8 THEN "Scan" ELSE "PIC"
  BY <1>1 DEF WritePIC
<1>3. PIC \in [master : Chips, slave : Chips]
  BY DEF TypeOK
<1>4. PIC' = [PIC EXCEPT ![PICWrites[writes + 1].chip] =
                 Written(@, PICWrites[writes + 1].register, PICWrites[writes + 1].value)]
  BY DEF WritePIC
<1>5. /\ PICWrites[1] = Write("master", "ICW1", 0)   /\ PICWrites[2] = Write("slave", "ICW1", 0)
      /\ PICWrites[3] = Write("master", "ICW2", 32)  /\ PICWrites[4] = Write("slave", "ICW2", 40)
      /\ PICWrites[5] = Write("master", "ICW4", 0)   /\ PICWrites[6] = Write("slave", "ICW4", 0)
      /\ PICWrites[7] = Write("master", "Open", {0}) /\ PICWrites[8] = Write("slave", "Open", {})
  BY DEF PICWrites
<1>6. \A chip, register, value : /\ Write(chip, register, value).chip = chip
                                 /\ Write(chip, register, value).register = register
                                 /\ Write(chip, register, value).value = value
  BY DEF Write
<1>7. ASSUME NEW chip, NEW register, NEW value, PICWrites[writes + 1] = Write(chip, register, value)
      PROVE  PIC' = [PIC EXCEPT ![chip] = Written(@, register, value)]
  <2>1. /\ PICWrites[writes + 1].chip = chip /\ PICWrites[writes + 1].register = register
        /\ PICWrites[writes + 1].value = value
    BY <1>6, <1>7
  <2>. QED  BY <1>4, <2>1
<1>8. /\ {0} \in SUBSET (0 .. 7) /\ {} \in SUBSET (0 .. 7) /\ 32 \in Nat /\ 40 \in Nat
      /\ PIC.master \in Chips /\ PIC.slave \in Chips
  BY <1>3
<1>10. CASE writes = 0
  <2>1. PIC' = [PIC EXCEPT !["master"] = Written(@, "ICW1", 0)]
    BY <1>5, <1>7, <1>10
  <2>2. PICK chip \in Chips : PIC' = [PIC EXCEPT !.master = chip] /\ chip.vector = PIC.master.vector
    BY <1>3, <1>8, <2>1, WhatAWriteDoes
  <2>3. PIC' \in [master : Chips, slave : Chips] /\ PIC'.master = chip /\ PIC'.slave = PIC.slave
    BY <1>3, <2>2
  <2>. QED  BY <1>1, <1>2, <1>10, <2>2, <2>3
<1>11. CASE writes = 1
  <2>1. PIC' = [PIC EXCEPT !["slave"] = Written(@, "ICW1", 0)]
    BY <1>5, <1>7, <1>11
  <2>2. PICK chip \in Chips : PIC' = [PIC EXCEPT !.slave = chip] /\ chip.vector = PIC.slave.vector
    BY <1>3, <1>8, <2>1, WhatAWriteDoes
  <2>3. PIC' \in [master : Chips, slave : Chips] /\ PIC'.slave = chip /\ PIC'.master = PIC.master
    BY <1>3, <2>2
  <2>. QED  BY <1>1, <1>2, <1>11, <2>2, <2>3
<1>12. CASE writes = 2
  <2>1. PIC' = [PIC EXCEPT !["master"] = Written(@, "ICW2", 32)]
    BY <1>5, <1>7, <1>12
  <2>4. Written(PIC.master, "ICW2", 32) \in Chips /\ Written(PIC.master, "ICW2", 32).vector = 32
    BY <1>8, WhatAWriteDoes
  <2>2. PICK chip \in Chips : PIC' = [PIC EXCEPT !.master = chip] /\ chip.vector = 32
    BY <1>3, <2>1, <2>4
  <2>3. PIC' \in [master : Chips, slave : Chips] /\ PIC'.master = chip /\ PIC'.slave = PIC.slave
    BY <1>3, <2>2
  <2>. QED  BY <1>1, <1>2, <1>12, <2>2, <2>3
<1>13. CASE writes = 3
  <2>1. PIC' = [PIC EXCEPT !["slave"] = Written(@, "ICW2", 40)]
    BY <1>5, <1>7, <1>13
  <2>4. Written(PIC.slave, "ICW2", 40) \in Chips /\ Written(PIC.slave, "ICW2", 40).vector = 40
    BY <1>8, WhatAWriteDoes
  <2>2. PICK chip \in Chips : PIC' = [PIC EXCEPT !.slave = chip] /\ chip.vector = 40
    BY <1>3, <2>1, <2>4
  <2>3. PIC' \in [master : Chips, slave : Chips] /\ PIC'.slave = chip /\ PIC'.master = PIC.master
    BY <1>3, <2>2
  <2>. QED  BY <1>1, <1>2, <1>13, <2>2, <2>3
<1>14. CASE writes = 4
  <2>1. PIC' = [PIC EXCEPT !["master"] = Written(@, "ICW4", 0)]
    BY <1>5, <1>7, <1>14
  <2>2. PICK chip \in Chips : PIC' = [PIC EXCEPT !.master = chip] /\ chip.vector = PIC.master.vector
    BY <1>3, <1>8, <2>1, WhatAWriteDoes
  <2>3. PIC' \in [master : Chips, slave : Chips] /\ PIC'.master = chip /\ PIC'.slave = PIC.slave
    BY <1>3, <2>2
  <2>. QED  BY <1>1, <1>2, <1>14, <2>2, <2>3
<1>15. CASE writes = 5
  <2>1. PIC' = [PIC EXCEPT !["slave"] = Written(@, "ICW4", 0)]
    BY <1>5, <1>7, <1>15
  <2>2. PICK chip \in Chips : PIC' = [PIC EXCEPT !.slave = chip] /\ chip.vector = PIC.slave.vector
    BY <1>3, <1>8, <2>1, WhatAWriteDoes
  <2>3. PIC' \in [master : Chips, slave : Chips] /\ PIC'.slave = chip /\ PIC'.master = PIC.master
    BY <1>3, <2>2
  <2>. QED  BY <1>1, <1>2, <1>15, <2>2, <2>3
<1>16. CASE writes = 6
  <2>1. PIC' = [PIC EXCEPT !["master"] = Written(@, "Open", {0})]
    BY <1>5, <1>7, <1>16
  <2>4. /\ Written(PIC.master, "Open", {0}) \in Chips /\ Written(PIC.master, "Open", {0}).open = {0}
        /\ Written(PIC.master, "Open", {0}).vector = PIC.master.vector
    BY <1>8, WhatAWriteDoes
  <2>2. PICK chip \in Chips : PIC' = [PIC EXCEPT !.master = chip] /\ chip.vector = PIC.master.vector /\ chip.open = {0}
    BY <1>3, <2>1, <2>4
  <2>3. PIC' \in [master : Chips, slave : Chips] /\ PIC'.master = chip /\ PIC'.slave = PIC.slave
    BY <1>3, <2>2
  <2>. QED  BY <1>1, <1>2, <1>16, <2>2, <2>3
<1>17. CASE writes = 7
  <2>1. PIC' = [PIC EXCEPT !["slave"] = Written(@, "Open", {})]
    BY <1>5, <1>7, <1>17
  <2>2. PICK chip \in Chips : PIC' = [PIC EXCEPT !.slave = chip] /\ chip.vector = PIC.slave.vector /\ chip.open = {}
    BY ZenonT(60), <1>3, <1>8, <2>1, WhatAWriteDoes
  <2>3. PIC' \in [master : Chips, slave : Chips] /\ PIC'.slave = chip /\ PIC'.master = PIC.master
    BY <1>3, <2>2
  <2>. QED  BY <1>1, <1>2, <1>17, <2>2, <2>3
<1>. QED  BY <1>1, <1>10, <1>11, <1>12, <1>13, <1>14, <1>15, <1>16, <1>17

(* An input of either controller is opened.                                 *)
LEMMA WhatUnmaskDoes ==
    ASSUME TypeOK, GatesAreSet, UnmaskPIC
    PROVE  /\ PIC' \in [master : Chips, slave : Chips]
           /\ PIC'.master.vector = PIC.master.vector /\ PIC'.slave.vector = PIC.slave.vector
           /\ Line \in 0 .. 15 /\ Gated(Line)
           /\ \/ /\ pc = "UnmaskSlave" /\ pc' = "UnmaskMaster"
                 /\ PIC'.master.open = PIC.master.open
                 /\ PIC'.slave.open = PIC.slave.open \cup {Line - 8}
              \/ /\ pc = "UnmaskMaster" /\ pc' = "Registers"
                 /\ PIC'.slave.open = PIC.slave.open
                 /\ PIC'.master.open \subseteq PIC.master.open \cup {2, Line}
<1>1. Line \in 0 .. 15 /\ Gated(Line) /\ (pc = "UnmaskSlave" => Line >= 8)
  BY DEF UnmaskPIC, GatesAreSet
<1>2. PIC \in [master : Chips, slave : Chips]
  BY DEF TypeOK
<1>3. \A chip \in Chips, i \in 0 .. 7 :
          LET opened == [chip EXCEPT !.open = Opened(@, i)]
          IN  opened \in Chips /\ opened.vector = chip.vector /\ opened.open = chip.open \cup {i}
  BY DEF Chips, Opened
<1>4. CASE pc = "UnmaskSlave"
  <2>1. PIC' = [PIC EXCEPT !.slave = [PIC.slave EXCEPT !.open = Opened(@, Line - 8)]]
    BY <1>2, <1>4 DEF UnmaskPIC
  <2>2. PIC.slave \in Chips /\ Line - 8 \in 0 .. 7
    BY <1>1, <1>2, <1>4
  <2>3. PICK chip \in Chips : /\ PIC' = [PIC EXCEPT !.slave = chip] /\ chip.vector = PIC.slave.vector
                              /\ chip.open = PIC.slave.open \cup {Line - 8}
    BY <1>3, <2>1, <2>2
  <2>4. pc' = "UnmaskMaster"
    BY <1>4 DEF UnmaskPIC
  <2>. QED  BY <1>1, <1>2, <1>4, <2>3, <2>4
<1>5. CASE pc = "UnmaskMaster"
  <2>1. PICK i : i = (IF Line >= 8 THEN 2 ELSE Line)
    OBVIOUS
  <2>2. PIC' = [PIC EXCEPT !.master = [PIC.master EXCEPT !.open = Opened(@, i)]]
    BY <1>2, <1>5, <2>1 DEF UnmaskPIC
  <2>3. PIC.master \in Chips /\ i \in 0 .. 7 /\ i \in {2, Line}
    BY <1>1, <1>2, <2>1
  <2>4. PICK chip \in Chips : /\ PIC' = [PIC EXCEPT !.master = chip] /\ chip.vector = PIC.master.vector
                              /\ chip.open = PIC.master.open \cup {i}
    BY <1>3, <2>2, <2>3
  <2>5. pc' = "Registers"
    BY <1>5 DEF UnmaskPIC
  <2>. QED  BY <1>1, <1>2, <1>5, <2>3, <2>4, <2>5
<1>. QED  BY <1>4, <1>5 DEF UnmaskPIC

(* The scan examines one device after the other.                            *)
LEMMA WhatTheScanDoes ==
    ASSUME TypeOK, ScanPCIDevice
    PROVE  /\ pc = "Scan"
           /\ UNCHANGED <<layout, tables, gGDTEntries, gIDTEntries, PIC, writes, gOHCIRegisters, live,
                          started, unserved, crash, step, honest>>
           /\ \/ pc' = "Prompt" /\ scan.device = PCIDevices /\ UNCHANGED scan
              \/ /\ pc' = "Scan" /\ scan' = NextDevice(scan.device) /\ scan.device # PCIDevices
                 /\ Function(scan.device, 0) = {} \/ layout[Current].kind # "OHCI"
              \/ /\ pc' \in {"Gate", "Panic"} /\ UNCHANGED scan /\ Function(scan.device, 0) # {}
                 /\ layout[Current].kind = "OHCI"
<1>1. /\ pc = "Scan"
      /\ UNCHANGED <<layout, tables, gGDTEntries, gIDTEntries, PIC, writes, gOHCIRegisters, live,
                     started, unserved, crash, step, honest>>
  BY DEF ScanPCIDevice, tableVars, picVars, crashVars, setupVars, busVars
<1>2. CASE scan.device = PCIDevices
  BY <1>1, <1>2 DEF ScanPCIDevice
<1>3. CASE scan.device # PCIDevices /\ Function(scan.device, 0) = {}
  BY <1>1, <1>3 DEF ScanPCIDevice
<1>4. CASE scan.device # PCIDevices /\ Function(scan.device, 0) # {} /\ layout[Current].kind # "OHCI"
  BY <1>1, <1>4, OneFunctionIsRead, FunctionZeroOnly DEF ScanPCIDevice
<1>5. CASE scan.device # PCIDevices /\ Function(scan.device, 0) # {} /\ layout[Current].kind = "OHCI"
  BY <1>1, <1>5 DEF ScanPCIDevice
<1>. QED  BY <1>2, <1>3, <1>4, <1>5

LEMMA WhatDevicesDoneDoes ==
    ASSUME TypeOK, ScanIsInOrder, DevicesDone
    PROVE  /\ pc = "Devices" /\ Function(scan.device, 0) # {}
           /\ UNCHANGED <<layout, tables, gGDTEntries, gIDTEntries, PIC, writes, gOHCIRegisters, live,
                          started, unserved, crash, step, honest>>
           /\ \/ pc' = "Scan" /\ scan' = NextDevice(scan.device)
              \/ pc' = "Panic" /\ UNCHANGED scan
<1>1. /\ pc = "Devices"
      /\ UNCHANGED <<layout, tables, gGDTEntries, gIDTEntries, PIC, writes, gOHCIRegisters, live,
                     started, unserved, crash, step, honest>>
  BY DEF DevicesDone, tableVars, picVars, crashVars, setupVars, busVars
<1>2. Function(scan.device, 0) # {}
  BY <1>1 DEF ScanIsInOrder, Starting
<1>. QED  BY <1>1, <1>2, OneFunctionIsRead, FunctionZeroOnly DEF DevicesDone

(* The start of a controller touches no tables and no masks.                *)
StartsIt == SetRegisters \/ ResetController \/ EnableController

LEMMA WhatStartingDoes ==
    ASSUME TypeOK, ScanIsInOrder, StartsIt
    PROVE  /\ UNCHANGED <<layout, tables, gGDTEntries, gIDTEntries, PIC, writes, scan, unserved, crash,
                          step, honest>>
           /\ Current \in DOMAIN layout /\ layout[Current].kind = "OHCI"
           /\ live' \subseteq live \cup {gOHCIRegisters} /\ gOHCIRegisters' \in {gOHCIRegisters, Current}
           /\ \/ /\ pc = "Registers" /\ pc' = "Reset" /\ gOHCIRegisters' = Current
                 /\ UNCHANGED <<live, started>>
              \/ /\ pc = "Reset" /\ pc' \in {"Enable", "Panic"} /\ live' \subseteq live
                 /\ UNCHANGED <<gOHCIRegisters, started>>
              \/ /\ pc = "Enable" /\ pc' = "Devices" /\ started' = Append(started, Current)
                 /\ gOHCIRegisters = Current /\ UNCHANGED gOHCIRegisters
<1>1. UNCHANGED <<layout, tables, gGDTEntries, gIDTEntries, PIC, writes, scan, unserved, crash,
                  step, honest>>
  BY DEF StartsIt, SetRegisters, ResetController, EnableController, tableVars, picVars, crashVars,
         setupVars, busVars
<1>2. pc \in Starting
  BY DEF StartsIt, SetRegisters, ResetController, EnableController, Starting
<1>3. Current \in DOMAIN layout /\ layout[Current].kind = "OHCI"
  BY <1>2, OneFunctionIsRead DEF ScanIsInOrder
<1>4. CASE SetRegisters
  BY <1>1, <1>3, <1>4 DEF SetRegisters, Registers
<1>5. CASE ResetController
  BY <1>1, <1>3, <1>5 DEF ResetController
<1>6. CASE EnableController
  <2>1. pc = "Enable" /\ gOHCIRegisters = Current
    BY <1>6 DEF EnableController, ScanIsInOrder
  <2>. QED  BY <1>1, <1>3, <1>6, <2>1 DEF EnableController
<1>. QED  BY <1>4, <1>5, <1>6 DEF StartsIt

LEMMA TypesAreKept ==
    ASSUME KernelInv, Next
    PROVE  TypeOK'
<1>0. TypeOK /\ TablesAreReady /\ GatesAreSet /\ ScanIsInOrder
  BY DEF KernelInv
<1>1. CASE Beginning
  BY <1>0, <1>1, WhatTheBeginningDoes DEF TypeOK
<1>2. CASE WritePIC
  <2>1. UNCHANGED <<layout, scan, gOHCIRegisters, live, started>> /\ pc = "PIC"
    BY <1>2 DEF WritePIC, driverVars, crashVars
  <2>2. writes' = writes + 1 /\ pc' \in {"Scan", "PIC"}
    BY <1>2 DEF WritePIC
  <2>3. writes \in 0 .. 7
    BY <1>0, <2>1 DEF GatesAreSet, TypeOK
  <2>4. PIC' \in [master : Chips, slave : Chips]
    <3>1. writes < 8
      BY <2>3
    <3>. QED  BY <1>0, <1>2, <3>1, WhatWritesDo
  <2>. QED  BY <1>0, <2>1, <2>2, <2>3, <2>4 DEF TypeOK, Running
<1>3. CASE ScanPCIDevice
  <2>1. scan' \in [device : 0 .. PCIDevices, function : {0}]
    BY <1>0, <1>3, WhatTheScanDoes, DevicesAreCounted DEF TypeOK
  <2>. QED  BY <1>0, <1>3, <2>1, WhatTheScanDoes DEF TypeOK, Running, Starting, Stopped
<1>4. CASE SetDriverGate
  BY <1>0, <1>4 DEF SetDriverGate, TypeOK, Running, Starting, Stopped, picVars, driverVars, crashVars
<1>5. CASE UnmaskPIC
  <2>1. PIC' \in [master : Chips, slave : Chips] /\ pc' \in {"UnmaskMaster", "Registers"}
    BY <1>0, <1>5, WhatUnmaskDoes
  <2>2. UNCHANGED <<layout, writes, scan, gOHCIRegisters, live, started>>
    BY <1>5 DEF UnmaskPIC, driverVars, crashVars
  <2>. QED  BY <1>0, <2>1, <2>2 DEF TypeOK, Running, Starting
<1>6. CASE StartsIt
  <2>1. started' \in Seq(DOMAIN layout)
    BY <1>0, <1>6, WhatStartingDoes DEF TypeOK
  <2>2. /\ live' \subseteq DOMAIN layout /\ gOHCIRegisters' \in {NoFunction} \cup DOMAIN layout
    BY <1>0, <1>6, WhatStartingDoes DEF TypeOK
  <2>3. pc' \in {"Reset", "Enable", "Panic", "Devices"} /\ UNCHANGED <<layout, PIC, writes, scan>>
    BY <1>0, <1>6, WhatStartingDoes
  <2>. QED  BY <1>0, <2>1, <2>2, <2>3 DEF TypeOK, Running, Starting, Stopped
<1>7. CASE SetUpDevices
  BY <1>0, <1>7 DEF SetUpDevices, kernelVars, picVars, driverVars, crashVars, TypeOK
<1>8. CASE DevicesDone
  <2>1. scan' \in [device : 0 .. PCIDevices, function : {0}]
    BY <1>0, <1>8, WhatDevicesDoneDoes, DevicesAreCounted DEF TypeOK
  <2>. QED  BY <1>0, <1>8, <2>1, WhatDevicesDoneDoes DEF TypeOK, Running, Starting, Stopped
<1>9. CASE Stray \/ Unserved \/ Fault
  <2>1. UNCHANGED <<layout, PIC, writes, scan, gOHCIRegisters, live, started>> /\ pc' \in {pc, "Crash"}
    BY <1>9 DEF Stray, Unserved, Fault, picVars, driverVars
  <2>. QED  BY <1>0, <2>1 DEF TypeOK, Stopped
<1>. QED  BY <1>1, <1>2, <1>3, <1>4, <1>5, <1>6, <1>7, <1>8, <1>9
     DEF Next, Main, Beginning, StartsIt

-----------------------------------------------------------------------------
(* Tables, gates and masks *)

(* Every other step finds the tables loaded and leaves them so.             *)
AfterTheBeginning ==
    \/ WritePIC \/ ScanPCIDevice \/ SetDriverGate \/ UnmaskPIC \/ StartsIt \/ SetUpDevices
    \/ DevicesDone \/ Stray \/ Unserved \/ Fault

LEMMA WhatComesAfterTheBeginning ==
    ASSUME KernelInv, AfterTheBeginning
    PROVE  /\ UNCHANGED <<tables, gGDTEntries, layout>>
           /\ \/ pc' = pc \/ pc' \in Stopped
              \/ pc \in {"PIC"} \cup Running /\ pc' \in {"PIC"} \cup Running
<1>0. TypeOK /\ TablesAreReady /\ GatesAreSet /\ ScanIsInOrder
  BY DEF KernelInv
<1>1. UNCHANGED <<tables, gGDTEntries, layout>>
  BY DEF AfterTheBeginning, WritePIC, ScanPCIDevice, SetDriverGate, UnmaskPIC, StartsIt, SetRegisters,
         ResetController, EnableController, SetUpDevices, DevicesDone, Stray, Unserved, Fault, kernelVars,
         tableVars, crashVars
<1>2. CASE Stray \/ Unserved \/ Fault \/ SetUpDevices
  BY <1>1, <1>2 DEF Stray, Unserved, Fault, SetUpDevices, kernelVars, Stopped
<1>3. CASE ~ (Stray \/ Unserved \/ Fault \/ SetUpDevices)
  <2>1. /\ pc \in {"PIC"} \cup Running
        /\ pc' \in {"PIC"} \cup Running \cup Stopped
    <3>1. CASE WritePIC
      BY <3>1 DEF WritePIC, Running
    <3>2. CASE ScanPCIDevice
      BY <1>0, <3>2, WhatTheScanDoes DEF Running, Starting, Stopped
    <3>3. CASE SetDriverGate \/ UnmaskPIC
      BY <3>3 DEF SetDriverGate, UnmaskPIC, Running, Starting, Stopped
    <3>4. CASE StartsIt
      BY <1>0, <3>4, WhatStartingDoes DEF Running, Starting, Stopped
    <3>5. CASE DevicesDone
      BY <1>0, <3>5, WhatDevicesDoneDoes DEF Running, Starting, Stopped
    <3>. QED  BY <1>3, <3>1, <3>2, <3>3, <3>4, <3>5 DEF AfterTheBeginning
  <2>. QED  BY <1>1, <2>1
<1>. QED  BY <1>2, <1>3

LEMMA TablesAreKept ==
    ASSUME KernelInv, Next
    PROVE  TablesAreReady'
<1>0. TypeOK /\ TablesAreReady /\ GatesAreSet /\ ScanIsInOrder
  BY DEF KernelInv
<1>1. CASE AfterTheBeginning
  <2>1. CASE pc' = pc
    BY <1>0, <1>1, <2>1, WhatComesAfterTheBeginning DEF TablesAreReady
  <2>2. CASE pc' \in Stopped
    BY <2>2 DEF TablesAreReady, Stopped, Early, Loading, Running, Starting
  <2>3. CASE pc \in {"PIC"} \cup Running /\ pc' \in {"PIC"} \cup Running
    BY <1>0, <1>1, <2>3, WhatComesAfterTheBeginning
       DEF TablesAreReady, Early, Loading, Running, Starting
  <2>. QED  BY <1>1, <2>1, <2>2, <2>3, WhatComesAfterTheBeginning
<1>2. CASE FirstPrint
  <2>1. pc' = "PushEntries" /\ pc = "FirstPrint" /\ UNCHANGED <<gGDTEntries, tables>>
    BY <1>2 DEF FirstPrint
  <2>2. gGDTEntries' = SubSeq(Entries, 1, 0)
    BY <1>0, <2>1 DEF TablesAreReady, Entries
  <2>3. 0 \in 0 .. Len(Entries)
    BY DEF Entries
  <2>. QED  BY <1>0, <2>1, <2>2, <2>3 DEF TablesAreReady, Early, Loading, Running, Starting
<1>3. CASE PushEntry
  <2>1. PICK n \in 0 .. 5 : gGDTEntries = SubSeq(Entries, 1, n)
    BY <1>0, <1>3 DEF PushEntry, TablesAreReady, Entries
  <2>2. Len(Entries) = 5 /\ Entries \in Seq({"Null", "Code", "Data", "TSS", "TSSHigh"})
    BY DEF Entries
  <2>3. Len(gGDTEntries) = n
    BY <2>1, <2>2
  <2>4. pc = "PushEntries" /\ UNCHANGED tables
    BY <1>3 DEF PushEntry
  <2>5. CASE n = 5
    <3>1. pc' = "lgdt" /\ gGDTEntries' = gGDTEntries
      BY <1>3, <2>2, <2>3, <2>5 DEF PushEntry
    <3>2. SubSeq(Entries, 1, 5) = Entries
      BY <2>2
    <3>. QED  BY <1>0, <2>1, <2>4, <2>5, <3>1, <3>2 DEF TablesAreReady, Early, Loading, Running, Starting
  <2>6. CASE n < 5
    <3>1. pc' = "PushEntries" /\ gGDTEntries' = Append(gGDTEntries, Entries[n + 1])
      BY <1>3, <2>2, <2>3, <2>6 DEF PushEntry, MAX_GDT_ENTRIES
    <3>2. Append(SubSeq(Entries, 1, n), Entries[n + 1]) = SubSeq(Entries, 1, n + 1)
      BY <2>2, <2>6
    <3>3. n + 1 \in 0 .. Len(Entries)
      BY <2>2, <2>6
    <3>. QED  BY <1>0, <2>1, <2>4, <3>1, <3>2, <3>3 DEF TablesAreReady, Early, Loading, Running, Starting
  <2>. QED  BY <2>5, <2>6
<1>4. CASE LoadGDT
  <2>1. /\ pc = "lgdt" /\ pc' = "DataSelectors" /\ UNCHANGED gGDTEntries
        /\ tables' = [gdt |-> "Kernel", idt |-> "Firmware"]
    BY <1>0, <1>4 DEF LoadGDT, TablesAreReady, Early
  <2>. QED  BY <1>0, <2>1 DEF TablesAreReady, Early, Loading, Running, Starting
<1>5. CASE LoadSelectors
  <2>1. pc \in Loading /\ pc # "lidt" /\ UNCHANGED <<tables, gGDTEntries>>
    BY <1>5 DEF LoadSelectors, Loading, tableVars
  <2>2. pc' \in {"CodeSelector", "TaskRegister", "Gates", "Crash"}
    BY <1>5 DEF LoadSelectors, Load
  <2>. QED  BY <1>0, <2>1, <2>2 DEF TablesAreReady, Early, Loading, Running, Starting
<1>6. CASE SetGates \/ LoadIDT
  <2>1. /\ pc \in Loading /\ UNCHANGED gGDTEntries
        /\ \/ pc' = "lidt" /\ UNCHANGED tables
           \/ pc' = "PIC" /\ tables' = [gdt |-> "Kernel", idt |-> "Kernel"]
    BY <1>0, <1>6 DEF SetGates, LoadIDT, TablesAreReady, Loading
  <2>. QED  BY <1>0, <2>1 DEF TablesAreReady, Early, Loading, Running, Starting
<1>. QED  BY <1>1, <1>2, <1>3, <1>4, <1>5, <1>6 DEF Next, Main, AfterTheBeginning, StartsIt

LEMMA GatesAreKept ==
    ASSUME KernelInv, Next
    PROVE  GatesAreSet'
<1>0. TypeOK /\ TablesAreReady /\ GatesAreSet /\ ScanIsInOrder
  BY DEF KernelInv
<1>1. CASE Beginning
  <2>1. /\ pc \in Early \cup Loading /\ pc' \in Early \cup Loading \cup {"PIC"} /\ writes' = 0
        /\ writes = 0
    BY <1>0, <1>1, WhatTheBeginningDoes DEF GatesAreSet
  <2>2. pc' \in {"lidt", "PIC"} => Gated(0)'
    <3>1. CASE SetGates
      BY <3>1 DEF SetGates, Gated, INTERRUPT_IRQ0
    <3>2. CASE LoadIDT
      BY <1>0, <3>2 DEF LoadIDT, GatesAreSet, Gated
    <3>3. CASE ~ (SetGates \/ LoadIDT)
      <4>1. pc' \notin {"lidt", "PIC"}
        BY <1>1, <3>3 DEF Beginning, FirstPrint, PushEntry, LoadGDT, LoadSelectors, Load
      <4>. QED  BY <4>1
    <3>. QED  BY <3>1, <3>2, <3>3
  <2>. QED  BY <2>1, <2>2 DEF GatesAreSet, Early, Loading, Running, Starting
<1>2. CASE WritePIC
  <2>1. pc = "PIC" /\ writes < 8 /\ Gated(0) /\ UNCHANGED gIDTEntries
    BY <1>0, <1>2 DEF WritePIC, GatesAreSet, tableVars
  <2>2. Gated(0)'
    BY <2>1 DEF Gated
  <2>3. /\ writes \in 0 .. 7 /\ writes' = writes + 1
        /\ pc' = IF writes' = 8 THEN "Scan" ELSE "PIC"
        /\ PIC'.master.vector = IF writes = 2 THEN 32 ELSE PIC.master.vector
        /\ PIC'.slave.vector = IF writes = 3 THEN 40 ELSE PIC.slave.vector
        /\ writes = 6 => PIC'.master.open = {0}
        /\ writes = 7 => PIC'.slave.open = {} /\ PIC'.master.open = PIC.master.open
    BY <1>0, <1>2, <2>1, WhatWritesDo
  <2>4. /\ writes' > 2 => PIC'.master.vector = 32
        /\ writes' > 3 => PIC'.slave.vector = 40
        /\ writes' > 6 => PIC'.master.open = {0}
        /\ writes' = 8 => PIC'.slave.open = {}
    BY <1>0, <2>1, <2>3 DEF GatesAreSet
  <2>. QED  BY <2>2, <2>3, <2>4 DEF GatesAreSet, Early, Loading, Running, Starting
<1>3. CASE ScanPCIDevice \/ StartsIt \/ DevicesDone
  <2>1. /\ UNCHANGED <<gIDTEntries, PIC, writes>> /\ pc \in Running
        /\ pc' \in {"Prompt", "Scan", "Gate", "Panic", "Reset", "Enable", "Devices"}
    BY <1>0, <1>3, WhatTheScanDoes, WhatStartingDoes, WhatDevicesDoneDoes DEF Running, Starting
  <2>. QED  BY <1>0, <2>1 DEF GatesAreSet, Gated, Early, Loading, Running, Starting
<1>4. CASE SetDriverGate
  <2>1. pc = "Gate" /\ UNCHANGED <<PIC, writes, layout, scan>> /\ pc \in Running
    BY <1>4 DEF SetDriverGate, picVars, driverVars, crashVars, Running, Starting
  <2>2. CASE pc' = "Panic"
    BY <2>2 DEF GatesAreSet, Early, Loading, Running, Starting
  <2>3. CASE pc' # "Panic"
    <3>1. /\ ~ (INTERRUPT_IRQ0 + Line >= MAX_IDT_ENTRIES)
          /\ gIDTEntries' = [vector \in DOMAIN gIDTEntries \cup {INTERRUPT_IRQ0 + Line} |->
                 IF vector = INTERRUPT_IRQ0 + Line THEN "OHCI" ELSE gIDTEntries[vector]]
          /\ pc' = IF Line >= 8 THEN "UnmaskSlave" ELSE "UnmaskMaster"
      BY <1>4, <2>3 DEF SetDriverGate
    <3>2. Line' = Line /\ Line \in 0 .. 15
      <4>1. Current \in DOMAIN layout
        BY <1>0, <2>1, OneFunctionIsRead DEF ScanIsInOrder, Starting
      <4>2. Line \in IRQLines
        BY <1>0, <4>1, MachinesAreSequences DEF Line
      <4>3. Line' = Line
        BY <2>1 DEF Line, Current, Function
      <4>4. ~ (32 + Line >= 256)
        BY <3>1 DEF INTERRUPT_IRQ0, MAX_IDT_ENTRIES
      <4>. QED  BY <4>2, <4>3, <4>4 DEF IRQLines
    <3>3. Gated(Line)' /\ \A irq \in 0 .. 15 : Gated(irq) => Gated(irq)'
      BY <3>1, <3>2 DEF Gated
    <3>4. /\ Gated(0) /\ PIC.master.vector = 32 /\ PIC.slave.vector = 40
          /\ \A i \in PIC.master.open \ {2} : Gated(i)
          /\ \A i \in PIC.slave.open : Gated(i + 8)
      BY <1>0, <2>1 DEF GatesAreSet
    <3>5. PIC.master.open \subseteq 0 .. 7 /\ PIC.slave.open \subseteq 0 .. 7
      BY <1>0 DEF TypeOK, Chips
    <3>6. /\ Gated(0)' /\ \A i \in PIC.master.open \ {2} : Gated(i)'
          /\ \A i \in PIC.slave.open : Gated(i + 8)'
      BY <3>3, <3>4, <3>5
    <3>7. pc' \notin Early \cup Loading \cup {"PIC", "lidt"} /\ (pc' = "UnmaskSlave" => Line >= 8)
      BY <3>1 DEF Early, Loading
    <3>. QED  BY <2>1, <3>2, <3>3, <3>4, <3>6, <3>7 DEF GatesAreSet
  <2>. QED  BY <2>2, <2>3
<1>5. CASE UnmaskPIC
  <2>1. /\ UNCHANGED <<gIDTEntries, writes, layout, scan>> /\ pc \in Running
        /\ pc' \in Running \ {"UnmaskSlave"}
    BY <1>5 DEF UnmaskPIC, tableVars, driverVars, crashVars, Running, Starting
  <2>2. /\ PIC'.master.vector = PIC.master.vector /\ PIC'.slave.vector = PIC.slave.vector
        /\ Line \in 0 .. 15 /\ Gated(Line)
        /\ PIC'.master.open \subseteq PIC.master.open \cup {2, Line}
        /\ PIC'.slave.open \subseteq PIC.slave.open \cup {Line - 8}
    BY <1>0, <1>5, WhatUnmaskDoes
  <2>3. /\ Gated(0) /\ PIC.master.vector = 32 /\ PIC.slave.vector = 40
        /\ \A i \in PIC.master.open \ {2} : Gated(i)
        /\ \A i \in PIC.slave.open : Gated(i + 8)
    BY <1>0, <2>1 DEF GatesAreSet
  <2>4. /\ \A i \in PIC'.master.open \ {2} : Gated(i)
        /\ \A i \in PIC'.slave.open : Gated(i + 8)
    BY <2>2, <2>3
  <2>5. \A i : Gated(i)' <=> Gated(i)
    BY <2>1 DEF Gated
  <2>6. Line' = Line
    BY <2>1 DEF Line, Current, Function
  <2>7. pc' \notin Early \cup Loading \cup {"PIC", "lidt"}
    BY <2>1 DEF Early, Loading, Running, Starting
  <2>. QED  BY <2>1, <2>2, <2>3, <2>4, <2>5, <2>6, <2>7 DEF GatesAreSet
<1>6. CASE SetUpDevices
  BY <1>0, <1>6 DEF SetUpDevices, kernelVars, tableVars, picVars, driverVars, crashVars, GatesAreSet,
                    Gated, Line, Current, Function
<1>7. CASE Stray \/ Unserved \/ Fault
  <2>1. UNCHANGED <<gIDTEntries, PIC, writes, layout, scan>> /\ pc' \in {pc, "Crash"}
    BY <1>7 DEF Stray, Unserved, Fault, tableVars, picVars, driverVars
  <2>2. Line' = Line /\ \A i : Gated(i)' <=> Gated(i)
    BY <2>1 DEF Line, Current, Function, Gated
  <2>. QED  BY <1>0, <2>1, <2>2 DEF GatesAreSet, Early, Loading, Running, Starting
<1>. QED  BY <1>1, <1>2, <1>3, <1>4, <1>5, <1>6, <1>7 DEF Next, Main, Beginning, StartsIt

-----------------------------------------------------------------------------
(* The order of the scan *)

(* A device with no controller, or one that has been started, is passed by. *)
LEMMA ScanGoesOn ==
    ASSUME KernelInv, TypeOK', pc \in Running, pc' = "Scan", scan' = NextDevice(scan.device),
           UNCHANGED <<layout, gOHCIRegisters, started>>,
           Function(scan.device, 0) # {} \/ scan.device # PCIDevices,
           pc = "Devices" \/ Function(scan.device, 0) = {} \/ layout[Current].kind # "OHCI"
    PROVE  ScanIsInOrder'
<1>1. TypeOK /\ ScanIsInOrder
  BY DEF KernelInv
<1>2. scan'.device = scan.device + 1 /\ scan.device \in Nat
  BY <1>1, DevicesAreCounted
<1>3. \A n \in DOMAIN layout : layout[n].device \in Nat
  BY <1>1, MachinesAreSequences
<1>4. started \in Seq(DOMAIN layout)
  BY <1>1 DEF TypeOK
<1>5. \A n \in DOMAIN started : Scanned(started[n])
  BY <1>1 DEF ScanIsInOrder
<1>6. \A n \in DOMAIN started : layout[started[n]].device < scan'.device
  BY <1>2, <1>3, <1>4, <1>5 DEF Scanned
<1>7. ASSUME NEW n \in DOMAIN layout, IsController(n), layout[n].device < scan'.device
      PROVE  \E k \in DOMAIN started : started[k] = n
  <2>1. CASE layout[n].device < scan.device
    BY <1>1, <1>7, <2>1 DEF ScanIsInOrder, Scanned
  <2>2. CASE layout[n].device = scan.device
    <3>1. n \in Function(scan.device, 0)
      BY <1>7, <2>2 DEF Function, IsController
    <3>2. n = Current
      BY <1>1, <1>7, <2>2, <3>1, OneFunctionIsRead DEF IsController
    <3>3. pc = "Devices"
      BY <1>7, <3>1, <3>2 DEF IsController
    <3>. QED  BY <1>1, <1>7, <2>2, <3>3 DEF ScanIsInOrder, Scanned
  <2>. QED  BY <1>2, <1>3, <1>7, <2>1, <2>2
<1>8. pc' \notin Early \cup Loading \cup {"PIC", "Prompt"} \cup Starting
  BY DEF Early, Loading, Starting
<1>9. \A n : IsController(n)' <=> IsController(n)
  BY DEF IsController
<1>10. \A n : Scanned(n)' <=> layout[n].device < scan'.device
  BY DEF Scanned
<1>11. pc' \notin {"Reset", "Enable", "Devices"}
  OBVIOUS
<1>. QED  BY <1>1, <1>6, <1>7, <1>8, <1>9, <1>10, <1>11 DEF ScanIsInOrder

(* Nothing of the scan changes but where main is.                           *)
LEMMA ScanStays ==
    ASSUME KernelInv, UNCHANGED <<layout, scan, gOHCIRegisters, started>>,
           \/ pc' = pc \/ pc' \in Stopped
           \/ pc \in Early \cup Loading /\ pc' \in Early \cup Loading \cup {"PIC"}
           \/ pc = "Scan" /\ pc' = "Prompt" /\ scan.device = PCIDevices
           \/ pc \in Starting \ {"Devices"} /\ pc' \in Starting \ {"Reset", "Enable", "Devices"}
           \/ pc = "Reset" /\ pc' = "Enable"
           \/ pc = "Scan" /\ pc' = "Gate" /\ Function(scan.device, 0) # {} /\ layout[Current].kind = "OHCI"
    PROVE  ScanIsInOrder'
<1>1. ScanIsInOrder
  BY DEF KernelInv
<1>2. /\ \A n : IsController(n)' <=> IsController(n)
      /\ Current' = Current /\ Function(scan.device, 0)' = Function(scan.device, 0)
  BY DEF IsController, Current, Function
<1>3. (pc = "Devices" <=> pc' = "Devices") => \A n : Scanned(n)' <=> Scanned(n)
  BY DEF Scanned
<1>4. \/ pc' \in Stopped
      \/ /\ (pc = "Devices" <=> pc' = "Devices")
         /\ pc' \in Early \cup Loading \cup {"PIC"} => pc \in Early \cup Loading \cup {"PIC"}
         /\ pc' \in Running => pc \in Running
         /\ pc' = "Prompt" => scan.device = PCIDevices
         /\ pc' \in Starting => Function(scan.device, 0) # {} /\ layout[Current].kind = "OHCI"
         /\ pc' \in {"Reset", "Enable", "Devices"} => pc \in {"Reset", "Enable", "Devices"}
  BY <1>1 DEF ScanIsInOrder, Early, Loading, Running, Starting, Stopped
<1>5. CASE pc' \in Stopped
  BY <1>1, <1>2, <1>5 DEF ScanIsInOrder, Early, Loading, Running, Starting, Stopped
<1>6. CASE pc' \notin Stopped
  BY <1>1, <1>2, <1>3, <1>4, <1>6 DEF ScanIsInOrder
<1>. QED  BY <1>5, <1>6

LEMMA OrderIsKept ==
    ASSUME KernelInv, Next
    PROVE  ScanIsInOrder'
<1>0. /\ TypeOK /\ TablesAreReady /\ GatesAreSet /\ ScanIsInOrder
      /\ TypeOK'
  BY TypesAreKept DEF KernelInv
<1>1. CASE Beginning
  BY <1>0, <1>1, WhatTheBeginningDoes, ScanStays
<1>2. CASE WritePIC
  <2>1. pc = "PIC" /\ pc' \in {"PIC", "Scan"} /\ UNCHANGED <<layout, scan, gOHCIRegisters, started>>
    BY <1>2 DEF WritePIC, driverVars, crashVars
  <2>2. CASE pc' = "PIC"
    BY <2>1, <2>2, ScanStays
  <2>3. CASE pc' = "Scan"
    <3>1. started = <<>> /\ scan.device = 0
      BY <1>0, <2>1 DEF ScanIsInOrder
    <3>2. \A n \in DOMAIN layout : ~ Scanned(n)'
      <4>1. \A n \in DOMAIN layout : layout[n].device \in Nat
        BY <1>0, MachinesAreSequences
      <4>. QED  BY <2>1, <2>3, <3>1, <4>1 DEF Scanned
    <3>. QED  BY <2>1, <2>3, <3>1, <3>2 DEF ScanIsInOrder, Early, Loading, Starting
  <2>. QED  BY <2>1, <2>2, <2>3
<1>3. CASE ScanPCIDevice
  <2>1. pc = "Scan" /\ UNCHANGED <<layout, gOHCIRegisters, started>>
    BY <1>0, <1>3, WhatTheScanDoes
  <2>2. CASE UNCHANGED scan
    <3>1. \/ pc' = "Prompt" /\ scan.device = PCIDevices
          \/ /\ pc' \in {"Gate", "Panic"} /\ Function(scan.device, 0) # {}
             /\ layout[Current].kind = "OHCI"
          \/ pc' = "Scan"
      BY <1>0, <1>3, WhatTheScanDoes
    <3>. QED  BY <2>1, <2>2, <3>1, ScanStays DEF Stopped
  <2>3. CASE ~ UNCHANGED scan
    <3>1. /\ pc' = "Scan" /\ scan' = NextDevice(scan.device) /\ scan.device # PCIDevices
          /\ Function(scan.device, 0) = {} \/ layout[Current].kind # "OHCI"
      BY <1>0, <1>3, <2>3, WhatTheScanDoes
    <3>. QED  BY <1>0, <2>1, <3>1, ScanGoesOn DEF Running
  <2>. QED  BY <2>2, <2>3
<1>4. CASE SetDriverGate \/ UnmaskPIC
  <2>1. /\ UNCHANGED <<layout, scan, gOHCIRegisters, started>>
        /\ pc \in Starting \ {"Devices"}
        /\ pc' \in (Starting \ {"Reset", "Enable", "Devices"}) \cup Stopped
    BY <1>4 DEF SetDriverGate, UnmaskPIC, driverVars, crashVars, Starting, Stopped
  <2>. QED  BY <2>1, ScanStays
<1>5. CASE StartsIt
  <2>1. /\ UNCHANGED <<layout, scan>> /\ Current \in DOMAIN layout /\ layout[Current].kind = "OHCI"
        /\ \/ /\ pc = "Registers" /\ pc' = "Reset" /\ gOHCIRegisters' = Current
              /\ UNCHANGED started
           \/ /\ pc = "Reset" /\ pc' \in {"Enable", "Panic"} /\ UNCHANGED <<gOHCIRegisters, started>>
           \/ /\ pc = "Enable" /\ pc' = "Devices" /\ started' = Append(started, Current)
              /\ gOHCIRegisters = Current /\ UNCHANGED gOHCIRegisters
    BY <1>0, <1>5, WhatStartingDoes
  <2>2. Current' = Current /\ Function(scan.device, 0)' = Function(scan.device, 0)
    BY <2>1 DEF Current, Function
  <2>3. /\ \A n : IsController(n)' <=> IsController(n)
        /\ \A n \in DOMAIN layout : layout[n].device \in Nat
        /\ scan.device \in Nat /\ started \in Seq(DOMAIN layout)
    BY <1>0, <2>1, MachinesAreSequences DEF IsController, TypeOK
  <2>4. pc \in Starting /\ Function(scan.device, 0) # {}
    BY <1>0, <2>1 DEF ScanIsInOrder, Starting
  <2>5. /\ layout[Current].device = scan.device /\ layout[Current].function = 0 /\ Current # NoFunction
        /\ \A n \in DOMAIN layout :
              layout[n].device = scan.device /\ layout[n].function = 0 => n = Current
    BY <1>0, <2>1, <2>4, OneFunctionIsRead, MachinesAreSequences DEF NoFunction
  <2>6. pc # "Devices" => \A n \in DOMAIN started : layout[started[n]].device < scan.device
    BY <1>0, <2>4 DEF ScanIsInOrder, Scanned, Running
  <2>7. CASE pc = "Registers"
    <3>1. pc' = "Reset" /\ gOHCIRegisters' = Current /\ UNCHANGED started
      BY <2>1, <2>7
    <3>2. \A n : Scanned(n)' <=> Scanned(n)
      BY <2>1, <2>7, <3>1 DEF Scanned
    <3>3. \A n \in DOMAIN started : layout[Current].device > layout[started[n]].device
      BY <2>3, <2>5, <2>6, <2>7
    <3>4. /\ pc' \notin Early \cup Loading \cup {"PIC", "Prompt"} /\ pc \in Running
          /\ pc' \in Running
      BY <2>7, <3>1 DEF Early, Loading, Running, Starting
    <3>. QED  BY <1>0, <2>1, <2>2, <2>3, <2>4, <2>5, <3>1, <3>2, <3>3, <3>4 DEF ScanIsInOrder
  <2>8. CASE pc = "Reset"
    BY <2>1, <2>8, ScanStays DEF Stopped
  <2>9. CASE pc = "Enable"
    <3>1. /\ pc' = "Devices" /\ started' = Append(started, Current)
          /\ gOHCIRegisters = Current /\ gOHCIRegisters' = Current
      BY <2>1, <2>9
    <3>2. /\ DOMAIN started' = DOMAIN started \cup {Len(started) + 1}
          /\ started'[Len(started) + 1] = Current
          /\ \A n \in DOMAIN started : started'[n] = started[n] /\ n # Len(started) + 1
      BY <2>1, <2>3, <3>1
    <3>3. \A n \in DOMAIN started : started[n] # Current
      BY <2>3, <2>5, <2>6, <2>9
    <3>4. \A n, k \in DOMAIN started' : n # k => started'[n] # started'[k]
      BY <1>0, <3>2, <3>3 DEF ScanIsInOrder
    <3>5. \A n \in DOMAIN started' :
              /\ IsController(started[n])' /\ gOHCIRegisters' # NoFunction
              /\ started'[n] # gOHCIRegisters' =>
                     layout'[gOHCIRegisters'].device > layout'[started'[n]].device
      <4>1. IsController(Current)
        BY <2>1, <2>5 DEF IsController
      <4>2. \A n \in DOMAIN started : IsController(started[n])
        BY <1>0 DEF ScanIsInOrder
      <4>3. \A n \in DOMAIN started : layout[Current].device > layout[started[n]].device
        BY <2>3, <2>5, <2>6, <2>9
      <4>. QED  BY <2>1, <2>3, <2>5, <3>1, <3>2, <4>1, <4>2, <4>3
    <3>6. \A n : Scanned(n)' <=> layout[n].device < scan.device \/ layout[n].device = scan.device
      BY <2>1, <3>1 DEF Scanned
    <3>7. \A n \in DOMAIN started' : Scanned(started[n])'
      BY <2>5, <2>6, <2>9, <3>2, <3>6
    <3>8. \A n \in DOMAIN layout : IsController(n)' /\ Scanned(n)' =>
              \E k \in DOMAIN started' : started'[k] = n
      <4>1. \A n \in DOMAIN layout : IsController(n) /\ layout[n].device < scan.device =>
                \E k \in DOMAIN started : started[k] = n
        BY <1>0, <2>9 DEF ScanIsInOrder, Scanned, Running, Starting
      <4>. QED  BY <2>3, <2>5, <3>2, <3>6, <4>1 DEF IsController
    <3>9. pc' \notin Early \cup Loading \cup {"PIC", "Prompt"}
      BY <3>1 DEF Early, Loading
    <3>. QED  BY <2>1, <2>2, <2>3, <2>4, <3>1, <3>4, <3>5, <3>7, <3>8, <3>9 DEF ScanIsInOrder
  <2>. QED  BY <2>1, <2>7, <2>8, <2>9
<1>6. CASE SetUpDevices \/ Stray \/ Unserved \/ Fault
  <2>1. UNCHANGED <<layout, scan, gOHCIRegisters, started>> /\ (pc' = pc \/ pc' \in Stopped)
    BY <1>6 DEF SetUpDevices, Stray, Unserved, Fault, kernelVars, driverVars, crashVars, Stopped
  <2>. QED  BY <2>1, ScanStays
<1>7. CASE DevicesDone
  <2>1. pc = "Devices" /\ UNCHANGED <<layout, gOHCIRegisters, started>> /\ Function(scan.device, 0) # {}
    BY <1>0, <1>7, WhatDevicesDoneDoes
  <2>2. CASE pc' = "Panic" /\ UNCHANGED scan
    BY <2>1, <2>2, ScanStays DEF Stopped
  <2>3. CASE pc' = "Scan" /\ scan' = NextDevice(scan.device)
    BY <1>0, <2>1, <2>3, ScanGoesOn DEF Running, Starting
  <2>. QED  BY <1>0, <1>7, <2>2, <2>3, WhatDevicesDoneDoes
<1>. QED  BY <1>1, <1>2, <1>3, <1>4, <1>5, <1>6, <1>7 DEF Next, Main, Beginning, StartsIt

-----------------------------------------------------------------------------
(* Interrupts *)

(* An interrupt that the masks let through finds a gate, except between the *)
(* loading of the descriptor tables and the last mask.                      *)
LEMMA HandlersAreFound ==
    ASSUME KernelInv, pc \in Early \cup Running, NEW irq \in Inputs, NEW source, Raised(irq, source)
    PROVE  HandlerOf(irq) \notin {None, "ExceptionHandler"}
<1>0. TypeOK /\ TablesAreReady /\ GatesAreSet
  BY DEF KernelInv
<1>1. CASE pc \in Early
  <2>1. tables = [gdt |-> "Firmware", idt |-> "Firmware"]
    BY <1>0, <1>1 DEF TablesAreReady
  <2>2. HandlerOf(irq) = "Firmware"
    BY <2>1 DEF HandlerOf, Selected
  <2>. QED  BY <2>2 DEF None
<1>2. CASE pc \in Running
  <2>1. tables = [gdt |-> "Kernel", idt |-> "Kernel"] /\ gGDTEntries = Entries
    BY <1>0, <1>2 DEF TablesAreReady
  <2>2. Selected(Offset("Code")) = "Code"
    <3>1. \A n \in DOMAIN gGDTEntries : gGDTEntries[n] = "Code" <=> n = 2
      BY <2>1 DEF Entries
    <3>2. 2 \in DOMAIN gGDTEntries
      BY <2>1 DEF Entries
    <3>3. (CHOOSE n \in DOMAIN gGDTEntries : gGDTEntries[n] = "Code") = 2
      BY <3>1, <3>2
    <3>4. Offset("Code") = 8 * (2 - 1)
      BY <3>3, Zenon DEF Offset
    <3>. QED  BY <2>1, <3>4 DEF Selected, Entries
  <2>3. /\ PIC.master.vector = 32 /\ PIC.slave.vector = 40
        /\ \A i \in PIC.master.open \ {2} : Gated(i)
        /\ \A i \in PIC.slave.open : Gated(i + 8)
    BY <1>0, <1>2 DEF GatesAreSet
  <2>4. irq \in 0 .. 15 /\ irq # 2
    BY DEF Inputs
  <2>5. Vector(irq) = INTERRUPT_IRQ0 + irq /\ Gated(irq)
    <3>1. CASE irq < 8
      <4>1. irq \in PIC.master.open
        BY <3>1 DEF Raised, Unmasked
      <4>. QED  BY <2>3, <2>4, <3>1, <4>1 DEF Vector, INTERRUPT_IRQ0
    <3>2. CASE ~ (irq < 8)
      <4>1. irq - 8 \in PIC.slave.open /\ irq - 8 + 8 = irq
        BY <2>4, <3>2 DEF Raised, Unmasked
      <4>2. Gated(irq)
        BY <2>3, <4>1
      <4>. QED  BY <2>3, <2>4, <3>2, <4>2 DEF Vector, INTERRUPT_IRQ0
    <3>. QED  BY <3>1, <3>2
  <2>6. /\ Vector(irq) \in DOMAIN gIDTEntries /\ gIDTEntries[Vector(irq)] \in {"irq0", "OHCI"}
    BY <2>5 DEF Gated
  <2>. QED  BY <2>1, <2>2, <2>6 DEF HandlerOf, None
<1>. QED  BY <1>1, <1>2

LEMMA RegistersFollowTheGate ==
    ASSUME KernelInv, Next
    PROVE  GateAwaitsRegisters'
<1>0. TypeOK /\ ScanIsInOrder /\ GateAwaitsRegisters
  BY DEF KernelInv
<1>1. CASE SetGates
  <2>1. \A vector \in DOMAIN gIDTEntries' : gIDTEntries'[vector] # "OHCI"
    BY <1>1 DEF SetGates
  <2>. QED  BY <2>1 DEF GateAwaitsRegisters
<1>2. CASE SetDriverGate \/ UnmaskPIC
  <2>1. pc' \in {"UnmaskSlave", "UnmaskMaster", "Registers"} \cup Stopped
    BY <1>2 DEF SetDriverGate, UnmaskPIC, Stopped
  <2>. QED  BY <2>1 DEF GateAwaitsRegisters
<1>3. CASE SetRegisters
  <2>1. gOHCIRegisters' = Current /\ Current \in DOMAIN layout
    BY <1>0, <1>3, WhatStartingDoes DEF StartsIt, SetRegisters, Registers
  <2>2. gOHCIRegisters' # NoFunction
    BY <1>0, <2>1, MachinesAreSequences DEF TypeOK, NoFunction
  <2>. QED  BY <2>2 DEF GateAwaitsRegisters
<1>4. CASE Stray \/ Unserved \/ Fault
  <2>1. UNCHANGED <<gIDTEntries, gOHCIRegisters>> /\ (pc' = pc \/ pc' \in Stopped)
    BY <1>4 DEF Stray, Unserved, Fault, tableVars, driverVars, Stopped
  <2>. QED  BY <1>0, <2>1 DEF GateAwaitsRegisters, Stopped
<1>5. CASE \/ FirstPrint \/ PushEntry \/ LoadGDT \/ LoadSelectors \/ LoadIDT \/ WritePIC \/ ScanPCIDevice
           \/ ResetController \/ EnableController \/ SetUpDevices \/ DevicesDone
  <2>1. UNCHANGED <<gIDTEntries, gOHCIRegisters>>
    BY <1>5 DEF FirstPrint, PushEntry, LoadGDT, LoadSelectors, LoadIDT, WritePIC, ScanPCIDevice,
         ResetController, EnableController, SetUpDevices, DevicesDone, kernelVars, tableVars, driverVars
  <2>2. pc \notin {"UnmaskSlave", "UnmaskMaster", "Registers"} \cup Stopped
    BY <1>5 DEF FirstPrint, PushEntry, LoadGDT, LoadSelectors, LoadIDT, WritePIC, ScanPCIDevice,
         ResetController, EnableController, SetUpDevices, DevicesDone, Stopped
  <2>. QED  BY <1>0, <2>1, <2>2 DEF GateAwaitsRegisters
<1>. QED  BY <1>1, <1>2, <1>3, <1>4, <1>5 DEF Next, Main

LEMMA CausesAreKept ==
    ASSUME IInv, SetupInv', Next
    PROVE  StopsHaveACause'
<1>0. /\ KernelInv /\ TypeOK /\ TablesAreReady /\ ScanIsInOrder /\ GateAwaitsRegisters
      /\ step' = "Panic" => ~ honest' \/ \E g \in Gadgets : listens'[g] # Silent /\ 0 \in Packet[g]
  BY DEF IInv, KernelInv, SetupInv, SizesAreExplained, SaysZero
<1>1. CASE Stray
  <2>1. PICK irq \in Inputs, source \in Sources :
            /\ Raised(irq, source) /\ HandlerOf(irq) \in {None, "ExceptionHandler"}
            /\ crash'.at = pc
    BY <1>1 DEF Stray
  <2>2. pc \notin Early \cup Running
    BY <1>0, <2>1, HandlersAreFound
  <2>3. pc \notin Stopped
    BY <2>1 DEF Raised
  <2>4. pc \in Loading \cup {"PIC"}
    BY <1>0, <2>2, <2>3 DEF TypeOK
  <2>. QED  BY <1>0, <2>1, <2>4 DEF StopsHaveACause, Loading
<1>2. CASE Unserved
  <2>1. pc' # "Crash"
    BY <1>2 DEF Unserved, Raised, Stopped
  <2>. QED  BY <1>0, <2>1 DEF StopsHaveACause
<1>3. CASE Fault
  <2>1. PICK irq \in Inputs, source \in Sources, pointer \in NullPointers :
            /\ Raised(irq, source) /\ HandlerOf(irq) = "OHCI"
            /\ crash' = [at |-> pc, irq |-> irq, handler |-> "OHCI", through |-> pointer]
    BY <1>3 DEF Fault
  <2>2. crash'.at = pc /\ crash'.through = pointer
    BY <2>1
  <2>3. UNCHANGED <<started, NextED>>
    BY <1>3 DEF Fault, driverVars, setupVars
  <2>4. CASE gOHCIRegisters = NoFunction
    <3>1. \E vector \in DOMAIN gIDTEntries : gIDTEntries[vector] = "OHCI"
      BY <2>1 DEF HandlerOf, None
    <3>2. pc \in {"UnmaskSlave", "UnmaskMaster", "Registers"}
      BY <1>0, <2>1, <2>4, <3>1 DEF GateAwaitsRegisters, Raised
    <3>3. started = <<>>
      BY <1>0, <2>4 DEF ScanIsInOrder, TypeOK
    <3>4. pointer = "gOHCIRegisters"
      BY <2>4 DEF NullPointers
    <3>. QED  BY <1>0, <2>2, <2>3, <3>2, <3>3, <3>4 DEF StopsHaveACause
  <2>5. CASE gOHCIRegisters # NoFunction
    <3>1. \/ pointer = "HCCABase" /\ started = <<>>
          \/ pointer = "Interface" /\ Visible # {}
      BY <2>5 DEF NullPointers
    <3>2. Visible' = Visible
      BY <2>3 DEF Visible
    <3>. QED  BY <1>0, <2>2, <2>3, <3>1, <3>2 DEF StopsHaveACause
  <2>. QED  BY <2>4, <2>5
<1>4. CASE Main
  <2>1. pc' # "Crash"
    <3>1. CASE Beginning
      BY <1>0, <3>1, WhatTheBeginningDoes DEF Early, Loading
    <3>2. CASE WritePIC \/ SetDriverGate \/ UnmaskPIC \/ SetUpDevices
      BY <3>2 DEF WritePIC, SetDriverGate, UnmaskPIC, SetUpDevices, kernelVars
    <3>3. CASE ScanPCIDevice \/ StartsIt \/ DevicesDone
      BY <1>0, <3>3, WhatTheScanDoes, WhatStartingDoes, WhatDevicesDoneDoes
    <3>. QED  BY <1>4, <3>1, <3>2, <3>3 DEF Main, Beginning, StartsIt
  <2>. QED  BY <1>0, <2>1 DEF StopsHaveACause
<1>. QED  BY <1>1, <1>2, <1>3, <1>4 DEF Next

LEMMA HandlersAreKept ==
    ASSUME KernelInv, Next
    PROVE  HandlerFindsItsState'
<1>0. ScanIsInOrder /\ HandlerFindsItsState
  BY DEF KernelInv
<1>1. CASE Unserved
  <2>1. PICK source : /\ source # gOHCIRegisters
                      /\ unserved' = unserved \cup
                            {[source |-> source, registers |-> gOHCIRegisters,
                              started |-> \E n \in DOMAIN started : started[n] = source]}
    BY <1>1 DEF Unserved
  <2>2. (\E n \in DOMAIN started : started[n] = source) =>
            /\ gOHCIRegisters # NoFunction
            /\ layout[gOHCIRegisters].device > layout[source].device
    BY <1>0, <2>1 DEF ScanIsInOrder
  <2>3. UNCHANGED layout
    BY <1>1 DEF Unserved
  <2>. QED  BY <1>0, <2>1, <2>2, <2>3 DEF HandlerFindsItsState
<1>2. CASE Main \/ Stray \/ Fault
  <2>1. UNCHANGED <<layout, unserved>>
    BY <1>2 DEF Stray, Fault, Main, FirstPrint, PushEntry, LoadGDT, LoadSelectors, SetGates, LoadIDT, WritePIC,
         ScanPCIDevice, SetDriverGate, UnmaskPIC, SetRegisters, ResetController, EnableController,
         SetUpDevices, DevicesDone, crashVars, kernelVars
  <2>. QED  BY <1>0, <2>1 DEF HandlerFindsItsState
<1>. QED  BY <1>1, <1>2 DEF Next

-----------------------------------------------------------------------------
(* The whole *)

LEMMA InvHolds == Init => IInv
<1>. SUFFICES ASSUME Init  PROVE IInv
  OBVIOUS
<1>1. SetupInv
  <2>1. PICK ports \in Seq(Gadgets) : SetupInit(ports)
    <3>1. (IF layout \in Populated THEN RootPorts ELSE <<>>) \in Seq(Gadgets)
      BY GadgetsAssumption
    <3>. QED  BY <3>1 DEF Init
  <2>. QED  BY <2>1, SetupBegins
<1>2. TypeOK
  <2>1. PIC \in [master : Chips, slave : Chips]
    BY DEF Init, Chips
  <2>2. PCIDevices \in Nat
    BY LayoutsAssumption
  <2>. QED  BY <2>1, <2>2 DEF Init, TypeOK, Early
<1>3. TablesAreReady
  BY DEF Init, TablesAreReady, Early, Loading, Running, Starting
<1>4. GatesAreSet
  BY DEF Init, GatesAreSet, Early, Loading, Running, Starting
<1>5. ScanIsInOrder
  BY DEF Init, ScanIsInOrder, Early, Loading, Running, Starting
<1>6. GateAwaitsRegisters /\ StopsHaveACause /\ HandlerFindsItsState
  BY DEF Init, SetupInit, GateAwaitsRegisters, StopsHaveACause, HandlerFindsItsState
<1>. QED  BY <1>1, <1>2, <1>3, <1>4, <1>5, <1>6 DEF IInv, KernelInv

LEMMA InvIsKept == IInv /\ [Next]_vars => IInv'
<1>. SUFFICES ASSUME IInv, [Next]_vars  PROVE IInv'
  OBVIOUS
<1>1. CASE Next
  <2>1. SetupInv'
    <3>1. CASE SetUpDevices
      BY <3>1, SetupIsKept DEF SetUpDevices, IInv
    <3>2. CASE ~ SetUpDevices
      <4>1. UNCHANGED setupVars
        BY <1>1, <3>2 DEF Next, Main, FirstPrint, PushEntry, LoadGDT, LoadSelectors, SetGates, LoadIDT,
             WritePIC, ScanPCIDevice, SetDriverGate, UnmaskPIC, SetRegisters, ResetController,
             EnableController, DevicesDone, Stray, Unserved, Fault
      <4>. QED  BY <4>1, SetupStays DEF IInv
    <3>. QED  BY <3>1, <3>2
  <2>. QED  BY <1>1, <2>1, TypesAreKept, TablesAreKept, GatesAreKept, OrderIsKept, RegistersFollowTheGate, CausesAreKept,
               HandlersAreKept DEF IInv, KernelInv
<1>2. CASE UNCHANGED vars
  <2>1. SetupInv'
    BY <1>2, SetupStays DEF vars, IInv
  <2>2. UNCHANGED <<layout, pc, gGDTEntries, tables, gIDTEntries, PIC, writes, scan, gOHCIRegisters,
                    live, started, unserved, crash, step, honest, listens, NextED>>
    BY <1>2 DEF vars, kernelVars, tableVars, picVars, driverVars, crashVars, setupVars, busVars
  <2>3. KernelInv'
    <3>1. TypeOK' /\ TablesAreReady'
      BY <2>2 DEF IInv, KernelInv, TypeOK, TablesAreReady
    <3>2. Line' = Line /\ Current' = Current
      BY <2>2 DEF Line, Current, Function
    <3>3. GatesAreSet'
      BY <2>2, <3>2 DEF IInv, KernelInv, GatesAreSet, Gated
    <3>4. ScanIsInOrder'
      BY <2>2, <3>2 DEF IInv, KernelInv, ScanIsInOrder, IsController, Scanned, Function
    <3>5. GateAwaitsRegisters' /\ StopsHaveACause' /\ HandlerFindsItsState'
      <4>1. Visible' = Visible
        BY <2>2 DEF Visible
      <4>. QED  BY <2>2, <3>2, <4>1 DEF IInv, KernelInv, GateAwaitsRegisters, StopsHaveACause,
                                        HandlerFindsItsState
    <3>. QED  BY <3>1, <3>3, <3>4, <3>5 DEF KernelInv
  <2>. QED  BY <2>1, <2>3 DEF IInv
<1>. QED  BY <1>1, <1>2

(* The invariant holds, and with it all that follows.                       *)
THEOREM InvariantHolds == Spec => []IInv
  BY InvHolds, InvIsKept, PTL DEF Spec

(* However many devices are behind however many hubs, two of them share an  *)
(* address only if they took it from one request, or if it had been given   *)
(* in vain (OHCI.c:736-769): the slots themselves never give one twice.     *)
THEOREM AddressesAreOwn == Spec => []AddressIsOwn
<1>1. IInv => AddressIsOwn
  BY DEF IInv, SetupInv
<1>. QED  BY <1>1, InvariantHolds, PTL

(* The handler's search through the slots (OHCI.c:1218-1241) finds, for the *)
(* report of a device that is linked into the tree, this device's slot and  *)
(* no other, whatever it reads through the null pointers of half-built ones.*)
THEOREM ReportsFindDevices == Spec => []ReportsFindTheirDevice
<1>1. IInv => ReportsFindTheirDevice
  BY ReportsAreFound DEF IInv, SetupInv
<1>. QED  BY <1>1, InvariantHolds, PTL

(* Whatever is linked into the tree, in whatever order and number, each     *)
(* device in it is polled as often as it asks for: the 32 turns of the tree *)
(* come by its row in time (OHCI.c:674-701), and a turn comes by every      *)
(* device that was linked into one of its rows (OHCI.c:946-950).            *)
THEOREM DevicesArePolledOnTime == Spec => []PolledOnTime
<1>1. IInv => PolledOnTime
  BY DevicesArePolled DEF IInv, SetupInv
<1>. QED  BY <1>1, InvariantHolds, PTL

(* Whatever the machine, the kernel stops only for the reasons listed.      *)
THEOREM StopsAreExplained == Spec => []StopsHaveACause
<1>1. IInv => StopsHaveACause
  BY DEF IInv, KernelInv
<1>. QED  BY <1>1, InvariantHolds, PTL

(* With any number of controllers, the interrupt of a started one is        *)
(* handled with its own registers or those of a controller found later.     *)
THEOREM HandlersFindState == Spec => []HandlerFindsItsState
<1>1. IInv => HandlerFindsItsState
  BY DEF IInv, KernelInv
<1>. QED  BY <1>1, InvariantHolds, PTL

(* The scan starts no controller twice, and each one that is function 0 of  *)
(* its device before the prompt (PCI.c:119-125).                            *)
THEOREM ControllersStartOnce == Spec => []ControllersAreStartedOnce
<1>1. ASSUME IInv  PROVE ControllersAreStartedOnce
  <2>1. TypeOK /\ ScanIsInOrder
    BY <1>1 DEF IInv, KernelInv
  <2>2. ASSUME pc = "Prompt", NEW n \in DOMAIN layout, IsController(n)
        PROVE  \E k \in DOMAIN started : started[k] = n
    <3>1. scan.device = PCIDevices /\ pc \in Running
      BY <2>1, <2>2 DEF ScanIsInOrder, Running
    <3>2. Scanned(n)
      BY <2>1, <3>1, MachinesAreSequences DEF Scanned
    <3>. QED  BY <2>1, <2>2, <3>1, <3>2 DEF ScanIsInOrder
  <2>. QED  BY <2>1, <2>2 DEF ControllersAreStartedOnce, ScanIsInOrder, IsController
<1>. QED  BY <1>1, InvariantHolds, PTL

-----------------------------------------------------------------------------
(* The devices that set-up finds, as long as every request is answered and  *)
(* no SET_ADDRESS is shared.                                                *)
InOrder == troubles = 0 /\ shared = {} /\ step # "Panic"

AllTaken == \A d \in Devices : Device[d].Active

SlotsAreSound ==
    /\ Device[0].Active
    /\ \A d \in Devices : Device[d].Active => Device[d].FunctionAddress = d

InSetUp == {"Verify", "ProductString", "ManufacturerString", "Configuration"}
HIDSteps == InSetUp \cup {"HID", "LinkAfterRow", "LinkIntoRow"}
HubSteps == InSetUp \cup {"Hub"}

NothingWentWrong ==
    /\ ~ halted /\ abandoned = {} /\ honest
    /\ step \in HIDSteps \cup {"SetAddress", "Hub", "MassStorage"} => current.device # 0
    /\ step = "ResetPort" => current.power
    /\ step = "Done" => loops = <<>>

(* A device is there if it listens at some address or its port is yet to be *)
(* reset.                                                                   *)
Resetting == step \in {"PowerPort", "ResetPort"}
There ==
    {g \in Gadgets :
        \/ listens[g] # Silent
        \/ Resetting /\ \E n \in DOMAIN Head(loops).unpowered : Head(loops).unpowered[n] = g}
AreThere(ports) == \A n \in DOMAIN ports : ports[n] \in There

PortsAreThere == \A k \in DOMAIN loops : AreThere(loops[k].ports)
RootsAreThere == (\E g \in Gadgets : listens[g] # Silent) => AreThere(RootPorts)

(* What has an address is linked into the tree, or its ports are there,     *)
(* unless it is being set up.                                               *)
HIDsAreLinked ==
    \A g \in Gadgets : Class[g] = "HID" /\ listens[g] \notin {Silent, 0} =>
        listens[g] \in Visible \/ (step \in HIDSteps /\ listens[g] = current.device)
HubsAreEntered ==
    \A g \in Gadgets : Class[g] = "Hub" /\ listens[g] \notin {Silent, 0} =>
        AreThere(Behind[g]) \/ (step \in HubSteps /\ listens[g] = current.device)

(* As many ports are left, in all loops, as devices wait at address 0 or to *)
(* be reset. sum[m] is of the m outermost loops.                            *)
SumsOf(sum, ls) ==
    /\ sum \in [0 .. Len(ls) -> Nat] /\ sum[0] = 0
    /\ \A m \in 1 .. Len(ls) : sum[m] = sum[m - 1] + Len(ls[Len(ls) + 1 - m].ports)

ToReset == IF Resetting THEN Len(Head(loops).unpowered) ELSE 0
InTurn == IF step \in {"Describe", "SetAddress"} THEN 1 ELSE 0

PortsLeft(ls, k) == \E sum : SumsOf(sum, ls) /\ sum[Len(ls)] = k

EveryoneHasATurn ==
    \/ AllTaken
    \/ \E k \in Nat : PortsLeft(loops, k) /\ Cardinality(Listeners(0)) + ToReset <= k + InTurn

FoundInv ==
    /\ troubles \in Nat
    /\ SlotsAreSound
    /\ InOrder =>
          /\ NothingWentWrong
          /\ PortsAreThere /\ RootsAreThere
          /\ HIDsAreLinked /\ HubsAreEntered
          /\ EveryoneHasATurn

-----------------------------------------------------------------------------
(* What the steps do in order *)

LEMMA WhatAnAnswerIs ==
    ASSUME NEW address, NEW r \in Replies(address), NEW hasData, Sent(r, hasData),
           troubles \in Nat, troubles = 0, troubles' = 0, ~ halted, honest
    PROVE  /\ r.took \in SUBSET Listeners(address)
           /\ r.from \in r.took /\ r.from \in Listeners(address) /\ r.from # None
           /\ Succeeded(r) /\ ~ halted' /\ honest'
<1>1. /\ r.from \in r.took \cup {None}
      /\ r.outcome = "Answered" => r.from # None
      /\ r.took \in SUBSET Listeners(address)
  BY DEF Replies
<1>2. r.outcome = "Answered"
  BY DEF Sent
<1>3. r.from \in r.took /\ r.from # None
  BY <1>1, <1>2
<1>4. ~ Left
  BY DEF Left
<1>5. ~ halted'
  BY <1>2, <1>4 DEF Sent
<1>6. honest' = TRUE
  BY <1>3 DEF Sent
<1>. QED  BY <1>1, <1>2, <1>3, <1>5, <1>6 DEF Succeeded

PortTaken ==
    /\ step = "NextPort" /\ step' = "Describe"
    /\ loops # <<>> /\ loops[1].ports # <<>>
    /\ loops' = [loops EXCEPT ![1].ports = Tail(@)]
    /\ UNCHANGED <<listens, NextED, Device, current>>

LoopEnded ==
    /\ step = "NextPort" /\ step' = IF Tail(loops) = <<>> THEN "Done" ELSE "NextPort"
    /\ loops # <<>> /\ loops[1].ports = <<>>
    /\ loops' = Tail(loops)
    /\ UNCHANGED <<listens, NextED, current>>

SlotChosen ==
    /\ step = "Describe" /\ (step' = "SetAddress" \/ (step' = "NextPort" /\ AllTaken))
    /\ UNCHANGED <<listens, NextED, Device, loops>>

AddressSet ==
    /\ step = "SetAddress" /\ step' = "Verify"
    /\ \E took \in SUBSET Listeners(0) :
          /\ took # {}
          /\ listens' = [g \in Gadgets |-> IF g \in took THEN current.device ELSE listens[g]]
    /\ UNCHANGED <<NextED, Device, current, loops>>

SetUpGoesOn ==
    /\ step \in HIDSteps \cup {"MassStorage"}
    /\ step' \in HIDSteps \cup {"Hub", "MassStorage", "NextPort"}
    /\ UNCHANGED <<listens, current, loops>>
    /\ Visible \subseteq Visible'
    /\ \A g \in Gadgets : listens[g] = current.device =>
          /\ Class[g] = "HID" /\ step \in HIDSteps => step' \in HIDSteps \/ current.device \in Visible'
          /\ Class[g] = "Hub" /\ step \in HubSteps => step' \in HubSteps

HubEntered ==
    /\ step = "Hub"
    /\ \E g \in Listeners(current.device) :
          /\ loops' = <<[hub |-> current.device, ports |-> Behind[g],
                         unpowered |-> Behind[g]]>> \o loops
          /\ step' = IF Behind[g] = <<>> THEN "NextPort" ELSE "PowerPort"
    /\ UNCHANGED <<listens, NextED, Device, current>>

PortPowered ==
    /\ step = "PowerPort" /\ step' = "ResetPort" /\ current'.power
    /\ UNCHANGED <<listens, NextED, Device, loops>>

PortReset ==
    /\ step = "ResetPort"
    /\ listens' = [listens EXCEPT ![Head(Head(loops).unpowered)] = 0]
    /\ loops' = [loops EXCEPT ![1].unpowered = Tail(@)]
    /\ step' = IF loops'[1].unpowered = <<>> THEN "NextPort" ELSE "PowerPort"
    /\ \E g \in Gadgets : listens[g] # Silent
    /\ UNCHANGED <<NextED, Device, current>>

OrderlyStep ==
    \/ PortTaken \/ LoopEnded \/ SlotChosen \/ AddressSet \/ SetUpGoesOn
    \/ HubEntered \/ PortPowered \/ PortReset

(* Troubles are never forgotten.                                            *)
LEMMA OrderIsOld ==
    ASSUME SetupNext, troubles \in Nat
    PROVE  troubles' \in Nat /\ (InOrder' => InOrder)
<1>1. ASSUME NEW r, NEW hasData, Sent(r, hasData)
      PROVE  troubles' \in {troubles, troubles + 1}
  BY <1>1 DEF Sent
<1>2. troubles' \in {troubles, troubles + 1}
  <2>1. CASE NextRootPort \/ PortsDone \/ LateError \/ DetectMassStorageDevice \/ LinkAfterRow \/ LinkIntoRow
    BY <2>1 DEF NextRootPort, PortsDone, LateError, DetectMassStorageDevice, LinkAfterRow, LinkIntoRow, busVars
  <2>2. CASE PortNotEnabledYet
    BY <2>2 DEF PortNotEnabledYet
  <2>3. CASE Verify \/ ProductString
    <3>1. (\E r : Sent(r, TRUE)) \/ DivideByZero
      BY <2>3 DEF Verify, ProductString
    <3>. QED  BY <3>1, <1>1 DEF DivideByZero, busVars
  <2>4. CASE \/ NextHubPort \/ Describe \/ SetAddress \/ ManufacturerString \/ Configuration
             \/ DetectHIDDevice \/ DetectHubDevice \/ PowerPort \/ ResetPort
    <3>1. \E r, hasData : Sent(r, hasData)
      BY <2>4 DEF NextHubPort, Describe, SetAddress, ManufacturerString, Configuration,
                  DetectHIDDevice, DetectHubDevice, PowerPort, ResetPort
    <3>. QED  BY <3>1, <1>1
  <2>. QED  BY <2>1, <2>2, <2>3, <2>4 DEF SetupNext
<1>3. shared \subseteq shared'
  BY DEF SetupNext, NextRootPort, NextHubPort, PortNotEnabledYet, PortsDone, Describe, SetAddress, Verify,
         DivideByZero, ProductString, ManufacturerString, Configuration, LateError, DetectMassStorageDevice,
         DetectHIDDevice, LinkAfterRow, LinkIntoRow, DetectHubDevice, PowerPort, ResetPort
<1>4. step = "Panic" => step' = "Panic"
  BY DEF SetupNext, NextRootPort, NextHubPort, PortNotEnabledYet, PortsDone, Describe, SetAddress, Verify,
         ProductString, ManufacturerString, Configuration, LateError, DetectMassStorageDevice,
         DetectHIDDevice, LinkAfterRow, LinkIntoRow, DetectHubDevice, PowerPort, ResetPort
<1>. QED  BY <1>2, <1>3, <1>4 DEF InOrder

(* Slots are never given back, and keep their number.                       *)
LEMMA SlotsStay ==
    ASSUME SetupTypeOK, SlotsAreSound, SetupNext
    PROVE  /\ SlotsAreSound'
           /\ \A d \in Devices : Device[d].Active => Device'[d].Active
<1>. DEFINE Same == \A d \in Devices : /\ Device'[d].Active = Device[d].Active
                                       /\ Device'[d].FunctionAddress = Device[d].FunctionAddress
<1>0. Device \in [Devices -> Slots] /\ current.device \in Devices
  BY DEF SetupTypeOK
<1>1. CASE Verify /\ ~ UNCHANGED Device
  <2>1. PICK size : Device' = [Device EXCEPT ![current.device] = Entered(@, size)]
    BY <1>1 DEF Verify, DivideByZero
  <2>2. Device[current.device] \in Slots
    BY <1>0
  <2>3. /\ Entered(Device[current.device], size).Active
        /\ Entered(Device[current.device], size).FunctionAddress = current.device
    BY <2>2 DEF Entered, Slots
  <2>4. /\ Device'[current.device] = Entered(Device[current.device], size)
        /\ \A d \in Devices \ {current.device} : Device'[d] = Device[d]
    BY <1>0, <2>1
  <2>5. 0 \in Devices
    BY NumbersOfDevices
  <2>. QED  BY <2>3, <2>4, <2>5 DEF SlotsAreSound
<1>2. CASE PortsDone
  <2>1. \/ UNCHANGED Device
        \/ Device' = [Device EXCEPT ![Head(loops).hub].InterfaceClass = "Hub"]
    BY <1>2 DEF PortsDone
  <2>2. Same
    BY <1>0, <2>1 DEF Slots
  <2>. QED  BY <2>2, NumbersOfDevices DEF SlotsAreSound
<1>3. CASE Configuration
  <2>1. PICK class, wish :
            \/ UNCHANGED Device
            \/ Device' = [Device EXCEPT ![current.device] =
                   [Device[current.device] EXCEPT !.Interface = class, !.Interval = wish]]
    BY <1>3, WhatConfigurationDoes
  <2>2. \A slot \in Slots :
            /\ [slot EXCEPT !.Interface = class, !.Interval = wish].Active = slot.Active
            /\ [slot EXCEPT !.Interface = class, !.Interval = wish].FunctionAddress = slot.FunctionAddress
    BY DEF Slots
  <2>3. PICK slot :
            /\ Device' = Device \/ Device' = [Device EXCEPT ![current.device] = slot]
            /\ slot.Active = Device[current.device].Active
            /\ slot.FunctionAddress = Device[current.device].FunctionAddress
    BY <1>0, <2>1, <2>2
  <2>4. Same
    BY <1>0, <2>3
  <2>. QED  BY <2>4, NumbersOfDevices DEF SlotsAreSound
<1>4. CASE DetectMassStorageDevice
  <2>1. Same
    BY <1>0, <1>4 DEF DetectMassStorageDevice, Slots
  <2>. QED  BY <2>1, NumbersOfDevices DEF SlotsAreSound
<1>5. CASE DetectHIDDevice
  <2>1. \A slot \in Slots, d \in Devices :
            /\ [slot EXCEPT !.InterfaceClass = "HID", !.TransferDescriptor = d].Active = slot.Active
            /\ [slot EXCEPT !.InterfaceClass = "HID", !.TransferDescriptor = d].FunctionAddress
                  = slot.FunctionAddress
    BY DEF Slots
  <2>2. PICK slot : /\ Device' = [Device EXCEPT ![current.device] = slot]
                    /\ slot.Active = Device[current.device].Active
                    /\ slot.FunctionAddress = Device[current.device].FunctionAddress
    BY ZenonT(60), <1>0, <1>5, <2>1, WhatDetectionDoes
  <2>3. Same
    BY <1>0, <2>2
  <2>. QED  BY <2>3, NumbersOfDevices DEF SlotsAreSound
<1>6. CASE UNCHANGED Device
  BY <1>6 DEF SlotsAreSound
<1>7. \/ Verify \/ PortsDone \/ Configuration \/ DetectMassStorageDevice \/ DetectHIDDevice
      \/ UNCHANGED Device
  BY DEF SetupNext, NextRootPort, NextHubPort, PortNotEnabledYet, Describe, SetAddress, LateError,
         DivideByZero, ProductString, ManufacturerString, LinkAfterRow, LinkIntoRow,
         DetectHubDevice, PowerPort, ResetPort
<1>. QED  BY <1>1, <1>2, <1>3, <1>4, <1>5, <1>6, <1>7

(* No device is cut off from the tree.                                      *)
LEMMA LinksStay ==
    ASSUME SetupInv, LinkAfterRow \/ LinkIntoRow
    PROVE  Visible \subseteq Visible'
<1>. DEFINE me == current.device
<1>1. /\ me \in Devices /\ NextED \in [EDs -> EDs \cup {Null}]
      /\ Device[me].Interval \in 0 .. 255
      /\ DOMAIN NextED = EDs
  BY DEF SetupInv, SetupTypeOK, Slots
<1>2. Row \in EDs /\ Row # EDOf(me) /\ EDOf(me) \in EDs /\ Row \in RowEDs
  <2>1. EDs \in SUBSET Nat
    BY GadgetsAssumption DEF EDs
  <2>2. Row \in EDs /\ Row <= 30
    BY <1>1, RowsAreEndpoints DEF Row
  <2>3. EDOf(me) > 30 /\ EDOf(me) \in EDs
    BY <1>1, NumbersOfDevices
  <2>4. \A n \in Nat : n <= 30 => n \in RowEDs
    BY DEF RowEDs
  <2>. HIDE DEF me
  <2>5. PICK n \in Nat : n = Row
    BY <2>1, <2>2
  <2>. QED  BY <2>1, <2>2, <2>3, <2>4, <2>5
<1>3. me \notin Visible
  BY DEF SetupInv, RowsLeadOn, LinkAfterRow, LinkIntoRow
<1>4. CASE LinkIntoRow
  <2>1. NextED' = [NextED EXCEPT ![Row] = EDOf(me)] /\ NextED[EDOf(me)] = NextED[Row]
    BY <1>4 DEF SetupInv, RowsLeadOn, LinkIntoRow
  <2>2. ASSUME NEW d \in Devices, NEW ed \in EDs, NextED[ed] = EDOf(d)
        PROVE  \E e \in EDs : NextED'[e] = EDOf(d)
    <3>1. CASE ed = Row
      <4>1. NextED'[EDOf(me)] = NextED[EDOf(me)]
        BY <2>1, <1>1, <1>2
      <4>. QED  BY <4>1, <3>1, <2>1, <2>2, <1>2
    <3>2. CASE ed # Row
      BY <3>2, <2>1, <2>2, <1>1
    <3>. QED  BY <3>1, <3>2
  <2>. QED  BY <2>2 DEF Visible
<1>5. CASE LinkAfterRow
  <2>1. \A ed \in EDs \ {EDOf(me)} : NextED'[ed] = NextED[ed]
    BY <1>5, <1>1 DEF LinkAfterRow
  <2>2. ASSUME NEW d \in Visible
        PROVE  \E ed \in EDs \ {EDOf(me)} : NextED[ed] = EDOf(d)
    <3>1. SUFFICES ASSUME \A ed \in EDs \ {EDOf(me)} : NextED[ed] # EDOf(d)  PROVE FALSE
      OBVIOUS
    <3>. DEFINE S == EDs \ {EDOf(me), EDOf(d)}
    <3>2. \A ed \in EDs : NextED[ed] # EDOf(me)
      BY <1>1, <1>3 DEF Visible
    <3>3. IsClosed(S)
      <4>1. ASSUME NEW ed \in S  PROVE NextED[ed] \in S \cup {Null}
        <5>1. NextED[ed] \in EDs \cup {Null} /\ NextED[ed] # EDOf(me)
          BY <3>2, <1>1
        <5>2. NextED[ed] # EDOf(d)
          BY <3>1
        <5>. QED  BY <5>1, <5>2
      <4>. QED  BY <4>1 DEF IsClosed
    <3>4. d \in Devices /\ RowOfDevice(d) \in RowEDs /\ RowOfDevice(d) \in S
      <4>1. d \in Devices
        BY DEF Visible
      <4>2. Device[d].Interval \in 0 .. 255
        BY <4>1 DEF SetupInv, SetupTypeOK, Slots
      <4>3. RowOfDevice(d) \in EDs /\ RowOfDevice(d) <= 30
        BY <4>2, RowsAreEndpoints DEF RowOfDevice
      <4>4. RowOfDevice(d) \in RowEDs
        BY <4>3 DEF RowEDs, EDs
      <4>5. EDOf(d) > 30 /\ EDOf(me) > 30
        BY <4>1, <1>1, NumbersOfDevices
      <4>. QED  BY <4>1, <4>3, <4>4, <4>5 DEF RowEDs
    <3>5. S \in SUBSET EDs
      OBVIOUS
    <3>. HIDE DEF S
    <3>6. EDOf(d) \in S
      BY <3>3, <3>4, <3>5 DEF SetupInv, RowsLeadOn
    <3>. QED  BY <3>6 DEF S
  <2>. QED  BY <2>1, <2>2 DEF Visible
<1>. QED  BY <1>4, <1>5

(* In order, one device listens at an address.                              *)
LEMMA ListenersAreAlone ==
    ASSUME SetupInv, InOrder, abandoned = {}, NEW g \in Gadgets, NEW h \in Gadgets,
           listens[g] = listens[h], listens[g] \notin {Silent, 0}
    PROVE  g = h
BY DEF SetupInv, AddressIsOwn, InOrder

LEMMA StepsAreOrderly ==
    ASSUME SetupInv, SetupInv', FoundInv, SetupNext, InOrder'
    PROVE  InOrder /\ NothingWentWrong' /\ OrderlyStep
<1>0. /\ troubles \in Nat /\ InOrder /\ troubles = 0 /\ troubles' = 0
      /\ ~ halted /\ honest /\ abandoned = {} /\ PortsAreThere /\ SlotsAreSound
      /\ step = "ResetPort" => current.power
      /\ step \in HIDSteps \cup {"SetAddress", "Hub", "MassStorage"} => current.device # 0
  BY OrderIsOld DEF FoundInv, InOrder, NothingWentWrong
<1>1. /\ SetupTypeOK /\ listens \in [Gadgets -> Devices \cup {Silent}] /\ current.device \in Devices
      /\ loops # <<>> => Head(loops) = loops[1] /\ loops[1] \in Loops /\ 1 \in DOMAIN loops
  BY LoopsAreTyped DEF SetupInv, SetupTypeOK
<1>2. step \in {"SetAddress", "Verify"} => current.device # 0
  BY <1>0 DEF SetupInv, AddressesAreTaken, SlotsAreSound
<1>3. step \in Fresh => Address = current.device
  BY <1>0, <1>1 DEF SetupInv, DescriptorsAreOwn, SlotsAreSound, Address
<1>4. ~ DivideByZero
  BY DEF DivideByZero, InOrder
<1>5. ASSUME NEW address, NEW r \in Replies(address), NEW hasData, Sent(r, hasData)
      PROVE  /\ r.took \in SUBSET Listeners(address)
             /\ r.from \in r.took /\ r.from \in Listeners(address) /\ r.from # None
             /\ Succeeded(r) /\ ~ halted' /\ honest'
  BY <1>0, <1>5, WhatAnAnswerIs
<1>6. CASE NextRootPort
  <2>1. PortTaken
    BY <1>6, <1>1 DEF NextRootPort, PortTaken, busVars
  <2>2. NothingWentWrong'
    BY <1>6, <1>0 DEF NextRootPort, NothingWentWrong, busVars, HIDSteps, InSetUp
  <2>. QED  BY <1>0, <2>1, <2>2 DEF OrderlyStep
<1>7. CASE NextHubPort
  <2>1. step = "NextPort" /\ loops # <<>> /\ loops[1].ports # <<>> /\ 1 \in DOMAIN loops
        /\ Head(loops) = loops[1] /\ loops[1].ports \in Seq(Gadgets)
    BY <1>7, <1>1 DEF NextHubPort, Loops
  <2>2. listens[Head(Head(loops).ports)] # Silent
    <3>1. Head(loops[1].ports) = loops[1].ports[1] /\ 1 \in DOMAIN loops[1].ports
      BY <2>1
    <3>2. loops[1].ports[1] \in There
      BY <1>0, <2>1, <3>1 DEF PortsAreThere, AreThere
    <3>. QED  BY <2>1, <3>1, <3>2 DEF There, Resetting
  <2>3. PICK r \in Replies(Device[Head(loops).hub].FunctionAddress) :
            /\ Sent(r, TRUE)
            /\ IF r.from # None /\ listens[Head(Head(loops).ports)] # Silent
               THEN step' = "Describe" ELSE step' = "NextPort"
    BY <1>7 DEF NextHubPort
  <2>4. step' = "Describe" /\ ~ halted' /\ honest'
    BY <2>2, <2>3, <1>5
  <2>5. PortTaken
    BY <1>7, <2>1, <2>4 DEF NextHubPort, PortTaken
  <2>6. NothingWentWrong'
    BY <1>7, <1>0, <2>4 DEF NextHubPort, NothingWentWrong, HIDSteps, InSetUp
  <2>. QED  BY <1>0, <2>5, <2>6 DEF OrderlyStep
<1>8. ~ PortNotEnabledYet
  BY <1>0 DEF PortNotEnabledYet
<1>9. CASE PortsDone
  <2>1. LoopEnded
    BY <1>9, <1>1 DEF PortsDone, LoopEnded, busVars
  <2>2. NothingWentWrong'
    BY <1>9, <1>0 DEF PortsDone, NothingWentWrong, busVars, HIDSteps, InSetUp
  <2>. QED  BY <1>0, <2>1, <2>2 DEF OrderlyStep
<1>10. CASE Describe
  <2>1. PICK r \in Replies(0) :
            /\ Sent(r, TRUE)
            /\ IF Succeeded(r) /\ \E d \in Devices : IsFree(d)
               THEN step' = "SetAddress" ELSE step' = "NextPort"
    BY <1>10 DEF Describe
  <2>2. Succeeded(r) /\ ~ halted' /\ honest'
    BY <2>1, <1>5
  <2>3. step' = "SetAddress" \/ (step' = "NextPort" /\ AllTaken)
    BY <2>1, <2>2 DEF AllTaken, IsFree
  <2>4. SlotChosen
    BY <1>10, <2>3 DEF Describe, SlotChosen
  <2>5. step' = "SetAddress" => current'.device # 0
    <3>1. step' = "SetAddress" => ~ Device'[current'.device].Active
      BY DEF SetupInv, AddressesAreTaken
    <3>2. Device'[0].Active
      BY <1>0, <1>10 DEF Describe, SlotsAreSound
    <3>. QED  BY <3>1, <3>2
  <2>6. NothingWentWrong'
    BY <1>10, <1>0, <2>2, <2>3, <2>5 DEF Describe, NothingWentWrong, HIDSteps, InSetUp
  <2>. QED  BY <1>0, <2>4, <2>6 DEF OrderlyStep
<1>11. CASE SetAddress
  <2>1. PICK r \in Replies(0) :
            /\ Sent(r, FALSE)
            /\ listens' = [g \in Gadgets |-> IF g \in r.took THEN current.device ELSE listens[g]]
            /\ IF Succeeded(r) THEN step' = "Verify" /\ UNCHANGED abandoned
               ELSE step' = "NextPort" /\ abandoned' = abandoned \cup {current.device}
    BY <1>11 DEF SetAddress
  <2>2. r.took \in SUBSET Listeners(0) /\ r.took # {} /\ Succeeded(r) /\ ~ halted' /\ honest'
    BY <2>1, <1>5
  <2>3. AddressSet
    BY <1>11, <2>1, <2>2 DEF SetAddress, AddressSet
  <2>4. NothingWentWrong'
    BY <1>11, <1>0, <2>1, <2>2 DEF SetAddress, NothingWentWrong, HIDSteps, InSetUp
  <2>. QED  BY <1>0, <2>3, <2>4 DEF OrderlyStep
<1>12. CASE Verify
  <2>1. PICK r \in Replies(current.device) :
            /\ Sent(r, TRUE)
            /\ IF Succeeded(r) THEN step' = "ProductString" /\ UNCHANGED abandoned
               ELSE step' = "NextPort" /\ abandoned' = abandoned \cup {current.device}
    BY <1>12, <1>4 DEF Verify
  <2>2. Succeeded(r) /\ ~ halted' /\ honest'
    BY <2>1, <1>5
  <2>3. step = "Verify" /\ step' = "ProductString" /\ UNCHANGED <<listens, NextED, current, loops, abandoned>>
    BY <1>12, <1>4, <2>1, <2>2 DEF Verify
  <2>4. SetUpGoesOn
    BY <2>3 DEF SetUpGoesOn, Visible, HIDSteps, HubSteps, InSetUp
  <2>5. NothingWentWrong'
    BY <1>0, <1>2, <2>2, <2>3 DEF NothingWentWrong, HIDSteps, InSetUp
  <2>. QED  BY <1>0, <2>4, <2>5 DEF OrderlyStep
<1>13. CASE ProductString \/ ManufacturerString
  <2>1. PICK r \in Replies(Address) : Sent(r, TRUE)
    BY <1>13, <1>4 DEF ProductString, ManufacturerString
  <2>2. ~ halted' /\ honest'
    BY <2>1, <1>5
  <2>3. /\ step \in {"ProductString", "ManufacturerString"}
        /\ step' \in {"ManufacturerString", "Configuration"}
        /\ UNCHANGED <<listens, NextED, current, loops, abandoned>>
    BY <1>13, <1>4 DEF ProductString, ManufacturerString
  <2>4. SetUpGoesOn
    BY <2>3 DEF SetUpGoesOn, Visible, HIDSteps, HubSteps, InSetUp
  <2>5. NothingWentWrong'
    BY <1>0, <2>2, <2>3 DEF NothingWentWrong, HIDSteps, InSetUp
  <2>. QED  BY <1>0, <2>4, <2>5 DEF OrderlyStep
<1>14. CASE Configuration
  <2>1. /\ step = "Configuration" /\ UNCHANGED <<listens, NextED, current, loops, abandoned>>
        /\ current.device # 0 /\ Address = current.device
    BY <1>14, <1>0, <1>3 DEF Configuration, HIDSteps, InSetUp, Fresh
  <2>2. PICK r \in Replies(Address) :
            /\ Sent(r, TRUE)
            /\ Succeeded(r) /\ r.from # None =>
                  step' = IF Class[r.from] \in Detected THEN Class[r.from] ELSE "NextPort"
    BY <1>14 DEF Configuration
  <2>3. /\ r.from \in Gadgets /\ listens[r.from] = current.device
        /\ step' = IF Class[r.from] \in Detected THEN Class[r.from] ELSE "NextPort"
        /\ ~ halted' /\ honest'
    BY <2>1, <2>2, <1>5 DEF Listeners
  <2>4. \A g \in Gadgets : listens[g] = current.device => g = r.from
    <3>1. current.device # Silent
      BY <1>1, NumbersOfDevices DEF Silent, Null
    <3>. QED  BY <2>1, <2>3, <3>1, <1>0, ListenersAreAlone
  <2>5. step' \in {"HID", "Hub", "MassStorage", "NextPort"}
    BY <2>3 DEF Detected
  <2>6. SetUpGoesOn
    BY <2>1, <2>3, <2>4, <2>5 DEF SetUpGoesOn, Visible, HIDSteps, HubSteps, InSetUp, Detected
  <2>7. NothingWentWrong'
    BY <1>0, <2>1, <2>3, <2>5 DEF NothingWentWrong, HIDSteps, InSetUp
  <2>. QED  BY <1>0, <2>6, <2>7 DEF OrderlyStep
<1>15. ~ LateError
  BY <1>0 DEF LateError, Left
<1>16. CASE DetectMassStorageDevice
  <2>1. SetUpGoesOn
    BY <1>16 DEF DetectMassStorageDevice, SetUpGoesOn, Visible, HIDSteps, HubSteps, InSetUp, busVars
  <2>2. NothingWentWrong'
    BY <1>16, <1>0 DEF DetectMassStorageDevice, NothingWentWrong, HIDSteps, InSetUp, busVars
  <2>. QED  BY <1>0, <2>1, <2>2 DEF OrderlyStep
<1>17. CASE DetectHIDDevice
  <2>1. PICK r \in Replies(Address) : Sent(r, FALSE)
    BY <1>17 DEF DetectHIDDevice
  <2>2. ~ halted' /\ honest'
    BY <2>1, <1>5
  <2>3. step = "HID" /\ step' = "LinkAfterRow" /\ UNCHANGED <<listens, NextED, current, loops, abandoned>>
    BY <1>17 DEF DetectHIDDevice
  <2>4. SetUpGoesOn
    BY <2>3 DEF SetUpGoesOn, Visible, HIDSteps, HubSteps, InSetUp
  <2>5. NothingWentWrong'
    BY <1>0, <2>2, <2>3 DEF NothingWentWrong, HIDSteps, InSetUp
  <2>. QED  BY <1>0, <2>4, <2>5 DEF OrderlyStep
<1>18. CASE LinkAfterRow
  <2>1. Visible \subseteq Visible'
    BY <1>18, LinksStay
  <2>2. SetUpGoesOn
    BY <1>18, <2>1 DEF LinkAfterRow, SetUpGoesOn, HIDSteps, HubSteps, InSetUp, busVars
  <2>3. NothingWentWrong'
    BY <1>18, <1>0 DEF LinkAfterRow, NothingWentWrong, HIDSteps, InSetUp, busVars
  <2>. QED  BY <1>0, <2>2, <2>3 DEF OrderlyStep
<1>19. CASE LinkIntoRow
  <2>1. Visible \subseteq Visible'
    BY <1>19, LinksStay
  <2>2. current.device \in Visible'
    <3>1. Row \in EDs
      <4>1. Device[current.device].Interval \in 0 .. 255
        BY <1>1 DEF SetupTypeOK, Slots
      <4>. QED  BY <4>1, RowsAreEndpoints DEF Row
    <3>2. NextED'[Row] = EDOf(current.device)
      BY <3>1, <1>19, <1>1 DEF LinkIntoRow, SetupTypeOK
    <3>. QED  BY <3>1, <3>2, <1>1 DEF Visible
  <2>3. SetUpGoesOn
    BY <1>19, <2>1, <2>2 DEF LinkIntoRow, SetUpGoesOn, HIDSteps, HubSteps, InSetUp, busVars
  <2>4. NothingWentWrong'
    BY <1>19, <1>0 DEF LinkIntoRow, NothingWentWrong, HIDSteps, InSetUp, busVars
  <2>. QED  BY <1>0, <2>3, <2>4 DEF OrderlyStep
<1>20. CASE DetectHubDevice
  <2>1. /\ step = "Hub" /\ UNCHANGED <<listens, NextED, Device, current, abandoned>>
        /\ Address = current.device
    BY <1>20, <1>3 DEF DetectHubDevice, Fresh
  <2>2. PICK r \in Replies(Address) :
            LET ports == IF r.from = None THEN <<>> ELSE Behind[r.from]
            IN  /\ Sent(r, TRUE)
                /\ loops' = <<[hub |-> current.device, ports |-> ports, unpowered |-> ports]>> \o loops
                /\ step' = IF ports = <<>> THEN "NextPort" ELSE "PowerPort"
    BY <1>20 DEF DetectHubDevice
  <2>3. r.from \in Listeners(current.device) /\ r.from # None /\ ~ halted' /\ honest'
    BY <2>1, <2>2, <1>5
  <2>4. HubEntered
    BY <2>1, <2>2, <2>3 DEF HubEntered
  <2>5. step' \in {"NextPort", "PowerPort"}
    BY <2>2
  <2>6. NothingWentWrong'
    BY <1>0, <2>1, <2>3, <2>5 DEF NothingWentWrong, HIDSteps, InSetUp
  <2>. QED  BY <1>0, <2>4, <2>6 DEF OrderlyStep
<1>21. CASE PowerPort
  <2>1. PICK r \in Replies(Address) :
            Sent(r, FALSE) /\ current' = [current EXCEPT !.power = r.took # {}]
    BY <1>21 DEF PowerPort
  <2>2. r.took # {} /\ ~ halted' /\ honest'
    BY <2>1, <1>5
  <2>3. current'.power
    <3>1. current \in [device : Devices, packet : Nat, power : BOOLEAN]
      BY <1>1 DEF SetupTypeOK
    <3>2. current' = [current EXCEPT !.power = TRUE]
      BY <2>1, <2>2
    <3>. QED  BY <3>1, <3>2
  <2>4. PortPowered
    BY <1>21, <2>3 DEF PowerPort, PortPowered
  <2>5. NothingWentWrong'
    BY <1>21, <1>0, <2>2, <2>3 DEF PowerPort, NothingWentWrong, HIDSteps, InSetUp
  <2>. QED  BY <1>0, <2>4, <2>5 DEF OrderlyStep
<1>22. CASE ResetPort
  <2>1. PICK r \in Replies(Address) :
            /\ Sent(r, FALSE)
            /\ listens' = [listens EXCEPT ![Head(Head(loops).unpowered)] =
                              IF current.power /\ r.took # {} THEN 0 ELSE @]
    BY <1>22 DEF ResetPort
  <2>2. /\ r.took # {} /\ ~ halted' /\ honest'
        /\ r.from \in Gadgets /\ listens[r.from] = Address
    BY <2>1, <1>5 DEF Listeners
  <2>3. listens' = [listens EXCEPT ![Head(Head(loops).unpowered)] = 0]
    BY <1>22, <1>0, <2>1, <2>2 DEF ResetPort
  <2>4. Address # Silent
    <3>1. Address \in Devices
      BY <1>1 DEF Address, SetupTypeOK, Slots
    <3>. QED  BY <3>1, NumbersOfDevices DEF Silent, Null
  <2>5. PortReset
    BY <1>22, <2>2, <2>3, <2>4 DEF ResetPort, PortReset
  <2>6. NothingWentWrong'
    BY <1>22, <1>0, <2>2 DEF ResetPort, NothingWentWrong, HIDSteps, InSetUp
  <2>. QED  BY <1>0, <2>5, <2>6 DEF OrderlyStep
<1>. QED  BY <1>6, <1>7, <1>8, <1>9, <1>10, <1>11, <1>12, <1>13, <1>14, <1>15, <1>16, <1>17, <1>18,
            <1>19, <1>20, <1>21, <1>22 DEF SetupNext

-----------------------------------------------------------------------------
(* What is there stays there *)

LEMMA ThereStays ==
    ASSUME SetupTypeOK, OrderlyStep, NEW g \in There
    PROVE  g \in There'
<1>0. /\ listens \in [Gadgets -> Devices \cup {Silent}] /\ current.device # Silent /\ 0 # Silent /\ g \in Gadgets
      /\ loops # <<>> => /\ Head(loops) = loops[1] /\ loops \in Seq(Loops) /\ 1 \in DOMAIN loops
                         /\ loops[1].unpowered \in Seq(Gadgets)
      /\ Resetting => loops # <<>> /\ loops[1].unpowered # <<>>
  <2>1. current.device \in Devices
    BY DEF SetupTypeOK
  <2>2. current.device # Silent /\ 0 # Silent
    BY <2>1, NumbersOfDevices DEF Silent, Null
  <2>3. loops # <<>> => Head(loops) = loops[1] /\ loops[1] \in Loops /\ 1 \in DOMAIN loops
    BY LoopsAreTyped
  <2>. QED  BY <2>2, <2>3 DEF SetupTypeOK, Loops, Resetting, There
<1>1. CASE PortTaken \/ LoopEnded \/ SlotChosen \/ SetUpGoesOn \/ HubEntered
  <2>1. listens' = listens /\ ~ Resetting
    BY <1>1 DEF PortTaken, LoopEnded, SlotChosen, SetUpGoesOn, HubEntered, Resetting, HIDSteps, InSetUp
  <2>. QED  BY <2>1 DEF There
<1>2. CASE AddressSet
  <2>1. ~ Resetting /\ listens'[g] \in {current.device, listens[g]}
    BY <1>0, <1>2 DEF AddressSet, Resetting
  <2>. QED  BY <2>1, <1>0 DEF There
<1>3. CASE PortPowered
  <2>1. listens' = listens /\ loops' = loops /\ Resetting'
    BY <1>3 DEF PortPowered, Resetting
  <2>. QED  BY <2>1 DEF There
<1>4. CASE PortReset
  <2>. DEFINE ports == loops[1].unpowered
  <2>1. /\ ports \in Seq(Gadgets) /\ ports # <<>> /\ Head(loops) = loops[1]
        /\ loops \in Seq(Loops) /\ loops[1] \in Loops /\ 1 \in DOMAIN loops
    BY <1>0, <1>4 DEF PortReset, Resetting
  <2>2. /\ Head(ports) = ports[1] /\ Head(ports) \in Gadgets /\ Tail(ports) \in Seq(Gadgets)
        /\ \A n \in DOMAIN ports : n # 1 => n - 1 \in DOMAIN Tail(ports) /\ Tail(ports)[n - 1] = ports[n]
    BY <2>1
  <2>. HIDE DEF ports
  <2>3. listens'[g] = IF g = ports[1] THEN 0 ELSE listens[g]
    BY <1>0, <1>4, <2>1, <2>2 DEF PortReset, ports
  <2>4. loops'[1].unpowered = Tail(ports) /\ Head(loops') = loops'[1]
    <3>1. loops' = [loops EXCEPT ![1] = [loops[1] EXCEPT !.unpowered = Tail(ports)]]
      BY <1>4 DEF PortReset, ports
    <3>2. loops'[1] = [loops[1] EXCEPT !.unpowered = Tail(ports)]
      BY <2>1, <3>1
    <3>. QED  BY <2>1, <3>2 DEF Loops
  <2>5. Tail(ports) # <<>> => Resetting'
    BY <1>4, <2>4 DEF PortReset, Resetting
  <2>6. CASE listens[g] # Silent \/ g = ports[1]
    BY <1>0, <2>3, <2>6 DEF There
  <2>7. CASE listens[g] = Silent /\ g # ports[1]
    <3>1. PICK n \in DOMAIN ports : ports[n] = g
      BY <2>1, <2>7 DEF There, ports
    <3>2. n - 1 \in DOMAIN Tail(ports) /\ Tail(ports)[n - 1] = g
      BY <2>2, <2>7, <3>1
    <3>3. Tail(ports) # <<>>
      BY <2>2, <3>2
    <3>. QED  BY <2>4, <2>5, <3>2, <3>3 DEF There
  <2>. QED  BY <2>6, <2>7
<1>. QED  BY <1>1, <1>2, <1>3, <1>4 DEF OrderlyStep

LEMMA PortsStayThere ==
    ASSUME SetupTypeOK, OrderlyStep, NEW ports \in Seq(Gadgets), AreThere(ports)
    PROVE  AreThere(ports)'
<1>1. \A n \in DOMAIN ports : ports[n] \in Gadgets
  OBVIOUS
<1>. QED  BY <1>1, ThereStays DEF AreThere

(* The ports of a hub that is entered are there to be reset.                *)
LEMMA HubsPortsAreThere ==
    ASSUME SetupTypeOK, NEW g \in Gadgets, step' = IF Behind[g] = <<>> THEN "NextPort" ELSE "PowerPort",
           loops' = <<[hub |-> current.device, ports |-> Behind[g], unpowered |-> Behind[g]]>> \o loops
    PROVE  /\ AreThere(Behind[g])' /\ Behind[g] \in Seq(Gadgets)
           /\ loops \in Seq(Loops) /\ Len(loops) \in Nat
           /\ loops'[1] = [hub |-> current.device, ports |-> Behind[g], unpowered |-> Behind[g]]
           /\ Len(loops') = Len(loops) + 1 /\ DOMAIN loops' = 1 .. Len(loops) + 1
           /\ \A n \in DOMAIN loops' : n # 1 => n - 1 \in DOMAIN loops /\ loops'[n] = loops[n - 1]
           /\ loops' \in Seq(Loops) /\ Head(loops') = loops'[1]
<1>. DEFINE loop == [hub |-> current.device, ports |-> Behind[g], unpowered |-> Behind[g]]
<1>1. Behind[g] \in Seq(Gadgets)
  BY GadgetsAssumption
<1>2. loops \in Seq(Loops) /\ loop \in Loops
  BY <1>1 DEF SetupTypeOK, Loops
<1>. HIDE DEF loop
<1>3. loops' = <<loop>> \o loops
  BY DEF loop
<1>4. /\ loops'[1] = loop /\ Head(loops') = loops'[1]
      /\ Len(loops) \in Nat /\ Len(loops') = Len(loops) + 1 /\ DOMAIN loops' = 1 .. Len(loops) + 1
      /\ loops' \in Seq(Loops)
      /\ \A n \in DOMAIN loops' : n # 1 => n - 1 \in DOMAIN loops /\ loops'[n] = loops[n - 1]
  BY <1>2, <1>3
<1>5. AreThere(Behind[g])'
  <2>1. CASE Behind[g] = <<>>
    BY <2>1 DEF AreThere
  <2>2. CASE Behind[g] # <<>>
    <3>1. Resetting' /\ Head(loops').unpowered = Behind[g]
      BY <2>2, <1>4 DEF Resetting, loop
    <3>2. \A n \in DOMAIN Behind[g] : Behind[g][n] \in There'
      BY <1>1, <3>1 DEF There
    <3>. QED  BY <3>2 DEF AreThere
  <2>. QED  BY <2>1, <2>2
<1>. QED  BY <1>1, <1>2, <1>4, <1>5 DEF loop

LEMMA LoopsPortsStay ==
    ASSUME SetupTypeOK, PortsAreThere, OrderlyStep
    PROVE  PortsAreThere'
<1>1. /\ loops \in Seq(Loops) /\ DOMAIN loops = 1 .. Len(loops) /\ Len(loops) \in Nat
      /\ \A n \in DOMAIN loops : loops[n] \in Loops /\ loops[n].ports \in Seq(Gadgets)
  <2>1. loops \in Seq(Loops)
    BY DEF SetupTypeOK
  <2>2. \A n \in DOMAIN loops : loops[n] \in Loops
    BY <2>1
  <2>3. \A loop \in Loops : loop.ports \in Seq(Gadgets)
    BY DEF Loops
  <2>. QED  BY <2>1, <2>2, <2>3
<1>2. \A n \in DOMAIN loops : \A i \in DOMAIN loops[n].ports : loops[n].ports[i] \in There'
  BY ThereStays DEF PortsAreThere, AreThere
<1>3. CASE PortTaken
  <2>1. /\ 1 \in DOMAIN loops /\ loops[1].ports # <<>>
        /\ loops' = [loops EXCEPT ![1] = [loops[1] EXCEPT !.ports = Tail(loops[1].ports)]]
    BY <1>1, <1>3 DEF PortTaken
  <2>2. /\ DOMAIN loops' = DOMAIN loops /\ loops'[1].ports = Tail(loops[1].ports)
        /\ \A n \in DOMAIN loops : n # 1 => loops'[n] = loops[n]
    BY <1>1, <2>1 DEF Loops
  <2>3. \A n \in DOMAIN Tail(loops[1].ports) :
            n + 1 \in DOMAIN loops[1].ports /\ Tail(loops[1].ports)[n] = loops[1].ports[n + 1]
    BY <1>1, <2>1
  <2>4. \A n \in DOMAIN Tail(loops[1].ports) : Tail(loops[1].ports)[n] \in There'
    BY <1>2, <2>1, <2>3
  <2>5. \A n \in DOMAIN loops' : \A i \in DOMAIN loops'[n].ports : loops'[n].ports[i] \in There'
    BY <1>2, <2>2, <2>4
  <2>. QED  BY <2>5 DEF PortsAreThere, AreThere
<1>4. CASE LoopEnded
  <2>1. \A n \in DOMAIN loops' : n + 1 \in DOMAIN loops /\ loops'[n] = loops[n + 1]
    BY <1>1, <1>4 DEF LoopEnded
  <2>. QED  BY <1>2, <2>1 DEF PortsAreThere, AreThere
<1>5. CASE SlotChosen \/ AddressSet \/ SetUpGoesOn \/ PortPowered
  <2>1. loops' = loops
    BY <1>5 DEF SlotChosen, AddressSet, SetUpGoesOn, PortPowered
  <2>. QED  BY <1>2, <2>1 DEF PortsAreThere, AreThere
<1>6. CASE HubEntered
  <2>1. PICK g \in Gadgets :
            /\ loops' = <<[hub |-> current.device, ports |-> Behind[g], unpowered |-> Behind[g]]>> \o loops
            /\ step' = IF Behind[g] = <<>> THEN "NextPort" ELSE "PowerPort"
    BY <1>6 DEF HubEntered, Listeners
  <2>. DEFINE loop == [hub |-> current.device, ports |-> Behind[g], unpowered |-> Behind[g]]
  <2>2. /\ AreThere(Behind[g])' /\ loops'[1].ports = Behind[g]
        /\ \A n \in DOMAIN loops' : n # 1 => n - 1 \in DOMAIN loops /\ loops'[n] = loops[n - 1]
    <3>1. loop.ports = Behind[g]
      OBVIOUS
    <3>2. loops'[1] = loop
      BY <2>1, HubsPortsAreThere
    <3>3. /\ AreThere(Behind[g])'
          /\ \A n \in DOMAIN loops' : n # 1 => n - 1 \in DOMAIN loops /\ loops'[n] = loops[n - 1]
      BY <2>1, HubsPortsAreThere
    <3>. HIDE DEF loop
    <3>. QED  BY <3>1, <3>2, <3>3
  <2>. QED  BY <1>2, <2>2 DEF PortsAreThere, AreThere
<1>7. CASE PortReset
  <2>1. \A n \in DOMAIN loops : loops'[n].ports = loops[n].ports
    <3>1. loops' = [loops EXCEPT ![1] = [loops[1] EXCEPT !.unpowered = Tail(loops[1].unpowered)]]
      BY <1>7 DEF PortReset
    <3>. QED  BY <1>1, <3>1 DEF Loops
  <2>2. DOMAIN loops' = DOMAIN loops
    BY <1>1, <1>7 DEF PortReset
  <2>. QED  BY <1>2, <2>1, <2>2 DEF PortsAreThere, AreThere
<1>. QED  BY <1>3, <1>4, <1>5, <1>6, <1>7 DEF OrderlyStep

LEMMA RootsStayThere ==
    ASSUME SetupTypeOK, RootsAreThere, OrderlyStep
    PROVE  RootsAreThere'
<1>1. SUFFICES ASSUME \E g \in Gadgets : listens'[g] # Silent  PROVE AreThere(RootPorts)'
  BY DEF RootsAreThere
<1>2. \E g \in Gadgets : listens[g] # Silent
  <2>1. CASE AddressSet
    <3>1. \E g \in Gadgets : listens[g] = 0
      BY <2>1 DEF AddressSet, Listeners
    <3>. QED  BY <3>1 DEF Silent
  <2>2. CASE PortReset
    BY <2>2 DEF PortReset
  <2>3. CASE ~ (AddressSet \/ PortReset)
    <3>1. listens' = listens
      BY <2>3 DEF OrderlyStep, PortTaken, LoopEnded, SlotChosen, SetUpGoesOn, HubEntered, PortPowered
    <3>. QED  BY <1>1, <3>1
  <2>. QED  BY <2>1, <2>2, <2>3
<1>. QED  BY <1>2, PortsStayThere, GadgetsAssumption DEF RootsAreThere

LEMMA HIDsStayLinked ==
    ASSUME SetupTypeOK, HIDsAreLinked, OrderlyStep
    PROVE  HIDsAreLinked'
<1>0. listens \in [Gadgets -> Devices \cup {Silent}]
  BY DEF SetupTypeOK
<1>1. SUFFICES ASSUME NEW g \in Gadgets, Class[g] = "HID", listens'[g] \notin {Silent, 0}
               PROVE  listens'[g] \in Visible' \/ (step' \in HIDSteps /\ listens'[g] = current'.device)
  BY DEF HIDsAreLinked
<1>2. CASE PortTaken \/ LoopEnded \/ SlotChosen \/ HubEntered \/ PortPowered \/ PortReset
  <2>1. step \notin HIDSteps /\ Visible' = Visible
    BY <1>2 DEF PortTaken, LoopEnded, SlotChosen, HubEntered, PortPowered, PortReset, HIDSteps, InSetUp, Visible
  <2>2. listens'[g] \in {listens[g], 0}
    BY <1>0, <1>2 DEF PortTaken, LoopEnded, SlotChosen, HubEntered, PortPowered, PortReset
  <2>. QED  BY <1>1, <2>1, <2>2 DEF HIDsAreLinked
<1>3. CASE AddressSet
  <2>1. /\ step \notin HIDSteps /\ Visible' = Visible /\ step' \in HIDSteps /\ current' = current
        /\ listens'[g] \in {listens[g], current.device}
    BY <1>3 DEF AddressSet, HIDSteps, InSetUp, Visible
  <2>. QED  BY <1>1, <2>1 DEF HIDsAreLinked
<1>4. CASE SetUpGoesOn
  <2>1. /\ listens' = listens /\ current' = current /\ Visible \subseteq Visible'
        /\ listens[g] = current.device /\ step \in HIDSteps => step' \in HIDSteps \/ current.device \in Visible'
    BY <1>1, <1>4 DEF SetUpGoesOn
  <2>. QED  BY <1>1, <2>1 DEF HIDsAreLinked
<1>. QED  BY <1>2, <1>3, <1>4 DEF OrderlyStep

LEMMA HubsStayEntered ==
    ASSUME SetupInv, InOrder, NothingWentWrong, HubsAreEntered, OrderlyStep
    PROVE  HubsAreEntered'
<1>0. SetupTypeOK /\ listens \in [Gadgets -> Devices \cup {Silent}] /\ abandoned = {}
  BY DEF SetupInv, SetupTypeOK, NothingWentWrong
<1>1. SUFFICES ASSUME NEW g \in Gadgets, Class[g] = "Hub", listens'[g] \notin {Silent, 0}
               PROVE  AreThere(Behind[g])' \/ (step' \in HubSteps /\ listens'[g] = current'.device)
  BY DEF HubsAreEntered
<1>2. AreThere(Behind[g]) => AreThere(Behind[g])'
  BY <1>0, PortsStayThere, GadgetsAssumption
<1>3. CASE PortTaken \/ LoopEnded \/ SlotChosen \/ PortPowered \/ PortReset
  <2>1. step \notin HubSteps
    BY <1>3 DEF PortTaken, LoopEnded, SlotChosen, PortPowered, PortReset, HubSteps, InSetUp
  <2>2. listens'[g] \in {listens[g], 0}
    BY <1>0, <1>3 DEF PortTaken, LoopEnded, SlotChosen, PortPowered, PortReset
  <2>. QED  BY <1>1, <1>2, <2>1, <2>2 DEF HubsAreEntered
<1>4. CASE AddressSet
  <2>1. /\ step \notin HubSteps /\ step' \in HubSteps /\ current' = current
        /\ listens'[g] \in {listens[g], current.device}
    BY <1>4 DEF AddressSet, HubSteps, InSetUp
  <2>. QED  BY <1>1, <1>2, <2>1 DEF HubsAreEntered
<1>5. CASE SetUpGoesOn
  <2>1. /\ listens' = listens /\ current' = current
        /\ listens[g] = current.device /\ step \in HubSteps => step' \in HubSteps
    BY <1>1, <1>5 DEF SetUpGoesOn
  <2>. QED  BY <1>1, <1>2, <2>1 DEF HubsAreEntered
<1>6. CASE HubEntered
  <2>1. PICK h \in Gadgets :
            /\ listens[h] = current.device
            /\ loops' = <<[hub |-> current.device, ports |-> Behind[h], unpowered |-> Behind[h]]>> \o loops
            /\ step' = IF Behind[h] = <<>> THEN "NextPort" ELSE "PowerPort"
    BY <1>6 DEF HubEntered, Listeners
  <2>2. AreThere(Behind[h])'
    BY <1>0, <2>1, HubsPortsAreThere
  <2>3. listens' = listens
    BY <1>6 DEF HubEntered
  <2>4. CASE listens[g] = current.device
    <3>1. g = h
      BY <1>0, <1>1, <2>1, <2>3, <2>4, ListenersAreAlone
    <3>. QED  BY <2>2, <3>1
  <2>5. CASE listens[g] # current.device
    BY <1>1, <1>2, <2>3, <2>5 DEF HubsAreEntered
  <2>. QED  BY <2>4, <2>5
<1>. QED  BY <1>3, <1>4, <1>5, <1>6 DEF OrderlyStep

-----------------------------------------------------------------------------
(* The count of the ports that are left *)

LEMMA LoopsHavePorts ==
    ASSUME NEW ls \in Seq(Loops), NEW n \in DOMAIN ls
    PROVE  ls[n] \in Loops /\ ls[n].ports \in Seq(Gadgets) /\ Len(ls[n].ports) \in Nat
<1>1. ls[n] \in Loops
  OBVIOUS
<1>2. \A loop \in Loops : loop.ports \in Seq(Gadgets)
  BY DEF Loops
<1>. QED  BY <1>1, <1>2

LEMMA NothingIsLeft == \A k : PortsLeft(<<>>, k) <=> k = 0
<1>1. ASSUME NEW k, PortsLeft(<<>>, k)  PROVE k = 0
  BY <1>1 DEF PortsLeft, SumsOf
<1>2. PortsLeft(<<>>, 0)
  <2>. DEFINE none == [m \in 0 .. 0 |-> 0]
  <2>1. SumsOf(none, <<>>) /\ none[Len(<<>>)] = 0
    BY DEF SumsOf
  <2>. QED  BY <2>1 DEF PortsLeft
<1>. QED  BY <1>1, <1>2

LEMMA LeftWithoutFirst ==
    ASSUME NEW ls \in Seq(Loops), ls # <<>>, NEW k, PortsLeft(ls, k)
    PROVE  /\ k \in Nat /\ k - Len(ls[1].ports) \in Nat
           /\ PortsLeft(Tail(ls), k - Len(ls[1].ports))
<1>1. PICK sum : SumsOf(sum, ls) /\ sum[Len(ls)] = k
  BY DEF PortsLeft
<1>2. /\ Len(ls) \in Nat \ {0} /\ Len(Tail(ls)) = Len(ls) - 1
      /\ \A m \in 1 .. Len(ls) - 1 : Tail(ls)[Len(ls) - m] = ls[Len(ls) + 1 - m]
      /\ 1 \in DOMAIN ls
  OBVIOUS
<1>0. Len(ls[1].ports) \in Nat
  BY <1>2, LoopsHavePorts
<1>3. PICK L \in Nat \ {0} : L = Len(ls)
  BY <1>2
<1>. DEFINE rest == [m \in 0 .. L - 1 |-> sum[m]]
<1>4. /\ sum \in [0 .. L -> Nat] /\ sum[0] = 0 /\ sum[L] = k /\ L \in 0 .. L /\ L - 1 \in 0 .. L - 1
      /\ \A m \in 1 .. L : sum[m] = sum[m - 1] + Len(ls[L + 1 - m].ports)
  BY <1>1, <1>3 DEF SumsOf
<1>5. sum[L] = sum[L - 1] + Len(ls[1].ports) /\ sum[L - 1] \in Nat /\ sum[L] \in Nat
  <2>1. sum[L] = sum[L - 1] + Len(ls[L + 1 - L].ports)
    BY <1>4
  <2>2. L + 1 - L = 1
    OBVIOUS
  <2>. QED  BY <2>1, <2>2, <1>4, <1>0
<1>6. SumsOf(rest, Tail(ls))
  <2>1. rest \in [0 .. L - 1 -> Nat] /\ rest[0] = 0
    BY <1>4
  <2>2. ASSUME NEW m \in 1 .. L - 1
        PROVE  rest[m] = rest[m - 1] + Len(Tail(ls)[(L - 1) + 1 - m].ports)
    <3>1. /\ m \in 1 .. L /\ rest[m] = sum[m] /\ rest[m - 1] = sum[m - 1]
          /\ (L - 1) + 1 - m = L - m
      OBVIOUS
    <3>2. Tail(ls)[L - m] = ls[L + 1 - m]
      BY <1>2, <1>3
    <3>. HIDE DEF rest
    <3>. QED  BY <1>4, <3>1, <3>2
  <2>. HIDE DEF rest
  <2>. QED  BY <2>1, <2>2, <1>2, <1>3 DEF SumsOf
<1>7. rest[L - 1] = k - Len(ls[1].ports) /\ Len(Tail(ls)) = L - 1
  BY <1>0, <1>2, <1>3, <1>4, <1>5
<1>. HIDE DEF rest
<1>8. PortsLeft(Tail(ls), k - Len(ls[1].ports))
  BY <1>6, <1>7 DEF PortsLeft
<1>. QED  BY <1>0, <1>4, <1>5, <1>8

LEMMA LeftWithOneMore ==
    ASSUME NEW ls \in Seq(Loops), NEW more \in Seq(Loops), Len(more) = Len(ls) + 1,
           \A n \in DOMAIN more : n # 1 => more[n] = ls[n - 1],
           NEW k, PortsLeft(ls, k)
    PROVE  k + Len(more[1].ports) \in Nat /\ PortsLeft(more, k + Len(more[1].ports))
<1>1. PICK sum : SumsOf(sum, ls) /\ sum[Len(ls)] = k
  BY DEF PortsLeft
<1>2. /\ Len(ls) \in Nat /\ DOMAIN more = 1 .. Len(ls) + 1
      /\ 1 \in DOMAIN more
  OBVIOUS
<1>0. Len(more[1].ports) \in Nat
  BY <1>2, LoopsHavePorts
<1>3. PICK L \in Nat : L = Len(ls)
  BY <1>2
<1>4. /\ sum \in [0 .. L -> Nat] /\ sum[0] = 0 /\ sum[L] = k
      /\ \A m \in 1 .. L : sum[m] = sum[m - 1] + Len(ls[L + 1 - m].ports)
  BY <1>1, <1>3 DEF SumsOf
<1>5. PICK n \in Nat : n = k + Len(more[1].ports)
  <2>1. k \in Nat
    BY <1>4
  <2>. QED  BY <2>1, <1>0
<1>. DEFINE sums == [m \in 0 .. L + 1 |-> IF m = L + 1 THEN n ELSE sum[m]]
<1>6. SumsOf(sums, more)
  <2>1. sums \in [0 .. L + 1 -> Nat] /\ sums[0] = 0
    BY <1>4
  <2>2. ASSUME NEW m \in 1 .. L + 1
        PROVE  sums[m] = sums[m - 1] + Len(more[(L + 1) + 1 - m].ports)
    <3>1. CASE m = L + 1
      <4>1. sums[m] = n /\ sums[m - 1] = k /\ (L + 1) + 1 - m = 1
        BY <3>1, <1>4
      <4>. HIDE DEF sums
      <4>. QED  BY <1>5, <4>1
    <3>2. CASE m # L + 1
      <4>1. /\ m \in 1 .. L /\ sums[m] = sum[m] /\ sums[m - 1] = sum[m - 1]
            /\ (L + 1) + 1 - m \in 2 .. L + 1 /\ (L + 1) + 1 - m - 1 = L + 1 - m
        BY <3>2
      <4>2. PICK i \in 2 .. L + 1 : i = (L + 1) + 1 - m
        BY <4>1
      <4>3. more[i] = ls[i - 1] /\ i - 1 = L + 1 - m
        <5>1. i \in DOMAIN more /\ i # 1
          BY <4>2, <1>2, <1>3
        <5>2. i - 1 = L + 1 - m
          BY <4>2
        <5>. QED  BY <5>1, <5>2
      <4>. HIDE DEF sums
      <4>. QED  BY <1>4, <4>1, <4>2, <4>3
    <3>. QED  BY <3>1, <3>2
  <2>. HIDE DEF sums
  <2>. QED  BY <2>1, <2>2, <1>3 DEF SumsOf
<1>7. sums[L + 1] = n
  OBVIOUS
<1>. HIDE DEF sums
<1>. QED  BY <1>3, <1>5, <1>6, <1>7 DEF PortsLeft

(* The first loop has other ports.                                          *)
LEMMA LeftWithChangedFirst ==
    ASSUME NEW ls \in Seq(Loops), NEW other \in Seq(Loops), ls # <<>>, Len(other) = Len(ls),
           \A n \in DOMAIN other : n # 1 => other[n] = ls[n],
           NEW k, PortsLeft(ls, k)
    PROVE  PortsLeft(other, k - Len(ls[1].ports) + Len(other[1].ports))
<1>1. /\ Len(ls) \in Nat \ {0} /\ Len(Tail(ls)) = Len(ls) - 1 /\ Tail(ls) \in Seq(Loops)
      /\ DOMAIN other = 1 .. Len(ls)
      /\ \A n \in 1 .. Len(ls) : n # 1 => Tail(ls)[n - 1] = ls[n]
  OBVIOUS
<1>2. PortsLeft(Tail(ls), k - Len(ls[1].ports))
  BY LeftWithoutFirst
<1>3. \A n \in DOMAIN other : n # 1 => other[n] = Tail(ls)[n - 1]
  BY <1>1
<1>4. Len(other) = Len(Tail(ls)) + 1
  BY <1>1
<1>. QED  BY <1>1, <1>2, <1>3, <1>4, LeftWithOneMore

LEMMA SomeoneHasATurn ==
    ASSUME NEW k \in Nat, PortsLeft(loops, k), Cardinality(Listeners(0)) + ToReset <= k + InTurn
    PROVE  EveryoneHasATurn
BY DEF EveryoneHasATurn

LEMMA ListenersAreFinite == IsFiniteSet(Listeners(0)) /\ Cardinality(Listeners(0)) \in Nat
<1>1. Listeners(0) \in SUBSET Gadgets
  BY DEF Listeners
<1>. QED  BY <1>1, GadgetsAssumption, FS_Subset, FS_CardinalityType

LEMMA TurnsAreKept ==
    ASSUME SetupTypeOK, NothingWentWrong, EveryoneHasATurn, OrderlyStep,
           AllTaken => AllTaken'
    PROVE  EveryoneHasATurn'
<1>1. CASE AllTaken \/ AllTaken'
  BY <1>1 DEF EveryoneHasATurn
<1>. SUFFICES ASSUME ~ AllTaken, ~ AllTaken'  PROVE EveryoneHasATurn'
  BY <1>1
<1>2. PICK k \in Nat : PortsLeft(loops, k) /\ Cardinality(Listeners(0)) + ToReset <= k + InTurn
  BY DEF EveryoneHasATurn
<1>. DEFINE c == Cardinality(Listeners(0))
<1>3. c \in Nat /\ IsFiniteSet(Listeners(0))
  BY ListenersAreFinite
<1>4. listens' = listens => Listeners(0)' = Listeners(0)
  BY DEF Listeners
<1>5. /\ loops \in Seq(Loops) /\ listens \in [Gadgets -> Devices \cup {Silent}]
      /\ loops # <<>> => /\ Head(loops) = loops[1] /\ loops[1] \in Loops /\ 1 \in DOMAIN loops
                         /\ loops[1].ports \in Seq(Gadgets) /\ Len(loops[1].ports) \in Nat
  BY LoopsAreTyped, LoopsHavePorts DEF SetupTypeOK
<1>6. ASSUME NEW n \in Nat, PortsLeft(loops, n)', c' + ToReset' <= n + InTurn'
      PROVE  EveryoneHasATurn'
  <2>. HIDE DEF c
  <2>1. (Cardinality(Listeners(0)) + ToReset <= n + InTurn)'
    BY <1>6 DEF c
  <2>. QED  BY <1>6, <2>1 DEF EveryoneHasATurn
<1>7. CASE PortTaken
  <2>1. /\ loops # <<>> /\ loops[1].ports # <<>>
        /\ loops' = [loops EXCEPT ![1] = [loops[1] EXCEPT !.ports = Tail(loops[1].ports)]]
    BY <1>7 DEF PortTaken
  <2>2. /\ loops' \in Seq(Loops) /\ Len(loops') = Len(loops) /\ DOMAIN loops' = DOMAIN loops
        /\ loops'[1] = [loops[1] EXCEPT !.ports = Tail(loops[1].ports)]
        /\ \A n \in DOMAIN loops' : n # 1 => loops'[n] = loops[n]
    <3>1. Tail(loops[1].ports) \in Seq(Gadgets)
      BY <2>1, <1>5
    <3>2. [loops[1] EXCEPT !.ports = Tail(loops[1].ports)] \in Loops
      BY <2>1, <1>5, <3>1 DEF Loops
    <3>. QED  BY <2>1, <1>5, <3>2
  <2>3. Len(loops'[1].ports) = Len(loops[1].ports) - 1 /\ Len(loops[1].ports) \in Nat \ {0}
    <3>1. Len(Tail(loops[1].ports)) = Len(loops[1].ports) - 1 /\ Len(loops[1].ports) # 0
      BY <2>1, <1>5
    <3>2. loops'[1].ports = Tail(loops[1].ports)
      BY <2>1, <2>2, <1>5 DEF Loops
    <3>. QED  BY <2>1, <1>5, <3>1, <3>2
  <2>4. k - Len(loops[1].ports) \in Nat
    BY <1>2, <1>5, <2>1, LeftWithoutFirst
  <2>5. PortsLeft(loops', k - Len(loops[1].ports) + Len(loops'[1].ports))
    BY <1>2, <1>5, <2>1, <2>2, LeftWithChangedFirst
  <2>6. k - Len(loops[1].ports) + Len(loops'[1].ports) = k - 1 /\ k - 1 \in Nat
    BY <2>3, <2>4, <1>2
  <2>7. PortsLeft(loops', k - 1)
    BY <2>5, <2>6
  <2>8. c' = c /\ ToReset = 0 /\ ToReset' = 0 /\ InTurn = 0 /\ InTurn' = 1
    BY <1>4, <1>7 DEF PortTaken, ToReset, InTurn, Resetting
  <2>. HIDE DEF c
  <2>9. c' + ToReset' <= (k - 1) + InTurn'
    BY <1>2, <1>3, <2>8 DEF c
  <2>. QED  BY <1>6, <2>6, <2>7, <2>9
<1>8. CASE LoopEnded
  <2>1. loops # <<>> /\ loops' = Tail(loops) /\ Len(loops[1].ports) = 0
    BY <1>8 DEF LoopEnded
  <2>2. k - 0 \in Nat /\ PortsLeft(loops', k - 0)
    BY <1>2, <1>5, <2>1, LeftWithoutFirst
  <2>3. c' = c /\ ToReset = 0 /\ ToReset' = 0 /\ InTurn = 0 /\ InTurn' = 0
    BY <1>4, <1>8 DEF LoopEnded, ToReset, InTurn, Resetting
  <2>. HIDE DEF c
  <2>4. k - 0 = k /\ c' + ToReset' <= k + InTurn'
    BY <1>2, <1>3, <2>3 DEF c
  <2>. QED  BY <1>6, <2>2, <2>4
<1>9. CASE SlotChosen \/ SetUpGoesOn \/ PortPowered
  <2>1. c' = c /\ loops' = loops
    BY <1>4, <1>9 DEF SlotChosen, SetUpGoesOn, PortPowered
  <2>2. ToReset' = ToReset /\ InTurn' = InTurn
    <3>1. CASE SlotChosen
      BY <3>1 DEF SlotChosen, ToReset, InTurn, Resetting
    <3>2. CASE SetUpGoesOn
      BY <3>2 DEF SetUpGoesOn, HIDSteps, InSetUp, ToReset, InTurn, Resetting
    <3>3. CASE PortPowered
      BY <3>3 DEF PortPowered, ToReset, InTurn, Resetting
    <3>. QED  BY <1>9, <3>1, <3>2, <3>3
  <2>. HIDE DEF c
  <2>3. PortsLeft(loops', k) /\ c' + ToReset' <= k + InTurn'
    BY <1>2, <2>1, <2>2 DEF c
  <2>. QED  BY <1>6, <2>3
<1>10. CASE AddressSet
  <2>1. PICK took \in SUBSET Listeners(0) :
            /\ took # {}
            /\ listens' = [g \in Gadgets |-> IF g \in took THEN current.device ELSE listens[g]]
    BY <1>10 DEF AddressSet
  <2>2. PICK g : g \in took /\ g \in Listeners(0) /\ g \in Gadgets
    BY <2>1 DEF Listeners
  <2>3. current.device # 0
    BY <1>10 DEF AddressSet, NothingWentWrong
  <2>4. Listeners(0)' \in SUBSET (Listeners(0) \ {g})
    BY <2>1, <2>2, <2>3 DEF Listeners
  <2>5. /\ IsFiniteSet(Listeners(0) \ {g})
        /\ Cardinality(Listeners(0) \ {g}) = Cardinality(Listeners(0)) - 1
    BY <1>3, <2>2, FS_RemoveElement
  <2>6. IsFiniteSet(Listeners(0)') /\ Cardinality(Listeners(0)') <= Cardinality(Listeners(0) \ {g})
    BY <2>4, <2>5, FS_Subset
  <2>7. Cardinality(Listeners(0)') \in Nat
    BY <2>6, FS_CardinalityType
  <2>8. c' = Cardinality(Listeners(0)')
    OBVIOUS
  <2>9. loops' = loops /\ ToReset = 0 /\ ToReset' = 0 /\ InTurn = 1 /\ InTurn' = 0
    BY <1>10 DEF AddressSet, ToReset, InTurn, Resetting
  <2>10. c' \in Nat /\ c' <= c - 1
    BY <2>5, <2>6, <2>7, <2>8
  <2>11. c + ToReset <= k + InTurn
    BY <1>2
  <2>. HIDE DEF c
  <2>12. PortsLeft(loops', k) /\ c' + ToReset' <= k + InTurn'
    <3>1. PICK a \in Nat, b \in Nat : a = c /\ b = c'
      BY <1>3, <2>10 DEF c
    <3>2. b <= a - 1 /\ a <= k + 1
      BY <2>9, <2>10, <2>11, <3>1
    <3>3. b <= k
      BY <3>2
    <3>4. b + 0 <= k + 0
      BY <3>3
    <3>. QED  BY <1>2, <2>9, <3>1, <3>4
  <2>. QED  BY <1>6, <2>12
<1>11. CASE HubEntered
  <2>1. PICK g \in Gadgets :
            /\ loops' = <<[hub |-> current.device, ports |-> Behind[g], unpowered |-> Behind[g]]>> \o loops
            /\ step' = IF Behind[g] = <<>> THEN "NextPort" ELSE "PowerPort"
    BY <1>11 DEF HubEntered, Listeners
  <2>2. /\ Behind[g] \in Seq(Gadgets) /\ loops' \in Seq(Loops) /\ Head(loops') = loops'[1]
        /\ loops'[1].ports = Behind[g] /\ loops'[1].unpowered = Behind[g]
        /\ Len(loops') = Len(loops) + 1
        /\ \A n \in DOMAIN loops' : n # 1 => loops'[n] = loops[n - 1]
    <3>. DEFINE loop == [hub |-> current.device, ports |-> Behind[g], unpowered |-> Behind[g]]
    <3>1. loop.ports = Behind[g] /\ loop.unpowered = Behind[g]
      OBVIOUS
    <3>2. loops' = <<loop>> \o loops
      BY <2>1
    <3>3. loops'[1] = loop
      BY <2>1, HubsPortsAreThere
    <3>4. /\ Behind[g] \in Seq(Gadgets) /\ loops' \in Seq(Loops) /\ Head(loops') = loops'[1]
          /\ Len(loops') = Len(loops) + 1
          /\ \A n \in DOMAIN loops' : n # 1 => loops'[n] = loops[n - 1]
      BY <2>1, HubsPortsAreThere
    <3>. HIDE DEF loop
    <3>. QED  BY <3>1, <3>3, <3>4
  <2>3. PortsLeft(loops', k + Len(Behind[g]))
    BY <1>2, <1>5, <2>2, LeftWithOneMore
  <2>4. c' = c /\ ToReset = 0 /\ InTurn = 0 /\ InTurn' = 0
    BY <1>4, <1>11, <2>1 DEF HubEntered, ToReset, InTurn, Resetting
  <2>5. ToReset' = Len(Behind[g]) /\ Len(Behind[g]) \in Nat
    BY <2>1, <2>2 DEF ToReset, Resetting
  <2>6. c + ToReset <= k + InTurn
    BY <1>2
  <2>. HIDE DEF c
  <2>7. k + Len(Behind[g]) \in Nat /\ c' + ToReset' <= k + Len(Behind[g]) + InTurn'
    BY <1>3, <2>4, <2>5, <2>6
  <2>. QED  BY <1>6, <2>3, <2>7
<1>12. CASE PortReset
  <2>. DEFINE ports == loops[1].unpowered
  <2>1. /\ step = "ResetPort" /\ loops # <<>> /\ ports # <<>> /\ ports \in Seq(Gadgets)
        /\ loops' = [loops EXCEPT ![1] = [loops[1] EXCEPT !.unpowered = Tail(ports)]]
    <3>1. step = "ResetPort" /\ loops # <<>> /\ ports # <<>>
      BY <1>12, <1>5 DEF PortReset, SetupTypeOK
    <3>. QED  BY <3>1, <1>12, <1>5 DEF PortReset, Loops
  <2>2. PICK p \in Gadgets : p = Head(Head(loops).unpowered)
    BY <2>1, <1>5
  <2>. HIDE DEF ports
  <2>3. /\ Tail(ports) \in Seq(Gadgets) /\ Len(Tail(ports)) = Len(ports) - 1 /\ Len(ports) \in Nat \ {0}
    <3>1. ports \in Seq(Gadgets) /\ ports # <<>>
      BY <2>1
    <3>. QED  BY <3>1
  <2>4. [loops[1] EXCEPT !.unpowered = Tail(ports)] \in Loops
    BY <1>5, <2>1, <2>3 DEF Loops
  <2>5. /\ loops' \in Seq(Loops) /\ Len(loops') = Len(loops) /\ DOMAIN loops' = DOMAIN loops
        /\ loops'[1] = [loops[1] EXCEPT !.unpowered = Tail(ports)] /\ Head(loops') = loops'[1]
        /\ \A n \in DOMAIN loops' : n # 1 => loops'[n] = loops[n]
    BY <1>5, <2>1, <2>4
  <2>6. loops'[1].unpowered = Tail(ports) /\ loops'[1].ports = loops[1].ports
    BY <2>5, <2>1, <1>5 DEF Loops
  <2>7. PortsLeft(loops', k - Len(loops[1].ports) + Len(loops'[1].ports))
    BY <1>2, <1>5, <2>1, <2>5, LeftWithChangedFirst
  <2>8. PortsLeft(loops', k)
    <3>1. k - Len(loops[1].ports) + Len(loops'[1].ports) = k
      BY <2>6, <1>5, <2>1, <1>2
    <3>. QED  BY <2>7, <3>1
  <2>9. Listeners(0)' \in SUBSET (Listeners(0) \cup {p})
    <3>1. \A g \in Gadgets : listens'[g] = 0 => g = p \/ listens[g] = 0
      BY <1>12, <1>5, <2>2 DEF PortReset
    <3>. QED  BY <3>1 DEF Listeners
  <2>10. /\ IsFiniteSet(Listeners(0) \cup {p})
         /\ Cardinality(Listeners(0) \cup {p}) <= Cardinality(Listeners(0)) + 1
    BY <1>3, OneMore
  <2>11. IsFiniteSet(Listeners(0)') /\ Cardinality(Listeners(0)') <= Cardinality(Listeners(0) \cup {p})
    BY <2>9, <2>10, FS_Subset
  <2>12. Cardinality(Listeners(0)') \in Nat /\ Cardinality(Listeners(0) \cup {p}) \in Nat
    BY <2>10, <2>11, FS_CardinalityType
  <2>13. c' \in Nat /\ c' <= c + 1
    BY <1>3, <2>10, <2>11, <2>12
  <2>14. ToReset = Len(ports) /\ ToReset' = Len(ports) - 1 /\ InTurn = 0 /\ InTurn' = 0
    <3>1. ToReset = Len(ports)
      BY <2>1, <1>5 DEF ToReset, Resetting, ports
    <3>2. step' = IF Tail(ports) = <<>> THEN "NextPort" ELSE "PowerPort"
      BY <1>12, <2>6 DEF PortReset
    <3>3. ToReset' = IF Tail(ports) = <<>> THEN 0 ELSE Len(Tail(ports))
      BY <3>2, <2>5, <2>6 DEF ToReset, Resetting
    <3>4. ToReset' = Len(ports) - 1
      BY <3>3, <2>3
    <3>. QED  BY <3>1, <3>2, <3>4, <2>1 DEF InTurn
  <2>15. c + ToReset <= k + InTurn
    BY <1>2
  <2>. HIDE DEF c
  <2>16. c' + ToReset' <= k + InTurn'
    BY <1>3, <2>3, <2>13, <2>14, <2>15
  <2>. QED  BY <1>6, <2>8, <2>16
<1>. QED  BY <1>7, <1>8, <1>9, <1>10, <1>11, <1>12 DEF OrderlyStep

-----------------------------------------------------------------------------

(* There are no more devices at a list of ports than ports.                 *)
LEMMA DevicesAtPorts ==
    ASSUME NEW ports \in Seq(Gadgets)
    PROVE  Cardinality({g \in Gadgets : \E n \in DOMAIN ports : ports[n] = g}) <= Len(ports)
<1>1. ports \in [1 .. Len(ports) -> Gadgets] /\ Len(ports) \in Nat /\ DOMAIN ports = 1 .. Len(ports)
  OBVIOUS
<1>2. PICK L \in Nat : L = Len(ports)
  BY <1>1
<1>3. IsFiniteSet(1 .. L) /\ Cardinality(1 .. L) = L
  <2>1. Cardinality(1 .. L) = IF 1 > L THEN 0 ELSE L - 1 + 1
    BY FS_Interval
  <2>. QED  BY <2>1, FS_Interval
<1>4. Cardinality({ports[n] : n \in 1 .. L}) <= Cardinality(1 .. L)
  <2>. DEFINE T == {ports[n] : n \in 1 .. L}
              f == [n \in 1 .. L |-> ports[n]]
  <2>1. f \in [1 .. L -> T] /\ \A t \in T : \E n \in 1 .. L : f[n] = t
    OBVIOUS
  <2>. HIDE DEF T, f
  <2>2. f \in Surjection(1 .. L, T)
    BY <2>1 DEF Surjection
  <2>3. Cardinality(T) <= Cardinality(1 .. L)
    BY <1>3, <2>2, FS_Surjection
  <2>. QED  BY <2>3 DEF T
<1>5. {ports[n] : n \in 1 .. L} = {g \in Gadgets : \E n \in DOMAIN ports : ports[n] = g}
  BY <1>1, <1>2
<1>. QED  BY <1>2, <1>3, <1>4, <1>5

LEMMA FoundBegins ==
    ASSUME NEW ports \in {RootPorts, <<>>}, SetupInit(ports)
    PROVE  FoundInv
<1>1. ports \in Seq(Gadgets)
  <2>1. RootPorts \in Seq(Gadgets) /\ <<>> \in Seq(Gadgets)
    BY GadgetsAssumption
  <2>. QED  BY <2>1
<1>2. /\ \A g \in Gadgets : listens[g] = IF \E n \in DOMAIN ports : ports[n] = g THEN 0 ELSE Silent
      /\ loops = <<[hub |-> 0, ports |-> ports, unpowered |-> <<>>]>>
      /\ step = "NextPort" /\ troubles = 0 /\ ~ halted /\ honest /\ abandoned = {}
  BY DEF SetupInit
<1>3. SlotsAreSound
  <2>1. 0 \in Devices /\ \A d \in Devices : Device[d] = [Unused EXCEPT !.Active = (d = 0)]
    BY NumbersOfDevices DEF SetupInit
  <2>2. \A active \in BOOLEAN : /\ [Unused EXCEPT !.Active = active].Active = active
                                /\ [Unused EXCEPT !.Active = active].FunctionAddress = 0
    BY DEF Unused
  <2>3. \A d \in Devices : Device[d].Active = (d = 0) /\ Device[d].FunctionAddress = 0
    BY <2>1, <2>2
  <2>. QED  BY <2>1, <2>3 DEF SlotsAreSound
<1>4. NothingWentWrong
  BY <1>2 DEF NothingWentWrong, HIDSteps, InSetUp
<1>5. AreThere(ports)
  <2>1. \A n \in DOMAIN ports : ports[n] \in Gadgets
    BY <1>1
  <2>. QED  BY <2>1, <1>2 DEF AreThere, There, Silent
<1>6. PortsAreThere
  <2>1. DOMAIN loops = {1} /\ loops[1].ports = ports
    BY <1>2
  <2>. QED  BY <2>1, <1>5 DEF PortsAreThere
<1>7. RootsAreThere
  <2>1. (\E g \in Gadgets : listens[g] # Silent) => ports # <<>>
    BY <1>2
  <2>. QED  BY <2>1, <1>5 DEF RootsAreThere
<1>8. HIDsAreLinked /\ HubsAreEntered
  BY <1>2 DEF HIDsAreLinked, HubsAreEntered
<1>9. EveryoneHasATurn
  <2>1. PortsLeft(loops, Len(ports))
    <3>1. loops \in Seq(Loops) /\ Len(loops) = 1 /\ DOMAIN loops = {1} /\ loops[1].ports = ports
      <4>1. [hub |-> 0, ports |-> ports, unpowered |-> <<>>] \in Loops
        BY <1>1, NumbersOfDevices DEF Loops
      <4>. QED  BY <4>1, <1>2
    <3>2. PortsLeft(<<>>, 0) /\ <<>> \in Seq(Loops) /\ Len(<<>>) = 0
      BY NothingIsLeft
    <3>3. Len(loops) = Len(<<>>) + 1 /\ \A n \in DOMAIN loops : n # 1 => loops[n] = <<>>[n - 1]
      BY <3>1, <3>2
    <3>4. PortsLeft(loops, 0 + Len(loops[1].ports))
      BY <3>1, <3>2, <3>3, LeftWithOneMore
    <3>5. 0 + Len(loops[1].ports) = Len(ports)
      BY <3>1, <1>1
    <3>. QED  BY <3>4, <3>5
  <2>2. Listeners(0) = {g \in Gadgets : \E n \in DOMAIN ports : ports[n] = g}
    BY <1>2 DEF Listeners, Silent
  <2>3. Cardinality(Listeners(0)) <= Len(ports) /\ Len(ports) \in Nat
    BY <1>1, <2>2, DevicesAtPorts
  <2>4. ToReset = 0 /\ InTurn = 0
    BY <1>2 DEF ToReset, InTurn, Resetting
  <2>5. Cardinality(Listeners(0)) + ToReset <= Len(ports) + InTurn
    BY <2>3, <2>4, ListenersAreFinite
  <2>. QED  BY <2>1, <2>3, <2>5, SomeoneHasATurn
<1>. QED  BY <1>2, <1>3, <1>4, <1>6, <1>7, <1>8, <1>9 DEF FoundInv

LEMMA FoundIsKept ==
    ASSUME SetupInv, SetupInv', FoundInv, SetupNext
    PROVE  FoundInv'
<1>1. SetupTypeOK
  BY DEF SetupInv
<1>2. troubles' \in Nat /\ SlotsAreSound' /\ (AllTaken => AllTaken')
  <2>1. troubles' \in Nat
    BY OrderIsOld DEF FoundInv
  <2>2. /\ SlotsAreSound'
        /\ \A d \in Devices : Device[d].Active => Device'[d].Active
    BY <1>1, SlotsStay DEF FoundInv
  <2>. QED  BY <2>1, <2>2 DEF AllTaken
<1>3. CASE ~ InOrder'
  BY <1>2, <1>3 DEF FoundInv
<1>4. CASE InOrder'
  <2>1. InOrder /\ NothingWentWrong' /\ OrderlyStep
    BY <1>4, StepsAreOrderly
  <2>2. /\ NothingWentWrong /\ PortsAreThere /\ RootsAreThere
        /\ HIDsAreLinked /\ HubsAreEntered /\ EveryoneHasATurn
    BY <2>1 DEF FoundInv
  <2>3. PortsAreThere' /\ RootsAreThere'
    BY <1>1, <2>1, <2>2, LoopsPortsStay, RootsStayThere
  <2>4. HIDsAreLinked' /\ HubsAreEntered'
    BY <1>1, <2>1, <2>2, HIDsStayLinked, HubsStayEntered
  <2>5. EveryoneHasATurn'
    BY <1>1, <1>2, <2>1, <2>2, TurnsAreKept
  <2>. QED  BY <1>2, <2>1, <2>3, <2>4, <2>5 DEF FoundInv
<1>. QED  BY <1>3, <1>4

LEMMA FoundStays ==
    ASSUME FoundInv, UNCHANGED setupVars
    PROVE  FoundInv'
<1>1. UNCHANGED <<listens, halted, troubles, NextED, Device, step, current, loops, honest, shared, abandoned>>
  BY DEF setupVars, busVars
<1>2. /\ Visible' = Visible /\ There' = There /\ InOrder' = InOrder /\ AllTaken' = AllTaken
      /\ Listeners(0)' = Listeners(0) /\ ToReset' = ToReset /\ InTurn' = InTurn
  BY <1>1 DEF Visible, There, Resetting, InOrder, AllTaken, Listeners, ToReset, InTurn
<1>3. /\ SlotsAreSound' = SlotsAreSound /\ NothingWentWrong' = NothingWentWrong
      /\ PortsAreThere' = PortsAreThere /\ RootsAreThere' = RootsAreThere
      /\ HIDsAreLinked' = HIDsAreLinked /\ HubsAreEntered' = HubsAreEntered
  BY <1>1, <1>2 DEF SlotsAreSound, NothingWentWrong, PortsAreThere, RootsAreThere, AreThere,
                    HIDsAreLinked, HubsAreEntered
<1>4. EveryoneHasATurn' = EveryoneHasATurn
  BY <1>1, <1>2 DEF EveryoneHasATurn
<1>. QED  BY <1>1, <1>2, <1>3, <1>4 DEF FoundInv

(* At the end nobody waits, so everybody has an address, and with a hub all *)
(* that is behind it.                                                       *)
LEMMA DevicesAreFound ==
    ASSUME SetupInv, FoundInv
    PROVE  EveryDeviceIsFound
<1>1. SUFFICES ASSUME step = "Done", InOrder, \E g \in Gadgets : listens[g] # Silent,
                      NEW h \in Gadgets, Class[h] = "HID"
               PROVE  \/ listens[h] \in Visible
                      \/ listens[h] \in {0, Silent} /\ AllTaken
  BY DEF EveryDeviceIsFound, InOrder, AllTaken
<1>2. /\ NothingWentWrong /\ RootsAreThere /\ HIDsAreLinked /\ HubsAreEntered /\ EveryoneHasATurn
  BY <1>1 DEF FoundInv
<1>3. ~ Resetting /\ InTurn = 0 /\ ToReset = 0 /\ loops = <<>> /\ step \notin HIDSteps \cup HubSteps
  BY <1>1, <1>2 DEF NothingWentWrong, Resetting, InTurn, ToReset, HIDSteps, HubSteps, InSetUp
<1>4. listens[h] \notin {0, Silent} => listens[h] \in Visible
  BY <1>1, <1>2, <1>3 DEF HIDsAreLinked
<1>5. CASE ~ AllTaken
  <2>1. Listeners(0) = {}
    <3>1. Cardinality(Listeners(0)) = 0
      <4>1. PICK k \in Nat : PortsLeft(loops, k) /\ Cardinality(Listeners(0)) + ToReset <= k + InTurn
        BY <1>2, <1>5 DEF EveryoneHasATurn
      <4>2. k = 0
        BY <1>3, <4>1, NothingIsLeft
      <4>. QED  BY <1>3, <4>1, <4>2, ListenersAreFinite
    <3>. QED  BY <3>1, ListenersAreFinite, FS_EmptySet
  <2>. DEFINE S == {g \in Gadgets : listens[g] # Silent}
  <2>2. \A ports : AreThere(ports) <=> \A n \in DOMAIN ports : ports[n] \in S
    BY <1>3 DEF AreThere, There
  <2>3. \A n \in DOMAIN RootPorts : RootPorts[n] \in S
    BY <1>1, <1>2, <2>2 DEF RootsAreThere
  <2>4. \A g \in S : Class[g] = "Hub" => \A n \in DOMAIN Behind[g] : Behind[g][n] \in S
    <3>1. \A g \in S : listens[g] # 0
      BY <2>1 DEF Listeners
    <3>. QED  BY <3>1, <1>2, <1>3, <2>2 DEF HubsAreEntered
  <2>5. S \in SUBSET Gadgets
    OBVIOUS
  <2>6. h \in S
    <3>. HIDE DEF S
    <3>. QED  BY <2>3, <2>4, <2>5, BusIsConnected
  <2>7. listens[h] \notin {0, Silent}
    BY <2>1, <2>6 DEF Listeners
  <2>. QED  BY <1>4, <2>7
<1>. QED  BY <1>4, <1>5

LEMMA FoundInvHolds == Spec => []FoundInv
<1>1. Init => FoundInv
  <2>1. Init => \E ports \in {RootPorts, <<>>} : SetupInit(ports)
    BY DEF Init
  <2>. QED  BY <2>1, FoundBegins
<1>2. IInv /\ IInv' /\ FoundInv /\ [Next]_vars => FoundInv'
  <2>. SUFFICES ASSUME IInv, IInv', FoundInv, [Next]_vars  PROVE FoundInv'
    OBVIOUS
  <2>1. CASE SetUpDevices
    BY <2>1, FoundIsKept DEF SetUpDevices, IInv
  <2>2. CASE ~ SetUpDevices
    <3>1. UNCHANGED setupVars
      BY <2>2 DEF Next, Main, FirstPrint, PushEntry, LoadGDT, LoadSelectors, SetGates, LoadIDT,
           WritePIC, ScanPCIDevice, SetDriverGate, UnmaskPIC, SetRegisters, ResetController,
           EnableController, DevicesDone, Stray, Unserved, Fault, vars
    <3>. QED  BY <3>1, FoundStays
  <2>. QED  BY <2>1, <2>2
<1>. QED  BY <1>1, <1>2, InvariantHolds, PTL DEF Spec

(* On every bus, however many devices there are behind however many hubs:   *)
(* when set-up is done and no request went wrong, each keyboard and mouse   *)
(* is in the tree that the controller walks (OHCI.c:946-950), or there was  *)
(* no slot left for it (OHCI.c:745-758).                                    *)
THEOREM EveryDeviceFound == Spec => []EveryDeviceIsFound
<1>1. IInv /\ FoundInv => EveryDeviceIsFound
  BY DevicesAreFound DEF IInv
<1>. QED  BY <1>1, InvariantHolds, FoundInvHolds, PTL

=============================================================================
