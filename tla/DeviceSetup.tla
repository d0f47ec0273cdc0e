---------------------------- MODULE DeviceSetup ----------------------------
(* The set-up of USB devices (src/system/kernel/Drivers/USB/OHCI.c): the    *)
(* tree of periodic endpoints (lines 674-701), OHCIInitializeDevice with    *)
(* its control requests, the choice of an address and of a polling list for *)
(* each device, and hubs, whose devices are set up in the middle of it.     *)
(*                                                                          *)
(* A control request is one step, with the outcomes that ControlRequests    *)
(* allows. It goes to an address, not to a device: whoever listens there    *)
(* may take it, and nothing in the code keeps two devices from listening at *)
(* the same address.                                                        *)
EXTENDS Integers, Sequences, FiniteSets

CONSTANTS
    Gadgets,      \* the devices on the bus
    Class,        \* what each of them is
    Interval,     \* the interval at which each wants to be polled
    Packet,       \* the packet sizes that each may put into its descriptor
    Behind,       \* the devices at the ports of each, if it is a hub
    RootPorts,    \* the devices at the ports of the controller
    MaxDevices,   \* USB_MAX_DEVICES
    MaxTroubles,  \* bound on requests that are not answered although they could be
    Patient       \* whether every device answers within 100 ms

Classes == {"HID", "OtherHID", "Hub", "MassStorage", "Vendor"}

(* MaxPacketSize is a byte; USB knows no size below 8, but a descriptor may *)
(* say 0. (The descriptors of a request are too few for sizes from 1 to 4.) *)
PacketSizes == {0} \cup 8 .. 255

ASSUME GadgetsAssumption ==
    /\ IsFiniteSet(Gadgets)
    /\ Class \in [Gadgets -> Classes] /\ Interval \in [Gadgets -> 0 .. 255]
    /\ Packet \in [Gadgets -> (SUBSET PacketSizes) \ {{}}]
    /\ Behind \in [Gadgets -> Seq(Gadgets)] /\ RootPorts \in Seq(Gadgets)
    /\ MaxDevices \in Nat \ {0} /\ MaxTroubles \in Nat /\ Patient \in BOOLEAN

(* A device on the bus is at a port of the controller or of a hub on it.    *)
ASSUME BusIsConnected ==
    \A S \in SUBSET Gadgets :
        /\ \A n \in DOMAIN RootPorts : RootPorts[n] \in S
        /\ \A g \in S : Class[g] = "Hub" => \A n \in DOMAIN Behind[g] : Behind[g][n] \in S
        => S = Gadgets

Devices == 0 .. MaxDevices - 1
None == "None"

VARIABLES
    listens,      \* the bus: the address each device answers at, or Silent
    halted,       \* the control endpoint is halted
    troubles,
    NextED,       \* the links of the periodic endpoints
    Device,       \* gOHCI.Devices
    step,         \* step of OHCIInitializeDevice
    current,      \* the device it works on, the packet size it was told, and
                  \* whether the hub's port has power
    loops,        \* the loops over ports around it, the innermost first
    honest,       \* history: every request that succeeded brought its data
    shared,       \* history: the devices that took one SET_ADDRESS together
    abandoned     \* history: the addresses that were given in vain

busVars == <<listens, halted, troubles, honest>>
setupVars == <<busVars, NextED, Device, step, current, loops, shared, abandoned>>

Silent == -1

-----------------------------------------------------------------------------
(* The tree of periodic endpoints: 16, 8, 4, 2 and 1 of them in five rows,  *)
(* then one for each HID device.                                            *)

Null == -1
EDOf(device) == 31 + device
EDs == 0 .. 30 + MaxDevices

BIT(n, i) == (i \div 2 ^ n) % 2

Row1Index(i) == BIT(0, i) * 8 + BIT(1, i) * 4 + BIT(2, i) * 2 + BIT(3, i)
Row2Index(i) == BIT(0, i) * 4 + BIT(1, i) * 2 + BIT(2, i) + 16
Row3Index(i) == BIT(0, i) * 2 + BIT(1, i) + 16 + 8

Row4Index(i) == BIT(0, i) + 16 + 8 + 4
Row5Index == 16 + 8 + 4 + 2

(* The 32 turns that reach an endpoint all write the same link into it.     *)
LinkAfter(ed) ==
    CASE ed \in 0 .. 15  -> Row2Index(CHOOSE i \in 0 .. 31 : Row1Index(i) = ed)
      [] ed \in 16 .. 23 -> Row3Index(CHOOSE i \in 0 .. 31 : Row2Index(i) = ed)
      [] ed \in 24 .. 27 -> Row4Index(CHOOSE i \in 0 .. 31 : Row3Index(i) = ed)
      [] ed \in 28 .. 29 -> Row5Index
      [] OTHER           -> Null

(* Mutant: a device is polled half as often as it asks for.                 *)
RowOfHalfInterval(interval) ==
    CASE interval >= 8 -> Row1Index(31)
      [] interval \in 4 .. 7 -> Row2Index(31)
      [] interval \in 2 .. 3 -> Row3Index(31)
      [] interval = 1 -> Row4Index(31)
      [] interval = 0 -> Row2Index(31)

(* Period16MSIndex to Period1MSIndex keep what the last turn has stored.    *)
RowOf(interval) ==
    CASE interval >= 16 -> Row1Index(31)
      [] interval \in 8 .. 15 -> Row2Index(31)
      [] interval \in 4 .. 7 -> Row3Index(31)
      [] interval \in 2 .. 3 -> Row4Index(31)
      [] interval = 1 -> Row5Index
      [] interval = 0 -> Row2Index(31)

(* The endpoints the controller comes by in frame i, which begins at        *)
(* HCCABase->EndpointDescriptors[i].                                        *)
PolledIn(i) ==
    LET reached[n \in 0 .. 4 + MaxDevices] ==
            IF n = 0 THEN {Row1Index(i)}
            ELSE LET before == reached[n - 1]
                 IN  before \cup ({NextED[ed] : ed \in before} \ {Null})
    IN  reached[4 + MaxDevices]

(* The devices that something is linked to.                                 *)
Visible == {d \in Devices : \E ed \in EDs : NextED[ed] = EDOf(d)}

-----------------------------------------------------------------------------
(* Control requests *)

Requests == INSTANCE ControlRequests WITH Alone <- FALSE, busy <- FALSE, outcome <- None

Listeners(address) == {g \in Gadgets : listens[g] = address}

(* Nothing but its own end completes a request.                             *)
Alone == Patient /\ Visible = {}

(* Until a request has not been answered, none has been left behind.        *)
Left == troubles > 0 /\ ~ Alone

(* What can become of a request to an address: who takes it, and whether    *)
(* and from whom its data arrives before the return. Without a listener     *)
(* there is no answer. A device that reports can complete it early.         *)
Replies(address) ==
    {r \in [outcome : Requests!Outcomes(halted, Alone),
            took : SUBSET Listeners(address), from : Listeners(address) \cup {None}] :
        /\ r.from \in r.took \cup {None}
        /\ r.outcome = "Answered" => r.from # None
        /\ halted => r.took = {}
        /\ r.outcome = "Early" => Left \/ Visible # {}
        /\ r.outcome # "Answered" =>
              troubles < MaxTroubles \/ halted \/ Listeners(address) = {}}

Succeeded(r) == r.outcome # "TimedOut"

(* What a request does to the endpoint.                                     *)
Sent(r, hasData) ==
    /\ halted' \in Requests!HaltedAfter(halted, r.outcome, Alone)
    /\ r.outcome = "Answered" /\ ~ Left => ~ halted'
    /\ troubles' = IF r.outcome = "Answered" \/ halted THEN troubles ELSE troubles + 1
    /\ honest' = (honest /\ (hasData /\ Succeeded(r) => r.from # None))

(* What is left of a request that has returned meets an error.              *)
LateError ==
    /\ ~ halted /\ Left
    /\ halted' = TRUE
    /\ UNCHANGED <<listens, troubles, honest, NextED, Device, step, current, loops, shared, abandoned>>

(* The packet size in a descriptor's buffer: cleared before the request,    *)
(* then what the device put there.                                          *)
PacketSizeIn(r) == IF r.from = None THEN {0} ELSE Packet[r.from]

(* A data stage is divided into packets.                                    *)
DivideByZero ==
    step' = "Panic" /\ UNCHANGED <<busVars, NextED, Device, current, loops, shared, abandoned>>

-----------------------------------------------------------------------------

Unused == [Active |-> FALSE, FunctionAddress |-> 0, packet |-> 0, Interface |-> None,
           InterfaceClass |-> None, TransferDescriptor |-> Null, Interval |-> 0]

SetupInit(ports) ==
    /\ listens = [g \in Gadgets |-> IF \E n \in DOMAIN ports : ports[n] = g
                                    THEN 0 ELSE Silent]
    /\ halted = FALSE /\ troubles = 0
    /\ NextED = [ed \in EDs |-> LinkAfter(ed)]
    /\ Device = [d \in Devices |-> [Unused EXCEPT !.Active = d = 0]]
    /\ step = "NextPort"
    /\ current = [device |-> 0, packet |-> 0, power |-> FALSE]
    /\ loops = <<[hub |-> 0, ports |-> ports, unpowered |-> <<>>]>>
    /\ honest = TRUE
    /\ shared = {} /\ abandoned = {}

(* A port of the controller with a device at it.                            *)
NextRootPort ==
    /\ step = "NextPort" /\ loops # <<>> /\ Head(loops).hub = 0 /\ Head(loops).ports # <<>>
    /\ loops' = [loops EXCEPT ![1].ports = Tail(@)]
    /\ step' = "Describe"
    /\ UNCHANGED <<busVars, NextED, Device, current, shared, abandoned>>

(* A port of a hub, which is asked for its status.                          *)
NextHubPort ==
    /\ step = "NextPort" /\ loops # <<>> /\ Head(loops).hub # 0 /\ Head(loops).ports # <<>>
    /\ LET address == Device[Head(loops).hub].FunctionAddress
       IN  \E r \in Replies(address) :
              /\ Sent(r, TRUE)
              /\ IF r.from # None /\ listens[Head(Head(loops).ports)] # Silent
                 THEN step' = "Describe" ELSE step' = "NextPort"
    /\ loops' = [loops EXCEPT ![1].ports = Tail(@)]
    /\ UNCHANGED <<listens, NextED, Device, current, shared, abandoned>>

(* The hub answers while the reset goes on, for which 1 ms is short: the    *)
(* port is not enabled yet, and passed by.                                  *)
PortNotEnabledYet ==
    /\ step = "NextPort" /\ loops # <<>> /\ Head(loops).hub # 0 /\ Head(loops).ports # <<>>
    /\ ~ halted /\ Listeners(Device[Head(loops).hub].FunctionAddress) # {}
    /\ troubles < MaxTroubles /\ troubles' = troubles + 1
    /\ loops' = [loops EXCEPT ![1].ports = Tail(@)]
    /\ UNCHANGED <<listens, halted, honest, NextED, Device, step, current, shared, abandoned>>

PortsDone ==
    /\ step = "NextPort" /\ loops # <<>> /\ Head(loops).ports = <<>>
    /\ loops' = Tail(loops)
    /\ step' = IF Tail(loops) = <<>> THEN "Done" ELSE "NextPort"
    /\ Device' = IF Head(loops).hub = 0 THEN Device
                 ELSE [Device EXCEPT ![Head(loops).hub].InterfaceClass = "Hub"]
    /\ UNCHANGED <<busVars, NextED, current, shared, abandoned>>

-----------------------------------------------------------------------------
(* OHCIInitializeDevice *)

(* Mutant of IsFree: a slot is free until an interface is known.            *)
IsFreeWithoutInterface(d) == d # 0 /\ Device[d].Interface = None

IsFree(d) == ~ Device[d].Active

(* The first descriptor, and the choice of an address.                      *)
Describe ==
    /\ step = "Describe"
    /\ \E r \in Replies(0) : \E size \in PacketSizeIn(r) :
          /\ Sent(r, TRUE)
          /\ IF Succeeded(r) /\ \E d \in Devices : IsFree(d)
             THEN /\ step' = "SetAddress"
                  /\ current' = [current EXCEPT
                         !.device = CHOOSE d \in Devices :
                                       IsFree(d) /\ \A e \in 0 .. d - 1 : ~ IsFree(e),
                         !.packet = size]
             ELSE step' = "NextPort" /\ UNCHANGED current
    /\ UNCHANGED <<listens, NextED, Device, loops, shared, abandoned>>

SetAddress ==
    /\ step = "SetAddress"
    /\ \E r \in Replies(0) :
          /\ Sent(r, FALSE)
          /\ listens' = [g \in Gadgets |-> IF g \in r.took THEN current.device ELSE listens[g]]
          /\ shared' = shared \cup IF Cardinality(r.took) > 1 THEN {r.took} ELSE {}
          /\ IF Succeeded(r) THEN step' = "Verify" /\ UNCHANGED abandoned
             ELSE step' = "NextPort" /\ abandoned' = abandoned \cup {current.device}
    /\ UNCHANGED <<NextED, Device, current, loops>>

(* Mutant of Entered: the device becomes active when its set-up is over.    *)
EnteredInactive(slot, size) ==
    [slot EXCEPT !.packet = size, !.FunctionAddress = current.device]

(* "We can talk to the device on the new address": it is active, long       *)
(* before its interface is known.                                           *)
Entered(slot, size) ==
    [slot EXCEPT !.Active = TRUE, !.packet = size, !.FunctionAddress = current.device]

Verify ==
    /\ step = "Verify"
    /\ IF current.packet = 0 THEN DivideByZero
       ELSE /\ \E r \in Replies(current.device) : \E size \in PacketSizeIn(r) :
                  /\ Sent(r, TRUE)
                  /\ IF Succeeded(r)
                     THEN /\ step' = "ProductString"
                          /\ Device' = [Device EXCEPT ![current.device] = Entered(@, size)]
                          /\ UNCHANGED abandoned
                     ELSE /\ step' = "NextPort"
                          /\ abandoned' = abandoned \cup {current.device}
                          /\ UNCHANGED Device
            /\ UNCHANGED <<listens, NextED, current, loops, shared>>

Address == Device[current.device].FunctionAddress

(* OHCIDeviceGetString, whose result is not looked at.                      *)
ProductString ==
    /\ step = "ProductString"
    /\ IF Device[current.device].packet = 0 THEN DivideByZero
       ELSE /\ \E r \in Replies(Address) : Sent(r, TRUE)
            /\ step' = "ManufacturerString"
            /\ UNCHANGED <<listens, NextED, Device, current, loops, shared, abandoned>>

ManufacturerString ==
    /\ step = "ManufacturerString"
    /\ \E r \in Replies(Address) : Sent(r, TRUE)
    /\ step' = "Configuration"
    /\ UNCHANGED <<listens, NextED, Device, current, loops, shared, abandoned>>

Detected == {"HID", "Hub", "MassStorage"}

(* The interface is what the buffer says; a buffer that stayed empty says   *)
(* class 0.                                                                 *)
Configuration ==
    /\ step = "Configuration"
    /\ \E r \in Replies(Address) :
          /\ Sent(r, TRUE)
          /\ IF Succeeded(r)
             THEN LET class == IF r.from = None THEN "Vendor" ELSE Class[r.from]
                      wish == IF r.from = None THEN 0 ELSE Interval[r.from]
                  IN  /\ Device' = [Device EXCEPT ![current.device].Interface = class,
                                                  ![current.device].Interval = wish]
                      /\ step' = IF class \in Detected THEN class ELSE "NextPort"
             ELSE step' = "NextPort" /\ UNCHANGED Device
    /\ UNCHANGED <<listens, NextED, current, loops, shared, abandoned>>

DetectMassStorageDevice ==
    /\ step = "MassStorage"
    /\ Device' = [Device EXCEPT ![current.device].InterfaceClass = "MassStorage"]
    /\ step' = "NextPort"
    /\ UNCHANGED <<busVars, NextED, current, loops, shared, abandoned>>

-----------------------------------------------------------------------------
(* OHCIDetectHIDDevice *)

(* SET_CONFIGURATION, whose result is not looked at; then the endpoint and  *)
(* its descriptors, which nobody else can see yet.                          *)
DetectHIDDevice ==
    /\ step = "HID"
    /\ \E r \in Replies(Address) : Sent(r, FALSE)
    /\ Device' = [Device EXCEPT ![current.device].InterfaceClass = "HID",
                                ![current.device].TransferDescriptor = current.device]
    /\ step' = "LinkAfterRow"
    /\ UNCHANGED <<listens, NextED, current, loops, shared, abandoned>>

(* Mutant of LinkOf: the row's first link, without the devices before.      *)
LinkOfEmptyRow(row) == LinkAfter(row)

LinkOf(row) == NextED[row]

Row == RowOf(Device[current.device].Interval)

LinkAfterRow ==
    /\ step = "LinkAfterRow"
    /\ NextED' = [NextED EXCEPT ![EDOf(current.device)] = LinkOf(Row)]
    /\ step' = "LinkIntoRow"
    /\ UNCHANGED <<busVars, Device, current, loops, shared, abandoned>>

(* From here on the controller polls the device.                            *)
LinkIntoRow ==
    /\ step = "LinkIntoRow"
    /\ NextED' = [NextED EXCEPT ![Row] = EDOf(current.device)]
    /\ step' = "NextPort"
    /\ UNCHANGED <<busVars, Device, current, loops, shared, abandoned>>

-----------------------------------------------------------------------------
(* OHCIDetectHubDevice: the ports of the hub, if its descriptor arrives,    *)
(* are powered and reset one after the other, before any of them is set up. *)

DetectHubDevice ==
    /\ step = "Hub"
    /\ \E r \in Replies(Address) :
          LET ports == IF r.from = None THEN <<>> ELSE Behind[r.from]
          IN  /\ Sent(r, TRUE)
              /\ loops' = <<[hub |-> current.device, ports |-> ports,
                             unpowered |-> ports]>> \o loops
              /\ step' = IF ports = <<>> THEN "NextPort" ELSE "PowerPort"
    /\ UNCHANGED <<listens, NextED, Device, current, shared, abandoned>>

PowerPort ==
    /\ step = "PowerPort"
    /\ \E r \in Replies(Address) :
          /\ Sent(r, FALSE)
          /\ current' = [current EXCEPT !.power = r.took # {}]
    /\ step' = "ResetPort"
    /\ UNCHANGED <<listens, NextED, Device, loops, shared, abandoned>>

(* A port with power that is reset has a device at address 0.               *)
ResetPort ==
    /\ step = "ResetPort"
    /\ \E r \in Replies(Address) :
          /\ Sent(r, FALSE)
          /\ listens' = [listens EXCEPT ![Head(Head(loops).unpowered)] =
                            IF current.power /\ r.took # {} THEN 0 ELSE @]
    /\ loops' = [loops EXCEPT ![1].unpowered = Tail(@)]
    /\ step' = IF loops'[1].unpowered = <<>> THEN "NextPort" ELSE "PowerPort"
    /\ UNCHANGED <<NextED, Device, current, shared, abandoned>>

SetupNext ==
    \/ NextRootPort \/ NextHubPort \/ PortNotEnabledYet \/ PortsDone
    \/ Describe \/ SetAddress \/ Verify
    \/ ProductString \/ ManufacturerString \/ Configuration \/ LateError
    \/ DetectMassStorageDevice \/ DetectHIDDevice \/ LinkAfterRow \/ LinkIntoRow
    \/ DetectHubDevice \/ PowerPort \/ ResetPort

-----------------------------------------------------------------------------
(* Properties *)

(* Two devices listen at one address (other than 0) only if they took it    *)
(* from the same request, both being in their default state (lines 633-655  *)
(* and 998-1004 put all of them there at once), or if it had been given in  *)
(* vain: a device that took its address and did not verify it leaves its    *)
(* slot free for the next (lines 736-769).                                  *)
AddressIsOwn ==
    \A g, h \in Gadgets :
        g # h /\ listens[g] = listens[h] /\ listens[g] \notin {Silent, 0}
        => listens[g] \in abandoned \/ \E S \in shared : {g, h} \subseteq S

(* Whatever the loop of OHCIInterruptHandler (lines 1218-1241) reads through *)
(* the null Interface of an active device, the report of an endpoint that   *)
(* the controller polls is found to be of its device and no other.          *)
ReportsFindTheirDevice ==
    \A d \in Visible : \A read \in {"HID", None} :
        LET class(e) == IF Device[e].Interface = None THEN read ELSE Device[e].Interface
            found == {e \in Devices : /\ Device[e].Active
                                      /\ class(e) \in {"HID", "OtherHID"}
                                      /\ Device[e].TransferDescriptor = d}
        IN  found = {d} /\ Device[d].InterfaceClass = "HID"

(* A device that is polled is polled at least as often as it asks for, every *)
(* 8 ms if it does not say and every 16 ms if it asks for less, whatever is *)
(* linked into the tree after it.                                           *)
PolledOnTime ==
    \A d \in Visible :
        LET wish == CASE Device[d].Interval = 0 -> 8
                      [] Device[d].Interval > 16 -> 16
                      [] OTHER -> Device[d].Interval
            frames == {i \in 0 .. 31 : EDOf(d) \in PolledIn(i)}
        IN  \A i \in 0 .. 31 : \E k \in 0 .. wish - 1 : (i + k) % 32 \in frames

(* Set-up misses no keyboard or mouse, hubs within it or not, as long as    *)
(* every request is answered and every SET_ADDRESS taken by one device;     *)
(* but for the last ones, and those behind them, when there are no          *)
(* addresses left.                                                          *)
EveryDeviceIsFound ==
    /\ step = "Done" /\ troubles = 0 /\ shared = {}
    /\ \E g \in Gadgets : listens[g] # Silent
    => \A g \in Gadgets : Class[g] = "HID" =>
           \/ listens[g] \in Visible
           \/ listens[g] \in {0, Silent} /\ \A d \in Devices : Device[d].Active
=============================================================================
