------------------------------ MODULE Startup ------------------------------
(* The boot order (src/system/StartKernel.c, main), from the first line the *)
(* kernel prints to its prompt: descriptor tables                           *)
(* (GlobalDescriptorTable.c, TaskStateSegment.c, InterruptDescriptorTable.c),*)
(* interrupt controllers and timer (ProgrammableIntervalTimer.c), the scan  *)
(* of PCI devices (PCI.c) and the start of each OHCI controller             *)
(* (InitializeUSBController), which ends in the set-up of its devices,      *)
(* module DeviceSetup. Interrupts are on all the while: printing turns them *)
(* on (EnableInterrupts), under the tables of the firmware at first.        *)
(*                                                                          *)
(* An interrupt that is served changes nothing here; only those that find   *)
(* no handler, or a handler that does not find its controller or meets a    *)
(* null pointer, are steps.                                                 *)
EXTENDS DeviceSetup

CONSTANTS
    Layouts,        \* the machines: what each has on PCI bus 0
    PCIDevices,     \* PCI_MAX_DEVICES: the scan has that many turns
    Populated,      \* those whose first controller has the devices of RootPorts
    FirmwareCS,     \* the selector in the gates of the firmware
    Others          \* the inputs that other hardware may raise

(* PCI has three header layouts, and bit 7 of the header type says whether  *)
(* there are more functions; an IRQLine is an input, or 255 for none.       *)
HeaderTypes == 0 .. 2 \cup 128 .. 130
IRQLines    == 0 .. 15 \cup {255}

(* A machine is a sequence of functions, each with its device and function  *)
(* number, the header type of its device, its kind, its IRQLine, and        *)
(* whether bit 0 of its base address is clear.                              *)
ASSUME LayoutsAssumption ==
    /\ \A l \in Layouts :
          /\ l \in Seq([device : 0 .. PCIDevices - 1, function : 0 .. 7,
                        HeaderType : HeaderTypes, kind : {"OHCI", "Other"},
                        IRQLine : IRQLines, aligned : BOOLEAN])
          /\ \A n, k \in DOMAIN l :
                l[n].device = l[k].device /\ l[n].function = l[k].function => n = k
    /\ PCIDevices \in Nat
    /\ Populated \subseteq Layouts /\ FirmwareCS \in Nat /\ Others \subseteq 0 .. 15

VARIABLES
    layout,
    pc,              \* where main is
    InterruptFlag,
    gGDTEntries,     \* the entries pushed
    tables,          \* whose tables the processor uses
    gIDTEntries,     \* the handler of each gate that is present
    PIC,             \* both controllers: their open inputs, vectors, and whether
                     \* they are in the middle of their initialisation
    writes,          \* writes to them made
    scan,            \* the device and function under examination
    gOHCIRegisters,
    live,            \* the functions that may interrupt
    started,         \* history: the functions initialised, in order
    unserved,        \* history: interrupts whose handler looked at other registers
    crash            \* history: the interrupt that stopped the kernel

tableVars  == <<InterruptFlag, gGDTEntries, tables, gIDTEntries>>
picVars    == <<PIC, writes>>
driverVars == <<scan, gOHCIRegisters, live, started>>
crashVars  == <<layout, unserved, crash>>
kernelVars == <<pc, tableVars, picVars, driverVars, crashVars>>
vars == <<kernelVars, setupVars>>

NoFunction == 0
Stopped == {"Panic", "Crash"}
NoCrash == [at |-> None, irq |-> 0, handler |-> None, through |-> None]

Init ==
    /\ layout \in Layouts
    /\ pc = "FirstPrint" /\ InterruptFlag \in BOOLEAN
    /\ gGDTEntries = <<>>
    /\ tables = [gdt |-> "Firmware", idt |-> "Firmware"]
    /\ gIDTEntries = [vector \in {} |-> None]
    /\ \E open \in SUBSET (0 .. 15 \cap (Others \cup {0})) :
          PIC = [master |-> [open |-> (open \cap 0 .. 7) \cup {2}, vector |-> 104,
                             init |-> FALSE],
                 slave |-> [open |-> {i \in 0 .. 7 : i + 8 \in open}, vector |-> 112,
                            init |-> FALSE]]
    /\ writes = 0
    /\ scan = [device |-> 0, function |-> 0]
    /\ gOHCIRegisters = NoFunction
    /\ live \in {{}, {n \in DOMAIN layout : layout[n].kind = "OHCI"}}
    /\ started = <<>>
    /\ unserved = {} /\ crash = NoCrash
    /\ SetupInit(IF layout \in Populated THEN RootPorts ELSE <<>>)

-----------------------------------------------------------------------------
(* main, up to InitializeInterruptDescriptorTable                           *)

(* The pair of DisableInterrupts and EnableInterrupts in PrintLine.         *)
FirstPrint ==
    /\ pc = "FirstPrint" /\ pc' = "PushEntries"
    /\ InterruptFlag' = TRUE
    /\ UNCHANGED <<gGDTEntries, tables, gIDTEntries, picVars, driverVars, crashVars, setupVars>>

MAX_GDT_ENTRIES == 5

(* What InitializeGlobalDescriptorTable pushes.                             *)
Entries == <<"Null", "Code", "Data", "TSS", "TSSHigh">>

(* PushGlobalDescriptorTableEntry returns the offset of the entry.          *)
Offset(entry) == 8 * ((CHOOSE n \in DOMAIN gGDTEntries : gGDTEntries[n] = entry) - 1)

PushEntry ==
    /\ pc = "PushEntries"
    /\ IF Len(gGDTEntries) = Len(Entries)
       THEN pc' = "lgdt" /\ UNCHANGED gGDTEntries
       ELSE IF Len(gGDTEntries) >= MAX_GDT_ENTRIES
       THEN pc' = "Panic" /\ UNCHANGED gGDTEntries
       ELSE /\ gGDTEntries' = Append(gGDTEntries, Entries[Len(gGDTEntries) + 1])
            /\ UNCHANGED pc
    /\ UNCHANGED <<InterruptFlag, tables, gIDTEntries, picVars, driverVars, crashVars, setupVars>>

(* The descriptor a selector selects.                                       *)
Selected(selector) ==
    IF tables.gdt = "Firmware" THEN IF selector = FirmwareCS THEN "Code" ELSE None
    ELSE IF selector \div 8 < Len(gGDTEntries) THEN gGDTEntries[selector \div 8 + 1]
    ELSE None

(* A selector of the wrong sort is a fault without a handler.               *)
Load(selector, sort, next) ==
    pc' = IF Selected(selector) = sort THEN next ELSE "Crash"

LoadGDT ==
    /\ pc = "lgdt" /\ pc' = "DataSelectors"
    /\ tables' = [tables EXCEPT !.gdt = "Kernel"]
    /\ UNCHANGED <<InterruptFlag, gGDTEntries, gIDTEntries, picVars, driverVars, crashVars,
                   setupVars>>

LoadSelectors ==
    /\ \/ pc = "DataSelectors" /\ Load(16, "Data", "CodeSelector")
       \/ pc = "CodeSelector" /\ Load(8, "Code", "TaskRegister")
       \/ pc = "TaskRegister" /\ Load(24, "TSS", "Gates")
    /\ UNCHANGED <<tableVars, picVars, driverVars, crashVars, setupVars>>

INTERRUPT_IRQ0 == 32

(* The table is filled before it is loaded.                                 *)
SetGates ==
    /\ pc = "Gates" /\ pc' = "lidt"
    /\ gIDTEntries' = [vector \in {0, 8, 13, 14, INTERRUPT_IRQ0} |->
                          IF vector = INTERRUPT_IRQ0 THEN "irq0" ELSE "ExceptionHandler"]
    /\ UNCHANGED <<InterruptFlag, gGDTEntries, tables, picVars, driverVars, crashVars, setupVars>>

LoadIDT ==
    /\ pc = "lidt" /\ pc' = "PIC"
    /\ tables' = [tables EXCEPT !.idt = "Kernel"]
    /\ InterruptFlag' = TRUE
    /\ UNCHANGED <<gGDTEntries, gIDTEntries, picVars, driverVars, crashVars, setupVars>>

-----------------------------------------------------------------------------
(* EnableProgrammableIntervalTimer                                          *)

Write(chip, register, value) == [chip |-> chip, register |-> register, value |-> value]

(* Mutant of PICWrites: the vectors are the ones a PC starts with.          *)
PICWritesWithOldVectors ==
    <<Write("master", "ICW1", 0),  Write("slave", "ICW1", 0),
      Write("master", "ICW2", 8),  Write("slave", "ICW2", 112),
      Write("master", "ICW4", 0),  Write("slave", "ICW4", 0),
      Write("master", "Open", {0}), Write("slave", "Open", {})>>

PICWrites ==
    <<Write("master", "ICW1", 0),  Write("slave", "ICW1", 0),
      Write("master", "ICW2", 32), Write("slave", "ICW2", 40),
      Write("master", "ICW4", 0),  Write("slave", "ICW4", 0),
      Write("master", "Open", {0}), Write("slave", "Open", {})>>

(* What a write does to a controller: the first of the initialisation opens *)
(* all of its inputs, the last ends it.                                     *)
Written(chip, register, value) ==
    CASE register = "ICW1" -> [chip EXCEPT !.open = 0 .. 7, !.init = TRUE]
      [] register = "ICW2" -> [chip EXCEPT !.vector = value]
      [] register = "ICW4" -> [chip EXCEPT !.init = FALSE]
      [] register = "Open" -> [chip EXCEPT !.open = value]

WritePIC ==
    /\ pc = "PIC"
    /\ LET w == PICWrites[writes + 1]
       IN  PIC' = [PIC EXCEPT ![w.chip] = Written(@, w.register, w.value)]
    /\ writes' = writes + 1
    /\ pc' = IF writes' = Len(PICWrites) THEN "Scan" ELSE "PIC"
    /\ UNCHANGED <<tableVars, driverVars, crashVars, setupVars>>

Unmasked(irq) ==
    IF irq < 8 THEN irq \in PIC.master.open /\ ~ PIC.master.init
    ELSE irq - 8 \in PIC.slave.open /\ 2 \in PIC.master.open
         /\ ~ PIC.master.init /\ ~ PIC.slave.init

(* SleepMS returns.                                                         *)
ClockRuns == Unmasked(0) /\ gIDTEntries[INTERRUPT_IRQ0] = "irq0"

-----------------------------------------------------------------------------
(* ScanPCIBus                                                               *)

Function(device, function) ==
    {n \in DOMAIN layout : layout[n].device = device /\ layout[n].function = function}

(* Mutant of Flagged: the bit that says so.                                 *)
FlaggedByBit7(HeaderType) == BIT(7, HeaderType) = 1

(* Whether the header type is taken for that of a device with more          *)
(* functions.                                                               *)
Flagged(HeaderType) == BIT(6, HeaderType) = 1

NextDevice(device) == [device |-> device + 1, function |-> 0]

(* The function examined next; functions 1 to 7 are counted, and function 0 *)
(* is read each time.                                                       *)
After(n) ==
    IF (scan.function > 0 \/ Flagged(layout[n].HeaderType)) /\ scan.function < 7
    THEN [scan EXCEPT !.function = @ + 1]
    ELSE NextDevice(scan.device)

Current == CHOOSE n \in Function(scan.device, 0) : TRUE

(* A device that does not exist is passed by.                               *)
ScanPCIDevice ==
    /\ pc = "Scan"
    /\ IF scan.device = PCIDevices THEN pc' = "Prompt" /\ UNCHANGED scan
       ELSE IF Function(scan.device, 0) = {} THEN scan' = NextDevice(scan.device) /\ UNCHANGED pc
       ELSE IF layout[Current].kind # "OHCI" THEN scan' = After(Current) /\ UNCHANGED pc
       ELSE /\ pc' = IF layout[Current].aligned THEN "Gate" ELSE "Panic"
            /\ UNCHANGED scan
    /\ UNCHANGED <<tableVars, picVars, gOHCIRegisters, live, started, crashVars, setupVars>>

-----------------------------------------------------------------------------
(* InitializeUSBController                                                  *)

Line == layout[Current].IRQLine

MAX_IDT_ENTRIES == 256

SetDriverGate ==
    /\ pc = "Gate"
    /\ IF INTERRUPT_IRQ0 + Line >= MAX_IDT_ENTRIES
       THEN pc' = "Panic" /\ UNCHANGED gIDTEntries
       ELSE /\ gIDTEntries' = [vector \in DOMAIN gIDTEntries \cup {INTERRUPT_IRQ0 + Line} |->
                 IF vector = INTERRUPT_IRQ0 + Line THEN "OHCI" ELSE gIDTEntries[vector]]
            /\ pc' = IF Line >= 8 THEN "UnmaskSlave" ELSE "UnmaskMaster"
    /\ UNCHANGED <<InterruptFlag, gGDTEntries, tables, picVars, driverVars, crashVars, setupVars>>

(* Mutant of Opened: the mask is written anew.                              *)
OpenedAlone(open, input) == {input}

(* A bit of the mask that was read is cleared.                              *)
Opened(open, input) == open \cup {input}

UnmaskPIC ==
    /\ \/ /\ pc = "UnmaskSlave" /\ pc' = "UnmaskMaster"
          /\ PIC' = [PIC EXCEPT !.slave.open = Opened(@, Line - 8)]
       \/ /\ pc = "UnmaskMaster" /\ pc' = "Registers"
          /\ PIC' = [PIC EXCEPT !.master.open = Opened(@, IF Line >= 8 THEN 2 ELSE Line)]
    /\ UNCHANGED <<tableVars, writes, driverVars, crashVars, setupVars>>

(* Mutant of Registers: those of the first controller are kept.             *)
RegistersOfFirst(n) == IF gOHCIRegisters = NoFunction THEN n ELSE gOHCIRegisters

Registers(n) == n

SetRegisters ==
    /\ pc = "Registers" /\ pc' = "Reset"
    /\ gOHCIRegisters' = Registers(Current)
    /\ UNCHANGED <<tableVars, picVars, scan, live, started, crashVars, setupVars>>

(* The controller stops interrupting; a wrong revision, a reset that does   *)
(* not end or registers without their defaults are panics. It takes sleep.  *)
ResetController ==
    /\ pc = "Reset" /\ ClockRuns
    /\ pc' \in {"Enable", "Panic"}
    /\ live' = live \ {gOHCIRegisters}
    /\ UNCHANGED <<tableVars, picVars, scan, gOHCIRegisters, started, crashVars, setupVars>>

(* Memory is laid out and the interrupts are enabled.                       *)
EnableController ==
    /\ pc = "Enable" /\ pc' = "Devices"
    /\ live' = live \cup {gOHCIRegisters}
    /\ started' = Append(started, Current)
    /\ UNCHANGED <<tableVars, picVars, scan, gOHCIRegisters, crashVars, setupVars>>

(* The devices are those of the first controller; another has none.         *)
SetUpDevices ==
    /\ pc = "Devices" /\ ClockRuns
    /\ SetupNext
    /\ UNCHANGED kernelVars

DevicesDone ==
    /\ pc = "Devices" /\ ClockRuns
    /\ step \in {"Done", "Panic"}
    /\ IF step = "Done" THEN pc' = "Scan" /\ scan' = After(Current)
                        ELSE pc' = "Panic" /\ UNCHANGED scan
    /\ UNCHANGED <<tableVars, picVars, gOHCIRegisters, live, started, crashVars, setupVars>>

-----------------------------------------------------------------------------
(* Interrupts *)

Vector(irq) == IF irq < 8 THEN PIC.master.vector + irq ELSE PIC.slave.vector + irq - 8

(* Who takes the interrupt: in the kernel's table, a vector without a gate  *)
(* ends in the general protection fault.                                    *)
HandlerOf(irq) ==
    IF tables.idt = "Firmware" THEN IF Selected(FirmwareCS) = "Code" THEN "Firmware" ELSE None
    ELSE IF Selected(Offset("Code")) # "Code" THEN None
    ELSE IF Vector(irq) \in DOMAIN gIDTEntries THEN gIDTEntries[Vector(irq)]
    ELSE "ExceptionHandler"

Raised(irq, source) ==
    /\ InterruptFlag /\ pc \notin Stopped /\ Unmasked(irq)
    /\ \/ source = NoFunction /\ irq \in Others \cup {0}
       \/ source \in live /\ layout[source].IRQLine = irq

(* Behind input 2 of the master is the slave.                               *)
Inputs == 0 .. 15 \ {2}
Sources == {NoFunction} \cup DOMAIN layout

(* The exception handlers panic; without a usable gate the processor resets. *)
Stray ==
    /\ \E irq \in Inputs, source \in Sources :
          /\ Raised(irq, source)
          /\ HandlerOf(irq) \in {None, "ExceptionHandler"}
          /\ crash' = [at |-> pc, irq |-> irq, handler |-> HandlerOf(irq), through |-> None]
    /\ pc' = "Crash"
    /\ UNCHANGED <<tableVars, picVars, driverVars, layout, unserved, setupVars>>

(* OHCIInterruptHandler for a source whose registers it does not look at.   *)
Unserved ==
    /\ \E irq \in Inputs, source \in Sources :
          /\ Raised(irq, source) /\ HandlerOf(irq) = "OHCI" /\ source # gOHCIRegisters
          /\ unserved' = unserved \cup {[source |-> source, registers |-> gOHCIRegisters,
                                         started |-> \E n \in DOMAIN started : started[n] = source]}
    /\ UNCHANGED <<pc, tableVars, picVars, driverVars, layout, crash, setupVars>>

(* The null pointer it may read through: gOHCIRegisters at first (line      *)
(* 1197); for a controller that its firmware has left at work, HCCABase, as *)
(* long as none has been started (1200-1202); and, when the done queue of   *)
(* the only one started holds a report, the Interface of device 0, which is *)
(* active and never has one (1218-1220). Nothing is done after a reset.     *)
NullPointers ==
    IF gOHCIRegisters = NoFunction THEN {"gOHCIRegisters"}
    ELSE IF pc = "Enable" THEN {}
    ELSE IF started = <<>> THEN {"HCCABase"}
    ELSE IF Len(started) = 1 /\ Visible # {} THEN {"Interface"}
    ELSE {}

(* Such a read is a fault unless something is mapped there.                 *)
Fault ==
    /\ \E irq \in Inputs, source \in Sources, pointer \in NullPointers :
          /\ Raised(irq, source) /\ HandlerOf(irq) = "OHCI"
          /\ crash' = [at |-> pc, irq |-> irq, handler |-> "OHCI", through |-> pointer]
    /\ pc' = "Crash"
    /\ UNCHANGED <<tableVars, picVars, driverVars, layout, unserved, setupVars>>

Main ==
    \/ FirstPrint \/ PushEntry \/ LoadGDT \/ LoadSelectors \/ SetGates \/ LoadIDT \/ WritePIC
    \/ ScanPCIDevice \/ SetDriverGate \/ UnmaskPIC \/ SetRegisters \/ ResetController
    \/ EnableController \/ SetUpDevices \/ DevicesDone

Next == Main \/ Stray \/ Unserved \/ Fault

(* The foreground goes on: interrupts that are served return.               *)
Spec == Init /\ [][Next]_vars /\ WF_vars(Main)

-----------------------------------------------------------------------------
(* Properties *)

(* What stops the kernel, besides a panic of the code's own: an interrupt   *)
(* that meets a missing gate or another descriptor table, between the       *)
(* loading of the descriptor tables (GlobalDescriptorTable.c:60) and the    *)
(* masks (ProgrammableIntervalTimer.c:17-18), and never later; the handler  *)
(* of the controller, by reading through gOHCIRegisters between the setting *)
(* of its first gate and of its registers (OHCI.c:562-564), through         *)
(* HCCABase before the first controller is started (614), or through the    *)
(* Interface of device 0 (1218-1220), as soon as a device is polled; and,   *)
(* during the set-up of devices, a division by zero (1058), after a request *)
(* that reported success without its data or with a descriptor that says 0. *)
StopsHaveACause ==
    /\ step = "Panic" => ~ honest \/ \E g \in Gadgets : listens[g] # Silent /\ 0 \in Packet[g]
    /\ pc = "Crash" =>
          \/ crash.at \in {"DataSelectors", "CodeSelector", "TaskRegister", "Gates", "lidt", "PIC"}
          \/ /\ crash.through = "gOHCIRegisters"
             /\ crash.at \in {"UnmaskSlave", "UnmaskMaster", "Registers"} /\ started = <<>>
          \/ crash.through = "HCCABase" /\ started = <<>>
          \/ crash.through = "Interface" /\ Visible # {}

(* The interrupt of a controller that the driver has enabled is handled     *)
(* with registers at hand, and with its own unless another controller was   *)
(* found after it: there is one gOHCIRegisters for all of them.             *)
HandlerFindsItsState ==
    \A u \in unserved :
        u.started => /\ u.registers # NoFunction
                     /\ layout[u.registers].device > layout[u.source].device

(* No controller is started twice, and at the prompt each one that is       *)
(* function 0 of its device has been started (PCI.c:119-125).               *)
ControllersAreStartedOnce ==
    /\ \A n, k \in DOMAIN started : n # k => started[n] # started[k]
    /\ pc = "Prompt" =>
          \A n \in DOMAIN layout : layout[n].kind = "OHCI" /\ layout[n].function = 0 =>
              \E k \in DOMAIN started : started[k] = n

(* "If it exists, check other functions if flagged" (PCI.c:120): a          *)
(* controller at another function of a device whose header type says that   *)
(* there are more is started as well.                                       *)
FlaggedFunctionsAreStarted ==
    pc = "Prompt" =>
        \A n \in DOMAIN layout :
            /\ layout[n].kind = "OHCI"
            /\ Function(layout[n].device, 0) # {} /\ FlaggedByBit7(layout[n].HeaderType)
            => \E k \in DOMAIN started : started[k] = n

(* The kernel comes to its prompt unless it stops, with a clock for its     *)
(* sleeps: unless a controller claims the timer's gate (IRQLine 0), or an   *)
(* interrupt that its handler does not acknowledge comes again for ever.    *)
KernelComesUp ==
    <>(\/ pc \in {"Prompt"} \cup Stopped
       \/ unserved # {}
       \/ pc = "Reset" /\ gIDTEntries[INTERRUPT_IRQ0] = "OHCI")
=============================================================================
