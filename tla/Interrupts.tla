---------------------------- MODULE Interrupts ----------------------------
(* Interrupts and time: the nesting of DisableInterrupts and                *)
(* EnableInterrupts, the timer handler, the frame of the USB handler, and   *)
(* SleepMS (src/system/elf_libc.c, src/system/kernel/Interrupts.c,          *)
(* OHCIInterruptHandler), instruction by instruction where an interrupt     *)
(* between two of them could matter.                                        *)
(*                                                                          *)
(* Two interrupt lines are in use: the timer, input 0 of the master PIC,    *)
(* and the USB controller, on the slave, which the master sees as input 2.  *)
(* What the handler does with USB transfers is in OHCITransfers.            *)
EXTENDS Integers, SequencesExt, FiniteSets

CONSTANTS
    MaxDepth,    \* bound: critical sections the foreground nests
    MaxSleep,    \* bound: milliseconds a caller sleeps
    MaxFrames    \* bound: handlers on the stack when the USB controller interrupts

ASSUME BoundsAssumption == {MaxDepth, MaxSleep, MaxFrames} \subseteq Nat \ {0}

VARIABLES
    gInterruptStack,
    InterruptFlag,   \* the processor's IF
    foreground,      \* where the foreground is, and its open critical sections
    frames,          \* the handlers on the stack, the running one last
    TicksToGo,       \* End - TickCount in SleepMS; -1 for anything below 0
    timerRequest,    \* the timer's edge, latched by the master PIC
    usbLine,         \* the level of the USB controller's line
    masterInService, \* the inputs of the master in service
    slaveInService   \* whether the USB controller is in service at the slave

picVars == <<timerRequest, usbLine, masterInService, slaveInService>>
vars == <<gInterruptStack, InterruptFlag, foreground, frames, TicksToGo, picVars>>

Timer   == "Timer"
USB     == "USB"
Input(irq) == IF irq = Timer THEN 0 ELSE 2   \* of the master PIC

Frame(irq, at) == [irq |-> irq, at |-> at]

Init ==
    /\ gInterruptStack = 0
    /\ InterruptFlag = TRUE
    /\ foreground = [at |-> "Run", depth |-> 0]
    /\ frames = <<>>
    /\ TicksToGo = 0
    /\ timerRequest = FALSE /\ usbLine = FALSE
    /\ masterInService = {} /\ slaveInService = FALSE

-----------------------------------------------------------------------------
(* The devices. The timer handler is a few instructions long: the next edge *)
(* comes after it has returned.                                             *)
TimerEdge ==
    /\ \A i \in DOMAIN frames : frames[i].irq # Timer
    /\ timerRequest' = TRUE
    /\ UNCHANGED <<gInterruptStack, InterruptFlag, foreground, frames, TicksToGo, usbLine,
                   masterInService, slaveInService>>

USBEvent ==
    /\ Len(frames) < MaxFrames
    /\ usbLine' = TRUE
    /\ UNCHANGED <<gInterruptStack, InterruptFlag, foreground, frames, TicksToGo, timerRequest,
                   masterInService, slaveInService>>

(* An input is delivered when no input of the same or a higher priority is  *)
(* in service.                                                              *)
Deliverable(irq) ==
    /\ InterruptFlag
    /\ \A i \in masterInService : Input(irq) < i
    /\ irq = Timer => timerRequest
    /\ irq = USB => usbLine /\ ~timerRequest /\ ~slaveInService

(* Mutant: the descriptor is a trap gate, which leaves interrupts enabled.  *)
FlagInHandlerOfTrapGate == TRUE

(* The interrupt gates of SetDriverInterruptDescriptorTableEntry.           *)
FlagInHandler == FALSE

(* The processor takes an interrupt between two instructions. A processor   *)
(* in hlt resumes behind it.                                                *)
TakeInterrupt(irq, first) ==
    /\ Deliverable(irq)
    /\ frames' = Append(frames, Frame(irq, first))
    /\ InterruptFlag' = FlagInHandler
    /\ foreground' = [foreground EXCEPT !.at = IF @ = "Halted" THEN "Compare" ELSE @]
    /\ masterInService' = masterInService \cup {Input(irq)}
    /\ slaveInService' = (slaveInService \/ irq = USB)
    /\ timerRequest' = (timerRequest /\ irq # Timer)
    /\ UNCHANGED <<gInterruptStack, TicksToGo, usbLine>>

TakeTimer == TakeInterrupt(Timer, "EOI")
TakeUSB   == TakeInterrupt(USB, "Raise")

-----------------------------------------------------------------------------
(* Mutant: the count only says whether there is a section.                  *)
RaiseCountAsFlag == gInterruptStack' = 1

(* DisableInterrupts raises the count and then clears the flag, so an       *)
(* interrupt can come in between.                                           *)
RaiseCount == gInterruptStack' = gInterruptStack + 1

(* Mutant: EnableInterrupts forgets that sections nest.                     *)
LastSectionIfAny == TRUE

(* EnableInterrupts lowers the count; only the last section sets the flag.  *)
LastSection == gInterruptStack - 1 = 0

LowerCount == gInterruptStack' = gInterruptStack - 1

(* The foreground runs while no handler does.                               *)
Foreground(from, to) ==
    /\ frames = <<>>
    /\ foreground.at = from
    /\ foreground' = to

At(place)     == [foreground EXCEPT !.at = place]
Deeper(place) == [at |-> place, depth |-> foreground.depth + 1]
Out(place)    == [at |-> place, depth |-> foreground.depth - 1]

DisableInterrupts ==
    /\ foreground.depth < MaxDepth
    /\ Foreground("Run", At("Cli"))
    /\ RaiseCount
    /\ UNCHANGED <<InterruptFlag, frames, TicksToGo, picVars>>

Cli ==
    /\ Foreground("Cli", Deeper("Run"))
    /\ InterruptFlag' = FALSE
    /\ UNCHANGED <<gInterruptStack, frames, TicksToGo, picVars>>

EnableInterrupts ==
    /\ foreground.depth > 0
    /\ Foreground("Run", Out(IF LastSection THEN "Sti" ELSE "Run"))
    /\ LowerCount
    /\ UNCHANGED <<InterruptFlag, frames, TicksToGo, picVars>>

Sti ==
    /\ Foreground("Sti", At("Run"))
    /\ InterruptFlag' = TRUE
    /\ UNCHANGED <<gInterruptStack, frames, TicksToGo, picVars>>

(* SleepMS, which no caller calls in a critical section. The comparison and *)
(* the hlt are two instructions: a tick in between is noticed at the next.  *)
SleepMS ==
    /\ foreground.depth = 0
    /\ Foreground("Run", At("Compare"))
    /\ TicksToGo' \in 1 .. MaxSleep
    /\ UNCHANGED <<gInterruptStack, InterruptFlag, frames, picVars>>

(* Mutant: the comparison is for equality.                                  *)
SleptExactly == TicksToGo = 0

(* Ticks may have gone past End by the time they are compared.              *)
Slept == TicksToGo <= 0

Compare ==
    /\ Foreground("Compare", At(IF Slept THEN "Run" ELSE "Hlt"))
    /\ UNCHANGED <<gInterruptStack, InterruptFlag, frames, TicksToGo, picVars>>

Hlt ==
    /\ Foreground("Hlt", At("Halted"))
    /\ UNCHANGED <<gInterruptStack, InterruptFlag, frames, TicksToGo, picVars>>

-----------------------------------------------------------------------------
(* The running handler goes from one place to the next.                     *)
Handler(irq, from, to) ==
    /\ frames # <<>>
    /\ Last(frames) = Frame(irq, from)
    /\ frames' = Append(Front(frames), Frame(irq, to))
    /\ UNCHANGED foreground

(* OutByte(0x20, 0x20): the master ends its highest input in service.       *)
EndMaster == masterInService' =
    {i \in masterInService : \E j \in masterInService : j < i}

(* iretq restores the flag that was set when the interrupt was taken.       *)
Return(irq) ==
    /\ frames # <<>>
    /\ Last(frames) = Frame(irq, "Return")
    /\ frames' = Front(frames)
    /\ InterruptFlag' = TRUE
    /\ UNCHANGED <<gInterruptStack, foreground, TicksToGo, picVars>>

(* Mutant: the handler never ends its interrupt.                            *)
TimerEOIMissing ==
    /\ Handler(Timer, "EOI", "Count")
    /\ UNCHANGED <<gInterruptStack, InterruptFlag, TicksToGo, picVars>>

TimerEOI ==
    /\ Handler(Timer, "EOI", "Count")
    /\ EndMaster
    /\ UNCHANGED <<gInterruptStack, InterruptFlag, TicksToGo, timerRequest, usbLine, slaveInService>>

CountTick ==
    /\ Handler(Timer, "Count", "Return")
    /\ TicksToGo' = IF TicksToGo >= 0 THEN TicksToGo - 1 ELSE -1
    /\ UNCHANGED <<gInterruptStack, InterruptFlag, picVars>>

(* The USB handler opens a section, the calls it may make open one inside   *)
(* it (memcpy, the Printf family), and it acknowledges what it has seen.    *)
USBDisable ==
    /\ Handler(USB, "Raise", "Nested")
    /\ RaiseCount
    /\ InterruptFlag' = FALSE
    /\ UNCHANGED <<TicksToGo, picVars>>

USBNestedDisable ==
    /\ Handler(USB, "Nested", "NestedEnd")
    /\ RaiseCount
    /\ InterruptFlag' = FALSE
    /\ UNCHANGED <<TicksToGo, picVars>>

USBNestedEnable ==
    /\ Handler(USB, "NestedEnd", "Acknowledge")
    /\ LowerCount
    /\ InterruptFlag' = (InterruptFlag \/ LastSection)
    /\ UNCHANGED <<TicksToGo, picVars>>

USBAcknowledge ==
    /\ Handler(USB, "Nested", "Lower") \/ Handler(USB, "Acknowledge", "Lower")
    /\ usbLine' = FALSE
    /\ UNCHANGED <<gInterruptStack, InterruptFlag, TicksToGo, timerRequest, masterInService, slaveInService>>

USBEnable ==
    /\ Handler(USB, "Lower", "EOIMaster")
    /\ LowerCount
    /\ InterruptFlag' = (InterruptFlag \/ LastSection)
    /\ UNCHANGED <<TicksToGo, picVars>>

USBEndMaster ==
    /\ Handler(USB, "EOIMaster", "EOISlave")
    /\ EndMaster
    /\ UNCHANGED <<gInterruptStack, InterruptFlag, TicksToGo, timerRequest, usbLine, slaveInService>>

(* Mutant: only the master PIC is told.                                     *)
USBEndSlaveMissing ==
    /\ Handler(USB, "EOISlave", "Return")
    /\ UNCHANGED <<gInterruptStack, InterruptFlag, TicksToGo, picVars>>

USBEndSlave ==
    /\ Handler(USB, "EOISlave", "Return")
    /\ slaveInService' = FALSE
    /\ UNCHANGED <<gInterruptStack, InterruptFlag, TicksToGo, timerRequest, usbLine, masterInService>>

-----------------------------------------------------------------------------
ForegroundStep ==
    DisableInterrupts \/ Cli \/ EnableInterrupts \/ Sti \/ SleepMS \/ Compare \/ Hlt

HandlerStep ==
    \/ TimerEOI \/ CountTick \/ Return(Timer)
    \/ USBDisable \/ USBNestedDisable \/ USBNestedEnable \/ USBAcknowledge
    \/ USBEnable \/ USBEndMaster \/ USBEndSlave \/ Return(USB)

Next == TimerEdge \/ USBEvent \/ TakeTimer \/ TakeUSB \/ ForegroundStep \/ HandlerStep

(* The timer runs. The processor takes a pending interrupt at the end of an *)
(* instruction, so it misses none that it could take again and again.       *)
(* Interrupts come at most a few times in a millisecond and a handler takes *)
(* microseconds, so none is interrupted for ever, and neither is the        *)
(* foreground; and a critical section is a loop over some bytes or          *)
(* characters that ends.                                                    *)
Fairness ==
    /\ WF_vars(TimerEdge)
    /\ SF_vars(TakeTimer) /\ SF_vars(TakeUSB)
    /\ \A n \in 1 .. MaxFrames + 1 : SF_vars(Len(frames) = n /\ HandlerStep)
    /\ SF_vars(Cli) /\ SF_vars(Sti) /\ SF_vars(Compare) /\ SF_vars(Hlt)
    /\ \A d \in 1 .. MaxDepth : SF_vars(foreground.depth = d /\ EnableInterrupts)

Spec == Init /\ [][Next]_vars /\ Fairness

-----------------------------------------------------------------------------
(* The sections a handler has open.                                         *)
SectionsOf(frame) ==
    IF frame.irq = Timer THEN 0
    ELSE IF frame.at = "NestedEnd" THEN 2
    ELSE IF frame.at \in {"Nested", "Acknowledge", "Lower"} THEN 1 ELSE 0

SectionsOfForeground ==
    IF foreground.at = "Cli" THEN foreground.depth + 1 ELSE foreground.depth

(* <<i, n>>: the n-th section that is open in the i-th handler on the stack. *)
OpenSections ==
    {s \in (DOMAIN frames) \X (1 .. 2) : s[2] <= SectionsOf(frames[s[1]])}

(* The count is the number of sections the foreground and all handlers on   *)
(* the stack have open, wherever they were interrupted.                     *)
NestingBalanced == gInterruptStack = SectionsOfForeground + Cardinality(OpenSections)

(* In a critical section, from its cli to its sti, the foreground is never  *)
(* interrupted: no handler it shares data with runs, and the flag is clear. *)
SectionsAreExclusive ==
    foreground.depth > 0 /\ foreground.at # "Cli" => frames = <<>> /\ ~InterruptFlag

(* An end-of-interrupt command names no input: it ends the highest one in   *)
(* service. It is the sender's own, although the USB handler sends it with  *)
(* interrupts enabled: what is in service is what is on the stack.          *)
EOIEndsOwnInterrupt ==
    /\ masterInService = {Input(frames[i].irq) : i \in
           {j \in DOMAIN frames : frames[j].at \notin {"Count", "EOISlave", "Return"}}}
    /\ slaveInService = \E i \in DOMAIN frames : frames[i].irq = USB /\ frames[i].at # "Return"

(* Handlers nest on the one kernel stack only over a USB handler that has   *)
(* done its work: below the running handler, every other is past its sti,   *)
(* with no section open.                                                    *)
OnlyFinishedHandlersAreInterrupted ==
    \A i \in 1 .. Len(frames) - 1 :
        frames[i].irq = USB /\ frames[i].at \in {"EOIMaster", "EOISlave", "Return"}

(* A sleeper wakes, although a tick between its comparison and its hlt goes *)
(* unnoticed and other interrupts end the hlt early.                        *)
SleepersWake == foreground.at = "Compare" ~> foreground.at = "Run"

(* Every interrupt of the USB controller is acknowledged.                   *)
USBIsServed == usbLine ~> ~usbLine
=============================================================================
