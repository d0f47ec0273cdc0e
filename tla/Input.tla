------------------------------- MODULE Input -------------------------------
(* The queue of pressed keys (src/system/kernel/Input.c): the interrupt     *)
(* handler of the USB driver writes it (InputPushKeyboardEvent), and the    *)
(* prompt polls it with no lock (InputPollCharacterEvent). A reader knows   *)
(* how far it got by the tick of the last event only, and the events of one *)
(* report all carry the same tick.                                          *)
(*                                                                          *)
(* The reader is cut into the steps an interrupt can come between: reading  *)
(* one slot, copying the slot that was found, sleeping. A handler is one    *)
(* step, because the reader cannot run before it returns. The released-key  *)
(* queue is left out, since nothing reads it. Module Keymap has the         *)
(* characters of the events, which depend on the caps lock kept here.       *)
EXTENDS Integers, SequencesExt, FiniteSets

CONSTANTS
    Keys,            \* the scan codes the keyboard has
    ResetKeys,       \* the scan codes that, held together, reset the machine
    RingSize,        \* INPUT_EVENT_RINGBUFFER_SIZE
    MaxTick,         \* bound: the tick at which the model's clock stops counting
    MaxReports,      \* bound: keyboard reports in a behaviour
    ReportsPerPoll   \* bound: reports that arrive during one scan of the ring

ASSUME KeysAssumption == Keys \subseteq Nat \ {0} /\ IsFiniteSet(Keys)
ASSUME RingSizeAssumption == RingSize \in Nat /\ RingSize > Cardinality(Keys)
ASSUME BoundsAssumption == {MaxTick, MaxReports, ReportsPerPoll} \subseteq Nat \ {0}

VARIABLES
    TickCount,
    KeysDown,       \* gInputKeysDown: the keys of the last report
    gInputCapsLock,
    PressedQueue,   \* gInputKeyPressedQueue
    PressedIndex,   \* gInputKeyPressedIndex
    reset,          \* TriggerTripleFault ran
    reports,        \* how many reports have been handled (bounds the model)
    reader,         \* the reader's place and the locals of its scan
    LastTickCount,  \* the subscriber's
    pushed,         \* history: every event ever pushed
    overwritten,    \* history: those overwritten while the reader could still take them
    delivered       \* history: those copied to LastEvent

queueVars   == <<KeysDown, gInputCapsLock, PressedQueue, PressedIndex, reset, reports, pushed, overwritten>>
readerVars  == <<reader, LastTickCount, delivered>>
vars        == <<TickCount, queueVars, readerVars>>

Map == INSTANCE Keymap

Slots == 0 .. RingSize - 1
None  == 0   \* SCANCODE_KEY_NONE, the scan code of a slot never written

Event(tick, key) == [TickCount |-> tick, ScanCode |-> key]
EmptySlot == Event(0, None)
Infinity  == MaxTick + 1   \* for 0xFFFFFFFFFFFFFFFF: above every tick

StartScan == [at |-> "Scan", Index |-> 0, Smallest |-> Infinity, Found |-> {}, arrived |-> 0]
Polling   == {"Scan", "Copy", "Failed"}   \* where arrived counts reports

(* The timer ticks before the keyboard is found, so no event has tick 0,    *)
(* which the reader starts from.                                            *)
Init ==
    /\ TickCount = 1
    /\ KeysDown = {}
    /\ gInputCapsLock = FALSE
    /\ PressedQueue = [s \in Slots |-> EmptySlot]
    /\ PressedIndex = 0
    /\ reset = FALSE
    /\ reports = 0
    /\ reader = StartScan
    /\ LastTickCount = 0
    /\ pushed = {}
    /\ overwritten = {}
    /\ delivered = <<>>

-----------------------------------------------------------------------------
(* The timer. The clock saturates at MaxTick, which only makes more reports *)
(* share a tick. A sleeping reader has slept once a tick has passed.        *)
Tick ==
    /\ ~reset
    /\ TickCount' = IF TickCount < MaxTick THEN TickCount + 1 ELSE TickCount
    /\ reader' = IF reader.at = "Sleep" THEN [reader EXCEPT !.at = "Slept"] ELSE reader
    /\ UNCHANGED <<queueVars, LastTickCount, delivered>>

NewlyDown(report) == report \ KeysDown

(* The slot of a key that went down: the loop over the scan codes comes to  *)
(* those of lower scan codes first.                                         *)
SlotOf(key, keys) == (PressedIndex + Cardinality({k \in keys : k < key})) % RingSize

(* What one report does to the queue: every event gets the same tick, and   *)
(* in a full ring an event the reader could still have taken is overwritten.*)
PushKeyboardEvent(report) ==
    LET keys  == NewlyDown(report)
        slots == {SlotOf(key, keys) : key \in keys}
    IN  /\ PressedQueue' = [s \in Slots |->
               IF s \in slots THEN Event(TickCount, CHOOSE key \in keys : SlotOf(key, keys) = s)
               ELSE PressedQueue[s]]
        /\ PressedIndex' = (PressedIndex + Cardinality(keys)) % RingSize
        /\ overwritten' = overwritten \cup
               {e \in {PressedQueue[s] : s \in slots} : e.TickCount > LastTickCount}
        /\ pushed' = pushed \cup {Event(TickCount, key) : key \in keys}
        /\ KeysDown' = report
        /\ gInputCapsLock' = (gInputCapsLock # (Map!CapsLock \in keys))
        /\ reset' = (ResetKeys \subseteq report)

(* InputPushKeyboardEvent, in the interrupt handler, at any point of the    *)
(* reader.                                                                  *)
InputPushKeyboardEvent ==
    /\ ~reset
    /\ reports < MaxReports
    /\ reader.at \in {"Scan", "Copy"} => reader.arrived < ReportsPerPoll
    /\ \E report \in SUBSET Keys : PushKeyboardEvent(report)
    /\ reports' = reports + 1
    /\ reader' = [reader EXCEPT !.arrived = IF reader.at \in Polling THEN @ + 1 ELSE 0]
    /\ UNCHANGED <<TickCount, LastTickCount, delivered>>

-----------------------------------------------------------------------------
(* Mutant: an event as old as the last one is taken again.                  *)
EligibleIfAsOld(event) == event.ScanCode # None /\ event.TickCount >= LastTickCount

(* "1. is it eligible": only an event with a later tick than the last one.  *)
Eligible(event) == event.ScanCode # None /\ event.TickCount > LastTickCount

(* Mutant: the newest event is kept, not the oldest.                        *)
BetterIfNewer(event) ==
    Eligible(event) /\ (reader.Found = {} \/ event.TickCount >= reader.Smallest)

(* "2. is it the smallest": among equal ticks the last slot wins.           *)
Better(event) == Eligible(event) /\ event.TickCount <= reader.Smallest

(* Mutant: the scan stops one slot short of the end.                        *)
IsLastSlotShort(index) == index = RingSize - 2

IsLastSlot(index) == index = RingSize - 1

(* One turn of the scan. A slot is read in one step: an interrupt between   *)
(* its words could only show a tick too old to be eligible, or a scan code  *)
(* that is read again when the slot is copied.                              *)
ScanSlot ==
    /\ ~reset
    /\ reader.at = "Scan"
    /\ LET event == PressedQueue[reader.Index]
           found == IF Better(event) THEN {reader.Index} ELSE reader.Found
           next  == [reader EXCEPT
                        !.Index = @ + 1,
                        !.Smallest = IF Better(event) THEN event.TickCount ELSE @,
                        !.Found = found]
       IN  reader' = IF ~IsLastSlot(reader.Index) THEN next
                     ELSE IF found # {} THEN [next EXCEPT !.at = "Copy"]
                     ELSE [next EXCEPT !.at = "Failed"]
    /\ UNCHANGED <<TickCount, queueVars, LastTickCount, delivered>>

(* The tick of the event that was found, whatever its slot holds by now.    *)
CopiedTick == reader.Smallest

(* The poll succeeds: the subscriber takes the tick that was found and      *)
(* whatever is in that slot by now, and the caller has its event. Then the  *)
(* caller asks for the next one, at once if this one has no character.      *)
CopyEvent ==
    /\ ~reset
    /\ reader.at = "Copy"
    /\ LastTickCount' = CopiedTick
    /\ \E s \in reader.Found : delivered' = Append(delivered, PressedQueue[s])
    /\ reader' = StartScan
    /\ UNCHANGED <<TickCount, queueVars>>

(* The poll fails, and InputNextCharacterEvent sleeps for a millisecond.    *)
SleepMS ==
    /\ ~reset
    /\ reader.at = "Failed"
    /\ reader' = [StartScan EXCEPT !.at = "Sleep"]
    /\ UNCHANGED <<TickCount, queueVars, LastTickCount, delivered>>

PollAgain ==
    /\ ~reset
    /\ reader.at = "Slept"
    /\ reader' = StartScan
    /\ UNCHANGED <<TickCount, queueVars, LastTickCount, delivered>>

Next == Tick \/ InputPushKeyboardEvent \/ ScanSlot \/ CopyEvent \/ SleepMS \/ PollAgain

(* The timer runs for ever, and the foreground gets the processor back      *)
(* between interrupts.                                                      *)
Fairness == WF_vars(Tick) /\ WF_vars(ScanSlot) /\ WF_vars(CopyEvent) /\ WF_vars(SleepMS) /\ WF_vars(PollAgain)

Spec == Init /\ [][Next]_vars /\ Fairness

-----------------------------------------------------------------------------
(* No event is passed over: once the reader is past the tick of an event,   *)
(* an event of that tick was delivered, or the ring overwrote one. A scan   *)
(* that a report interrupts may see the new events in some slots and not in *)
(* others.                                                                  *)
SkippedOnlyWithinATick ==
    \A e \in pushed : e.TickCount <= LastTickCount =>
        \E f \in Range(delivered) \cup overwritten : f.TickCount = e.TickCount

(* While the ring has not overwritten anything the reader could take, the   *)
(* delivered events are in the order of their ticks, and none comes twice:  *)
(* the slot that was found still holds the event that was found when it is  *)
(* copied.                                                                  *)
DeliveredOnceInOrder ==
    overwritten = {} => \A i, j \in DOMAIN delivered :
        i < j => delivered[i].TickCount < delivered[j].TickCount

(* Every event is consumed in the end, even if the ring overwrites it: the  *)
(* reader never sleeps for ever beside a full ring, and never gets stuck    *)
(* below a tick. (A reset ends everything.)                                 *)
EveryEventIsPassed ==
    \A t \in 1 .. MaxTick :
        (\E e \in pushed : e.TickCount = t) ~> (reset \/ LastTickCount >= t)

(* Whatever was typed before, and with caps lock as that left it: every     *)
(* printable character has one key, with or without shift, and caps lock    *)
(* does to letters what shift does, and nothing to other keys.              *)
EveryCharacterHasOneKey == Map!OneKeyEach[gInputCapsLock]
=============================================================================
