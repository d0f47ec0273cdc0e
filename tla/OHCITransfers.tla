--------------------------- MODULE OHCITransfers ---------------------------
(* Transfers of the USB driver (src/system/kernel/Drivers/USB/OHCI.c):      *)
(* control requests, which the foreground builds, starts and waits for;     *)
(* reports of keyboards and mice, which arrive by themselves; the host      *)
(* controller, which executes both and links what it has finished into a    *)
(* done queue; and the interrupt handler, which walks that queue. All of    *)
(* them work on the same transfer descriptors (TDs) in memory.              *)
(*                                                                          *)
(* A control request is a setup TD, perhaps a data TD (one stands for all), *)
(* and a status TD, always in the same slots of RequestStorage, followed by *)
(* a dummy. Only the status TD asks for an interrupt.                       *)
EXTENDS Integers, FiniteSets

CONSTANTS
    HIDs,          \* the active HID devices, each with one TD
    Dummy,         \* the dummy TD of a HID endpoint
    Null,          \* the end of a list of TDs
    MaxRequests,   \* bound: control requests in a behaviour
    Errors,        \* bound: the requests to which a device may answer with an error,
                   \* or not at all
    Patient        \* whether every device answers within the 100 ms of a request

ControlTDs == 0 .. 3

ASSUME SortsAssumption ==
    /\ (HIDs \cup {Dummy, Null}) \cap ControlTDs = {}
    /\ HIDs \cap {Dummy, Null} = {} /\ Dummy # Null
ASSUME BoundsAssumption == MaxRequests \in Nat /\ Errors \subseteq Nat /\ Patient \in BOOLEAN

Setup      == 0
TDs        == ControlTDs \cup HIDs \cup {Dummy}
Links      == TDs \cup {Null}

VARIABLES
    NextTD,               \* the link in each TD
    ControlED,            \* the control endpoint: Head, Tail, Halted
    HIDHead,              \* the head pointer of each HID endpoint
    ControlListEnable,
    ControlListFilled,
    hc,                   \* the controller: whether it is in the control list, its
                          \* done queue, and whether that is due to be written back
    DoneHead,             \* gOHCI.HCCABase->DoneHead
    WritebackDoneHead,    \* the status bit, and with it the interrupt line
    gOHCITransferComplete,
    driver,               \* the foreground in OHCISendControlRequest
    handler,              \* OHCIInterruptHandler
    answered,             \* history: the TDs of this request that were executed
    returned,             \* history: the last request's result
    overlapped,           \* history: a request has begun while TDs of an earlier one
                          \* were not done with; what follows is recorded until then
    lost,                 \* the HID devices whose report was thrown away
    missed                \* whether a completion of this request came before the
                          \* flag was cleared

memory  == <<NextTD, ControlED, HIDHead>>
list    == <<ControlListEnable, ControlListFilled>>
hcVars  == <<hc, WritebackDoneHead>>
races   == <<missed, overlapped>>
history == <<answered, returned, lost, races>>
vars == <<memory, list, hcVars, DoneHead, gOHCITransferComplete, driver, handler, history>>

(* The TDs of the list that begins with td and goes along the links of      *)
(* next: the least set that has td and the links of its members.            *)
ListAlong(next, td) ==
    {t \in TDs : \A S \in SUBSET TDs :
        td \in S \cup {Null} /\ (\A s \in S : next[s] \in S \cup {Null}) => t \in S}

ListFrom(td) == ListAlong(NextTD, td)

Off == [on |-> FALSE, at |-> "Walk", td |-> Null, next |-> Null]

Init ==
    /\ NextTD = [td \in TDs |-> IF td \in HIDs THEN Dummy ELSE Null]
    /\ ControlED = [Head |-> 0, Tail |-> 0, Halted |-> FALSE]
    /\ HIDHead = [h \in HIDs |-> h]
    /\ ControlListEnable = FALSE
    /\ ControlListFilled = FALSE
    /\ hc = [control |-> FALSE, done |-> Null, due |-> FALSE]
    /\ DoneHead = Null
    /\ WritebackDoneHead = FALSE
    /\ gOHCITransferComplete = FALSE
    /\ driver = [at |-> "Idle", request |-> 0, status |-> 1, halted |-> FALSE, framed |-> FALSE]
    /\ handler = Off
    /\ answered = {}
    /\ returned = [result |-> FALSE, answered |-> FALSE, halted |-> FALSE, haltedBefore |-> TRUE]
    /\ lost = {}
    /\ missed = FALSE /\ overlapped = FALSE

-----------------------------------------------------------------------------
(* The host controller.                                                     *)

(* A frame begins. The controller goes through the control list if that is  *)
(* enabled and filled, and notes when it has found nothing there. A done    *)
(* queue that is due is written back, unless the last one has not been      *)
(* acknowledged. Between enabling the list and clearing the flag the        *)
(* foreground executes a few instructions, in which at most one frame       *)
(* begins, and so it is again when the handler has come in between.         *)
Frame ==
    /\ ~(driver.at = "Forget" /\ driver.framed /\ ~handler.on)
    /\ LET writeback == hc.due /\ ~WritebackDoneHead
           found == ControlListFilled /\ ~ControlED.Halted /\ ControlED.Head # ControlED.Tail
       IN  /\ hc' = [control |-> ControlListEnable /\ found,
                     done |-> IF writeback THEN Null ELSE hc.done,
                     due |-> hc.due /\ ~writeback]
           /\ ControlListFilled' = (ControlListFilled /\ (ControlListEnable => found))
           /\ DoneHead' = IF writeback THEN hc.done ELSE DoneHead
           /\ WritebackDoneHead' = (WritebackDoneHead \/ writeback)
    /\ driver' = [driver EXCEPT !.framed = driver.at = "Forget"]
    /\ UNCHANGED <<memory, ControlListEnable, gOHCITransferComplete, handler, history>>

(* What becomes of the controller when a TD, put in front of its done       *)
(* queue, is finished.                                                      *)
Retired(td, interrupts) == [hc EXCEPT !.done = td, !.due = @ \/ interrupts]

ExecuteControl ==
    LET td   == ControlED.Head
        next == NextTD[td]
    IN  /\ hc.control /\ ~ControlED.Halted /\ td \in ControlTDs \ {ControlED.Tail}
        /\ \E error \in BOOLEAN :
               /\ error => driver.request \in Errors
               /\ hc' = [Retired(td, error \/ td = driver.status)
                             EXCEPT !.control = ~error /\ next # ControlED.Tail]
               /\ ControlED' = [ControlED EXCEPT !.Head = next, !.Halted = error]
               /\ answered' = IF error THEN answered ELSE answered \cup {td}
        /\ NextTD' = [NextTD EXCEPT ![td] = hc.done]
        /\ UNCHANGED <<HIDHead, list, DoneHead, WritebackDoneHead,
                       gOHCITransferComplete, driver, handler, returned, lost, races>>

ExecuteHID(h) ==
    /\ HIDHead[h] = h
    /\ hc' = Retired(h, TRUE)
    /\ NextTD' = [NextTD EXCEPT ![h] = hc.done]
    /\ HIDHead' = [HIDHead EXCEPT ![h] = NextTD[h]]
    /\ UNCHANGED <<ControlED, list, DoneHead, WritebackDoneHead,
                   gOHCITransferComplete, driver, handler, history>>

-----------------------------------------------------------------------------
(* The foreground, which runs while the handler does not.                   *)
Driver(from, to) ==
    /\ ~handler.on
    /\ driver.at = from
    /\ driver' = [driver EXCEPT !.at = to]

(* TDs of a request are with the controller: it is in their list, or has    *)
(* them in its done queue, or they are in the one it has written back.      *)
LeftBehind == hc.control \/ ControlTDs \cap (ListFrom(hc.done) \cup ListFrom(DoneHead)) # {}

(* OHCISendControlRequest.                                                  *)
SendControlRequest ==
    /\ ~handler.on
    /\ driver.at = "Idle"
    /\ driver.request < MaxRequests
    /\ driver' = [driver EXCEPT !.at = "Build", !.request = @ + 1,
                                !.halted = ControlED.Halted, !.framed = FALSE]
    /\ ControlListEnable' = FALSE
    /\ missed' = FALSE
    /\ overlapped' = (overlapped \/ LeftBehind)
    /\ UNCHANGED <<memory, ControlListFilled, hcVars, DoneHead, gOHCITransferComplete, handler,
                   answered, returned, lost>>

(* The TDs, with or without one for data, are filled in where they are,     *)
(* whoever still uses those of the last request.                            *)
BuildTDs ==
    /\ ~handler.on
    /\ driver.at = "Build"
    /\ \E status \in 1 .. 2 :
          /\ driver' = [driver EXCEPT !.at = "Link", !.status = status]
          /\ NextTD' = [td \in TDs |-> IF td \in 0 .. status THEN td + 1
                                       ELSE IF td = status + 1 THEN Null
                                       ELSE NextTD[td]]
    /\ UNCHANGED <<ControlED, HIDHead, list, hcVars, DoneHead,
                   gOHCITransferComplete, handler, history>>

(* Mutant: the whole head pointer is written, and Halted with it.           *)
NewHeadClearsHalted == [Head |-> Setup, Tail |-> driver.status + 1, Halted |-> FALSE]

(* HeadPointer is a bit field beside Halted, which nothing ever clears.     *)
NewHead == [ControlED EXCEPT !.Head = Setup, !.Tail = driver.status + 1]

LinkTDs ==
    /\ Driver("Link", "Reset")
    /\ ControlED' = NewHead
    /\ answered' = {}
    /\ UNCHANGED <<NextTD, HIDHead, list, hcVars, DoneHead,
                   gOHCITransferComplete, handler, returned, lost, races>>

(* A done queue that has been written back and not been looked at is        *)
(* thrown away, with the reports in it.                                     *)
ResetDoneHead ==
    /\ Driver("Reset", "Enable")
    /\ DoneHead' = Null
    /\ lost' = IF overlapped THEN {} ELSE lost \cup (HIDs \cap ListFrom(DoneHead))
    /\ UNCHANGED <<memory, list, hcVars, gOHCITransferComplete, handler,
                   answered, returned, races>>

(* Mutant: the list is enabled, and the controller not told to look at it.  *)
EnableWithoutFilled ==
    /\ Driver("Enable", "Forget")
    /\ ControlListEnable' = TRUE
    /\ UNCHANGED <<memory, ControlListFilled, hcVars, DoneHead, gOHCITransferComplete,
                   handler, history>>

EnableList ==
    /\ Driver("Enable", "Forget")
    /\ ControlListFilled' = TRUE
    /\ ControlListEnable' = TRUE
    /\ UNCHANGED <<memory, hcVars, DoneHead, gOHCITransferComplete, handler, history>>

ForgottenFlag == FALSE

(* gOHCITransferComplete is cleared after the list has been enabled.        *)
ForgetLast ==
    /\ Driver("Forget", "Wait")
    /\ gOHCITransferComplete' = ForgottenFlag
    /\ UNCHANGED <<memory, list, hcVars, DoneHead, handler, history>>

Return(result) ==
    /\ Driver("Wait", "Idle")
    /\ returned' = [result |-> result,
                    answered |-> answered = 0 .. driver.status,
                    halted |-> ControlED.Halted,
                    haltedBefore |-> driver.halted]
    /\ UNCHANGED <<memory, list, hcVars, DoneHead, gOHCITransferComplete,
                   handler, answered, lost, races>>

Complete == gOHCITransferComplete /\ Return(TRUE)

(* The controller is, or will be, in the list of the request.               *)
ToBeExecuted ==
    ControlListFilled /\ ~ControlED.Halted /\ ControlED.Head \in ControlTDs \ {ControlED.Tail}

(* No TD of a request is on its way to the handler.                         *)
NothingPending ==
    /\ ~ToBeExecuted
    /\ hc.due => ControlTDs \cap ListFrom(hc.done) = {}
    /\ ControlTDs \cap ListFrom(DoneHead) = {}

(* A hundred milliseconds have passed, in which a patient device, the       *)
(* controller and the handler have done all that there was to do.           *)
Timeout ==
    /\ Patient => NothingPending
    /\ ~gOHCITransferComplete
    /\ Return(FALSE)

-----------------------------------------------------------------------------
(* The interrupt handler. The controller goes on while it runs.             *)
TakeInterrupt ==
    /\ WritebackDoneHead
    /\ ~handler.on
    /\ handler' = [Off EXCEPT !.on = TRUE, !.td = DoneHead]
    /\ DoneHead' = Null
    /\ UNCHANGED <<memory, list, hcVars, gOHCITransferComplete, driver, history>>

Walking == handler.on /\ handler.at = "Walk"

(* Mutant: DoneQueueHead stays where it is.                                 *)
FollowingTDNotTaken == handler.td

(* Mutant: the link is followed after it has been set for the next report.  *)
FollowingTDTooLate == Dummy

(* Mutant: only the first TD of the queue is looked at.                     *)
FollowingTDForgotten == Null

(* NextCompletedTD, which is read before the TD is changed.                 *)
FollowingTD == NextTD[handler.td]

(* Any TD of RequestStorage completes the request, whatever its condition   *)
(* code and whichever it is; before line 1119, in vain.                     *)
CompletedControl ==
    /\ Walking /\ handler.td \in ControlTDs
    /\ gOHCITransferComplete' = TRUE
    /\ missed' = (missed \/ (driver.at = "Forget" /\ ~overlapped))
    /\ handler' = [handler EXCEPT !.td = FollowingTD]
    /\ UNCHANGED <<memory, list, hcVars, DoneHead, driver, answered, returned, lost, overlapped>>

(* A TD that is neither is passed by.                                       *)
CompletedOther ==
    /\ Walking /\ handler.td = Dummy
    /\ handler' = [handler EXCEPT !.td = FollowingTD]
    /\ UNCHANGED <<memory, list, hcVars, DoneHead, gOHCITransferComplete, driver, history>>

(* A report: the TD is linked to the dummy again, and then queued again.    *)
CompletedReport ==
    /\ Walking /\ handler.td \in HIDs
    /\ NextTD' = [NextTD EXCEPT ![handler.td] = Dummy]
    /\ handler' = [handler EXCEPT !.at = "Requeue", !.next = FollowingTD]
    /\ UNCHANGED <<ControlED, HIDHead, list, hcVars, DoneHead,
                   gOHCITransferComplete, driver, history>>

(* Mutant: the TD is not queued again.                                      *)
RequeueForgotten ==
    /\ handler.on /\ handler.at = "Requeue"
    /\ handler' = [handler EXCEPT !.at = "Walk", !.td = handler.next, !.next = Null]
    /\ UNCHANGED <<memory, list, hcVars, DoneHead, gOHCITransferComplete, driver, history>>

Requeue ==
    /\ handler.on /\ handler.at = "Requeue"
    /\ HIDHead' = [HIDHead EXCEPT ![handler.td] = handler.td]
    /\ handler' = [handler EXCEPT !.at = "Walk", !.td = handler.next, !.next = Null]
    /\ UNCHANGED <<NextTD, ControlED, list, hcVars, DoneHead,
                   gOHCITransferComplete, driver, history>>

(* The end of the queue.                                                    *)
Acknowledge ==
    /\ Walking /\ handler.td = Null
    /\ WritebackDoneHead' = FALSE
    /\ handler' = Off
    /\ driver' = [driver EXCEPT !.framed = FALSE]
    /\ UNCHANGED <<memory, list, hc, DoneHead, gOHCITransferComplete, history>>

-----------------------------------------------------------------------------
DriverStep ==
    \/ SendControlRequest \/ BuildTDs \/ LinkTDs \/ ResetDoneHead \/ EnableList
    \/ ForgetLast \/ Complete \/ Timeout

HandlerStep ==
    CompletedControl \/ CompletedReport \/ CompletedOther \/ Requeue \/ Acknowledge

Next ==
    \/ Frame \/ ExecuteControl \/ \E h \in HIDs : ExecuteHID(h)
    \/ DriverStep
    \/ TakeInterrupt \/ HandlerStep

(* The controller's frames go on, devices answer, and the processor runs.   *)
Fairness ==
    /\ WF_vars(Frame) /\ WF_vars(ExecuteControl)
    /\ WF_vars(TakeInterrupt) /\ WF_vars(HandlerStep)
    /\ SF_vars(DriverStep)

Spec == Init /\ [][Next]_vars /\ Fairness

-----------------------------------------------------------------------------
(* What the callers are promised: a request succeeds by its own             *)
(* completion, never by one left over from an earlier request (the flag is  *)
(* cleared late, line 1119, and shared by all, line 1213), or after an      *)
(* error, which halts the endpoint; it fails exactly when the endpoint has  *)
(* been halted by an earlier one; and it returns. With HID devices that     *)
(* report, or devices that answer late, less is true (module                *)
(* ControlRequests says what).                                              *)
Outcome ==
    CASE ~returned.result                                       -> "TimedOut"
      [] returned.result /\ returned.answered                   -> "Answered"
      [] returned.result /\ ~returned.answered /\ returned.halted -> "Failed"
      [] OTHER                                                  -> "Early"

Requests == INSTANCE ControlRequests WITH
    Alone <- HIDs = {} /\ Patient,
    busy <- driver.at # "Idle",
    halted <- IF driver.at = "Idle" THEN ControlED.Halted ELSE driver.halted,
    outcome <- Outcome

KeepsToRequests == Requests!Init /\ [][Requests!Next]_(Requests!vars)

(* Every request returns, unless requests overlap: the links that the later *)
(* one overwrites can make a circle of the done queue, which the handler    *)
(* walks for ever.                                                          *)
ImplementsRequests ==
    KeepsToRequests /\ (Requests!Fairness \/ <>overlapped)

(* Where the TD of a HID device is: queued, in the controller's done queue, *)
(* in the queue written back, or in the handler's hands.                    *)
PlacesOf(h) ==
    {place \in {"Queued", "Done", "WrittenBack", "Handler"} :
        CASE place = "Queued"      -> HIDHead[h] = h
          [] place = "Done"        -> h \in ListFrom(hc.done)
          [] place = "WrittenBack" -> h \in ListFrom(DoneHead)
          [] place = "Handler"     -> handler.on /\ \/ handler.at = "Walk" /\ h \in ListFrom(handler.td)
                                                    \/ handler.at = "Requeue" /\ h = handler.td
                                                    \/ handler.at = "Requeue" /\ h \in ListFrom(handler.next)}

(* While requests do not overlap, a HID device's only TD is always in       *)
(* exactly one place, so no report is taken twice and no device is left     *)
(* without a TD to report with; unless a request has thrown its report away *)
(* (line 1115), after which it has none.                                    *)
ReportIsInOnePlace ==
    ~overlapped =>
        \A h \in HIDs : Cardinality(PlacesOf(h)) = IF h \in lost THEN 0 ELSE 1

(* With devices that answer in time, and an endpoint that works, a request  *)
(* that no earlier one overlaps is given up for one reason only: frames and *)
(* the handler, between the enabling of the list and the clearing of the    *)
(* flag (lines 1117 and 1119), were so quick that its completion was        *)
(* cleared. Neither an error nor reports that share its done queue are a    *)
(* reason.                                                                  *)
GivenUpOnlyIfMissed ==
    Patient /\ driver.at = "Idle" /\ ~returned.result /\ ~returned.haltedBefore /\ ~overlapped
        => missed

(* While requests do not overlap, the TD of every HID device is queued      *)
(* again and again, unless its report was thrown away.                      *)
DevicesKeepReporting == \A h \in HIDs : []<>(HIDHead[h] = h \/ h \in lost \/ overlapped)

(* The handler comes to the end of every done queue, unless requests        *)
(* overlap.                                                                 *)
HandlerReturns == handler.on ~> ~handler.on \/ overlapped
=============================================================================
