-------------------------- MODULE ControlRequests --------------------------
(* What OHCISendControlRequest (src/system/kernel/Drivers/USB/OHCI.c, lines *)
(* 1039-1125) promises its callers, without descriptors, queues or          *)
(* interrupts: one request at a time, each of which returns with one of     *)
(* four outcomes, and an endpoint that halts at the first error for good.   *)
EXTENDS Integers

CONSTANT
    Alone   \* nothing but the end of a request can complete it: no HID device
            \* reports, and every device answers within 100 ms

VARIABLES
    busy,     \* a request is on its way
    halted,   \* the control endpoint is halted
    outcome   \* of the last request

vars == <<busy, halted, outcome>>

(* "Answered": true, and the device has answered every stage.               *)
(* "Failed":   true, although a stage met an error, and the endpoint is     *)
(*             halted.                                                      *)
(* "Early":    true, before the last stage: a HID report, or what is left   *)
(*             of a request that timed out, has completed it.               *)
(* "TimedOut": false.                                                       *)
AllOutcomes == {"Answered", "Failed", "Early", "TimedOut"}

(* The outcomes of a request, by whether the endpoint is halted before it.  *)
(* A request that is not alone may be completed by what the last one left   *)
(* behind, or be broken by it: the descriptors are the same.                *)
Outcomes(isHalted, alone) ==
    (IF isHalted THEN {"TimedOut"} ELSE {"Answered", "Failed"})
    \cup (IF alone THEN {} ELSE IF isHalted THEN {"Failed"} ELSE {"Early", "TimedOut"})

(* Whether the endpoint is halted when a request has returned.              *)
HaltedAfter(isHalted, result, alone) ==
    IF isHalted \/ result = "Failed" THEN {TRUE}
    ELSE IF result = "Early" \/ (result = "Answered" /\ alone) THEN {FALSE}
    ELSE BOOLEAN

Init ==
    /\ busy = FALSE
    /\ halted \in BOOLEAN
    /\ outcome \in AllOutcomes

Request ==
    /\ ~ busy
    /\ busy' = TRUE
    /\ UNCHANGED <<halted, outcome>>

Return ==
    /\ busy
    /\ busy' = FALSE
    /\ outcome' \in Outcomes(halted, Alone)
    /\ halted' \in HaltedAfter(halted, outcome', Alone)

(* A request that goes on after its return meets an error.                  *)
LateError ==
    /\ ~ busy /\ ~ halted
    /\ ~ Alone
    /\ halted' = TRUE
    /\ UNCHANGED <<busy, outcome>>

Next == Request \/ Return \/ LateError

(* Every request returns.                                                   *)
Fairness == WF_vars(Return)

Spec == Init /\ [][Next]_vars /\ Fairness
=============================================================================
