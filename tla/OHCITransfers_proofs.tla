------------------------ MODULE OHCITransfers_proofs ------------------------
(* Theorems about module OHCITransfers, for any number of requests and any  *)
(* set of HID devices.                                                      *)
EXTENDS OHCITransfers, FiniteSetTheorems, TLAPS

-----------------------------------------------------------------------------
(* The inductive invariant.                                                 *)
Places == {"Idle", "Build", "Link", "Reset", "Enable", "Forget", "Wait"}

TypeOK ==
    /\ NextTD \in [TDs -> Links]
    /\ ControlED \in [Head : Links, Tail : ControlTDs, Halted : BOOLEAN]
    /\ HIDHead \in [HIDs -> Links]
    /\ ControlListEnable \in BOOLEAN /\ ControlListFilled \in BOOLEAN
    /\ hc \in [control : BOOLEAN, done : Links, due : BOOLEAN]
    /\ DoneHead \in Links
    /\ WritebackDoneHead \in BOOLEAN /\ gOHCITransferComplete \in BOOLEAN
    /\ driver \in [at : Places, request : Nat, status : 1 .. 2, halted : BOOLEAN,
                   framed : BOOLEAN]
    /\ handler \in [on : BOOLEAN, at : {"Walk", "Requeue"}, td : Links, next : Links]
    /\ answered \in SUBSET ControlTDs
    /\ returned \in [result : BOOLEAN, answered : BOOLEAN, halted : BOOLEAN,
                     haltedBefore : BOOLEAN]
    /\ lost \in SUBSET HIDs /\ missed \in BOOLEAN /\ overlapped \in BOOLEAN

(* On an endpoint that was halted before a request, no descriptor of it is  *)
(* executed.                                                                *)
HaltedStaysHalted ==
    driver.halted /\ driver.at # "Idle" =>
        /\ ControlED.Halted
        /\ driver.at \notin {"Build", "Link"} => answered = {}

(* The controller and the handler have nothing to do with control requests. *)
Quiet == ~hc.control /\ ~hc.due /\ ~WritebackDoneHead /\ ~handler.on

(* The rest of the list is as it was built, and what came before it has     *)
(* been answered.                                                           *)
LinkedFrom(td) == \A i \in td .. driver.status : NextTD[i] = i + 1

ListIsAhead ==
    /\ ControlED.Head \in 0 .. driver.status + 1
    /\ ControlED.Tail = driver.status + 1
    /\ answered = 0 .. ControlED.Head - 1
    /\ LinkedFrom(ControlED.Head)

(* A list that has been started is executed until its end or an error, and  *)
(* then one write-back is due, and one interrupt completes the request.     *)
ListIsExecuted ==
    /\ IF ControlED.Halted THEN ~hc.control /\ answered # 0 .. driver.status
                           ELSE ListIsAhead /\ (hc.control => ControlED.Head # ControlED.Tail)
    /\ hc.due \/ WritebackDoneHead \/ (driver.at = "Wait" /\ gOHCITransferComplete) =>
           ~driver.halted /\ (ControlED.Halted \/ ControlED.Head = ControlED.Tail)
    /\ driver.at = "Forget" => /\ ~WritebackDoneHead
                               /\ driver.framed \/ (~hc.control /\ ~hc.due)
    /\ hc.due => ~WritebackDoneHead /\ hc.done \in ControlTDs
    /\ WritebackDoneHead /\ ~handler.on => DoneHead \in ControlTDs
    /\ handler.on => /\ WritebackDoneHead
                     /\ gOHCITransferComplete \/ handler.td \in ControlTDs
    /\ driver.at = "Wait" /\ gOHCITransferComplete =>
           ~hc.due /\ (WritebackDoneHead => handler.on)
    /\ (ControlED.Halted \/ ControlED.Head = ControlED.Tail) /\ ~driver.halted =>
           hc.due \/ WritebackDoneHead \/ (driver.at = "Wait" /\ gOHCITransferComplete)
    /\ ~ControlED.Halted /\ ControlED.Head # ControlED.Tail => ControlListFilled

AloneIsOrderly ==
    HIDs = {} /\ Patient =>
        /\ handler.at = "Walk"
        /\ driver.at = "Idle" => Quiet /\ (ControlED.Halted \/ ControlED.Head = ControlED.Tail)
        /\ driver.at \in {"Build", "Link", "Reset", "Enable"} =>
               Quiet /\ ~ControlListEnable /\ ControlED.Halted = driver.halted
        /\ driver.at = "Link" => LinkedFrom(0)
        /\ driver.at \in {"Reset", "Enable"} => ListIsAhead /\ ControlED.Head = 0
        /\ driver.at \in {"Forget", "Wait"} => ListIsExecuted

IInv == TypeOK /\ HaltedStaysHalted /\ AloneIsOrderly

-----------------------------------------------------------------------------
(* The types.                                                               *)
LEMMA SortsAreDistinct ==
    /\ ControlTDs = {0, 1, 2, 3} /\ ControlTDs \subseteq TDs /\ HIDs \subseteq TDs
    /\ Dummy \in TDs /\ Null \notin TDs /\ TDs \subseteq Links /\ Null \in Links
    /\ \A h \in HIDs : h \notin ControlTDs /\ h # Dummy
    /\ Dummy \notin ControlTDs
BY SortsAssumption DEF ControlTDs, TDs, Links

LEMMA DriverMoves ==
    ASSUME TypeOK, NEW from, NEW to \in Places, Driver(from, to)
    PROVE  /\ ~handler.on /\ driver.at = from /\ driver'.at = to
           /\ driver' \in [at : Places, request : Nat, status : 1 .. 2, halted : BOOLEAN,
                           framed : BOOLEAN]
           /\ driver'.status = driver.status /\ driver'.halted = driver.halted
           /\ driver'.framed = driver.framed /\ driver'.request = driver.request
BY DEF Driver, TypeOK

LEMMA FrameIsTyped == ASSUME TypeOK, Frame PROVE TypeOK'
<1>. DEFINE writeback == hc.due /\ ~WritebackDoneHead
            found == ControlListFilled /\ ~ControlED.Halted /\ ControlED.Head # ControlED.Tail
<1>1. hc' \in [control : BOOLEAN, done : Links, due : BOOLEAN]
  <2>1. PICK c \in BOOLEAN : c = (ControlListEnable /\ found)
    BY Zenon
  <2>2. PICK d \in BOOLEAN : d = (hc.due /\ ~writeback)
    BY Zenon
  <2>3. PICK done \in Links : done = IF writeback THEN Null ELSE hc.done
    BY SortsAreDistinct DEF TypeOK
  <2>4. hc' = [control |-> c, done |-> done, due |-> d]
    BY <2>1, <2>2, <2>3, Zenon DEF Frame
  <2>. QED  BY <2>4
<1>2. ControlListFilled' \in BOOLEAN /\ WritebackDoneHead' \in BOOLEAN
  BY Zenon DEF Frame
<1>3. DoneHead' \in Links
  BY DEF Frame, TypeOK
<1>4. driver' \in [at : Places, request : Nat, status : 1 .. 2, halted : BOOLEAN,
                   framed : BOOLEAN]
  <2>1. PICK b \in BOOLEAN : b = (driver.at = "Forget")
    BY Zenon
  <2>2. driver' = [driver EXCEPT !.framed = b]
    BY <2>1, Zenon DEF Frame
  <2>. QED  BY <2>2 DEF TypeOK
<1>5. UNCHANGED <<NextTD, ControlED, HIDHead, handler, answered, returned, lost, missed, overlapped>>
  BY DEF Frame, memory, history, races
<1>6. ControlListEnable' = ControlListEnable /\ gOHCITransferComplete' = gOHCITransferComplete
  BY Zenon DEF Frame
<1>. QED  BY <1>1, <1>2, <1>3, <1>4, <1>5, <1>6 DEF TypeOK

LEMMA ExecuteIsTyped ==
    ASSUME TypeOK, ExecuteControl \/ \E h \in HIDs : ExecuteHID(h)
    PROVE  TypeOK'
<1>1. ASSUME ExecuteControl  PROVE TypeOK'
  <2>1. PICK error \in BOOLEAN :
            /\ hc' = [Retired(ControlED.Head, error \/ ControlED.Head = driver.status)
                          EXCEPT !.control = ~error /\ NextTD[ControlED.Head] # ControlED.Tail]
            /\ ControlED' = [ControlED EXCEPT !.Head = NextTD[ControlED.Head], !.Halted = error]
            /\ answered' = IF error THEN answered ELSE answered \cup {ControlED.Head}
    BY <1>1 DEF ExecuteControl
  <2>2. error \in BOOLEAN /\ ControlED.Head \in ControlTDs /\ NextTD[ControlED.Head] \in Links
    BY <1>1, SortsAreDistinct DEF ExecuteControl, TypeOK
  <2>3. hc' \in [control : BOOLEAN, done : Links, due : BOOLEAN]
    <3>1. PICK c \in BOOLEAN : c = (~error /\ NextTD[ControlED.Head] # ControlED.Tail)
      BY Zenon
    <3>2. PICK d \in BOOLEAN : d = (hc.due \/ (error \/ ControlED.Head = driver.status))
      BY Zenon
    <3>3. hc' = [hc EXCEPT !.done = ControlED.Head, !.due = d, !.control = c]
      BY <2>1, <3>1, <3>2, Zenon DEF Retired
    <3>. QED  BY <2>2, <3>3, SortsAreDistinct DEF TypeOK
  <2>4. ControlED' \in [Head : Links, Tail : ControlTDs, Halted : BOOLEAN]
    BY <2>1, <2>2 DEF TypeOK
  <2>5. answered' \in SUBSET ControlTDs
    BY <2>1, <2>2 DEF TypeOK
  <2>6. NextTD' \in [TDs -> Links]
    BY <1>1 DEF ExecuteControl, TypeOK
  <2>7. /\ UNCHANGED <<HIDHead, DoneHead, driver, handler, returned, lost, missed, overlapped>>
        /\ ControlListEnable' = ControlListEnable /\ ControlListFilled' = ControlListFilled
        /\ WritebackDoneHead' = WritebackDoneHead
        /\ gOHCITransferComplete' = gOHCITransferComplete
    BY <1>1, Zenon DEF ExecuteControl, list, races
  <2>. QED  BY <2>3, <2>4, <2>5, <2>6, <2>7 DEF TypeOK
<1>2. ASSUME NEW h \in HIDs, ExecuteHID(h)  PROVE TypeOK'
  <2>1. hc' \in [control : BOOLEAN, done : Links, due : BOOLEAN]
    <3>1. PICK d \in BOOLEAN : d = (hc.due \/ TRUE)
      BY Zenon
    <3>2. hc' = [hc EXCEPT !.done = h, !.due = d]
      BY <1>2, <3>1, Zenon DEF ExecuteHID, Retired
    <3>. QED  BY <3>2, SortsAreDistinct DEF TypeOK
  <2>2. NextTD' \in [TDs -> Links] /\ HIDHead' \in [HIDs -> Links]
    BY <1>2, SortsAreDistinct DEF ExecuteHID, TypeOK
  <2>3. /\ UNCHANGED <<ControlED, DoneHead, driver, handler, answered, returned, lost, missed,
                       overlapped>>
        /\ ControlListEnable' = ControlListEnable /\ ControlListFilled' = ControlListFilled
        /\ WritebackDoneHead' = WritebackDoneHead
        /\ gOHCITransferComplete' = gOHCITransferComplete
    BY <1>2, Zenon DEF ExecuteHID, list, history, races
  <2>. QED  BY <2>1, <2>2, <2>3 DEF TypeOK
<1>. QED  BY <1>1, <1>2

LEMMA DriverIsTyped == ASSUME TypeOK, DriverStep PROVE TypeOK'
<1>1. ASSUME SendControlRequest  PROVE TypeOK'
  <2>1. driver' \in [at : Places, request : Nat, status : 1 .. 2, halted : BOOLEAN,
                     framed : BOOLEAN]
    <3>1. PICK n \in Nat : n = driver.request + 1
      BY DEF TypeOK
    <3>2. PICK isHalted \in BOOLEAN : isHalted = ControlED.Halted
      BY DEF TypeOK
    <3>3. driver' = [driver EXCEPT !.at = "Build", !.request = n, !.halted = isHalted,
                                   !.framed = FALSE]
      BY <1>1, <3>1, <3>2 DEF SendControlRequest
    <3>4. driver \in [at : Places, request : Nat, status : 1 .. 2, halted : BOOLEAN,
                      framed : BOOLEAN]
      BY DEF TypeOK
    <3>. QED  BY <3>3, <3>4 DEF Places
  <2>2. ControlListEnable' \in BOOLEAN /\ missed' \in BOOLEAN /\ overlapped' \in BOOLEAN
    BY <1>1, Zenon DEF SendControlRequest
  <2>3. /\ UNCHANGED <<NextTD, ControlED, HIDHead, hc, DoneHead, handler, answered, returned, lost>>
        /\ ControlListFilled' = ControlListFilled /\ WritebackDoneHead' = WritebackDoneHead
        /\ gOHCITransferComplete' = gOHCITransferComplete
    BY <1>1, Zenon DEF SendControlRequest, memory, hcVars
  <2>. QED  BY <2>1, <2>2, <2>3 DEF TypeOK
<1>2. ASSUME BuildTDs  PROVE TypeOK'
  <2>1. PICK status \in 1 .. 2 :
            /\ driver' = [driver EXCEPT !.at = "Link", !.status = status]
            /\ NextTD' = [td \in TDs |-> IF td \in 0 .. status THEN td + 1
                                         ELSE IF td = status + 1 THEN Null ELSE NextTD[td]]
    BY <1>2 DEF BuildTDs
  <2>2. \A i \in 0 .. status : i + 1 \in ControlTDs
    BY DEF ControlTDs
  <2>3. NextTD' \in [TDs -> Links]
    BY <2>1, <2>2, SortsAreDistinct DEF TypeOK
  <2>4. driver' \in [at : Places, request : Nat, status : 1 .. 2, halted : BOOLEAN,
                     framed : BOOLEAN]
    BY <2>1 DEF TypeOK, Places
  <2>5. /\ UNCHANGED <<ControlED, HIDHead, hc, DoneHead, handler, answered, returned, lost,
                       missed, overlapped>>
        /\ ControlListEnable' = ControlListEnable /\ ControlListFilled' = ControlListFilled
        /\ WritebackDoneHead' = WritebackDoneHead
        /\ gOHCITransferComplete' = gOHCITransferComplete
    BY <1>2, Zenon DEF BuildTDs, list, hcVars, history, races
  <2>. QED  BY <2>3, <2>4, <2>5 DEF TypeOK
<1>3. ASSUME LinkTDs  PROVE TypeOK'
  <2>1. ControlED' \in [Head : Links, Tail : ControlTDs, Halted : BOOLEAN]
    <3>1. PICK n \in ControlTDs : n = driver.status + 1
      BY DEF TypeOK, ControlTDs
    <3>2. ControlED' = [ControlED EXCEPT !.Head = 0, !.Tail = n]
      BY <1>3, <3>1, Zenon DEF LinkTDs, NewHead, Setup
    <3>. QED  BY <3>2, SortsAreDistinct DEF TypeOK
  <2>2. driver' \in [at : Places, request : Nat, status : 1 .. 2, halted : BOOLEAN,
                     framed : BOOLEAN]
    BY <1>3, DriverMoves DEF LinkTDs, Places
  <2>3. /\ UNCHANGED <<NextTD, HIDHead, hc, DoneHead, handler, returned, lost, missed, overlapped>>
        /\ answered' = {}
        /\ ControlListEnable' = ControlListEnable /\ ControlListFilled' = ControlListFilled
        /\ WritebackDoneHead' = WritebackDoneHead
        /\ gOHCITransferComplete' = gOHCITransferComplete
    BY <1>3, Zenon DEF LinkTDs, list, hcVars, races
  <2>. QED  BY <2>1, <2>2, <2>3 DEF TypeOK
<1>4. ASSUME ResetDoneHead  PROVE TypeOK'
  <2>1. lost' \in SUBSET HIDs /\ DoneHead' \in Links
    BY <1>4, SortsAreDistinct DEF ResetDoneHead, TypeOK
  <2>2. driver' \in [at : Places, request : Nat, status : 1 .. 2, halted : BOOLEAN,
                     framed : BOOLEAN]
    BY <1>4, DriverMoves DEF ResetDoneHead, Places
  <2>3. /\ UNCHANGED <<NextTD, ControlED, HIDHead, hc, handler, answered, returned, missed,
                       overlapped>>
        /\ ControlListEnable' = ControlListEnable /\ ControlListFilled' = ControlListFilled
        /\ WritebackDoneHead' = WritebackDoneHead
        /\ gOHCITransferComplete' = gOHCITransferComplete
    BY <1>4, Zenon DEF ResetDoneHead, memory, list, hcVars, races
  <2>. QED  BY <2>1, <2>2, <2>3 DEF TypeOK
<1>5. ASSUME EnableList \/ ForgetLast  PROVE TypeOK'
  <2>1. driver' \in [at : Places, request : Nat, status : 1 .. 2, halted : BOOLEAN,
                     framed : BOOLEAN]
    BY <1>5, DriverMoves DEF EnableList, ForgetLast, Places
  <2>2. /\ UNCHANGED <<NextTD, ControlED, HIDHead, hc, DoneHead, handler, answered, returned,
                       lost, missed, overlapped>>
        /\ WritebackDoneHead' = WritebackDoneHead
    BY <1>5, Zenon DEF EnableList, ForgetLast, memory, hcVars, history, races
  <2>3. /\ ControlListEnable' \in BOOLEAN /\ ControlListFilled' \in BOOLEAN
        /\ gOHCITransferComplete' \in BOOLEAN
    BY <1>5, Zenon DEF EnableList, ForgetLast, ForgottenFlag, list, TypeOK
  <2>. QED  BY <2>1, <2>2, <2>3 DEF TypeOK
<1>6. ASSUME NEW result \in BOOLEAN, Return(result)  PROVE TypeOK'
  <2>1. returned' \in [result : BOOLEAN, answered : BOOLEAN, halted : BOOLEAN,
                       haltedBefore : BOOLEAN]
    <3>1. PICK b \in BOOLEAN : b = (answered = 0 .. driver.status)
      BY Zenon
    <3>2. returned' = [result |-> result, answered |-> b, halted |-> ControlED.Halted,
                       haltedBefore |-> driver.halted]
      BY <1>6, <3>1, Zenon DEF Return
    <3>. QED  BY <3>2 DEF TypeOK
  <2>2. driver' \in [at : Places, request : Nat, status : 1 .. 2, halted : BOOLEAN,
                     framed : BOOLEAN]
    BY <1>6, DriverMoves DEF Return, Places
  <2>3. /\ UNCHANGED <<NextTD, ControlED, HIDHead, hc, DoneHead, handler, answered, lost,
                       missed, overlapped>>
        /\ ControlListEnable' = ControlListEnable /\ ControlListFilled' = ControlListFilled
        /\ WritebackDoneHead' = WritebackDoneHead
        /\ gOHCITransferComplete' = gOHCITransferComplete
    BY <1>6, Zenon DEF Return, memory, list, hcVars, races
  <2>. QED  BY <2>1, <2>2, <2>3 DEF TypeOK
<1>. QED  BY <1>1, <1>2, <1>3, <1>4, <1>5, <1>6 DEF DriverStep, Complete, Timeout

LEMMA HandlerIsTyped == ASSUME TypeOK, TakeInterrupt \/ HandlerStep PROVE TypeOK'
<1>. DEFINE Handlers == [on : BOOLEAN, at : {"Walk", "Requeue"}, td : Links, next : Links]
<1>1. Off \in Handlers
  BY SortsAreDistinct DEF Off
<1>2. ASSUME TakeInterrupt  PROVE TypeOK'
  <2>1. handler' \in Handlers /\ DoneHead' \in Links
    BY <1>1, <1>2, SortsAreDistinct DEF TakeInterrupt, TypeOK
  <2>2. /\ UNCHANGED <<NextTD, ControlED, HIDHead, hc, driver, answered, returned, lost,
                       missed, overlapped>>
        /\ ControlListEnable' = ControlListEnable /\ ControlListFilled' = ControlListFilled
        /\ WritebackDoneHead' = WritebackDoneHead
        /\ gOHCITransferComplete' = gOHCITransferComplete
    BY <1>2, Zenon DEF TakeInterrupt, memory, list, hcVars, history, races
  <2>. QED  BY <2>1, <2>2 DEF TypeOK
<1>3. ASSUME CompletedControl \/ CompletedOther  PROVE TypeOK'
  <2>1. handler' \in Handlers
    BY <1>3, SortsAreDistinct DEF CompletedControl, CompletedOther, FollowingTD, TypeOK
  <2>2. /\ UNCHANGED <<NextTD, ControlED, HIDHead, hc, DoneHead, driver, answered, returned, lost,
                       overlapped>>
        /\ ControlListEnable' = ControlListEnable /\ ControlListFilled' = ControlListFilled
        /\ WritebackDoneHead' = WritebackDoneHead
    BY <1>3, Zenon DEF CompletedControl, CompletedOther, memory, list, hcVars, history, races
  <2>3. gOHCITransferComplete' \in BOOLEAN /\ missed' \in BOOLEAN
    BY <1>3, Zenon DEF CompletedControl, CompletedOther, history, races, TypeOK
  <2>. QED  BY <2>1, <2>2, <2>3 DEF TypeOK
<1>4. ASSUME CompletedReport \/ Requeue  PROVE TypeOK'
  <2>1. handler' \in Handlers /\ NextTD' \in [TDs -> Links] /\ HIDHead' \in [HIDs -> Links]
    <3>1. CASE CompletedReport
      <4>1. /\ handler.td \in HIDs /\ HIDHead' = HIDHead
            /\ NextTD' = [NextTD EXCEPT ![handler.td] = Dummy]
            /\ handler' = [handler EXCEPT !.at = "Requeue", !.next = NextTD[handler.td]]
        BY <3>1 DEF CompletedReport, Walking, FollowingTD
      <4>. QED  BY <4>1, SortsAreDistinct DEF TypeOK
    <3>2. CASE Requeue
      <4>1. /\ HIDHead' = [HIDHead EXCEPT ![handler.td] = handler.td] /\ NextTD' = NextTD
            /\ handler' = [handler EXCEPT !.at = "Walk", !.td = handler.next, !.next = Null]
        BY <3>2 DEF Requeue
      <4>. QED  BY <4>1, SortsAreDistinct DEF TypeOK
    <3>. QED  BY <1>4, <3>1, <3>2
  <2>2. /\ UNCHANGED <<ControlED, hc, DoneHead, driver, answered, returned, lost, missed,
                       overlapped>>
        /\ ControlListEnable' = ControlListEnable /\ ControlListFilled' = ControlListFilled
        /\ WritebackDoneHead' = WritebackDoneHead
        /\ gOHCITransferComplete' = gOHCITransferComplete
    BY <1>4, Zenon DEF CompletedReport, Requeue, list, hcVars, history, races
  <2>. QED  BY <2>1, <2>2 DEF TypeOK
<1>5. ASSUME Acknowledge  PROVE TypeOK'
  <2>1. /\ UNCHANGED <<NextTD, ControlED, HIDHead, hc, DoneHead, answered, returned, lost, missed,
                       overlapped>>
        /\ ControlListEnable' = ControlListEnable /\ ControlListFilled' = ControlListFilled
        /\ WritebackDoneHead' \in BOOLEAN /\ handler' = Off
        /\ gOHCITransferComplete' = gOHCITransferComplete
    BY <1>5, Zenon DEF Acknowledge, memory, list, history, races
  <2>2. driver' \in [at : Places, request : Nat, status : 1 .. 2, halted : BOOLEAN,
                     framed : BOOLEAN]
    BY <1>5 DEF Acknowledge, TypeOK
  <2>. QED  BY <1>1, <2>1, <2>2 DEF TypeOK
<1>. QED  BY <1>2, <1>3, <1>4, <1>5 DEF HandlerStep

LEMMA TypeIsKept == TypeOK /\ [Next]_vars => TypeOK'
<1>1. SUFFICES ASSUME TypeOK, [Next]_vars  PROVE TypeOK'
  OBVIOUS
<1>2. CASE UNCHANGED vars
  <2>1. /\ UNCHANGED <<NextTD, ControlED, HIDHead, hc, DoneHead, driver, handler, answered,
                       returned, lost, missed, overlapped>>
        /\ ControlListEnable' = ControlListEnable /\ ControlListFilled' = ControlListFilled
        /\ WritebackDoneHead' = WritebackDoneHead
        /\ gOHCITransferComplete' = gOHCITransferComplete
    BY <1>2, Zenon DEF vars, memory, list, hcVars, history, races
  <2>. QED  BY <1>1, <2>1 DEF TypeOK
<1>. QED  BY <1>1, <1>2, FrameIsTyped, ExecuteIsTyped, DriverIsTyped, HandlerIsTyped DEF Next

-----------------------------------------------------------------------------
(* The rest of the invariant.                                               *)
LEMMA InitIsSound == Init => IInv
<1>. SUFFICES ASSUME Init  PROVE IInv
  OBVIOUS
<1>1. TypeOK
  <2>1. /\ NextTD \in [TDs -> Links] /\ HIDHead \in [HIDs -> Links] /\ DoneHead \in Links
        /\ ControlED \in [Head : Links, Tail : ControlTDs, Halted : BOOLEAN]
    BY SortsAreDistinct DEF Init
  <2>2. /\ hc \in [control : BOOLEAN, done : Links, due : BOOLEAN]
        /\ driver \in [at : Places, request : Nat, status : 1 .. 2, halted : BOOLEAN,
                       framed : BOOLEAN]
        /\ handler \in [on : BOOLEAN, at : {"Walk", "Requeue"}, td : Links, next : Links]
    BY SortsAreDistinct DEF Init, Off, Places
  <2>3. /\ returned \in [result : BOOLEAN, answered : BOOLEAN, halted : BOOLEAN,
                         haltedBefore : BOOLEAN]
        /\ answered \in SUBSET ControlTDs /\ lost \in SUBSET HIDs
    BY DEF Init
  <2>4. /\ ControlListEnable \in BOOLEAN /\ ControlListFilled \in BOOLEAN
        /\ WritebackDoneHead \in BOOLEAN /\ gOHCITransferComplete \in BOOLEAN
        /\ missed \in BOOLEAN /\ overlapped \in BOOLEAN
    BY Zenon DEF Init
  <2>. QED  BY <2>1, <2>2, <2>3, <2>4 DEF TypeOK
<1>2. HaltedStaysHalted /\ AloneIsOrderly
  BY DEF Init, Off, HaltedStaysHalted, AloneIsOrderly, Quiet
<1>. QED  BY <1>1, <1>2 DEF IInv

(* What the steps of the controller and of the handler leave to the driver. *)
LEMMA DriverWaits ==
    ASSUME TypeOK, \/ Frame \/ ExecuteControl \/ \E h \in HIDs : ExecuteHID(h)
                   \/ TakeInterrupt \/ HandlerStep
    PROVE  /\ driver'.at = driver.at /\ driver'.status = driver.status
           /\ driver'.halted = driver.halted /\ returned' = returned
           /\ driver'.request = driver.request
           /\ ~Frame /\ ~Acknowledge => driver' = driver
           /\ ~ExecuteControl => UNCHANGED <<ControlED, answered>>
<1>1. CASE Frame
  <2>1. /\ driver' = [driver EXCEPT !.framed = driver.at = "Forget"]
        /\ UNCHANGED <<returned, ControlED, answered>>
    BY <1>1 DEF Frame, memory, history
  <2>. QED  BY <1>1, <2>1 DEF TypeOK
<1>2. CASE ExecuteControl
  <2>1. driver' = driver /\ returned' = returned
    BY <1>2 DEF ExecuteControl
  <2>. QED  BY <1>2, <2>1
<1>3. CASE \E h \in HIDs : ExecuteHID(h)
  BY <1>3 DEF ExecuteHID, history
<1>4. CASE TakeInterrupt \/ (HandlerStep /\ ~Acknowledge)
  BY <1>4 DEF TakeInterrupt, HandlerStep, CompletedControl, CompletedOther, CompletedReport,
              Requeue, memory, history
<1>5. CASE Acknowledge
  <2>1. /\ driver' = [driver EXCEPT !.framed = FALSE]
        /\ UNCHANGED <<returned, ControlED, answered>>
    BY <1>5 DEF Acknowledge, memory, history
  <2>. QED  BY <1>5, <2>1 DEF TypeOK
<1>. QED  BY <1>1, <1>2, <1>3, <1>4, <1>5

LEMMA HaltIsKept ==
    ASSUME TypeOK, HaltedStaysHalted, Next
    PROVE  HaltedStaysHalted'
<1>1. CASE ExecuteControl
  <2>1. driver' = driver /\ ~ControlED.Halted
    BY <1>1 DEF ExecuteControl
  <2>. QED  BY <2>1 DEF HaltedStaysHalted
<1>2. CASE Frame \/ (\E h \in HIDs : ExecuteHID(h)) \/ TakeInterrupt \/ HandlerStep
  <2>1. CASE ExecuteControl
    BY <1>1, <2>1
  <2>2. CASE ~ExecuteControl
    BY <1>2, <2>2, DriverWaits DEF HaltedStaysHalted
  <2>. QED  BY <2>1, <2>2
<1>3. CASE SendControlRequest
  BY <1>3 DEF SendControlRequest, memory, HaltedStaysHalted
<1>4. CASE BuildTDs
  <2>1. /\ driver'.at = "Link" /\ driver.at = "Build" /\ driver'.halted = driver.halted
        /\ ControlED' = ControlED
    BY <1>4 DEF BuildTDs, TypeOK
  <2>. QED  BY <2>1 DEF HaltedStaysHalted
<1>5. CASE LinkTDs
  <2>1. /\ driver.at = "Link" /\ driver'.halted = driver.halted
        /\ ControlED'.Halted = ControlED.Halted /\ answered' = {}
    BY <1>5, DriverMoves DEF LinkTDs, NewHead, Places, TypeOK
  <2>. QED  BY <2>1 DEF HaltedStaysHalted
<1>6. CASE ResetDoneHead \/ EnableList \/ ForgetLast \/ Complete \/ Timeout
  <2>1. /\ driver.at \in {"Reset", "Enable", "Forget", "Wait"} /\ driver'.halted = driver.halted
        /\ ControlED' = ControlED /\ answered' = answered
    BY <1>6, DriverMoves DEF ResetDoneHead, EnableList, ForgetLast, Complete, Timeout, Return,
                             Places, memory, history
  <2>. QED  BY <2>1 DEF HaltedStaysHalted
<1>. QED  BY <1>1, <1>2, <1>3, <1>4, <1>5, <1>6 DEF Next, DriverStep

(* What a frame does: a done queue that is due is written back.             *)
LEMMA WhatFrameDoes ==
    ASSUME TypeOK, Frame
    PROVE  /\ driver'.at = driver.at /\ driver'.halted = driver.halted
           /\ driver'.status = driver.status /\ driver'.request = driver.request
           /\ UNCHANGED <<NextTD, ControlED, HIDHead, handler, history>>
           /\ ControlListEnable' = ControlListEnable
           /\ gOHCITransferComplete' = gOHCITransferComplete
           /\ driver.at = "Forget" => driver'.framed /\ (~driver.framed \/ handler.on)
           /\ hc'.control => /\ ControlListEnable
                             /\ ~ControlED.Halted /\ ControlED.Head # ControlED.Tail
           /\ ControlListFilled /\ ~ControlED.Halted /\ ControlED.Head # ControlED.Tail =>
                  ControlListFilled'
           /\ hc.due /\ ~WritebackDoneHead =>
                  /\ ~hc'.due /\ hc'.done = Null
                  /\ WritebackDoneHead' /\ DoneHead' = hc.done
           /\ ~(hc.due /\ ~WritebackDoneHead) =>
                  /\ hc'.due = hc.due /\ hc'.done = hc.done
                  /\ WritebackDoneHead' = WritebackDoneHead /\ DoneHead' = DoneHead
<1>1. UNCHANGED <<NextTD, ControlED, HIDHead, handler, history>>
  BY DEF Frame, memory
<1>2. ControlListEnable' = ControlListEnable /\ gOHCITransferComplete' = gOHCITransferComplete
  BY Zenon DEF Frame
<1>3. /\ driver' = [driver EXCEPT !.framed = driver.at = "Forget"]
      /\ ~(driver.at = "Forget" /\ driver.framed /\ ~handler.on)
  BY DEF Frame
<1>4. /\ driver'.at = driver.at /\ driver'.halted = driver.halted
      /\ driver'.status = driver.status /\ driver'.request = driver.request
      /\ driver.at = "Forget" => driver'.framed /\ (~driver.framed \/ handler.on)
  BY <1>3 DEF TypeOK
<1>5. PICK found \in BOOLEAN :
          found = (ControlListFilled /\ ~ControlED.Halted /\ ControlED.Head # ControlED.Tail)
  BY Zenon
<1>8. ControlListFilled /\ ~ControlED.Halted /\ ControlED.Head # ControlED.Tail =>
          ControlListFilled'
  <2>1. ControlListFilled' = (ControlListFilled /\ (ControlListEnable => found))
    BY <1>5, Zenon DEF Frame
  <2>. QED  BY <1>5, <2>1, Zenon
<1>6. CASE hc.due /\ ~WritebackDoneHead
  <2>1. /\ hc' = [control |-> ControlListEnable /\ found, done |-> Null,
                  due |-> hc.due /\ ~(hc.due /\ ~WritebackDoneHead)]
        /\ WritebackDoneHead' = (WritebackDoneHead \/ (hc.due /\ ~WritebackDoneHead))
        /\ DoneHead' = hc.done
    BY <1>5, <1>6, Zenon DEF Frame
  <2>2. /\ ~hc'.due /\ hc'.done = Null /\ WritebackDoneHead'
        /\ hc'.control => ControlListEnable /\ found
    BY <1>6, <2>1
  <2>. QED  BY <1>1, <1>2, <1>4, <1>5, <1>6, <1>8, <2>1, <2>2
<1>7. CASE ~(hc.due /\ ~WritebackDoneHead)
  <2>1. /\ hc' = [control |-> ControlListEnable /\ found, done |-> hc.done,
                  due |-> hc.due /\ ~(hc.due /\ ~WritebackDoneHead)]
        /\ WritebackDoneHead' = (WritebackDoneHead \/ (hc.due /\ ~WritebackDoneHead))
        /\ DoneHead' = DoneHead
    BY <1>5, <1>7, Zenon DEF Frame
  <2>2. /\ hc'.due = hc.due /\ hc'.done = hc.done /\ WritebackDoneHead' = WritebackDoneHead
        /\ hc'.control => ControlListEnable /\ found
    BY <1>7, <2>1 DEF TypeOK
  <2>. QED  BY <1>1, <1>2, <1>4, <1>5, <1>7, <1>8, <2>1, <2>2
<1>. QED  BY <1>6, <1>7

LEMMA FrameKeepsOrder ==
    ASSUME IInv, HIDs = {}, Patient, Frame
    PROVE  AloneIsOrderly'
<1>1. /\ TypeOK /\ handler' = handler /\ driver'.at = driver.at /\ driver'.halted = driver.halted
      /\ driver'.status = driver.status
      /\ UNCHANGED <<NextTD, ControlED, answered>>
      /\ ControlListEnable' = ControlListEnable
      /\ gOHCITransferComplete' = gOHCITransferComplete
  BY WhatFrameDoes DEF IInv, history
<1>2. driver.at = "Forget" => driver'.framed /\ (~driver.framed \/ handler.on)
  BY WhatFrameDoes DEF IInv
<1>3. /\ hc'.control => /\ ControlListEnable
                        /\ ~ControlED.Halted /\ ControlED.Head # ControlED.Tail
      /\ hc.due /\ ~WritebackDoneHead =>
             ~hc'.due /\ WritebackDoneHead' /\ DoneHead' = hc.done
      /\ ~(hc.due /\ ~WritebackDoneHead) =>
             /\ hc'.due = hc.due /\ hc'.done = hc.done
             /\ WritebackDoneHead' = WritebackDoneHead /\ DoneHead' = DoneHead
      /\ ControlListFilled /\ ~ControlED.Halted /\ ControlED.Head # ControlED.Tail =>
             ControlListFilled'
  BY WhatFrameDoes DEF IInv
<1>4. /\ handler.at = "Walk" /\ driver.at \in Places
      /\ driver.at = "Idle" => Quiet /\ (ControlED.Halted \/ ControlED.Head = ControlED.Tail)
      /\ driver.at \in {"Build", "Link", "Reset", "Enable"} =>
             Quiet /\ ~ControlListEnable /\ ControlED.Halted = driver.halted
      /\ driver.at = "Link" => LinkedFrom(0)
      /\ driver.at \in {"Reset", "Enable"} => ListIsAhead /\ ControlED.Head = 0
      /\ driver.at \in {"Forget", "Wait"} => ListIsExecuted
  BY <1>1 DEF IInv, AloneIsOrderly, TypeOK
<1>5. driver.at = "Idle" => Quiet' /\ (ControlED.Halted \/ ControlED.Head = ControlED.Tail)
  BY <1>1, <1>3, <1>4 DEF Quiet
<1>6. driver.at \in {"Build", "Link", "Reset", "Enable"} => Quiet'
  BY <1>1, <1>3, <1>4 DEF Quiet
<1>7. ListIsAhead => ListIsAhead'
  BY <1>1 DEF ListIsAhead, LinkedFrom
<1>8. driver.at \in {"Forget", "Wait"} => ListIsExecuted'
  BY <1>1, <1>2, <1>3, <1>4, <1>7 DEF ListIsExecuted
<1>9. LinkedFrom(0) => LinkedFrom(0)'
  BY <1>1 DEF LinkedFrom
<1>. QED  BY <1>1, <1>4, <1>5, <1>6, <1>7, <1>8, <1>9 DEF AloneIsOrderly

LEMMA ExecuteKeepsOrder ==
    ASSUME IInv, HIDs = {}, Patient, ExecuteControl
    PROVE  AloneIsOrderly'
<1>. DEFINE td == ControlED.Head
<1>1. /\ TypeOK /\ handler' = handler /\ driver' = driver
      /\ WritebackDoneHead' = WritebackDoneHead /\ DoneHead' = DoneHead
      /\ gOHCITransferComplete' = gOHCITransferComplete
      /\ hc.control /\ ~ControlED.Halted /\ td \in ControlTDs \ {ControlED.Tail}
      /\ NextTD' = [NextTD EXCEPT ![td] = hc.done]
      /\ ControlListFilled' = ControlListFilled
  BY Zenon DEF ExecuteControl, IInv, list
<1>2. /\ driver.at \in {"Forget", "Wait"} /\ ListIsExecuted /\ handler.at = "Walk"
      /\ ListIsAhead
  BY <1>1 DEF IInv, AloneIsOrderly, TypeOK, Places, Quiet, ListIsExecuted
<1>3. /\ td \in 0 .. driver.status /\ NextTD[td] = td + 1 /\ ControlED.Tail = driver.status + 1
      /\ answered = 0 .. td - 1 /\ driver.status \in 1 .. 2
  BY <1>1, <1>2 DEF ListIsAhead, LinkedFrom, TypeOK, ControlTDs
<1>4. /\ ~hc.due /\ ~WritebackDoneHead /\ ~handler.on
      /\ ~(driver.at = "Wait" /\ gOHCITransferComplete)
  BY <1>1, <1>2, <1>3 DEF ListIsExecuted
<1>5. PICK error \in BOOLEAN :
          /\ hc' = [Retired(td, error \/ td = driver.status)
                        EXCEPT !.control = ~error /\ NextTD[td] # ControlED.Tail]
          /\ ControlED' = [ControlED EXCEPT !.Head = NextTD[td], !.Halted = error]
          /\ answered' = IF error THEN answered ELSE answered \cup {td}
  BY DEF ExecuteControl
<1>6. /\ hc'.control <=> ~error /\ td # driver.status
      /\ hc'.due <=> error \/ td = driver.status
      /\ hc'.done = td
  <2>1. PICK c \in BOOLEAN : c = (~error /\ NextTD[td] # ControlED.Tail)
    BY Zenon
  <2>2. PICK d \in BOOLEAN : d = (hc.due \/ (error \/ td = driver.status))
    BY Zenon
  <2>3. hc' = [hc EXCEPT !.done = td, !.due = d, !.control = c]
    BY <1>5, <2>1, <2>2, Zenon DEF Retired
  <2>4. hc'.control = c /\ hc'.due = d /\ hc'.done = td
    BY <1>1, <2>3 DEF TypeOK
  <2>5. NextTD[td] # ControlED.Tail <=> td # driver.status
    BY <1>3
  <2>6. (c <=> ~error /\ td # driver.status) /\ (d <=> error \/ td = driver.status)
    BY <1>4, <2>1, <2>2, <2>5, Zenon
  <2>7. (hc'.control <=> c) /\ (hc'.due <=> d)
    BY <2>4
  <2>. QED  BY <2>4, <2>6, <2>7, Zenon
<1>7. /\ ControlED'.Head = td + 1 /\ ControlED'.Tail = ControlED.Tail
      /\ ControlED'.Halted = error
  BY <1>1, <1>3, <1>5 DEF TypeOK
<1>8. ~driver.halted
  BY <1>1, <1>2 DEF IInv, HaltedStaysHalted
<1>9. CASE error
  <2>1. answered' # 0 .. driver.status
    BY <1>3, <1>5, <1>9
  <2>. QED  BY <1>1, <1>2, <1>3, <1>4, <1>6, <1>7, <1>8, <1>9, <2>1
            DEF AloneIsOrderly, ListIsExecuted
<1>10. CASE ~error
  <2>1. answered' = 0 .. td
    BY <1>3, <1>5, <1>10
  <2>2. \A i \in td + 1 .. driver.status : NextTD'[i] = i + 1
    BY <1>1, <1>2, <1>3 DEF ListIsAhead, LinkedFrom, TypeOK
  <2>3. ListIsAhead'
    BY <1>1, <1>3, <1>7, <2>1, <2>2 DEF ListIsAhead, LinkedFrom
  <2>4. ListIsExecuted'
    BY <1>1, <1>2, <1>3, <1>4, <1>6, <1>7, <1>8, <1>10, <2>3 DEF ListIsExecuted
  <2>. QED  BY <1>1, <1>2, <2>4 DEF AloneIsOrderly
<1>. QED  BY <1>9, <1>10

LEMMA HandlerKeepsOrder ==
    ASSUME IInv, HIDs = {}, Patient, TakeInterrupt \/ HandlerStep
    PROVE  AloneIsOrderly'
<1>1. /\ TypeOK /\ hc' = hc /\ UNCHANGED <<ControlED, answered>>
      /\ driver'.at = driver.at /\ driver'.halted = driver.halted
      /\ driver'.status = driver.status
      /\ ControlListEnable' = ControlListEnable /\ ControlListFilled' = ControlListFilled
      /\ handler.at = "Walk" /\ Null \notin ControlTDs /\ Dummy \notin ControlTDs
  <2>1. hc' = hc
    BY Zenon DEF TakeInterrupt, HandlerStep, CompletedControl, CompletedOther, CompletedReport,
                 Requeue, Acknowledge, hcVars
  <2>2. ControlListEnable' = ControlListEnable /\ ControlListFilled' = ControlListFilled
    BY Zenon DEF TakeInterrupt, HandlerStep, CompletedControl, CompletedOther, CompletedReport,
                 Requeue, Acknowledge, list
  <2>3. ControlED' = ControlED /\ answered' = answered
    BY Zenon DEF TakeInterrupt, HandlerStep, CompletedControl, CompletedOther, CompletedReport,
                 Requeue, Acknowledge, memory, history
  <2>. QED  BY <2>1, <2>2, <2>3, DriverWaits, SortsAreDistinct DEF IInv, AloneIsOrderly
<1>2. /\ driver.at = "Wait" /\ ListIsExecuted
      /\ ~hc.due /\ WritebackDoneHead
  <2>1. WritebackDoneHead \/ handler.on
    BY DEF TakeInterrupt, HandlerStep, CompletedControl, CompletedOther, CompletedReport, Requeue,
           Acknowledge, Walking
  <2>. QED  BY <1>1, <2>1 DEF IInv, AloneIsOrderly, TypeOK, Places, Quiet, ListIsExecuted
<1>3. /\ ~driver.halted /\ (ControlED.Halted \/ ControlED.Head = ControlED.Tail)
      /\ IF ControlED.Halted THEN ~hc.control /\ answered # 0 .. driver.status
                             ELSE ListIsAhead /\ (hc.control => ControlED.Head # ControlED.Tail)
      /\ ~ControlED.Halted /\ ControlED.Head # ControlED.Tail => ControlListFilled
  BY <1>2 DEF ListIsExecuted
<1>4. CASE TakeInterrupt
  <2>1. /\ handler' = [Off EXCEPT !.on = TRUE, !.td = DoneHead] /\ ~handler.on
        /\ WritebackDoneHead' = WritebackDoneHead /\ NextTD' = NextTD
        /\ gOHCITransferComplete' = gOHCITransferComplete
    BY <1>4, Zenon DEF TakeInterrupt, hcVars, memory
  <2>2. handler'.at = "Walk" /\ handler'.on /\ handler'.td \in ControlTDs
    BY <1>2, <2>1 DEF Off, ListIsExecuted
  <2>3. ListIsAhead => ListIsAhead'
    BY <1>1, <2>1 DEF ListIsAhead, LinkedFrom
  <2>. QED  BY <1>1, <1>2, <1>3, <2>1, <2>2, <2>3 DEF AloneIsOrderly, ListIsExecuted
<1>5. CASE CompletedControl
  <2>1. /\ handler' = [handler EXCEPT !.td = FollowingTD] /\ handler.on
        /\ WritebackDoneHead' = WritebackDoneHead /\ NextTD' = NextTD
        /\ gOHCITransferComplete'
    BY <1>5, Zenon DEF CompletedControl, Walking, hcVars, memory
  <2>2. handler'.at = "Walk" /\ handler'.on
    BY <1>1, <2>1 DEF TypeOK
  <2>3. ListIsAhead => ListIsAhead'
    BY <1>1, <2>1 DEF ListIsAhead, LinkedFrom
  <2>. QED  BY <1>1, <1>2, <1>3, <2>1, <2>2, <2>3 DEF AloneIsOrderly, ListIsExecuted
<1>6. CASE CompletedReport \/ Requeue
  BY <1>1, <1>6 DEF CompletedReport, Requeue
<1>8. CASE CompletedOther
  <2>1. /\ handler' = [handler EXCEPT !.td = FollowingTD] /\ handler.on /\ handler.td = Dummy
        /\ WritebackDoneHead' = WritebackDoneHead /\ NextTD' = NextTD
        /\ gOHCITransferComplete' = gOHCITransferComplete
    BY <1>8, Zenon DEF CompletedOther, Walking, hcVars, memory
  <2>2. handler'.at = "Walk" /\ handler'.on /\ gOHCITransferComplete
    BY <1>1, <1>2, <2>1 DEF TypeOK, ListIsExecuted
  <2>3. ListIsAhead => ListIsAhead'
    BY <1>1, <2>1 DEF ListIsAhead, LinkedFrom
  <2>. QED  BY <1>1, <1>2, <1>3, <2>1, <2>2, <2>3 DEF AloneIsOrderly, ListIsExecuted
<1>7. CASE Acknowledge
  <2>1. /\ handler' = Off /\ ~WritebackDoneHead' /\ NextTD' = NextTD
        /\ gOHCITransferComplete' = gOHCITransferComplete
        /\ handler.on /\ handler.td = Null
    BY <1>7, Zenon DEF Acknowledge, Walking, memory
  <2>2. handler'.at = "Walk" /\ ~handler'.on /\ gOHCITransferComplete
    BY <1>1, <1>2, <2>1 DEF Off, ListIsExecuted
  <2>3. ListIsAhead => ListIsAhead'
    BY <1>1, <2>1 DEF ListIsAhead, LinkedFrom
  <2>. QED  BY <1>1, <1>2, <1>3, <2>1, <2>2, <2>3 DEF AloneIsOrderly, ListIsExecuted
<1>. QED  BY <1>4, <1>5, <1>6, <1>7, <1>8 DEF HandlerStep

LEMMA ListIsClosed ==
    ASSUME NEW next \in [TDs -> Links], NEW td \in Links
    PROVE  /\ ListAlong(next, td) \in SUBSET TDs
           /\ td \in ListAlong(next, td) \cup {Null}
           /\ \A s \in ListAlong(next, td) : next[s] \in ListAlong(next, td) \cup {Null}
BY DEF ListAlong, Links

(* When nothing is left to happen, the endpoint was halted before.          *)
LEMMA NothingMeansHalted ==
    ASSUME TypeOK, ListIsExecuted, ~handler.on, driver.at = "Wait",
           NothingPending, ~gOHCITransferComplete
    PROVE  ~hc.due /\ ~WritebackDoneHead /\ driver.halted
<1>1. NextTD \in [TDs -> Links] /\ hc.done \in Links /\ DoneHead \in Links /\ Null \notin ControlTDs
  BY SortsAreDistinct DEF TypeOK
<1>2. \A td \in Links : td \in ControlTDs => td \in ListFrom(td)
  BY <1>1, ListIsClosed DEF ListFrom
<1>3. ~hc.due /\ ~WritebackDoneHead
  BY <1>1, <1>2 DEF ListIsExecuted, NothingPending
<1>4. ASSUME ~ControlED.Halted /\ ControlED.Head # ControlED.Tail  PROVE FALSE
  <2>1. ControlListFilled /\ ListIsAhead
    BY <1>4 DEF ListIsExecuted
  <2>2. ControlED.Head \in ControlTDs
    BY <1>4, <2>1 DEF ListIsAhead, TypeOK, ControlTDs
  <2>. QED  BY <1>4, <2>1, <2>2 DEF NothingPending, ToBeExecuted
<1>. QED  BY <1>3, <1>4 DEF ListIsExecuted

LEMMA DriverKeepsOrder ==
    ASSUME IInv, HIDs = {}, Patient, DriverStep
    PROVE  AloneIsOrderly'
<1>1. /\ TypeOK /\ ~handler.on /\ handler' = handler /\ handler.at = "Walk" /\ hc' = hc
      /\ WritebackDoneHead' = WritebackDoneHead
  <2>1. handler' = handler /\ ~handler.on
    BY DEF DriverStep, SendControlRequest, BuildTDs, LinkTDs, ResetDoneHead, EnableList,
           ForgetLast, Complete, Timeout, Return, Driver
  <2>2. hc' = hc /\ WritebackDoneHead' = WritebackDoneHead
    BY Zenon DEF DriverStep, SendControlRequest, BuildTDs, LinkTDs, ResetDoneHead, EnableList,
                 ForgetLast, Complete, Timeout, Return, hcVars
  <2>. QED  BY <2>1, <2>2 DEF IInv, AloneIsOrderly
<1>2. Quiet => Quiet'
  BY <1>1 DEF Quiet
<1>3. CASE SendControlRequest
  <2>1. /\ driver.at = "Idle" /\ driver'.at = "Build" /\ driver'.halted = ControlED.Halted
        /\ ControlED' = ControlED /\ ~ControlListEnable'
    BY <1>3 DEF SendControlRequest, memory
  <2>. QED  BY <1>1, <1>2, <2>1 DEF IInv, AloneIsOrderly
<1>4. CASE BuildTDs
  <2>1. PICK status \in 1 .. 2 :
            /\ driver' = [driver EXCEPT !.at = "Link", !.status = status]
            /\ NextTD' = [td \in TDs |-> IF td \in 0 .. status THEN td + 1
                                         ELSE IF td = status + 1 THEN Null ELSE NextTD[td]]
            /\ driver.at = "Build" /\ ControlED' = ControlED
            /\ ControlListEnable' = ControlListEnable
    BY <1>4, Zenon DEF BuildTDs, list
  <2>3. driver'.at = "Link" /\ driver'.halted = driver.halted /\ driver'.status = status
    BY <1>1, <2>1 DEF TypeOK
  <2>2. \A i \in 0 .. driver'.status : NextTD'[i] = i + 1
    BY <2>1, <2>3, SortsAreDistinct
  <2>. QED  BY <1>1, <1>2, <2>1, <2>2, <2>3 DEF IInv, AloneIsOrderly, LinkedFrom
<1>5. CASE LinkTDs
  <2>1. /\ driver.at = "Link" /\ driver'.at = "Reset" /\ driver'.halted = driver.halted
        /\ driver'.status = driver.status /\ NextTD' = NextTD
        /\ ControlListEnable' = ControlListEnable /\ answered' = {}
    BY <1>1, <1>5, DriverMoves, Zenon DEF LinkTDs, list, Places
  <2>2. /\ ControlED'.Head = 0 /\ ControlED'.Tail = driver.status + 1
        /\ ControlED'.Halted = ControlED.Halted
    BY <1>1, <1>5 DEF LinkTDs, NewHead, Setup, TypeOK
  <2>3. ListIsAhead'
    BY <1>1, <2>1, <2>2 DEF IInv, AloneIsOrderly, ListIsAhead, LinkedFrom, TypeOK
  <2>. QED  BY <1>1, <1>2, <2>1, <2>2, <2>3 DEF IInv, AloneIsOrderly
<1>6. CASE ResetDoneHead
  <2>1. /\ driver.at = "Reset" /\ driver'.at = "Enable" /\ driver'.halted = driver.halted
        /\ driver'.status = driver.status /\ NextTD' = NextTD /\ ControlED' = ControlED
        /\ ControlListEnable' = ControlListEnable /\ answered' = answered
    BY <1>1, <1>6, DriverMoves, Zenon DEF ResetDoneHead, list, memory, Places
  <2>2. ListIsAhead => ListIsAhead'
    BY <2>1 DEF ListIsAhead, LinkedFrom
  <2>. QED  BY <1>1, <1>2, <2>1, <2>2 DEF IInv, AloneIsOrderly
<1>7. CASE EnableList
  <2>1. /\ driver.at = "Enable" /\ driver'.at = "Forget" /\ driver'.halted = driver.halted
        /\ driver'.status = driver.status /\ NextTD' = NextTD /\ ControlED' = ControlED
        /\ answered' = answered /\ DoneHead' = DoneHead /\ ControlListFilled'
    BY <1>1, <1>7, DriverMoves, Zenon DEF EnableList, memory, history, Places
  <2>2. ListIsAhead => ListIsAhead'
    BY <2>1 DEF ListIsAhead, LinkedFrom
  <2>3. /\ Quiet /\ Quiet' /\ ListIsAhead /\ ControlED.Head = 0
        /\ ControlED.Halted = driver.halted
    BY <1>2, <2>1 DEF IInv, AloneIsOrderly
  <2>4. answered # 0 .. driver.status /\ ControlED.Head # ControlED.Tail
    <3>1. answered = 0 .. -1 /\ driver.status \in 1 .. 2 /\ ControlED.Tail = driver.status + 1
      BY <1>1, <2>3 DEF ListIsAhead, TypeOK
    <3>2. 0 \in 0 .. driver.status /\ 0 \notin answered
      BY <3>1
    <3>. QED  BY <2>3, <3>1, <3>2
  <2>. QED  BY <1>1, <2>1, <2>2, <2>3, <2>4 DEF AloneIsOrderly, ListIsExecuted, Quiet
<1>8. CASE ForgetLast
  <2>1. /\ driver.at = "Forget" /\ driver'.at = "Wait" /\ driver'.halted = driver.halted
        /\ driver'.status = driver.status /\ NextTD' = NextTD /\ ControlED' = ControlED
        /\ answered' = answered /\ DoneHead' = DoneHead /\ ~gOHCITransferComplete'
        /\ ControlListFilled' = ControlListFilled
    BY <1>1, <1>8, DriverMoves, Zenon DEF ForgetLast, ForgottenFlag, memory, list, history, Places
  <2>2. ListIsAhead => ListIsAhead'
    BY <2>1 DEF ListIsAhead, LinkedFrom
  <2>3. ListIsExecuted
    BY <2>1 DEF IInv, AloneIsOrderly
  <2>. QED  BY <1>1, <2>1, <2>2, <2>3 DEF AloneIsOrderly, ListIsExecuted
<1>9. CASE Complete \/ Timeout
  <2>1. /\ driver.at = "Wait" /\ driver'.at = "Idle" /\ ControlED' = ControlED
    BY <1>1, <1>9, DriverMoves DEF Complete, Timeout, Return, memory, Places
  <2>3. ListIsExecuted /\ HaltedStaysHalted
    BY <2>1 DEF IInv, AloneIsOrderly
  <2>2. gOHCITransferComplete \/ (~hc.due /\ ~WritebackDoneHead /\ driver.halted)
    BY <1>1, <1>9, <2>1, <2>3, NothingMeansHalted, Zenon DEF Complete, Timeout
  <2>4. Quiet /\ (ControlED.Halted \/ ControlED.Head = ControlED.Tail)
    BY <1>1, <2>1, <2>2, <2>3 DEF ListIsExecuted, HaltedStaysHalted, Quiet
  <2>. QED  BY <1>1, <1>2, <2>1, <2>4 DEF AloneIsOrderly
<1>. QED  BY <1>3, <1>4, <1>5, <1>6, <1>7, <1>8, <1>9 DEF DriverStep

LEMMA StepsAreSound == IInv /\ [Next]_vars => IInv'
<1>1. SUFFICES ASSUME IInv, [Next]_vars  PROVE IInv'
  OBVIOUS
<1>2. CASE UNCHANGED vars
  <2>1. UNCHANGED <<NextTD, ControlED, hc, DoneHead, driver, handler, answered>>
    BY <1>2 DEF vars, memory, hcVars, history
  <2>2. /\ ControlListEnable' = ControlListEnable /\ WritebackDoneHead' = WritebackDoneHead
        /\ gOHCITransferComplete' = gOHCITransferComplete
        /\ ControlListFilled' = ControlListFilled
    BY <1>2, Zenon DEF vars, list, hcVars
  <2>. QED  BY <1>1, <2>1, <2>2, TypeIsKept DEF IInv, HaltedStaysHalted, AloneIsOrderly, Quiet,
               ListIsAhead, LinkedFrom, ListIsExecuted
<1>3. CASE Next
  <2>1. HIDs = {} /\ Patient => AloneIsOrderly'
    BY <1>1, <1>3, FrameKeepsOrder, ExecuteKeepsOrder, HandlerKeepsOrder, DriverKeepsOrder
       DEF Next
  <2>2. ~(HIDs = {} /\ Patient) => AloneIsOrderly'
    BY DEF AloneIsOrderly
  <2>. QED  BY <1>1, <1>3, <2>1, <2>2, TypeIsKept, HaltIsKept DEF IInv
<1>. QED  BY <1>1, <1>2, <1>3

(* In every state that can be reached, no descriptor of a request is        *)
(* executed on an endpoint that was halted before it; and a request that is *)
(* alone leaves nothing behind when it returns: each of its descriptors was *)
(* answered in the order of the list, or an error has ended it, and the one *)
(* write-back that told of it has been acknowledged.                        *)
THEOREM InvariantHolds == Spec => []IInv
BY InitIsSound, StepsAreSound, PTL DEF Spec

-----------------------------------------------------------------------------
(* The contract.                                                            *)
IsAlone == HIDs = {} /\ Patient
Halted  == IF driver.at = "Idle" THEN ControlED.Halted ELSE driver.halted

LEMMA OutcomeIs ==
    ASSUME TypeOK
    PROVE  Outcome = IF ~returned.result THEN "TimedOut"
                     ELSE IF returned.answered THEN "Answered"
                     ELSE IF returned.halted THEN "Failed" ELSE "Early"
<1>1. CASE ~returned.result
  BY <1>1 DEF Outcome
<1>2. CASE returned.result /\ returned.answered
  BY <1>2 DEF Outcome
<1>3. CASE returned.result /\ ~returned.answered /\ returned.halted
  BY <1>3 DEF Outcome
<1>4. CASE returned.result /\ ~returned.answered /\ ~returned.halted
  BY <1>4 DEF Outcome
<1>. QED  BY <1>1, <1>2, <1>3, <1>4

LEMMA InitKeepsToRequests == Init => Requests!Init
<1>. SUFFICES ASSUME Init  PROVE Requests!Init
  OBVIOUS
<1>1. TypeOK /\ driver.at = "Idle" /\ ~returned.result
  BY InitIsSound DEF Init, IInv
<1>2. Outcome = "TimedOut"
  BY <1>1, OutcomeIs
<1>3. (driver.at # "Idle") = FALSE
  BY <1>1
<1>4. (IF driver.at = "Idle" THEN ControlED.Halted ELSE driver.halted) \in BOOLEAN
  BY <1>1 DEF TypeOK
<1>. QED  BY <1>2, <1>3, <1>4 DEF Requests!Init, Requests!AllOutcomes

(* The rest of the steps, but for an error that comes late.                 *)
LEMMA OthersKeepToRequests ==
    ASSUME IInv, \/ Frame \/ ExecuteControl \/ \E h \in HIDs : ExecuteHID(h)
                 \/ TakeInterrupt \/ HandlerStep
    PROVE  UNCHANGED Requests!vars \/ Requests!LateError
<1>1. /\ driver'.at = driver.at /\ driver'.halted = driver.halted /\ Outcome' = Outcome
      /\ (driver.at # "Idle")' = (driver.at # "Idle")
      /\ TypeOK
  BY DriverWaits DEF IInv, Outcome
<1>2. CASE driver.at # "Idle" \/ ControlED'.Halted = ControlED.Halted
  <2>1. Halted' = Halted
    BY <1>1, <1>2 DEF Halted
  <2>. QED  BY <1>1, <2>1 DEF Requests!vars, Halted
<1>3. CASE driver.at = "Idle" /\ ControlED'.Halted # ControlED.Halted
  <2>1. ExecuteControl
    BY <1>3, DriverWaits DEF IInv
  <2>2. ~ControlED.Halted /\ hc.control
    BY <2>1 DEF ExecuteControl
  <2>3. ~IsAlone
    BY <1>3, <2>2 DEF IInv, AloneIsOrderly, Quiet, IsAlone
  <2>4. ControlED'.Halted = TRUE
    <3>1. PICK error \in BOOLEAN :
              ControlED' = [ControlED EXCEPT !.Head = NextTD[ControlED.Head], !.Halted = error]
      BY <2>1 DEF ExecuteControl
    <3>. QED  BY <1>1, <1>3, <2>2, <3>1 DEF TypeOK
  <2>5. ~Halted /\ Halted' = TRUE
    BY <1>1, <1>3, <2>2, <2>4 DEF Halted
  <2>. QED  BY <1>1, <1>3, <2>3, <2>5 DEF Requests!LateError, Halted, IsAlone
<1>. QED  BY <1>2, <1>3

(* A request begins, and goes on.                                           *)
LEMMA DriverKeepsToRequests ==
    ASSUME IInv, SendControlRequest \/ BuildTDs \/ LinkTDs \/ ResetDoneHead \/ EnableList
                 \/ ForgetLast
    PROVE  UNCHANGED Requests!vars \/ Requests!Request
<1>1. Outcome' = Outcome /\ TypeOK
  BY DEF IInv, Outcome, SendControlRequest, BuildTDs, LinkTDs, ResetDoneHead, EnableList,
         ForgetLast, history
<1>2. CASE SendControlRequest
  <2>1. /\ driver.at = "Idle" /\ driver'.at = "Build" /\ driver'.halted = ControlED.Halted
    BY <1>2 DEF SendControlRequest
  <2>2. Halted' = Halted
    BY <2>1 DEF Halted
  <2>. QED  BY <1>1, <2>1, <2>2 DEF Requests!Request, Halted
<1>3. CASE BuildTDs \/ LinkTDs \/ ResetDoneHead \/ EnableList \/ ForgetLast
  <2>1. driver.at # "Idle" /\ driver'.at # "Idle" /\ driver'.halted = driver.halted
    <3>1. CASE BuildTDs
      BY <1>1, <3>1 DEF BuildTDs, TypeOK
    <3>2. CASE ~BuildTDs
      BY <1>1, <1>3, <3>2, DriverMoves DEF LinkTDs, ResetDoneHead, EnableList, ForgetLast, Places
    <3>. QED  BY <3>1, <3>2
  <2>2. Halted' = Halted /\ (driver.at # "Idle")' = (driver.at # "Idle")
    BY <2>1 DEF Halted
  <2>. QED  BY <1>1, <2>2 DEF Requests!vars, Halted
<1>. QED  BY <1>2, <1>3

(* A request returns, with an outcome the contract allows.                  *)
LEMMA ReturnKeepsToRequests ==
    ASSUME IInv, Complete \/ Timeout
    PROVE  Requests!Return
<1>1. PICK result \in BOOLEAN :
          /\ Return(result)
          /\ IF result THEN gOHCITransferComplete
             ELSE ~gOHCITransferComplete /\ (Patient => NothingPending)
  BY Zenon DEF Complete, Timeout
<1>2. /\ driver.at = "Wait" /\ driver'.at = "Idle" /\ driver'.halted = driver.halted
      /\ ControlED' = ControlED /\ TypeOK
      /\ HaltedStaysHalted /\ AloneIsOrderly
  BY <1>1, DriverMoves DEF IInv, Return, memory, Places
<1>3. PICK isAnswered \in BOOLEAN : isAnswered = (answered = 0 .. driver.status)
  BY Zenon
<1>4. returned' = [result |-> result, answered |-> isAnswered, halted |-> ControlED.Halted,
                   haltedBefore |-> driver.halted]
  BY <1>1, <1>3, Zenon DEF Return
<1>5. Outcome' = IF ~result THEN "TimedOut" ELSE IF isAnswered THEN "Answered"
                 ELSE IF ControlED.Halted THEN "Failed" ELSE "Early"
  <2>1. CASE ~result
    BY <1>4, <2>1 DEF Outcome
  <2>2. CASE result /\ isAnswered
    BY <1>4, <2>2 DEF Outcome
  <2>3. CASE result /\ ~isAnswered /\ ControlED.Halted
    BY <1>4, <2>3 DEF Outcome
  <2>4. CASE result /\ ~isAnswered /\ ~ControlED.Halted
    BY <1>4, <2>4 DEF Outcome
  <2>. QED  BY <2>1, <2>2, <2>3, <2>4
<1>6. Halted = driver.halted /\ Halted' = ControlED.Halted
  BY <1>2 DEF Halted
<1>7. driver.halted => ControlED.Halted /\ ~isAnswered
  <2>1. driver.halted => ControlED.Halted /\ answered = {}
    BY <1>2 DEF HaltedStaysHalted
  <2>2. 0 \in 0 .. driver.status
    BY <1>2 DEF TypeOK
  <2>. QED  BY <1>3, <2>1, <2>2
<1>8. IsAlone => /\ driver.halted <=> ~result
                 /\ isAnswered => ~ControlED.Halted
                 /\ ~isAnswered /\ ~driver.halted => ControlED.Halted
  <2>. SUFFICES ASSUME IsAlone
                PROVE  /\ driver.halted <=> ~result
                       /\ isAnswered => ~ControlED.Halted
                       /\ ~isAnswered /\ ~driver.halted => ControlED.Halted
    OBVIOUS
  <2>1. ListIsExecuted
    BY <1>2 DEF AloneIsOrderly, IsAlone
  <2>2. isAnswered => ~ControlED.Halted
    BY <1>3, <2>1 DEF ListIsExecuted
  <2>3. CASE result
    <3>1. ~driver.halted /\ (ControlED.Halted \/ ControlED.Head = ControlED.Tail)
      BY <1>1, <1>2, <2>1, <2>3 DEF ListIsExecuted
    <3>2. ~ControlED.Halted => isAnswered
      <4>. SUFFICES ASSUME ~ControlED.Halted  PROVE isAnswered
        OBVIOUS
      <4>1. /\ answered = 0 .. ControlED.Head - 1 /\ ControlED.Head = driver.status + 1
            /\ driver.status \in 1 .. 2
        BY <1>2, <2>1, <3>1 DEF ListIsExecuted, ListIsAhead, TypeOK
      <4>2. ControlED.Head - 1 = driver.status
        BY <4>1
      <4>3. answered = 0 .. driver.status
        BY <4>1, <4>2
      <4>. QED  BY <1>3, <4>3
    <3>. QED  BY <2>2, <2>3, <3>1, <3>2
  <2>4. CASE ~result
    <3>1. ~handler.on /\ ~gOHCITransferComplete /\ NothingPending
      BY <1>1, <2>4 DEF IsAlone, Return, Driver
    <3>2. driver.halted
      BY <1>2, <2>1, <3>1, NothingMeansHalted
    <3>. QED  BY <2>2, <2>4, <3>2
  <2>. QED  BY <2>3, <2>4
<1>9. Outcome' \in Requests!Outcomes(Halted, IsAlone)
  BY <1>2, <1>5, <1>6, <1>7, <1>8 DEF Requests!Outcomes, IsAlone, TypeOK
<1>10. Halted' \in Requests!HaltedAfter(Halted, Outcome', IsAlone)
  BY <1>2, <1>5, <1>6, <1>7, <1>8 DEF Requests!HaltedAfter, IsAlone, TypeOK
<1>. QED  BY <1>2, <1>9, <1>10 DEF Requests!Return, Halted, IsAlone

LEMMA StepsKeepToRequests == IInv /\ [Next]_vars => [Requests!Next]_(Requests!vars)
<1>1. SUFFICES ASSUME IInv, [Next]_vars  PROVE [Requests!Next]_(Requests!vars)
  OBVIOUS
<1>2. CASE UNCHANGED vars
  <2>1. UNCHANGED <<driver, ControlED, returned>>
    BY <1>2 DEF vars, memory, history
  <2>. QED  BY <2>1 DEF Requests!vars, Outcome
<1>. QED  BY <1>1, <1>2, OthersKeepToRequests, DriverKeepsToRequests, ReturnKeepsToRequests
          DEF Next, DriverStep, Requests!Next

(* Control requests keep to the contract of module ControlRequests, for any *)
(* number of requests, of HID devices and of errors, wherever frames and    *)
(* interrupts come between the steps of a request: a request that is alone  *)
(* succeeds by its own end or by an error that halts the endpoint, and      *)
(* fails exactly when an earlier one has halted it.                         *)
THEOREM RequestsAreKept == Spec => KeepsToRequests
BY InvariantHolds, InitKeepsToRequests, StepsKeepToRequests, PTL DEF Spec, KeepsToRequests

-----------------------------------------------------------------------------
(* The lists of done TDs, while requests do not overlap.                    *)
Done        == ListFrom(hc.done)
WrittenBack == ListFrom(DoneHead)
Walked ==
    IF ~handler.on THEN {}
    ELSE IF handler.at = "Walk" THEN ListFrom(handler.td) ELSE ListFrom(handler.next)
InHand == IF handler.on /\ handler.at = "Requeue" THEN {handler.td} ELSE {}
Linked == Done \cup WrittenBack \cup Walked

ListsAreApart ==
    /\ Done \cap (WrittenBack \cup Walked) = {} /\ WrittenBack \cap Walked = {}
    /\ InHand \cap Linked = {}

(* No list comes back to a TD, and none comes to the dummy.                 *)
ListsEnd == \A t \in Linked : t # Dummy /\ t \notin ListFrom(NextTD[t])

(* A HID device's TD is in a list exactly when it is not queued and has not *)
(* been thrown away.                                                        *)
TDsAreKept ==
    \A h \in HIDs :
        /\ HIDHead[h] = h => NextTD[h] = Dummy /\ h \notin lost
        /\ h \in Linked \cup InHand <=> HIDHead[h] # h /\ h \notin lost

HandlerHasTheQueue ==
    /\ handler.on => WritebackDoneHead
    /\ ~WritebackDoneHead \/ handler.on => DoneHead = Null
    /\ InHand \subseteq HIDs /\ \A t \in InHand : NextTD[t] = Dummy

(* The control TDs ahead in the list of the request are in no other.        *)
TheListIsAhead ==
    /\ driver.request = 0 => driver.at = "Idle"
    /\ driver.request = 0 \/ driver.at \in {"Build", "Link", "Reset", "Enable"} =>
           /\ ~ControlListEnable /\ ~hc.control /\ ControlED.Halted = driver.halted
           /\ Linked \cap ControlTDs = {}
    /\ driver.at = "Link" => LinkedFrom(0)
    /\ driver.at \in {"Reset", "Enable"} => ListIsAhead /\ ControlED.Head = 0
    /\ driver.request # 0 /\ driver.at \in {"Forget", "Wait", "Idle"} /\ ~ControlED.Halted =>
           /\ ListIsAhead
           /\ \A t \in Linked \cap ControlTDs : t < ControlED.Head
    /\ driver.at \in {"Forget", "Wait"} /\ ~ControlED.Halted /\ ControlED.Head # ControlED.Tail =>
           ControlListFilled

(* The end of the list, or an error in it, completes the request, unless    *)
(* the completion was cleared with the flag.                                *)
EndIsSeen ==
    /\ (ControlED.Halted \/ ControlED.Head = ControlED.Tail) /\ ~driver.halted
    /\ driver.at = "Forget" \/ (driver.at = "Wait" /\ ~gOHCITransferComplete)
    => \/ missed
       \/ hc.due /\ Done \cap ControlTDs # {}
       \/ (WrittenBack \cup Walked) \cap ControlTDs # {}

ListsInv ==
    /\ ListsAreApart /\ ListsEnd /\ TDsAreKept /\ HandlerHasTheQueue
    /\ TheListIsAhead /\ EndIsSeen /\ GivenUpOnlyIfMissed

ApartInv == ~overlapped => ListsInv

(* Lists of TDs *)
LEMMA ListIsLeast ==
    ASSUME NEW next, NEW td, NEW S \in SUBSET TDs,
           td \in S \cup {Null}, \A s \in S : next[s] \in S \cup {Null}
    PROVE  ListAlong(next, td) \subseteq S
BY DEF ListAlong

LEMMA NullEndsLists ==
    ASSUME NEW next
    PROVE  ListAlong(next, Null) = {}
<1>1. PICK S \in SUBSET TDs : S = {}
  OBVIOUS
<1>2. Null \in S \cup {Null} /\ \A s \in S : next[s] \in S \cup {Null}
  BY <1>1
<1>3. ListAlong(next, Null) \subseteq S
  BY <1>2, ListIsLeast, Zenon
<1>. QED  BY <1>1, <1>3

LEMMA ListGoesOn ==
    ASSUME NEW next \in [TDs -> Links], NEW td \in TDs
    PROVE  ListAlong(next, td) = {td} \cup ListAlong(next, next[td])
<1>1. next[td] \in Links /\ td \in Links /\ td # Null
  BY SortsAreDistinct
<1>. DEFINE rest == ListAlong(next, next[td])
<1>2. /\ rest \in SUBSET TDs /\ next[td] \in rest \cup {Null}
      /\ \A s \in rest : next[s] \in rest \cup {Null}
  BY <1>1, ListIsClosed, Zenon
<1>3. /\ ListAlong(next, td) \in SUBSET TDs /\ td \in ListAlong(next, td)
      /\ \A s \in ListAlong(next, td) : next[s] \in ListAlong(next, td) \cup {Null}
  BY <1>1, ListIsClosed
<1>. HIDE DEF rest
<1>4. ListAlong(next, td) \subseteq {td} \cup rest
  <2>1. PICK S \in SUBSET TDs : S = {td} \cup rest
    BY <1>2
  <2>2. td \in S \cup {Null} /\ \A s \in S : next[s] \in S \cup {Null}
    BY <1>2, <2>1
  <2>3. ListAlong(next, td) \subseteq S
    BY <2>2, ListIsLeast, Zenon
  <2>. QED  BY <2>1, <2>3
<1>5. rest \subseteq ListAlong(next, td)
  BY <1>1, <1>3, ListIsLeast DEF rest
<1>. QED  BY <1>3, <1>4, <1>5 DEF rest

(* What is changed outside a list leaves the list as it is.                 *)
LEMMA ListIsKept ==
    ASSUME NEW next \in [TDs -> Links], NEW changed \in [TDs -> Links], NEW td \in Links,
           \A t \in ListAlong(next, td) : changed[t] = next[t]
    PROVE  ListAlong(changed, td) = ListAlong(next, td)
<1>1. /\ ListAlong(next, td) \in SUBSET TDs /\ td \in ListAlong(next, td) \cup {Null}
      /\ \A s \in ListAlong(next, td) : next[s] \in ListAlong(next, td) \cup {Null}
  BY ListIsClosed
<1>2. /\ ListAlong(changed, td) \in SUBSET TDs /\ td \in ListAlong(changed, td) \cup {Null}
      /\ \A s \in ListAlong(changed, td) : changed[s] \in ListAlong(changed, td) \cup {Null}
  BY ListIsClosed
<1>3. ListAlong(changed, td) \subseteq ListAlong(next, td)
  BY <1>1, ListIsLeast
<1>4. \A s \in ListAlong(changed, td) : next[s] \in ListAlong(changed, td) \cup {Null}
  BY <1>2, <1>3
<1>5. ListAlong(next, td) \subseteq ListAlong(changed, td)
  BY <1>2, <1>4, ListIsLeast
<1>. QED  BY <1>3, <1>5

LEMMA ListGoesInto ==
    ASSUME NEW next \in [TDs -> Links], NEW td \in Links, NEW t \in ListAlong(next, td)
    PROVE  ListAlong(next, next[t]) \subseteq ListAlong(next, td)
<1>1. /\ ListAlong(next, td) \in SUBSET TDs
      /\ \A s \in ListAlong(next, td) : next[s] \in ListAlong(next, td) \cup {Null}
  BY ListIsClosed
<1>. QED  BY <1>1, ListIsLeast

(* A list that is kept still ends.                                          *)
LEMMA ListStillEnds ==
    ASSUME NEW next \in [TDs -> Links], NEW changed \in [TDs -> Links], NEW td \in Links,
           \A t \in ListAlong(next, td) : changed[t] = next[t],
           NEW t \in ListAlong(next, td), t \notin ListAlong(next, next[t])
    PROVE  t \notin ListAlong(changed, changed[t])
<1>1. t \in TDs /\ next[t] \in Links /\ changed[t] = next[t]
  BY ListIsClosed
<1>2. \A s \in ListAlong(next, next[t]) : changed[s] = next[s]
  BY ListGoesInto
<1>3. ListAlong(changed, next[t]) = ListAlong(next, next[t])
  BY <1>1, <1>2, ListIsKept
<1>. QED  BY <1>1, <1>3

-----------------------------------------------------------------------------
(* What a step does to the lists *)
LEMMA TheLists ==
    /\ Done = ListAlong(NextTD, hc.done) /\ WrittenBack = ListAlong(NextTD, DoneHead)
    /\ Walked = IF ~handler.on THEN {}
                ELSE IF handler.at = "Walk" THEN ListAlong(NextTD, handler.td)
                                            ELSE ListAlong(NextTD, handler.next)
    /\ ListsEnd <=> \A t \in Linked : t # Dummy /\ t \notin ListAlong(NextTD, NextTD[t])
BY DEF Done, WrittenBack, Walked, ListsEnd, ListFrom

LEMMA TheListsNext ==
    /\ Done' = ListAlong(NextTD', hc'.done) /\ WrittenBack' = ListAlong(NextTD', DoneHead')
    /\ Walked' = IF ~handler'.on THEN {}
                 ELSE IF handler'.at = "Walk" THEN ListAlong(NextTD', handler'.td)
                                              ELSE ListAlong(NextTD', handler'.next)
    /\ ListsEnd' <=> \A t \in Linked' : t # Dummy /\ t \notin ListAlong(NextTD', NextTD'[t])
    /\ Linked' = Done' \cup WrittenBack' \cup Walked'
    /\ InHand' = IF handler'.on /\ handler'.at = "Requeue" THEN {handler'.td} ELSE {}
BY DEF Done, WrittenBack, Walked, ListsEnd, ListFrom, ListAlong, Linked, InHand

LEMMA ListsEndIfLinksStay ==
    ASSUME ListsEnd, NextTD' = NextTD, Linked' \subseteq Linked
    PROVE  ListsEnd'
BY TheLists, TheListsNext

(* A step that leaves the links of all linked TDs, and all the heads.       *)
LEMMA ListsAreKept ==
    ASSUME TypeOK, ListsEnd, NextTD' \in [TDs -> Links],
           \A t \in Linked : NextTD'[t] = NextTD[t]
    PROVE  /\ \A td \in {hc.done, DoneHead} : ListAlong(NextTD', td) = ListAlong(NextTD, td)
           /\ handler.on /\ handler.at = "Walk" =>
                  ListAlong(NextTD', handler.td) = ListAlong(NextTD, handler.td)
           /\ handler.on /\ handler.at = "Requeue" =>
                  ListAlong(NextTD', handler.next) = ListAlong(NextTD, handler.next)
           /\ \A t \in Linked : t \notin ListAlong(NextTD', NextTD'[t])
<1>1. /\ NextTD \in [TDs -> Links] /\ hc.done \in Links /\ DoneHead \in Links
      /\ handler.td \in Links /\ handler.next \in Links /\ handler.at \in {"Walk", "Requeue"}
  BY DEF TypeOK
<1>2. ASSUME NEW td \in Links, ListAlong(NextTD, td) \subseteq Linked
      PROVE  /\ ListAlong(NextTD', td) = ListAlong(NextTD, td)
             /\ \A t \in ListAlong(NextTD, td) : t \notin ListAlong(NextTD', NextTD'[t])
  <2>1. \A t \in ListAlong(NextTD, td) :
            NextTD'[t] = NextTD[t] /\ t \notin ListAlong(NextTD, NextTD[t])
    BY <1>2, TheLists
  <2>. QED  BY <1>1, <2>1, ListIsKept, ListStillEnds
<1>3. ListAlong(NextTD, hc.done) \subseteq Linked /\ ListAlong(NextTD, DoneHead) \subseteq Linked
  BY TheLists DEF Linked
<1>4. /\ handler.on /\ handler.at = "Walk" => ListAlong(NextTD, handler.td) \subseteq Linked
      /\ handler.on /\ handler.at = "Requeue" =>
             ListAlong(NextTD, handler.next) \subseteq Linked
  BY TheLists DEF Linked
<1>5. ASSUME NEW t \in Linked  PROVE t \notin ListAlong(NextTD', NextTD'[t])
  <2>1. \E td \in Links : ListAlong(NextTD, td) \subseteq Linked /\ t \in ListAlong(NextTD, td)
    BY <1>1, <1>3, <1>4, TheLists DEF Linked
  <2>. QED  BY <1>2, <2>1
<1>. QED  BY <1>1, <1>2, <1>3, <1>4, <1>5

(* A finished TD is put in front of the controller's done queue.            *)
LEMMA WhatIsRetired ==
    ASSUME TypeOK, ListsEnd, NEW td \in TDs \ (Linked \cup {Dummy}),
           NextTD' = [NextTD EXCEPT ![td] = hc.done], hc'.done = td,
           UNCHANGED <<DoneHead, handler>>
    PROVE  /\ Done' = {td} \cup Done /\ WrittenBack' = WrittenBack
           /\ Walked' = Walked /\ InHand' = InHand
           /\ ListsEnd'
<1>1. /\ NextTD \in [TDs -> Links] /\ NextTD' \in [TDs -> Links] /\ hc.done \in Links
      /\ handler.at \in {"Walk", "Requeue"}
      /\ NextTD'[td] = hc.done /\ \A t \in Linked : NextTD'[t] = NextTD[t]
  <2>1. Linked \in SUBSET TDs
    BY TheLists, ListIsClosed DEF TypeOK, Linked
  <2>. QED  BY <2>1 DEF TypeOK
<1>2. /\ ListAlong(NextTD', hc.done) = Done /\ ListAlong(NextTD', DoneHead) = WrittenBack
      /\ \A t \in Linked : t \notin ListAlong(NextTD', NextTD'[t])
      /\ Walked' = Walked
  BY <1>1, ListsAreKept, TheLists, TheListsNext
<1>3. ListAlong(NextTD', td) = {td} \cup Done
  BY <1>1, <1>2, ListGoesOn
<1>4. td \notin ListAlong(NextTD', NextTD'[td])
  BY <1>1, <1>2 DEF Linked
<1>5. Done' = {td} \cup Done /\ WrittenBack' = WrittenBack /\ InHand' = InHand
  BY <1>2, <1>3, TheListsNext DEF InHand
<1>6. Linked' = {td} \cup Linked
  BY <1>2, <1>5, TheListsNext DEF Linked
<1>7. \A t \in Linked : t # Dummy
  BY TheLists
<1>8. ListsEnd'
  BY <1>2, <1>4, <1>6, <1>7, TheListsNext
<1>. QED  BY <1>2, <1>5, <1>8

(* The handler takes the TD of a report out of the list it walks.           *)
LEMMA WhatIsTaken ==
    ASSUME TypeOK, ListsAreApart, ListsEnd, CompletedReport
    PROVE  /\ handler.td \in HIDs \cap Walked
           /\ Walked' = Walked \ {handler.td} /\ InHand' = {handler.td} /\ InHand = {}
           /\ Done' = Done /\ WrittenBack' = WrittenBack
           /\ ListsEnd'
<1>. DEFINE td == handler.td
<1>1. /\ handler.on /\ handler.at = "Walk" /\ td \in HIDs
      /\ NextTD' = [NextTD EXCEPT ![td] = Dummy] /\ DoneHead' = DoneHead
      /\ handler' = [handler EXCEPT !.at = "Requeue", !.next = NextTD[td]]
  BY DEF CompletedReport, Walking, FollowingTD
<1>2. hc' = hc
  BY Zenon DEF CompletedReport, hcVars
<1>3. /\ NextTD \in [TDs -> Links] /\ NextTD' \in [TDs -> Links] /\ td \in TDs
      /\ hc.done \in Links /\ DoneHead \in Links /\ NextTD[td] \in Links
  BY <1>1, SortsAreDistinct DEF TypeOK
<1>4. /\ handler'.on /\ handler'.at = "Requeue" /\ handler'.td = td
      /\ handler'.next = NextTD[td]
  BY <1>1 DEF TypeOK
<1>5. Walked = {td} \cup ListAlong(NextTD, NextTD[td])
  BY <1>1, <1>3, ListGoesOn, TheLists
<1>6. td \notin ListAlong(NextTD, NextTD[td])
  BY <1>5, TheLists DEF Linked
<1>7. /\ td \notin ListAlong(NextTD, hc.done) /\ td \notin ListAlong(NextTD, DoneHead)
  BY <1>5, TheLists DEF ListsAreApart
<1>8. \A t \in TDs \ {td} : NextTD'[t] = NextTD[t]
  BY <1>1, <1>3
<1>9. ASSUME NEW head \in {hc.done, DoneHead, NextTD[td]}
      PROVE  /\ ListAlong(NextTD', head) = ListAlong(NextTD, head)
             /\ \A t \in ListAlong(NextTD, head) :
                   t # Dummy /\ t \notin ListAlong(NextTD', NextTD'[t])
  <2>1. /\ head \in Links /\ ListAlong(NextTD, head) \in SUBSET TDs
        /\ td \notin ListAlong(NextTD, head)
        /\ ListAlong(NextTD, head) \subseteq Linked
    BY <1>3, <1>5, <1>6, <1>7, ListIsClosed, TheLists DEF Linked
  <2>2. \A t \in ListAlong(NextTD, head) : /\ NextTD'[t] = NextTD[t] /\ t # Dummy
                                           /\ t \notin ListAlong(NextTD, NextTD[t])
    BY <1>8, <2>1, TheLists
  <2>3. ListAlong(NextTD', head) = ListAlong(NextTD, head)
    BY <1>3, <2>1, <2>2, ListIsKept
  <2>4. \A t \in ListAlong(NextTD, head) : t \notin ListAlong(NextTD', NextTD'[t])
    BY <1>3, <2>1, <2>2, ListStillEnds
  <2>. QED  BY <2>2, <2>3, <2>4
<1>10. /\ Done' = Done /\ WrittenBack' = WrittenBack
       /\ Walked' = ListAlong(NextTD, NextTD[td])
  BY <1>1, <1>2, <1>4, <1>9, TheLists, TheListsNext
<1>11. Walked' = Walked \ {td}
  BY <1>5, <1>6, <1>10
<1>12. ListsEnd'
  BY <1>9, <1>10, TheLists, TheListsNext
<1>. QED  BY <1>1, <1>4, <1>5, <1>10, <1>11, <1>12, TheListsNext DEF InHand

-----------------------------------------------------------------------------
(* Each step keeps what holds while requests do not overlap.                 *)
LEMMA FrameKeepsLists ==
    ASSUME TypeOK, ListsInv, ~overlapped, Frame
    PROVE  ListsInv'
<1>1. /\ driver'.at = driver.at /\ driver'.status = driver.status
      /\ driver'.request = driver.request /\ driver'.halted = driver.halted
      /\ UNCHANGED <<NextTD, ControlED, HIDHead, handler, answered, returned, lost, missed,
                   overlapped>>
      /\ ControlListEnable' = ControlListEnable
      /\ gOHCITransferComplete' = gOHCITransferComplete
      /\ driver.at = "Forget" => driver'.framed /\ (~driver.framed \/ handler.on)
      /\ hc'.control => ControlListEnable /\ ~ControlED.Halted
      /\ ControlListFilled /\ ~ControlED.Halted /\ ControlED.Head # ControlED.Tail =>
             ControlListFilled'
  BY WhatFrameDoes DEF history, races
<1>2. /\ handler.on => WritebackDoneHead
      /\ ~WritebackDoneHead \/ handler.on => DoneHead = Null
      /\ InHand \subseteq HIDs /\ \A t \in InHand : NextTD[t] = Dummy
  BY DEF ListsInv, HandlerHasTheQueue
<1>3. Walked' = Walked /\ InHand' = InHand
  BY <1>1, TheLists, TheListsNext DEF InHand
<1>4. /\ hc.due /\ ~WritebackDoneHead =>
             /\ Done' = {} /\ WrittenBack' = Done /\ WrittenBack = {} /\ Walked = {}
             /\ WritebackDoneHead' /\ ~handler.on
      /\ ~(hc.due /\ ~WritebackDoneHead) =>
             /\ Done' = Done /\ WrittenBack' = WrittenBack /\ hc'.due = hc.due
             /\ WritebackDoneHead' = WritebackDoneHead /\ DoneHead' = DoneHead
  BY <1>1, <1>2, WhatFrameDoes, NullEndsLists, TheLists, TheListsNext
<1>5. Linked' = Linked
  BY <1>3, <1>4, TheListsNext DEF Linked
<1>6. ListsAreApart'
  BY <1>3, <1>4, <1>5 DEF ListsInv, ListsAreApart
<1>7. ListsEnd'
  BY <1>1, <1>5, ListsEndIfLinksStay DEF ListsInv
<1>8. TDsAreKept'
  BY <1>1, <1>3, <1>5 DEF ListsInv, TDsAreKept
<1>9. HandlerHasTheQueue'
  BY <1>1, <1>2, <1>3, <1>4 DEF HandlerHasTheQueue
<1>10. ListIsAhead' = ListIsAhead /\ LinkedFrom(0)' = LinkedFrom(0)
  BY <1>1 DEF ListIsAhead, LinkedFrom
<1>11. TheListIsAhead'
  BY <1>1, <1>5, <1>10 DEF ListsInv, TheListIsAhead
<1>12. EndIsSeen'
  BY <1>1, <1>3, <1>4 DEF ListsInv, EndIsSeen
<1>13. GivenUpOnlyIfMissed'
  BY <1>1 DEF ListsInv, GivenUpOnlyIfMissed
<1>. QED  BY <1>6, <1>7, <1>8, <1>9, <1>11, <1>12, <1>13 DEF ListsInv

LEMMA ExecuteHIDKeepsLists ==
    ASSUME TypeOK, ListsInv, ~overlapped, NEW h \in HIDs, ExecuteHID(h)
    PROVE  ListsInv'
<1>1. /\ HIDHead[h] = h /\ NextTD' = [NextTD EXCEPT ![h] = hc.done]
      /\ HIDHead' = [HIDHead EXCEPT ![h] = NextTD[h]]
      /\ UNCHANGED <<ControlED, DoneHead, driver, handler, answered, returned, lost, missed,
                   overlapped>>
      /\ ControlListEnable' = ControlListEnable /\ ControlListFilled' = ControlListFilled
      /\ gOHCITransferComplete' = gOHCITransferComplete
      /\ WritebackDoneHead' = WritebackDoneHead
  BY Zenon DEF ExecuteHID, list, history, races
<1>2. hc'.done = h /\ hc'.due /\ hc'.control = hc.control
  <2>1. hc' = Retired(h, TRUE)
    BY Zenon DEF ExecuteHID
  <2>. QED  BY <2>1 DEF Retired, TypeOK
<1>3. /\ NextTD[h] = Dummy /\ h \notin lost /\ h \notin Linked \cup InHand
      /\ h \notin ControlTDs /\ h # Dummy /\ h \in TDs
  BY <1>1, SortsAreDistinct DEF ListsInv, TDsAreKept
<1>4. /\ Done' = {h} \cup Done /\ WrittenBack' = WrittenBack
      /\ Walked' = Walked /\ InHand' = InHand /\ ListsEnd'
  BY <1>1, <1>2, <1>3, WhatIsRetired DEF ListsInv
<1>5. Linked' = {h} \cup Linked
  BY <1>4, TheListsNext DEF Linked
<1>6. ListsAreApart'
  BY <1>3, <1>4, <1>5 DEF ListsInv, ListsAreApart, Linked
<1>7. /\ HIDHead'[h] # h /\ \A other \in HIDs \ {h} : /\ HIDHead'[other] = HIDHead[other]
                                                      /\ NextTD'[other] = NextTD[other]
  BY <1>1, <1>3, SortsAreDistinct DEF TypeOK
<1>8. TDsAreKept'
  BY <1>1, <1>3, <1>4, <1>5, <1>7 DEF ListsInv, TDsAreKept
<1>9. HandlerHasTheQueue'
  BY <1>1, <1>3, <1>4, <1>7 DEF ListsInv, HandlerHasTheQueue
<1>10. \A t \in ControlTDs : NextTD'[t] = NextTD[t]
  BY <1>1, <1>3, SortsAreDistinct DEF TypeOK
<1>11. (ListIsAhead => ListIsAhead') /\ (LinkedFrom(0) => LinkedFrom(0)')
  BY <1>1, <1>10 DEF ListIsAhead, LinkedFrom, TypeOK, ControlTDs
<1>12. TheListIsAhead'
  BY <1>1, <1>2, <1>3, <1>4, <1>5, <1>11 DEF ListsInv, TheListIsAhead
<1>13. EndIsSeen'
  BY <1>1, <1>2, <1>4 DEF ListsInv, EndIsSeen
<1>14. GivenUpOnlyIfMissed'
  BY <1>1 DEF ListsInv, GivenUpOnlyIfMissed
<1>. QED  BY <1>4, <1>6, <1>8, <1>9, <1>12, <1>13, <1>14 DEF ListsInv

LEMMA ExecuteKeepsLists ==
    ASSUME TypeOK, ListsInv, ~overlapped, ExecuteControl
    PROVE  ListsInv'
<1>. DEFINE td == ControlED.Head
<1>1. /\ hc.control /\ ~ControlED.Halted /\ td \in ControlTDs \ {ControlED.Tail}
      /\ NextTD' = [NextTD EXCEPT ![td] = hc.done]
      /\ UNCHANGED <<HIDHead, DoneHead, driver, handler, returned, lost, missed, overlapped>>
      /\ ControlListEnable' = ControlListEnable /\ ControlListFilled' = ControlListFilled
      /\ gOHCITransferComplete' = gOHCITransferComplete
      /\ WritebackDoneHead' = WritebackDoneHead
  BY Zenon DEF ExecuteControl, list, races
<1>2. /\ driver.request # 0 /\ driver.at \in {"Forget", "Wait", "Idle"} /\ ListIsAhead
      /\ \A t \in Linked \cap ControlTDs : t < td
      /\ driver.at \in {"Forget", "Wait"} /\ td # ControlED.Tail => ControlListFilled
  BY <1>1 DEF ListsInv, TheListIsAhead, TypeOK, Places
<1>3. /\ td \in 0 .. driver.status /\ NextTD[td] = td + 1 /\ ControlED.Tail = driver.status + 1
      /\ answered = 0 .. td - 1 /\ driver.status \in 1 .. 2
      /\ td \notin Linked \cup InHand /\ td # Dummy /\ td \in TDs /\ td \notin HIDs
  <2>1. /\ td \in 0 .. driver.status /\ NextTD[td] = td + 1 /\ ControlED.Tail = driver.status + 1
        /\ answered = 0 .. td - 1 /\ driver.status \in 1 .. 2
    BY <1>1, <1>2 DEF ListIsAhead, LinkedFrom, TypeOK, ControlTDs
  <2>2. td \notin Linked
    BY <1>1, <1>2, <2>1
  <2>3. td \notin InHand /\ td # Dummy /\ td \in TDs /\ td \notin HIDs
    BY <1>1, SortsAreDistinct DEF ListsInv, HandlerHasTheQueue
  <2>. QED  BY <2>1, <2>2, <2>3
<1>4. PICK error \in BOOLEAN :
          /\ hc' = [Retired(td, error \/ td = driver.status)
                        EXCEPT !.control = ~error /\ NextTD[td] # ControlED.Tail]
          /\ ControlED' = [ControlED EXCEPT !.Head = NextTD[td], !.Halted = error]
          /\ answered' = IF error THEN answered ELSE answered \cup {td}
  BY DEF ExecuteControl
<1>5. hc'.done = td /\ (error \/ td = driver.status => hc'.due)
  <2>1. PICK c \in BOOLEAN : c = (~error /\ NextTD[td] # ControlED.Tail)
    BY Zenon
  <2>2. PICK d \in BOOLEAN : d = (hc.due \/ (error \/ td = driver.status))
    BY Zenon
  <2>3. hc' = [hc EXCEPT !.done = td, !.due = d, !.control = c]
    BY <1>4, <2>1, <2>2, Zenon DEF Retired
  <2>4. error \/ td = driver.status => d
    BY <2>2, Zenon
  <2>. QED  BY <2>3, <2>4 DEF TypeOK
<1>6. ControlED'.Head = td + 1 /\ ControlED'.Tail = ControlED.Tail /\ ControlED'.Halted = error
  BY <1>3, <1>4 DEF TypeOK
<1>7. /\ Done' = {td} \cup Done /\ WrittenBack' = WrittenBack
      /\ Walked' = Walked /\ InHand' = InHand /\ ListsEnd'
  BY <1>1, <1>3, <1>5, WhatIsRetired DEF ListsInv
<1>8. Linked' = {td} \cup Linked
  BY <1>7, TheListsNext DEF Linked
<1>9. ListsAreApart'
  BY <1>3, <1>7, <1>8 DEF ListsInv, ListsAreApart, Linked
<1>10. \A h \in HIDs : NextTD'[h] = NextTD[h]
  BY <1>1, <1>3, SortsAreDistinct DEF TypeOK
<1>11. TDsAreKept'
  BY <1>1, <1>3, <1>7, <1>8, <1>10 DEF ListsInv, TDsAreKept
<1>12. HandlerHasTheQueue'
  BY <1>1, <1>7, <1>10 DEF ListsInv, HandlerHasTheQueue
<1>13. ~error => ListIsAhead'
  <2>1. ~error => answered' = 0 .. td
    BY <1>3, <1>4
  <2>2. \A i \in td + 1 .. driver.status : NextTD'[i] = i + 1
    BY <1>1, <1>2, <1>3 DEF ListIsAhead, LinkedFrom, TypeOK
  <2>. QED  BY <1>1, <1>3, <1>6, <2>1, <2>2 DEF ListIsAhead, LinkedFrom
<1>14. \A t \in Linked' \cap ControlTDs : t < td + 1
  BY <1>1, <1>2, <1>8 DEF ControlTDs
<1>15. TheListIsAhead'
  <2>1. driver'.at \notin {"Build", "Link", "Reset", "Enable"} /\ driver'.request # 0
    BY <1>1, <1>2
  <2>2. ~ControlED'.Halted =>
            ListIsAhead' /\ \A t \in Linked' \cap ControlTDs : t < ControlED'.Head
    BY <1>6, <1>13, <1>14
  <2>3. driver'.at \in {"Forget", "Wait"} => ControlListFilled'
    BY <1>1, <1>2
  <2>. QED  BY <2>1, <2>2, <2>3 DEF TheListIsAhead
<1>16. EndIsSeen'
  <2>1. ControlED'.Halted \/ ControlED'.Head = ControlED'.Tail => hc'.due
    BY <1>3, <1>5, <1>6
  <2>2. Done' \cap ControlTDs # {}
    BY <1>1, <1>7
  <2>. QED  BY <2>1, <2>2 DEF EndIsSeen
<1>17. GivenUpOnlyIfMissed'
  BY <1>1 DEF ListsInv, GivenUpOnlyIfMissed
<1>. QED  BY <1>7, <1>9, <1>11, <1>12, <1>15, <1>16, <1>17 DEF ListsInv

LEMMA TakeInterruptKeepsLists ==
    ASSUME TypeOK, ListsInv, ~overlapped, TakeInterrupt
    PROVE  ListsInv'
<1>1. /\ ~handler.on /\ WritebackDoneHead /\ DoneHead' = Null
      /\ handler' = [Off EXCEPT !.on = TRUE, !.td = DoneHead]
      /\ UNCHANGED <<NextTD, ControlED, HIDHead, driver, hc, answered, returned, lost, missed,
                   overlapped>>
      /\ ControlListEnable' = ControlListEnable /\ ControlListFilled' = ControlListFilled
      /\ gOHCITransferComplete' = gOHCITransferComplete
      /\ WritebackDoneHead' = WritebackDoneHead
  BY Zenon DEF TakeInterrupt, memory, list, hcVars, history, races
<1>2. /\ handler'.on /\ handler'.at = "Walk" /\ handler'.td = DoneHead
  BY <1>1 DEF Off
<1>3. /\ Walked = {} /\ InHand = {} /\ Walked' = WrittenBack /\ InHand' = {}
      /\ Done' = Done /\ WrittenBack' = {}
  BY <1>1, <1>2, NullEndsLists, TheLists, TheListsNext DEF InHand
<1>4. Linked' = Linked
  BY <1>3, TheListsNext DEF Linked
<1>5. ListsAreApart' /\ TDsAreKept' /\ HandlerHasTheQueue'
  BY <1>1, <1>2, <1>3, <1>4 DEF ListsInv, ListsAreApart, TDsAreKept, HandlerHasTheQueue
<1>6. ListsEnd'
  BY <1>1, <1>4, ListsEndIfLinksStay DEF ListsInv
<1>7. ListIsAhead' = ListIsAhead /\ LinkedFrom(0)' = LinkedFrom(0)
  BY <1>1 DEF ListIsAhead, LinkedFrom
<1>8. TheListIsAhead'
  BY <1>1, <1>3, <1>4, <1>7 DEF ListsInv, TheListIsAhead
<1>9. EndIsSeen'
  BY <1>1, <1>3 DEF ListsInv, EndIsSeen
<1>10. GivenUpOnlyIfMissed'
  BY <1>1 DEF ListsInv, GivenUpOnlyIfMissed
<1>. QED  BY <1>5, <1>6, <1>8, <1>9, <1>10 DEF ListsInv

LEMMA CompletedControlKeepsLists ==
    ASSUME TypeOK, ListsInv, ~overlapped, CompletedControl
    PROVE  ListsInv'
<1>. DEFINE td == handler.td
<1>1. /\ handler.on /\ handler.at = "Walk" /\ td \in ControlTDs /\ gOHCITransferComplete'
      /\ handler' = [handler EXCEPT !.td = NextTD[td]]
      /\ UNCHANGED <<NextTD, ControlED, HIDHead, driver, hc, DoneHead, answered, returned, lost,
                   overlapped>>
      /\ ControlListEnable' = ControlListEnable /\ ControlListFilled' = ControlListFilled
      /\ WritebackDoneHead' = WritebackDoneHead
  BY Zenon DEF CompletedControl, Walking, FollowingTD, memory, list, hcVars
<1>2. handler'.on /\ handler'.at = "Walk" /\ handler'.td = NextTD[td]
  BY <1>1 DEF TypeOK
<1>3. /\ NextTD \in [TDs -> Links] /\ td \in TDs
      /\ Walked = {td} \cup ListAlong(NextTD, NextTD[td])
  BY <1>1, ListGoesOn, TheLists DEF TypeOK, TDs
<1>4. td \in Walked /\ td \in Linked
  BY <1>3 DEF Linked
<1>5. td \notin ListAlong(NextTD, NextTD[td])
  BY <1>4, TheLists DEF ListsInv
<1>6. /\ Walked' = Walked \ {td} /\ InHand' = {} /\ InHand = {}
      /\ Done' = Done /\ WrittenBack' = WrittenBack
  BY <1>1, <1>2, <1>3, <1>5, TheLists, TheListsNext DEF InHand
<1>7. Linked' = Linked \ {td}
  BY <1>4, <1>6, TheListsNext DEF Linked, ListsInv, ListsAreApart
<1>8. ListsAreApart' /\ HandlerHasTheQueue'
  BY <1>1, <1>2, <1>6, <1>7 DEF ListsInv, ListsAreApart, HandlerHasTheQueue
<1>9. TDsAreKept'
  BY <1>1, <1>6, <1>7, SortsAreDistinct DEF ListsInv, TDsAreKept
<1>10. ListsEnd'
  BY <1>1, <1>7, ListsEndIfLinksStay DEF ListsInv
<1>11. ListIsAhead' = ListIsAhead /\ LinkedFrom(0)' = LinkedFrom(0)
  BY <1>1 DEF ListIsAhead, LinkedFrom
<1>12. TheListIsAhead'
  BY <1>1, <1>6, <1>7, <1>11 DEF ListsInv, TheListIsAhead
<1>13. (missed \/ driver.at = "Forget") => missed'
  BY Zenon DEF CompletedControl
<1>14. EndIsSeen'
  BY <1>1, <1>13 DEF EndIsSeen
<1>15. GivenUpOnlyIfMissed'
  BY <1>1, <1>13 DEF ListsInv, GivenUpOnlyIfMissed
<1>. QED  BY <1>8, <1>9, <1>10, <1>12, <1>14, <1>15 DEF ListsInv

LEMMA CompletedReportKeepsLists ==
    ASSUME TypeOK, ListsInv, ~overlapped, CompletedReport
    PROVE  ListsInv'
<1>. DEFINE td == handler.td
<1>1. /\ handler.on /\ NextTD' = [NextTD EXCEPT ![td] = Dummy]
      /\ UNCHANGED <<ControlED, HIDHead, driver, hc, DoneHead, answered, returned, lost, missed,
                   overlapped>>
      /\ ControlListEnable' = ControlListEnable /\ ControlListFilled' = ControlListFilled
      /\ gOHCITransferComplete' = gOHCITransferComplete
      /\ WritebackDoneHead' = WritebackDoneHead
  BY Zenon DEF CompletedReport, Walking, list, hcVars, history, races
<1>2. /\ td \in HIDs \cap Walked /\ Walked' = Walked \ {td} /\ InHand' = {td} /\ InHand = {}
      /\ Done' = Done /\ WrittenBack' = WrittenBack /\ ListsEnd'
  BY WhatIsTaken DEF ListsInv
<1>3. handler'.on /\ handler'.at = "Requeue" /\ handler'.td = td
  BY DEF CompletedReport, Walking, TypeOK
<1>4. /\ NextTD'[td] = Dummy /\ \A t \in TDs \ {td} : NextTD'[t] = NextTD[t]
      /\ td \in TDs /\ td \notin ControlTDs
  BY <1>1, <1>2, SortsAreDistinct DEF TypeOK
<1>5. Linked' = Linked \ {td} /\ td \in Linked
  BY <1>2, TheListsNext DEF Linked, ListsInv, ListsAreApart
<1>6. ListsAreApart' /\ HandlerHasTheQueue'
  BY <1>1, <1>2, <1>3, <1>4, <1>5 DEF ListsInv, ListsAreApart, HandlerHasTheQueue
<1>7. TDsAreKept'
  <2>1. HIDHead[td] # td /\ td \notin lost
    BY <1>2, <1>5 DEF ListsInv, TDsAreKept
  <2>2. \A h \in HIDs : h # td => NextTD'[h] = NextTD[h]
    BY <1>4, SortsAreDistinct
  <2>. QED  BY <1>1, <1>2, <1>5, <2>1, <2>2 DEF ListsInv, TDsAreKept
<1>8. (ListIsAhead => ListIsAhead') /\ (LinkedFrom(0) => LinkedFrom(0)')
  <2>1. \A t \in ControlTDs : NextTD'[t] = NextTD[t]
    BY <1>4, SortsAreDistinct
  <2>. QED  BY <1>1, <2>1 DEF ListIsAhead, LinkedFrom, TypeOK, ControlTDs
<1>9. TheListIsAhead'
  BY <1>1, <1>2, <1>5, <1>8 DEF ListsInv, TheListIsAhead
<1>10. EndIsSeen'
  BY <1>1, <1>2, <1>4 DEF ListsInv, EndIsSeen
<1>11. GivenUpOnlyIfMissed'
  BY <1>1 DEF ListsInv, GivenUpOnlyIfMissed
<1>. QED  BY <1>2, <1>6, <1>7, <1>9, <1>10, <1>11 DEF ListsInv

LEMMA RequeueKeepsLists ==
    ASSUME TypeOK, ListsInv, ~overlapped, Requeue
    PROVE  ListsInv'
<1>. DEFINE td == handler.td
<1>1. /\ handler.on /\ handler.at = "Requeue"
      /\ HIDHead' = [HIDHead EXCEPT ![td] = td]
      /\ handler' = [handler EXCEPT !.at = "Walk", !.td = handler.next, !.next = Null]
      /\ UNCHANGED <<NextTD, ControlED, driver, hc, DoneHead, answered, returned, lost, missed,
                   overlapped>>
      /\ ControlListEnable' = ControlListEnable /\ ControlListFilled' = ControlListFilled
      /\ gOHCITransferComplete' = gOHCITransferComplete
      /\ WritebackDoneHead' = WritebackDoneHead
  BY Zenon DEF Requeue, list, hcVars, history, races
<1>2. handler'.on /\ handler'.at = "Walk" /\ handler'.td = handler.next
  BY <1>1 DEF TypeOK
<1>3. /\ InHand = {td} /\ InHand' = {} /\ Walked' = Walked
      /\ Done' = Done /\ WrittenBack' = WrittenBack
  BY <1>1, <1>2, TheLists, TheListsNext DEF InHand
<1>4. Linked' = Linked
  BY <1>3, TheListsNext DEF Linked
<1>5. td \in HIDs /\ NextTD[td] = Dummy /\ td \notin Linked /\ td \notin lost
  BY <1>3 DEF ListsInv, HandlerHasTheQueue, ListsAreApart, TDsAreKept
<1>6. HIDHead'[td] = td /\ \A h \in HIDs : h # td => HIDHead'[h] = HIDHead[h]
  BY <1>1, <1>5 DEF TypeOK
<1>7. ListsAreApart' /\ HandlerHasTheQueue'
  BY <1>1, <1>2, <1>3, <1>4 DEF ListsInv, ListsAreApart, HandlerHasTheQueue
<1>8. TDsAreKept'
  BY <1>1, <1>3, <1>4, <1>5, <1>6 DEF ListsInv, TDsAreKept
<1>9. ListsEnd'
  BY <1>1, <1>4, ListsEndIfLinksStay DEF ListsInv
<1>10. ListIsAhead' = ListIsAhead /\ LinkedFrom(0)' = LinkedFrom(0)
  BY <1>1 DEF ListIsAhead, LinkedFrom
<1>11. TheListIsAhead'
  BY <1>1, <1>3, <1>4, <1>10 DEF ListsInv, TheListIsAhead
<1>12. EndIsSeen'
  BY <1>1, <1>3 DEF ListsInv, EndIsSeen
<1>13. GivenUpOnlyIfMissed'
  BY <1>1 DEF ListsInv, GivenUpOnlyIfMissed
<1>. QED  BY <1>7, <1>8, <1>9, <1>11, <1>12, <1>13 DEF ListsInv

(* The handler meets no TD that is neither a request's nor a device's own.  *)
LEMMA NoOtherIsLinked ==
    ASSUME TypeOK, ListsInv
    PROVE  ~CompletedOther
<1>. SUFFICES ASSUME CompletedOther  PROVE FALSE
  OBVIOUS
<1>1. handler.on /\ handler.at = "Walk" /\ handler.td = Dummy
  BY DEF CompletedOther, Walking
<1>2. NextTD \in [TDs -> Links] /\ handler.td \in Links /\ Dummy # Null
  BY SortsAssumption DEF TypeOK
<1>3. Dummy \in Linked
  BY <1>1, <1>2, ListIsClosed, TheLists DEF Linked
<1>. QED  BY <1>3 DEF ListsInv, ListsEnd

LEMMA AcknowledgeKeepsLists ==
    ASSUME TypeOK, ListsInv, ~overlapped, Acknowledge
    PROVE  ListsInv'
<1>1. /\ handler.on /\ handler.at = "Walk" /\ handler.td = Null /\ handler' = Off
      /\ UNCHANGED <<NextTD, ControlED, HIDHead, hc, DoneHead, answered, returned, lost, missed,
                   overlapped>>
      /\ ControlListEnable' = ControlListEnable /\ ControlListFilled' = ControlListFilled
      /\ gOHCITransferComplete' = gOHCITransferComplete
      /\ WritebackDoneHead' = FALSE
  BY Zenon DEF Acknowledge, Walking, memory, list, history, races
<1>2. /\ ~handler'.on
      /\ driver'.at = driver.at /\ driver'.halted = driver.halted
      /\ driver'.status = driver.status /\ driver'.request = driver.request
  BY <1>1, DriverWaits DEF Off, HandlerStep
<1>3. /\ InHand = {} /\ InHand' = {} /\ Walked = {} /\ Walked' = {}
      /\ Done' = Done /\ WrittenBack' = WrittenBack
  BY <1>1, <1>2, NullEndsLists, TheLists, TheListsNext DEF InHand
<1>4. Linked' = Linked
  BY <1>3, TheListsNext DEF Linked
<1>5. ListsAreApart' /\ HandlerHasTheQueue' /\ TDsAreKept'
  BY <1>1, <1>2, <1>3, <1>4 DEF ListsInv, ListsAreApart, HandlerHasTheQueue, TDsAreKept
<1>6. ListsEnd'
  BY <1>1, <1>4, ListsEndIfLinksStay DEF ListsInv
<1>7. ListIsAhead' = ListIsAhead /\ LinkedFrom(0)' = LinkedFrom(0)
  BY <1>1, <1>2 DEF ListIsAhead, LinkedFrom
<1>8. TheListIsAhead'
  BY <1>1, <1>2, <1>3, <1>4, <1>7 DEF ListsInv, TheListIsAhead
<1>9. EndIsSeen'
  BY <1>1, <1>2, <1>3 DEF ListsInv, EndIsSeen
<1>10. GivenUpOnlyIfMissed'
  BY <1>1, <1>2 DEF ListsInv, GivenUpOnlyIfMissed
<1>. QED  BY <1>5, <1>6, <1>8, <1>9, <1>10 DEF ListsInv

(* What the foreground's steps have in common.                              *)
LEMMA WhatDriverLeaves ==
    ASSUME TypeOK, ListsInv, DriverStep
    PROVE  /\ ~handler.on /\ Walked = {} /\ InHand = {} /\ Walked' = {} /\ InHand' = {}
           /\ UNCHANGED <<HIDHead, hc, WritebackDoneHead, handler>>
           /\ ~ResetDoneHead => UNCHANGED <<DoneHead, lost>>
           /\ ~SendControlRequest => UNCHANGED <<missed, overlapped>>
           /\ ~ResetDoneHead /\ ~BuildTDs =>
                  /\ Done' = Done /\ WrittenBack' = WrittenBack /\ Linked' = Linked
                  /\ ListsAreApart' /\ ListsEnd' /\ TDsAreKept' /\ HandlerHasTheQueue'
<1>1. /\ ~handler.on /\ UNCHANGED <<HIDHead, hc, WritebackDoneHead, handler>>
      /\ ~ResetDoneHead => UNCHANGED <<DoneHead, lost>>
      /\ ~SendControlRequest => UNCHANGED <<missed, overlapped>>
      /\ ~BuildTDs => UNCHANGED <<NextTD>>
  BY DEF DriverStep, SendControlRequest, BuildTDs, LinkTDs, ResetDoneHead, EnableList, ForgetLast,
         Complete, Timeout, Return, Driver, memory, list, hcVars, history, races
<1>2. Walked = {} /\ InHand = {} /\ Walked' = {} /\ InHand' = {}
  BY <1>1, TheLists, TheListsNext DEF InHand
<1>3. ASSUME UNCHANGED <<NextTD, DoneHead, lost>>
      PROVE  /\ Done' = Done /\ WrittenBack' = WrittenBack /\ Linked' = Linked
             /\ ListsAreApart' /\ ListsEnd' /\ TDsAreKept' /\ HandlerHasTheQueue'
  <2>1. Done' = Done /\ WrittenBack' = WrittenBack
    BY <1>1, <1>3, TheLists, TheListsNext
  <2>2. Linked' = Linked
    BY <1>2, <2>1, TheListsNext DEF Linked
  <2>3. ListsEnd'
    BY <1>3, <2>2, ListsEndIfLinksStay DEF ListsInv
  <2>4. ListsAreApart' /\ TDsAreKept' /\ HandlerHasTheQueue'
    BY <1>1, <1>2, <1>3, <2>1, <2>2
       DEF ListsInv, ListsAreApart, TDsAreKept, HandlerHasTheQueue
  <2>. QED  BY <2>1, <2>2, <2>3, <2>4
<1>. QED  BY <1>1, <1>2, <1>3

LEMMA SendControlRequestKeepsLists ==
    ASSUME TypeOK, ListsInv, SendControlRequest, ~overlapped'
    PROVE  ListsInv'
<1>1. DriverStep /\ ~ResetDoneHead /\ ~BuildTDs
  BY DEF SendControlRequest, DriverStep, ResetDoneHead, BuildTDs, Driver
<1>2. /\ ~LeftBehind /\ ~ControlListEnable' /\ ControlED' = ControlED /\ hc' = hc
  BY Zenon DEF SendControlRequest, memory, hcVars
<1>3. /\ driver'.at = "Build" /\ driver'.request # 0 /\ driver'.halted = ControlED.Halted
  <2>1. PICK n \in Nat : n = driver.request + 1 /\ n # 0
    BY DEF TypeOK
  <2>2. driver' = [driver EXCEPT !.at = "Build", !.request = n, !.halted = ControlED.Halted,
                                 !.framed = FALSE]
    BY <2>1 DEF SendControlRequest
  <2>. QED  BY <2>1, <2>2 DEF TypeOK
<1>4. Linked' = Linked /\ Walked = {}
  BY <1>1, WhatDriverLeaves
<1>5. ~hc.control /\ Linked \cap ControlTDs = {}
  BY <1>2, <1>4 DEF LeftBehind, Linked, Done, WrittenBack
<1>6. TheListIsAhead'
  BY <1>2, <1>3, <1>4, <1>5 DEF TheListIsAhead
<1>7. EndIsSeen' /\ GivenUpOnlyIfMissed'
  BY <1>3 DEF EndIsSeen, GivenUpOnlyIfMissed
<1>. QED  BY <1>1, <1>6, <1>7, WhatDriverLeaves DEF ListsInv

LEMMA BuildTDsKeepsLists ==
    ASSUME TypeOK, ListsInv, ~overlapped, BuildTDs
    PROVE  ListsInv'
<1>1. PICK status \in 1 .. 2 :
          /\ driver' = [driver EXCEPT !.at = "Link", !.status = status]
          /\ NextTD' = [td \in TDs |-> IF td \in 0 .. status THEN td + 1
                                       ELSE IF td = status + 1 THEN Null ELSE NextTD[td]]
  BY DEF BuildTDs
<1>2. /\ driver.at = "Build"
      /\ UNCHANGED <<ControlED, HIDHead, hc, WritebackDoneHead, handler, DoneHead, lost>>
      /\ ControlListEnable' = ControlListEnable
  BY Zenon DEF BuildTDs, list, hcVars, history
<1>3. /\ driver'.at = "Link" /\ driver'.request = driver.request /\ driver'.status = status
      /\ driver'.halted = driver.halted
  BY <1>1 DEF TypeOK
<1>4. /\ \A t \in TDs \ ControlTDs : NextTD'[t] = NextTD[t]
      /\ \A t \in 0 .. status : NextTD'[t] = t + 1
      /\ NextTD' \in [TDs -> Links]
  BY <1>1 DEF TypeOK, TDs, Links, ControlTDs
<1>5. /\ ~ControlListEnable /\ ~hc.control /\ ControlED.Halted = driver.halted
      /\ Linked \cap ControlTDs = {} /\ driver.request # 0
  BY <1>2 DEF ListsInv, TheListIsAhead
<1>6. Linked \in SUBSET TDs
  BY TheLists, ListIsClosed DEF TypeOK, Linked
<1>7. /\ \A td \in {hc.done, DoneHead} : ListAlong(NextTD', td) = ListAlong(NextTD, td)
      /\ \A t \in Linked : t \notin ListAlong(NextTD', NextTD'[t])
  BY <1>4, <1>5, <1>6, ListsAreKept DEF ListsInv
<1>8. /\ ~handler.on /\ Walked = {} /\ Walked' = {} /\ InHand = {} /\ InHand' = {}
  BY WhatDriverLeaves DEF DriverStep
<1>9. Done' = Done /\ WrittenBack' = WrittenBack
  BY <1>2, <1>7, TheLists, TheListsNext
<1>10. Linked' = Linked
  BY <1>8, <1>9, TheListsNext DEF Linked
<1>11. ListsEnd'
  BY <1>7, <1>10, TheLists, TheListsNext DEF ListsInv
<1>12. \A h \in HIDs : NextTD'[h] = NextTD[h]
  BY <1>4, SortsAreDistinct DEF TDs
<1>13. ListsAreApart' /\ TDsAreKept' /\ HandlerHasTheQueue'
  BY <1>2, <1>8, <1>9, <1>10, <1>12
     DEF ListsInv, ListsAreApart, TDsAreKept, HandlerHasTheQueue
<1>14. LinkedFrom(0)'
  BY <1>3, <1>4 DEF LinkedFrom
<1>15. TheListIsAhead' /\ EndIsSeen' /\ GivenUpOnlyIfMissed'
  BY <1>2, <1>3, <1>5, <1>10, <1>14 DEF TheListIsAhead, EndIsSeen, GivenUpOnlyIfMissed
<1>. QED  BY <1>11, <1>13, <1>15 DEF ListsInv

LEMMA LinkTDsKeepsLists ==
    ASSUME TypeOK, ListsInv, ~overlapped, LinkTDs
    PROVE  ListsInv'
<1>1. DriverStep /\ ~ResetDoneHead /\ ~BuildTDs
  BY DEF LinkTDs, DriverStep, ResetDoneHead, BuildTDs, Driver
<1>2. /\ driver.at = "Link" /\ driver' = [driver EXCEPT !.at = "Reset"]
      /\ ControlED' = NewHead /\ answered' = {}
      /\ UNCHANGED <<NextTD, hc>> /\ ControlListEnable' = ControlListEnable
  BY Zenon DEF LinkTDs, Driver, list, hcVars
<1>3. /\ driver'.at = "Reset" /\ driver'.request = driver.request /\ driver'.status = driver.status
      /\ driver'.halted = driver.halted
  BY <1>2 DEF TypeOK
<1>4. /\ ~ControlListEnable /\ ~hc.control /\ ControlED.Halted = driver.halted
      /\ Linked \cap ControlTDs = {}
      /\ driver.request # 0 /\ LinkedFrom(0)
  BY <1>2 DEF ListsInv, TheListIsAhead
<1>5. /\ ControlED'.Head = 0 /\ ControlED'.Tail = driver.status + 1
      /\ ControlED'.Halted = ControlED.Halted
  BY <1>2, <1>4 DEF NewHead, Setup, TypeOK
<1>6. ListIsAhead'
  <2>1. answered' = 0 .. ControlED'.Head - 1
    BY <1>2, <1>5
  <2>. QED  BY <1>2, <1>3, <1>4, <1>5, <2>1 DEF ListIsAhead, LinkedFrom, TypeOK
<1>7. Linked' = Linked
  BY <1>1, WhatDriverLeaves
<1>8. TheListIsAhead' /\ EndIsSeen' /\ GivenUpOnlyIfMissed'
  BY <1>2, <1>3, <1>4, <1>5, <1>6, <1>7
     DEF TheListIsAhead, EndIsSeen, GivenUpOnlyIfMissed
<1>. QED  BY <1>1, <1>8, WhatDriverLeaves DEF ListsInv

LEMMA ResetDoneHeadKeepsLists ==
    ASSUME TypeOK, ListsInv, ~overlapped, ResetDoneHead
    PROVE  ListsInv'
<1>1. /\ driver.at = "Reset" /\ driver' = [driver EXCEPT !.at = "Enable"]
      /\ DoneHead' = Null /\ ~overlapped
      /\ lost' = IF overlapped THEN {} ELSE lost \cup (HIDs \cap ListFrom(DoneHead))
      /\ UNCHANGED <<NextTD, ControlED, HIDHead, hc, WritebackDoneHead, handler, answered>>
      /\ ControlListEnable' = ControlListEnable
  BY Zenon DEF ResetDoneHead, Driver, memory, list, hcVars
<1>2. /\ driver'.at = "Enable" /\ driver'.request = driver.request
      /\ driver'.status = driver.status /\ driver'.halted = driver.halted
  BY <1>1 DEF TypeOK
<1>3. /\ ~handler.on /\ Walked = {} /\ Walked' = {} /\ InHand = {} /\ InHand' = {}
  BY WhatDriverLeaves DEF DriverStep
<1>4. /\ Done' = Done /\ WrittenBack' = {} /\ lost' = lost \cup (HIDs \cap WrittenBack)
  BY <1>1, NullEndsLists, TheLists, TheListsNext DEF WrittenBack
<1>5. Linked = Done \cup WrittenBack /\ Linked' = Done
  BY <1>3, <1>4, TheListsNext DEF Linked
<1>6. Done \cap WrittenBack = {}
  BY DEF ListsInv, ListsAreApart
<1>7. ListsEnd'
  BY <1>1, <1>5, ListsEndIfLinksStay DEF ListsInv
<1>8. ListsAreApart' /\ HandlerHasTheQueue'
  BY <1>1, <1>3, <1>4, <1>5 DEF ListsInv, ListsAreApart, HandlerHasTheQueue
<1>9. TDsAreKept'
  BY <1>1, <1>3, <1>4, <1>5, <1>6 DEF ListsInv, TDsAreKept
<1>10. /\ ~ControlListEnable /\ ~hc.control /\ ControlED.Halted = driver.halted
      /\ Linked \cap ControlTDs = {}
       /\ driver.request # 0 /\ ListIsAhead /\ ControlED.Head = 0
  BY <1>1 DEF ListsInv, TheListIsAhead
<1>11. ListIsAhead'
  BY <1>1, <1>2, <1>10 DEF ListIsAhead, LinkedFrom
<1>12. TheListIsAhead' /\ EndIsSeen' /\ GivenUpOnlyIfMissed'
  BY <1>1, <1>2, <1>5, <1>10, <1>11
     DEF TheListIsAhead, EndIsSeen, GivenUpOnlyIfMissed
<1>. QED  BY <1>7, <1>8, <1>9, <1>12 DEF ListsInv

LEMMA EnableListKeepsLists ==
    ASSUME TypeOK, ListsInv, ~overlapped, EnableList
    PROVE  ListsInv'
<1>1. DriverStep /\ ~ResetDoneHead /\ ~BuildTDs
  BY DEF EnableList, DriverStep, ResetDoneHead, BuildTDs, Driver
<1>2. /\ driver.at = "Enable" /\ driver' = [driver EXCEPT !.at = "Forget"]
      /\ UNCHANGED <<NextTD, ControlED, hc, answered>> /\ ControlListFilled'
  BY Zenon DEF EnableList, Driver, memory, hcVars, history
<1>3. /\ driver'.at = "Forget" /\ driver'.request = driver.request
      /\ driver'.status = driver.status /\ driver'.halted = driver.halted
  BY <1>2 DEF TypeOK
<1>4. /\ ~hc.control /\ ControlED.Halted = driver.halted
      /\ Linked \cap ControlTDs = {}
      /\ driver.request # 0 /\ ListIsAhead /\ ControlED.Head = 0
  BY <1>2 DEF ListsInv, TheListIsAhead
<1>5. ListIsAhead' /\ ControlED.Head # ControlED.Tail
  BY <1>2, <1>3, <1>4 DEF ListIsAhead, LinkedFrom, TypeOK
<1>6. /\ Linked' = Linked /\ Done' = Done /\ WrittenBack' = WrittenBack /\ Walked' = {}
  BY <1>1, WhatDriverLeaves
<1>7. TheListIsAhead' /\ EndIsSeen' /\ GivenUpOnlyIfMissed'
  BY <1>2, <1>3, <1>4, <1>5, <1>6
     DEF TheListIsAhead, EndIsSeen, GivenUpOnlyIfMissed, Linked
<1>. QED  BY <1>1, <1>7, WhatDriverLeaves DEF ListsInv

LEMMA ForgetLastKeepsLists ==
    ASSUME TypeOK, ListsInv, ~overlapped, ForgetLast
    PROVE  ListsInv'
<1>1. DriverStep /\ ~ResetDoneHead /\ ~BuildTDs
  BY DEF ForgetLast, DriverStep, ResetDoneHead, BuildTDs, Driver
<1>2. /\ driver.at = "Forget" /\ driver' = [driver EXCEPT !.at = "Wait"]
      /\ UNCHANGED <<NextTD, ControlED, hc, answered, missed>>
      /\ ControlListFilled' = ControlListFilled
  BY Zenon DEF ForgetLast, Driver, memory, list, hcVars, history, races
<1>3. /\ driver'.at = "Wait" /\ driver'.request = driver.request
      /\ driver'.status = driver.status /\ driver'.halted = driver.halted
  BY <1>2 DEF TypeOK
<1>4. ListIsAhead' = ListIsAhead
  BY <1>2, <1>3 DEF ListIsAhead, LinkedFrom
<1>5. /\ Linked' = Linked /\ Done' = Done /\ WrittenBack' = WrittenBack
      /\ Walked = {} /\ Walked' = {}
  BY <1>1, WhatDriverLeaves
<1>6. TheListIsAhead' /\ EndIsSeen' /\ GivenUpOnlyIfMissed'
  BY <1>2, <1>3, <1>4, <1>5
     DEF ListsInv, TheListIsAhead, EndIsSeen, GivenUpOnlyIfMissed
<1>. QED  BY <1>1, <1>6, WhatDriverLeaves DEF ListsInv

(* A device that answers in time is not given up: the end of the list, or   *)
(* an error, has reached the done queue, and nothing is left there.         *)
LEMMA ReturnKeepsLists ==
    ASSUME TypeOK, ListsInv, ~overlapped, Complete \/ Timeout
    PROVE  ListsInv'
<1>1. DriverStep /\ ~ResetDoneHead /\ ~BuildTDs
  BY DEF Complete, Timeout, Return, DriverStep, ResetDoneHead, BuildTDs, Driver
<1>2. /\ driver.at = "Wait" /\ driver' = [driver EXCEPT !.at = "Idle"]
      /\ UNCHANGED <<NextTD, ControlED, hc, answered>>
      /\ ControlListEnable' = ControlListEnable
  BY Zenon DEF Complete, Timeout, Return, Driver, memory, list, hcVars
<1>3. /\ driver'.at = "Idle" /\ driver'.request = driver.request
      /\ driver'.status = driver.status /\ driver'.halted = driver.halted
  BY <1>2 DEF TypeOK
<1>4. ListIsAhead' = ListIsAhead
  BY <1>2, <1>3 DEF ListIsAhead, LinkedFrom
<1>5. /\ Linked' = Linked /\ Walked = {}
  BY <1>1, WhatDriverLeaves
<1>6. TheListIsAhead' /\ EndIsSeen'
  BY <1>2, <1>3, <1>4, <1>5 DEF ListsInv, TheListIsAhead, EndIsSeen
<1>7. ASSUME Timeout, Patient, ~driver.halted  PROVE missed
  <2>1. NothingPending /\ ~gOHCITransferComplete
    BY <1>7 DEF Timeout
  <2>2. WrittenBack \cap ControlTDs = {} /\ (hc.due => Done \cap ControlTDs = {})
    BY <2>1 DEF NothingPending, WrittenBack, Done
  <2>3. ControlED.Halted \/ ControlED.Head = ControlED.Tail
    <3>. SUFFICES ASSUME ~ControlED.Halted, ControlED.Head # ControlED.Tail  PROVE FALSE
      OBVIOUS
    <3>1. ControlListFilled /\ ListIsAhead
      BY <1>2 DEF ListsInv, TheListIsAhead
    <3>2. ControlED.Head \in ControlTDs
      BY <3>1 DEF ListIsAhead, TypeOK, ControlTDs
    <3>. QED  BY <2>1, <3>1, <3>2 DEF NothingPending, ToBeExecuted
  <2>. QED  BY <1>2, <1>5, <1>7, <2>1, <2>2, <2>3 DEF ListsInv, EndIsSeen
<1>8. (Complete => returned'.result) /\ returned'.haltedBefore = driver.halted
  BY DEF Complete, Timeout, Return
<1>9. missed' = missed
  BY Zenon DEF Complete, Timeout, Return, races
<1>10. GivenUpOnlyIfMissed'
  BY <1>7, <1>8, <1>9 DEF GivenUpOnlyIfMissed
<1>. QED  BY <1>1, <1>6, <1>10, WhatDriverLeaves DEF ListsInv

LEMMA InitKeepsLists == Init => ListsInv
<1>. SUFFICES ASSUME Init  PROVE ListsInv
  OBVIOUS
<1>1. TypeOK
  BY InitIsSound DEF IInv
<1>2. hc.done = Null /\ DoneHead = Null /\ ~handler.on
  BY DEF Init, Off
<1>3. Done = {} /\ WrittenBack = {} /\ Walked = {} /\ InHand = {}
  BY <1>2, NullEndsLists, TheLists DEF InHand
<1>4. Linked = {}
  BY <1>3 DEF Linked
<1>5. ListsAreApart /\ ListsEnd /\ HandlerHasTheQueue
  BY <1>2, <1>3, <1>4 DEF ListsAreApart, ListsEnd, HandlerHasTheQueue
<1>6. TDsAreKept
  BY <1>3, <1>4, SortsAreDistinct DEF Init, TDsAreKept
<1>7. TheListIsAhead /\ EndIsSeen /\ GivenUpOnlyIfMissed
  BY <1>4 DEF Init, TheListIsAhead, EndIsSeen, GivenUpOnlyIfMissed
<1>. QED  BY <1>5, <1>6, <1>7 DEF ListsInv

-----------------------------------------------------------------------------
LEMMA StepsKeepLists == TypeOK /\ ApartInv /\ [Next]_vars => ApartInv'
<1>. SUFFICES ASSUME TypeOK, ApartInv, [Next]_vars, ~overlapped'  PROVE ListsInv'
  BY DEF ApartInv
<1>1. ~overlapped
  <2>1. CASE SendControlRequest
    BY <2>1, Zenon DEF SendControlRequest
  <2>2. CASE ~SendControlRequest
    BY <2>2 DEF Next, vars, Frame, ExecuteControl, ExecuteHID, DriverStep, BuildTDs, LinkTDs,
                ResetDoneHead, EnableList, ForgetLast, Complete, Timeout, Return, TakeInterrupt,
                HandlerStep, CompletedControl, CompletedOther, CompletedReport, Requeue,
                Acknowledge, history, races
  <2>. QED  BY <2>1, <2>2
<1>2. ListsInv
  BY <1>1 DEF ApartInv
<1>4. CASE Frame
  BY <1>1, <1>2, <1>4, FrameKeepsLists
<1>5. CASE ExecuteControl
  BY <1>1, <1>2, <1>5, ExecuteKeepsLists
<1>6. CASE \E h \in HIDs : ExecuteHID(h)
  BY <1>1, <1>2, <1>6, ExecuteHIDKeepsLists
<1>7. CASE DriverStep
  BY <1>1, <1>2, <1>7, SendControlRequestKeepsLists, BuildTDsKeepsLists, LinkTDsKeepsLists,
     ResetDoneHeadKeepsLists, EnableListKeepsLists, ForgetLastKeepsLists, ReturnKeepsLists
     DEF DriverStep
<1>8. CASE TakeInterrupt
  BY <1>1, <1>2, <1>8, TakeInterruptKeepsLists
<1>9. CASE HandlerStep
  BY <1>1, <1>2, <1>9, CompletedControlKeepsLists, CompletedReportKeepsLists,
     RequeueKeepsLists, AcknowledgeKeepsLists, NoOtherIsLinked DEF HandlerStep
<1>10. CASE UNCHANGED vars
  <2>1. UNCHANGED <<NextTD, HIDHead, ControlED, ControlListEnable, ControlListFilled, hc, DoneHead,
                    WritebackDoneHead, gOHCITransferComplete, driver, handler, answered, returned,
                    lost, missed, overlapped>>
    BY <1>10 DEF vars, memory, list, hcVars, history, races
  <2>2. Done' = Done /\ WrittenBack' = WrittenBack /\ Walked' = Walked /\ InHand' = InHand
    BY <2>1, TheLists, TheListsNext DEF InHand
  <2>3. Linked' = Linked
    BY <2>2, TheListsNext DEF Linked
  <2>4. ListsEnd'
    BY <1>2, <2>1, <2>3, ListsEndIfLinksStay DEF ListsInv
  <2>5. ListsAreApart' /\ TDsAreKept' /\ HandlerHasTheQueue'
    BY <1>2, <2>1, <2>2, <2>3 DEF ListsInv, ListsAreApart, TDsAreKept, HandlerHasTheQueue
  <2>6. ListIsAhead' = ListIsAhead /\ LinkedFrom(0)' = LinkedFrom(0)
    BY <2>1 DEF ListIsAhead, LinkedFrom
  <2>7. TheListIsAhead' /\ EndIsSeen' /\ GivenUpOnlyIfMissed'
    BY <1>2, <2>1, <2>2, <2>3, <2>6
       DEF ListsInv, TheListIsAhead, EndIsSeen, GivenUpOnlyIfMissed
  <2>. QED  BY <2>4, <2>5, <2>7 DEF ListsInv
<1>. QED  BY <1>4, <1>5, <1>6, <1>7, <1>8, <1>9, <1>10 DEF Next

LEMMA TypeAndListsAreKept == Spec => [](TypeOK /\ ApartInv)
<1>1. Init => TypeOK /\ ApartInv
  BY InitIsSound, InitKeepsLists DEF IInv, ApartInv
<1>2. TypeOK /\ ApartInv /\ [Next]_vars => (TypeOK /\ ApartInv)'
  BY TypeIsKept, StepsKeepLists
<1>. QED  BY <1>1, <1>2, PTL DEF Spec

LEMMA ListsArePlaces ==
    TypeOK /\ ListsInv => ReportIsInOnePlace
<1>. SUFFICES ASSUME TypeOK, ListsInv, NEW h \in HIDs
              PROVE  Cardinality(PlacesOf(h)) = IF h \in lost THEN 0 ELSE 1
  BY DEF ReportIsInOnePlace
<1>. DEFINE walk == h \in Walked \cup InHand
<1>1. /\ h \in Linked \cup InHand <=> HIDHead[h] # h /\ h \notin lost
      /\ HIDHead[h] = h => h \notin lost
  BY DEF ListsInv, TDsAreKept
<1>2. /\ ~(h \in Done /\ (h \in WrittenBack \/ walk)) /\ ~(h \in WrittenBack /\ walk)
  BY DEF ListsInv, ListsAreApart, Linked
<1>3. /\ "Queued" \in PlacesOf(h) <=> HIDHead[h] = h
      /\ "Done" \in PlacesOf(h) <=> h \in Done
      /\ "WrittenBack" \in PlacesOf(h) <=> h \in WrittenBack
      /\ "Handler" \in PlacesOf(h) <=> walk
  BY DEF PlacesOf, Done, WrittenBack, Walked, InHand, TypeOK
<1>4. PlacesOf(h) \subseteq {"Queued", "Done", "WrittenBack", "Handler"}
  BY DEF PlacesOf
<1>5. h \in Linked \cup InHand <=> h \in Done \/ h \in WrittenBack \/ walk
  BY DEF Linked
<1>. HIDE DEF walk
<1>6. PlacesOf(h) = IF h \in lost THEN {} ELSE IF HIDHead[h] = h THEN {"Queued"}
                    ELSE IF h \in Done THEN {"Done"} ELSE IF h \in WrittenBack THEN {"WrittenBack"}
                    ELSE {"Handler"}
  BY <1>1, <1>2, <1>3, <1>4, <1>5
<1>. QED  BY <1>6, FS_EmptySet, FS_Singleton

(* While requests do not overlap, the TD of each HID device is in exactly   *)
(* one place: queued, in the controller's done queue, in the queue written  *)
(* back, or with the handler, for any number of devices and requests; or it *)
(* is in none, when ResetDoneHead has thrown its report away.               *)
THEOREM ReportsAreInOnePlace == Spec => []ReportIsInOnePlace
<1>1. TypeOK /\ ApartInv => ReportIsInOnePlace
  BY ListsArePlaces DEF ApartInv, ReportIsInOnePlace
<1>. QED  BY <1>1, TypeAndListsAreKept, PTL

(* With devices that answer in time, and requests that do not overlap, a    *)
(* request on an endpoint that works is given up only if its completion was *)
(* cleared with the flag: in every other order of its steps, of frames,     *)
(* errors and reports, and of the handler's steps, a TD of its list reaches *)
(* the handler after line 1119 and completes it.                            *)
THEOREM RequestsAreNotGivenUp == Spec => []GivenUpOnlyIfMissed
<1>1. TypeOK /\ ApartInv => GivenUpOnlyIfMissed
  BY DEF ApartInv, ListsInv, GivenUpOnlyIfMissed
<1>. QED  BY <1>1, TypeAndListsAreKept, PTL
=============================================================================
