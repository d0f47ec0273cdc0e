------------------------- MODULE Interrupts_proofs -------------------------
(* Theorems about module Interrupts, for every depth of nesting, every      *)
(* sleep and every number of handlers on the stack.                         *)
EXTENDS Interrupts, SequenceTheorems, FiniteSetTheorems, TLAPS

-----------------------------------------------------------------------------
(* The inductive invariant. The stack is described by its top: below it are *)
(* only handlers that are through with their work, so the count, the flag   *)
(* and the inputs in service depend on the running handler, the foreground  *)
(* it interrupted, and what the finished ones have left to send.            *)

Places == {"Run", "Cli", "Sti", "Compare", "Hlt", "Halted"}
FinishedPlaces == {"EOIMaster", "EOISlave", "Return"}
Frames ==
    [irq : {Timer}, at : {"EOI", "Count", "Return"}] \cup
    [irq : {USB}, at : {"Raise", "Nested", "NestedEnd", "Acknowledge", "Lower"}
                           \cup FinishedPlaces]
Finished == [irq : {USB}, at : FinishedPlaces]

TypeOK ==
    /\ gInterruptStack \in Nat
    /\ InterruptFlag \in BOOLEAN
    /\ foreground \in [at : Places, depth : Nat]
    /\ frames \in Seq(Frames)
    /\ TicksToGo \in Int
    /\ timerRequest \in BOOLEAN /\ usbLine \in BOOLEAN
    /\ masterInService \subseteq {0, 2} /\ slaveInService \in BOOLEAN

Top == frames[Len(frames)]

(* A second USB handler is on the stack only if the first has told the      *)
(* slave, too: at most one of them still has something to send.             *)
StackIsFinished ==
    /\ \A i \in 1 .. Len(frames) - 1 : frames[i] \in Finished
    /\ \A i, j \in 1 .. Len(frames) :
           i < j /\ frames[j].irq = USB => frames[i].at = "Return"

CountIsOfTop ==
    gInterruptStack =
        SectionsOfForeground + (IF frames = <<>> THEN 0 ELSE SectionsOf(Top))

FlagIsKnown ==
    InterruptFlag <=>
        IF frames = <<>> THEN foreground.depth = 0 /\ foreground.at # "Sti"
                         ELSE Top \in Finished /\ foreground.at # "Cli"

(* Where the foreground can be when it is interrupted. Between the raising  *)
(* of the count and the cli it is interrupted once at most: the handler's   *)
(* last EnableInterrupts finds the count raised and sets no flag.           *)
ForegroundIsOpen ==
    /\ foreground.at \notin {"Run", "Cli"} => foreground.depth = 0
    /\ frames # <<>> => foreground.depth = 0 /\ foreground.at # "Sti"
    /\ Len(frames) > 1 => foreground.at # "Cli"

(* Whether a USB handler on the stack is at none of these places.           *)
Owes(stack, places) ==
    \E i \in 1 .. Len(stack) : stack[i].irq = USB /\ stack[i].at \notin places

(* EOIEndsOwnInterrupt, input by input.                                     *)
ServiceIsOfStack ==
    /\ 0 \in masterInService <=> frames # <<>> /\ Top = Frame(Timer, "EOI")
    /\ 2 \in masterInService <=> Owes(frames, {"EOISlave", "Return"})
    /\ slaveInService <=> Owes(frames, {"Return"})

IInv ==
    /\ TypeOK
    /\ StackIsFinished
    /\ CountIsOfTop
    /\ FlagIsKnown
    /\ ForegroundIsOpen
    /\ ServiceIsOfStack

-----------------------------------------------------------------------------
(* The stack of handlers *)

LEMMA FrontProperties ==
    ASSUME NEW S, NEW s \in Seq(S), s # <<>>
    PROVE  /\ Len(s) \in Nat \ {0}
           /\ Front(s) \in Seq(S) /\ Len(Front(s)) = Len(s) - 1
           /\ \A i \in 1 .. Len(s) - 1 : Front(s)[i] = s[i]
<1>1. Len(s) \in Nat \ {0} /\ \A i \in 1 .. Len(s) : s[i] \in S
  BY LenProperties, EmptySeq, ElementOfSeq
<1>2. PICK n \in Nat : n = Len(s) - 1
  BY <1>1
<1>3. \A i \in 1 .. n : s[i] \in S
  BY <1>1, <1>2
<1>4. /\ SubSeq(s, 1, n) \in Seq(S)
      /\ Len(SubSeq(s, 1, n)) = IF 1 <= n THEN n - 1 + 1 ELSE 0
      /\ \A i \in 1 .. n - 1 + 1 : SubSeq(s, 1, n)[i] = s[1 + i - 1]
  BY <1>3, SubSeqProperties
<1>5. Len(SubSeq(s, 1, n)) = n
  BY <1>2, <1>4
<1>6. \A i \in 1 .. n : SubSeq(s, 1, n)[i] = s[i]
  <2>. TAKE i \in 1 .. n
  <2>1. i \in 1 .. n - 1 + 1 /\ 1 + i - 1 = i
    BY <1>2
  <2>. QED  BY <1>4, <2>1
<1>. QED  BY <1>1, <1>2, <1>4, <1>5, <1>6 DEF Front

LEMMA Pushed ==
    ASSUME frames \in Seq(Frames), NEW f \in Frames, frames' = Append(frames, f)
    PROVE  /\ frames' \in Seq(Frames) /\ frames' # <<>>
           /\ Len(frames) \in Nat /\ Len(frames') = Len(frames) + 1
           /\ Top' = f
           /\ \A i \in 1 .. Len(frames) : frames'[i] = frames[i]
BY DEF Top

LEMMA Popped ==
    ASSUME frames \in Seq(Frames), frames # <<>>, frames' = Front(frames)
    PROVE  /\ frames' \in Seq(Frames)
           /\ Len(frames) \in Nat \ {0} /\ Len(frames') = Len(frames) - 1
           /\ frames' = <<>> <=> Len(frames) = 1
           /\ \A i \in 1 .. Len(frames) - 1 : frames'[i] = frames[i]
<1>1. /\ Len(frames) \in Nat \ {0}
      /\ frames' \in Seq(Frames) /\ Len(frames') = Len(frames) - 1
      /\ \A i \in 1 .. Len(frames) - 1 : frames'[i] = frames[i]
  BY FrontProperties
<1>2. frames' = <<>> <=> Len(frames') = 0
  BY <1>1, EmptySeq
<1>. QED  BY <1>1, <1>2

(* A handler that goes on is still the top of the stack.                    *)
LEMMA Moved ==
    ASSUME frames \in Seq(Frames), NEW irq, NEW from, NEW to,
           Handler(irq, from, to), Frame(irq, to) \in Frames
    PROVE  /\ frames' \in Seq(Frames) /\ frames # <<>> /\ frames' # <<>>
           /\ Len(frames) \in Nat \ {0} /\ Len(frames') = Len(frames)
           /\ Top = Frame(irq, from) /\ Top' = Frame(irq, to)
           /\ \A i \in 1 .. Len(frames) - 1 : frames'[i] = frames[i]
<1>. DEFINE below == Front(frames)
<1>1. /\ Len(frames) \in Nat \ {0}
      /\ below \in Seq(Frames) /\ Len(below) = Len(frames) - 1
      /\ \A i \in 1 .. Len(frames) - 1 : below[i] = frames[i]
  BY FrontProperties DEF Handler
<1>2. frames' = Append(below, Frame(irq, to)) /\ frames # <<>> /\ Top = Frame(irq, from)
  BY DEF Handler, Last, Top
<1>. HIDE DEF below
<1>. QED  BY <1>1, <1>2 DEF Top

(* What the handlers on the stack still owe the PICs: only the running one  *)
(* can change it.                                                           *)
LEMMA OwedWhenPushed ==
    ASSUME frames \in Seq(Frames), NEW f \in Frames, NEW places,
           frames' = Append(frames, f)
    PROVE  Owes(frames', places) <=>
               Owes(frames, places) \/ (f.irq = USB /\ f.at \notin places)
<1>1. /\ Len(frames) \in Nat /\ Len(frames') = Len(frames) + 1
      /\ frames'[Len(frames')] = f
      /\ \A i \in 1 .. Len(frames) : frames'[i] = frames[i]
  BY Pushed DEF Top
<1>2. ASSUME Owes(frames', places), ~(f.irq = USB /\ f.at \notin places)
      PROVE  Owes(frames, places)
  BY <1>1, <1>2 DEF Owes
<1>3. ASSUME Owes(frames, places)  PROVE Owes(frames', places)
  BY <1>1, <1>3 DEF Owes
<1>4. ASSUME f.irq = USB /\ f.at \notin places  PROVE Owes(frames', places)
  BY <1>1, <1>4 DEF Owes
<1>. QED  BY <1>2, <1>3, <1>4

LEMMA OwedWhenPopped ==
    ASSUME frames \in Seq(Frames), frames # <<>>, frames' = Front(frames),
           NEW places, Top.irq = USB => Top.at \in places
    PROVE  Owes(frames', places) <=> Owes(frames, places)
<1>1. /\ Len(frames) \in Nat \ {0} /\ Len(frames') = Len(frames) - 1
      /\ \A i \in 1 .. Len(frames) - 1 : frames'[i] = frames[i]
  BY Popped
<1>. QED  BY <1>1 DEF Owes, Top

LEMMA OwedWhenMoved ==
    ASSUME frames \in Seq(Frames), StackIsFinished, NEW irq \in {Timer, USB},
           NEW from, NEW to,
           Handler(irq, from, to), Frame(irq, to) \in Frames,
           NEW places, "Return" \in places
    PROVE  /\ Owes(frames', places) <=>
                  IF irq = USB THEN to \notin places ELSE Owes(frames, places)
           /\ irq = USB => (Owes(frames, places) <=> from \notin places)
<1>1. /\ Len(frames) \in Nat \ {0} /\ Len(frames') = Len(frames)
      /\ frames[Len(frames)] = Frame(irq, from)
      /\ frames'[Len(frames)] = Frame(irq, to)
      /\ \A i \in 1 .. Len(frames) - 1 : frames'[i] = frames[i]
  BY Moved DEF Top
<1>2. irq = USB => \A i \in 1 .. Len(frames) - 1 : frames[i].at \in places
  BY <1>1 DEF StackIsFinished, Frame
<1>. QED  BY <1>1, <1>2 DEF Owes, Frame, Timer, USB

LEMMA StackWhenMoved ==
    ASSUME frames \in Seq(Frames), StackIsFinished, NEW irq, NEW from, NEW to,
           Handler(irq, from, to), Frame(irq, to) \in Frames
    PROVE  StackIsFinished'
<1>1. /\ Len(frames) \in Nat \ {0} /\ Len(frames') = Len(frames)
      /\ frames[Len(frames)] = Frame(irq, from)
      /\ frames'[Len(frames)] = Frame(irq, to)
      /\ \A i \in 1 .. Len(frames) - 1 : frames'[i] = frames[i]
  BY Moved DEF Top
<1>. QED  BY SMTT(40), <1>1 DEF StackIsFinished, Frame

-----------------------------------------------------------------------------
(* The inductive invariant holds at the start, and every step keeps it.     *)
LEMMA InitIsSound == Init => IInv
<1>. SUFFICES ASSUME Init PROVE IInv
  OBVIOUS
<1>1. frames \in Seq(Frames) /\ frames = <<>> /\ Len(frames) = 0
  BY EmptySeq DEF Init
<1>2. TypeOK
  <2>1. gInterruptStack \in Nat /\ TicksToGo \in Int /\ masterInService \subseteq {0, 2}
    BY DEF Init
  <2>2. foreground \in [at : Places, depth : Nat]
    BY DEF Init, Places
  <2>3. /\ InterruptFlag \in BOOLEAN /\ timerRequest \in BOOLEAN
        /\ usbLine \in BOOLEAN /\ slaveInService \in BOOLEAN
    BY Zenon DEF Init
  <2>. QED  BY <1>1, <2>1, <2>2, <2>3 DEF TypeOK
<1>3. StackIsFinished /\ ServiceIsOfStack
  BY <1>1 DEF Init, StackIsFinished, ServiceIsOfStack, Owes
<1>4. CountIsOfTop /\ FlagIsKnown /\ ForegroundIsOpen
  BY <1>1 DEF Init, CountIsOfTop, FlagIsKnown, ForegroundIsOpen, SectionsOfForeground
<1>. QED  BY <1>2, <1>3, <1>4 DEF IInv

(* The foreground's steps, which are taken while no handler runs: what they *)
(* have to keep is between the count, the flag and the foreground.          *)
ForegroundAgrees ==
    /\ foreground \in [at : Places, depth : Nat]
    /\ gInterruptStack = SectionsOfForeground
    /\ InterruptFlag <=> foreground.depth = 0 /\ foreground.at # "Sti"
    /\ foreground.at \notin {"Run", "Cli"} => foreground.depth = 0

LEMMA ForegroundSuffices ==
    ASSUME IInv, frames = <<>>, UNCHANGED <<frames, picVars>>, TicksToGo' \in Int,
           InterruptFlag' \in BOOLEAN, ForegroundAgrees'
    PROVE  IInv'
<1>1. frames' = <<>> /\ frames' \in Seq(Frames) /\ Len(frames) = 0 /\ Len(frames') = 0
  BY EmptySeq
<1>2. UNCHANGED <<timerRequest, usbLine, masterInService, slaveInService>>
  BY DEF picVars
<1>3. StackIsFinished'
  BY <1>1 DEF StackIsFinished
<1>4. ServiceIsOfStack'
  BY <1>1, <1>2 DEF IInv, ServiceIsOfStack, Owes
<1>5. gInterruptStack' \in Nat
  BY DEF ForegroundAgrees, SectionsOfForeground
<1>6. TypeOK'
  BY <1>1, <1>2, <1>5 DEF IInv, TypeOK, ForegroundAgrees
<1>7. CountIsOfTop'
  BY <1>1 DEF CountIsOfTop, ForegroundAgrees, SectionsOfForeground
<1>8. FlagIsKnown' /\ ForegroundIsOpen'
  BY <1>1 DEF FlagIsKnown, ForegroundIsOpen, ForegroundAgrees
<1>. QED  BY <1>3, <1>4, <1>6, <1>7, <1>8 DEF IInv

LEMMA ForegroundIsSound ==
    ASSUME IInv, ForegroundStep
    PROVE  IInv'
<1>1. frames = <<>> /\ UNCHANGED <<frames, picVars>>
  BY DEF ForegroundStep, DisableInterrupts, Cli, EnableInterrupts, Sti, SleepMS, Compare,
         Hlt, Foreground
<1>2. /\ ForegroundAgrees /\ gInterruptStack \in Nat
      /\ foreground.at \in Places /\ foreground.depth \in Nat
  BY <1>1 DEF IInv, TypeOK, CountIsOfTop, FlagIsKnown, ForegroundIsOpen, ForegroundAgrees,
              SectionsOfForeground
<1>3. TicksToGo' \in Int
  BY DEF IInv, TypeOK, ForegroundStep, DisableInterrupts, Cli, EnableInterrupts, Sti,
         SleepMS, Compare, Hlt
<1>4. InterruptFlag' \in BOOLEAN
  BY DEF IInv, TypeOK, ForegroundStep, DisableInterrupts, Cli, EnableInterrupts, Sti,
         SleepMS, Compare, Hlt
<1>5. ForegroundAgrees'
  <2>. USE <1>2 DEF ForegroundAgrees, SectionsOfForeground, Places, Foreground
  <2>1. CASE DisableInterrupts
    BY <2>1 DEF DisableInterrupts, At, RaiseCount
  <2>2. CASE Cli
    BY <2>2 DEF Cli, Deeper
  <2>3. CASE EnableInterrupts
    <3>1. CASE gInterruptStack = 1
      BY <2>3, <3>1 DEF EnableInterrupts, Out, LowerCount, LastSection
    <3>2. CASE gInterruptStack # 1
      BY <2>3, <3>2 DEF EnableInterrupts, Out, LowerCount, LastSection
    <3>. QED  BY <3>1, <3>2
  <2>4. CASE Sti
    BY <2>4 DEF Sti, At
  <2>5. CASE SleepMS
    BY <2>5 DEF SleepMS, At
  <2>6. CASE Compare
    BY <2>6 DEF Compare, At
  <2>7. CASE Hlt
    BY <2>7 DEF Hlt, At
  <2>. QED  BY <2>1, <2>2, <2>3, <2>4, <2>5, <2>6, <2>7 DEF ForegroundStep
<1>. QED  BY <1>1, <1>3, <1>4, <1>5, ForegroundSuffices

(* The handlers' steps: each moves the running one, and has to keep the     *)
(* count, the flag and the inputs in service in line with its place.        *)
LEMMA HandlerSuffices ==
    ASSUME IInv, NEW irq, NEW from, NEW to, Handler(irq, from, to), Frame(irq, to) \in Frames,
           gInterruptStack' \in Nat, TicksToGo' \in Int, InterruptFlag' \in BOOLEAN,
           timerRequest' \in BOOLEAN, usbLine' \in BOOLEAN,
           masterInService' \subseteq {0, 2}, slaveInService' \in BOOLEAN,
           gInterruptStack' = SectionsOfForeground + SectionsOf(Frame(irq, to)),
           InterruptFlag' <=> Frame(irq, to) \in Finished /\ foreground.at # "Cli",
           ServiceIsOfStack'
    PROVE  IInv'
<1>1. /\ frames' \in Seq(Frames) /\ frames # <<>> /\ frames' # <<>>
      /\ Len(frames) \in Nat \ {0} /\ Len(frames') = Len(frames)
      /\ Top' = Frame(irq, to) /\ foreground' = foreground
  BY Moved DEF IInv, TypeOK, Handler
<1>2. StackIsFinished'
  BY StackWhenMoved DEF IInv, TypeOK
<1>3. TypeOK'
  BY <1>1 DEF IInv, TypeOK
<1>4. CountIsOfTop'
  BY <1>1 DEF CountIsOfTop, SectionsOfForeground
<1>5. FlagIsKnown'
  BY <1>1 DEF FlagIsKnown
<1>6. ForegroundIsOpen'
  BY <1>1 DEF IInv, ForegroundIsOpen
<1>. QED  BY <1>2, <1>3, <1>4, <1>5, <1>6 DEF IInv

LEMMA ServiceKept ==
    ASSUME IInv, NEW irq \in {Timer, USB}, NEW from, NEW to, Handler(irq, from, to),
           Frame(irq, to) \in Frames, UNCHANGED <<masterInService, slaveInService>>,
           irq = Timer => "EOI" \notin {from, to},
           irq = USB => {from, to} \cap {"EOISlave", "Return"} = {}
    PROVE  ServiceIsOfStack'
<1>1. /\ frames # <<>> /\ frames' # <<>> /\ Top = Frame(irq, from) /\ Top' = Frame(irq, to)
  BY Moved DEF IInv, TypeOK
<1>2. /\ Owes(frames', {"EOISlave", "Return"}) <=> Owes(frames, {"EOISlave", "Return"})
      /\ Owes(frames', {"Return"}) <=> Owes(frames, {"Return"})
  <2>1. ASSUME NEW places \in {{"EOISlave", "Return"}, {"Return"}}
        PROVE  Owes(frames', places) <=> Owes(frames, places)
    <3>1. /\ Owes(frames', places) <=>
                 IF irq = USB THEN to \notin places ELSE Owes(frames, places)
          /\ irq = USB => (Owes(frames, places) <=> from \notin places)
      BY OwedWhenMoved DEF IInv, TypeOK
    <3>2. irq = USB => from \notin places /\ to \notin places
      OBVIOUS
    <3>. QED  BY <3>1, <3>2
  <2>. QED  BY <2>1
<1>3. Top = Frame(Timer, "EOI") <=> Top' = Frame(Timer, "EOI")
  BY <1>1 DEF Frame
<1>. QED  BY <1>1, <1>2, <1>3 DEF IInv, ServiceIsOfStack

LEMMA EndMasterEndsHighest ==
    ASSUME masterInService \subseteq {0, 2}, EndMaster
    PROVE  masterInService' =
               IF 0 \in masterInService THEN masterInService \ {0} ELSE {}
<1>1. \A i, j \in masterInService : j < i <=> j = 0 /\ i = 2
  OBVIOUS
<1>2. \A i \in masterInService' \cup masterInService : i = 0 \/ i = 2
  BY DEF EndMaster
<1>3. \A i : i \in masterInService' <=> i \in masterInService /\ i = 2 /\ 0 \in masterInService
  BY <1>1 DEF EndMaster
<1>4. CASE 0 \in masterInService
  BY <1>2, <1>3, <1>4
<1>5. CASE 0 \notin masterInService
  BY <1>3, <1>5
<1>. QED  BY <1>4, <1>5

(* What is known where a handler is about to take a step.                   *)
LEMMA AtHandler ==
    ASSUME IInv, NEW irq \in {Timer, USB}, NEW from, frames # <<>>, Last(frames) = Frame(irq, from)
    PROVE  /\ foreground.depth = 0
           /\ SectionsOfForeground = (IF foreground.at = "Cli" THEN 1 ELSE 0)
           /\ gInterruptStack = SectionsOfForeground + SectionsOf(Frame(irq, from))
           /\ InterruptFlag <=> Frame(irq, from) \in Finished /\ foreground.at # "Cli"
           /\ 0 \in masterInService <=> Frame(irq, from) = Frame(Timer, "EOI")
           /\ gInterruptStack \in Nat /\ TicksToGo \in Int
<1>1. Top = Frame(irq, from)
  BY DEF Top, Last
<1>2. foreground.depth = 0
  BY DEF IInv, ForegroundIsOpen
<1>3. SectionsOfForeground = (IF foreground.at = "Cli" THEN 1 ELSE 0)
  BY <1>2 DEF SectionsOfForeground
<1>4. gInterruptStack = SectionsOfForeground + SectionsOf(Frame(irq, from))
  BY <1>1 DEF IInv, CountIsOfTop
<1>5. InterruptFlag <=> Frame(irq, from) \in Finished /\ foreground.at # "Cli"
  BY <1>1 DEF IInv, FlagIsKnown
<1>6. 0 \in masterInService <=> Frame(irq, from) = Frame(Timer, "EOI")
  BY <1>1 DEF IInv, ServiceIsOfStack
<1>. QED  BY <1>2, <1>3, <1>4, <1>5, <1>6 DEF IInv, TypeOK

LEMMA TimerEOIIsSound ==
    ASSUME IInv, TimerEOI
    PROVE  IInv'
<1>1. /\ Handler(Timer, "EOI", "Count") /\ frames # <<>> /\ Last(frames) = Frame(Timer, "EOI")
      /\ Frame(Timer, "Count") \in Frames
  BY DEF TimerEOI, Handler, Frame, Frames
<1>2. /\ UNCHANGED <<gInterruptStack, TicksToGo, timerRequest, usbLine, slaveInService>>
      /\ InterruptFlag' = InterruptFlag
      /\ masterInService' =
             IF 0 \in masterInService THEN masterInService \ {0} ELSE {}
  BY EndMasterEndsHighest DEF TimerEOI, IInv, TypeOK
<1>3. /\ gInterruptStack = SectionsOfForeground + SectionsOf(Frame(Timer, "EOI"))
      /\ InterruptFlag <=> Frame(Timer, "EOI") \in Finished /\ foreground.at # "Cli"
      /\ 0 \in masterInService
  BY <1>1, AtHandler
<1>4. ServiceIsOfStack'
  <2>1. /\ Top' = Frame(Timer, "Count")
        /\ Owes(frames', {"EOISlave", "Return"}) <=> Owes(frames, {"EOISlave", "Return"})
        /\ Owes(frames', {"Return"}) <=> Owes(frames, {"Return"})
    BY <1>1, Moved, OwedWhenMoved DEF IInv, TypeOK, Timer, USB
  <2>. QED  BY <1>2, <1>3, <2>1 DEF IInv, ServiceIsOfStack, Frame
<1>. QED
  <2>1. SectionsOf(Frame(Timer, "Count")) = SectionsOf(Frame(Timer, "EOI"))
    BY DEF SectionsOf, Frame
  <2>2. Frame(Timer, "EOI") \notin Finished /\ Frame(Timer, "Count") \notin Finished
    BY DEF Finished, Frame, Timer, USB
  <2>. QED  BY <1>1, <1>2, <1>3, <1>4, <2>1, <2>2, HandlerSuffices DEF IInv, TypeOK

LEMMA CountTickIsSound ==
    ASSUME IInv, CountTick
    PROVE  IInv'
<1>1. /\ Handler(Timer, "Count", "Return") /\ frames # <<>>
      /\ Last(frames) = Frame(Timer, "Count") /\ Frame(Timer, "Return") \in Frames
  BY DEF CountTick, Handler, Frame, Frames
<1>2. /\ UNCHANGED <<gInterruptStack, timerRequest, usbLine, masterInService, slaveInService>>
      /\ InterruptFlag' = InterruptFlag /\ TicksToGo' \in Int
  BY DEF CountTick, IInv, TypeOK, picVars
<1>3. /\ gInterruptStack = SectionsOfForeground + SectionsOf(Frame(Timer, "Count"))
      /\ InterruptFlag <=> Frame(Timer, "Count") \in Finished /\ foreground.at # "Cli"
  BY <1>1, AtHandler
<1>4. ServiceIsOfStack'
  BY <1>1, <1>2, ServiceKept DEF Timer, USB
<1>. QED
  <2>1. SectionsOf(Frame(Timer, "Count")) = SectionsOf(Frame(Timer, "Return"))
    BY DEF SectionsOf, Frame
  <2>2. Frame(Timer, "Count") \notin Finished /\ Frame(Timer, "Return") \notin Finished
    BY DEF Finished, Frame, Timer, USB
  <2>. QED  BY <1>1, <1>2, <1>3, <1>4, <2>1, <2>2, HandlerSuffices DEF IInv, TypeOK

(* The USB handler opening a section.                                       *)
LEMMA USBDisableIsSound ==
    ASSUME IInv, USBDisable \/ USBNestedDisable
    PROVE  IInv'
<1>1. PICK from \in {"Raise", "Nested"} :
          Handler(USB, from, IF from = "Raise" THEN "Nested" ELSE "NestedEnd")
  BY DEF USBDisable, USBNestedDisable
<1>. DEFINE to == IF from = "Raise" THEN "Nested" ELSE "NestedEnd"
<1>2. frames # <<>> /\ Last(frames) = Frame(USB, from) /\ Frame(USB, to) \in Frames
  BY <1>1 DEF Handler, Frame, Frames
<1>3. /\ UNCHANGED <<TicksToGo, timerRequest, usbLine, masterInService, slaveInService>>
      /\ InterruptFlag' = FALSE /\ gInterruptStack' = gInterruptStack + 1
  BY DEF USBDisable, USBNestedDisable, RaiseCount, picVars
<1>4. gInterruptStack = SectionsOfForeground + SectionsOf(Frame(USB, from))
  BY <1>2, AtHandler
<1>5. SectionsOf(Frame(USB, to)) = SectionsOf(Frame(USB, from)) + 1
      /\ SectionsOf(Frame(USB, from)) \in Nat /\ Frame(USB, to) \notin Finished
  BY DEF SectionsOf, Frame, Finished, FinishedPlaces, Timer, USB
<1>6. ServiceIsOfStack'
  BY <1>1, <1>2, <1>3, ServiceKept DEF Timer, USB
<1>7. SectionsOfForeground \in Nat
  BY DEF IInv, TypeOK, SectionsOfForeground
<1>8. gInterruptStack' = SectionsOfForeground + SectionsOf(Frame(USB, to))
  BY <1>3, <1>4, <1>5, <1>7
<1>9. gInterruptStack' \in Nat
  BY <1>3 DEF IInv, TypeOK
<1>. QED  BY <1>1, <1>2, <1>3, <1>5, <1>6, <1>8, <1>9, HandlerSuffices DEF IInv, TypeOK

(* The nested section is never the last one; the handler's own is, unless   *)
(* the foreground was about to clear the flag.                              *)
LEMMA USBEnableIsSound ==
    ASSUME IInv, USBNestedEnable \/ USBEnable
    PROVE  IInv'
<1>1. PICK from \in {"NestedEnd", "Lower"} :
          Handler(USB, from, IF from = "Lower" THEN "EOIMaster" ELSE "Acknowledge")
  BY DEF USBNestedEnable, USBEnable
<1>. DEFINE to == IF from = "Lower" THEN "EOIMaster" ELSE "Acknowledge"
<1>2. frames # <<>> /\ Last(frames) = Frame(USB, from) /\ Frame(USB, to) \in Frames
  BY <1>1 DEF Handler, Frame, Frames, FinishedPlaces
<1>3. /\ UNCHANGED <<TicksToGo, timerRequest, usbLine, masterInService, slaveInService>>
      /\ gInterruptStack' = gInterruptStack - 1
  BY DEF USBNestedEnable, USBEnable, LowerCount, picVars
<1>4. (InterruptFlag' = (InterruptFlag \/ LastSection))
  BY DEF USBNestedEnable, USBEnable
<1>5. /\ SectionsOfForeground = (IF foreground.at = "Cli" THEN 1 ELSE 0)
      /\ gInterruptStack = SectionsOfForeground + SectionsOf(Frame(USB, from))
      /\ InterruptFlag <=> Frame(USB, from) \in Finished /\ foreground.at # "Cli"
  BY <1>2, AtHandler
<1>6. /\ SectionsOf(Frame(USB, from)) = IF from = "Lower" THEN 1 ELSE 2
      /\ SectionsOf(Frame(USB, to)) = IF from = "Lower" THEN 0 ELSE 1
      /\ Frame(USB, from) \notin Finished
      /\ Frame(USB, to) \in Finished <=> from = "Lower"
  BY DEF SectionsOf, Frame, Finished, FinishedPlaces, Timer, USB
<1>7. ServiceIsOfStack'
  BY <1>1, <1>2, <1>3, ServiceKept DEF Timer, USB
<1>8. /\ gInterruptStack' = SectionsOfForeground + SectionsOf(Frame(USB, to))
      /\ gInterruptStack' \in Nat
  BY <1>3, <1>5, <1>6
<1>9. LastSection <=> from = "Lower" /\ foreground.at # "Cli"
  BY <1>5, <1>6 DEF LastSection
<1>10. /\ InterruptFlag' \in BOOLEAN
       /\ InterruptFlag' <=> Frame(USB, to) \in Finished /\ foreground.at # "Cli"
  BY <1>4, <1>5, <1>6, <1>9
<1>. QED  BY <1>1, <1>2, <1>3, <1>7, <1>8, <1>10, HandlerSuffices DEF IInv, TypeOK

LEMMA USBAcknowledgeIsSound ==
    ASSUME IInv, USBAcknowledge
    PROVE  IInv'
<1>1. PICK from \in {"Nested", "Acknowledge"} : Handler(USB, from, "Lower")
  BY DEF USBAcknowledge
<1>2. frames # <<>> /\ Last(frames) = Frame(USB, from) /\ Frame(USB, "Lower") \in Frames
  BY <1>1 DEF Handler, Frame, Frames
<1>3. /\ UNCHANGED <<gInterruptStack, TicksToGo, timerRequest, masterInService, slaveInService>>
      /\ InterruptFlag' = InterruptFlag /\ usbLine' \in BOOLEAN
  BY DEF USBAcknowledge
<1>4. /\ gInterruptStack = SectionsOfForeground + SectionsOf(Frame(USB, from))
      /\ InterruptFlag <=> Frame(USB, from) \in Finished /\ foreground.at # "Cli"
  BY <1>2, AtHandler
<1>5. /\ SectionsOf(Frame(USB, from)) = SectionsOf(Frame(USB, "Lower"))
      /\ Frame(USB, from) \notin Finished /\ Frame(USB, "Lower") \notin Finished
  BY DEF SectionsOf, Frame, Finished, FinishedPlaces, Timer, USB
<1>6. ServiceIsOfStack'
  BY <1>1, <1>2, <1>3, ServiceKept DEF Timer, USB
<1>. QED  BY <1>1, <1>2, <1>3, <1>4, <1>5, <1>6, HandlerSuffices DEF IInv, TypeOK

(* The two end-of-interrupt commands. The timer is not in service at the    *)
(* master then, so it is the input of the slave that the first one ends.    *)
LEMMA USBEndIsSound ==
    ASSUME IInv, USBEndMaster \/ USBEndSlave
    PROVE  IInv'
<1>1. PICK from \in {"EOIMaster", "EOISlave"} :
          /\ Handler(USB, from, IF from = "EOIMaster" THEN "EOISlave" ELSE "Return")
          /\ from = "EOIMaster" => EndMaster /\ slaveInService' = slaveInService
          /\ from = "EOISlave" => masterInService' = masterInService /\ slaveInService' = FALSE
  BY DEF USBEndMaster, USBEndSlave
<1>. DEFINE to == IF from = "EOIMaster" THEN "EOISlave" ELSE "Return"
<1>2. frames # <<>> /\ Last(frames) = Frame(USB, from) /\ Frame(USB, to) \in Frames
  BY <1>1 DEF Handler, Frame, Frames, FinishedPlaces
<1>3. /\ UNCHANGED <<gInterruptStack, TicksToGo, timerRequest, usbLine>>
      /\ InterruptFlag' = InterruptFlag
  BY DEF USBEndMaster, USBEndSlave
<1>4. /\ gInterruptStack = SectionsOfForeground + SectionsOf(Frame(USB, from))
      /\ InterruptFlag <=> Frame(USB, from) \in Finished /\ foreground.at # "Cli"
      /\ 0 \in masterInService <=> Frame(USB, from) = Frame(Timer, "EOI")
  BY <1>2, AtHandler
<1>5. /\ SectionsOf(Frame(USB, from)) = SectionsOf(Frame(USB, to))
      /\ Frame(USB, from) \in Finished /\ Frame(USB, to) \in Finished
      /\ Frame(USB, from) # Frame(Timer, "EOI") /\ Frame(USB, to) # Frame(Timer, "EOI")
  BY DEF SectionsOf, Frame, Finished, FinishedPlaces, Timer, USB
<1>6. /\ masterInService' = IF from = "EOIMaster" THEN {} ELSE masterInService
      /\ slaveInService' = (from = "EOIMaster" /\ slaveInService)
  BY <1>1, <1>4, <1>5, EndMasterEndsHighest DEF IInv, TypeOK
<1>7. ServiceIsOfStack'
  <2>1. Top' = Frame(USB, to)
    BY <1>1, <1>2, Moved DEF IInv, TypeOK
  <2>2. ASSUME NEW places, "Return" \in places
        PROVE  /\ Owes(frames', places) <=> to \notin places
               /\ Owes(frames, places) <=> from \notin places
    BY <1>1, <1>2, <2>2, OwedWhenMoved DEF IInv, TypeOK, Timer, USB
  <2>3. /\ ~Owes(frames', {"EOISlave", "Return"})
        /\ Owes(frames', {"Return"}) <=> from = "EOIMaster"
        /\ Owes(frames, {"EOISlave", "Return"}) <=> from = "EOIMaster"
        /\ Owes(frames, {"Return"})
    BY <2>2
  <2>4. /\ 0 \notin masterInService
        /\ 2 \in masterInService <=> from = "EOIMaster"
        /\ slaveInService
    BY <1>4, <1>5, <2>3 DEF IInv, ServiceIsOfStack
  <2>5. 0 \notin masterInService' /\ 2 \notin masterInService'
    BY <1>6, <2>4
  <2>6. slaveInService' <=> from = "EOIMaster"
    BY <1>6, <2>4
  <2>. QED  BY <1>5, <2>1, <2>3, <2>5, <2>6 DEF ServiceIsOfStack
<1>8. masterInService' \subseteq {0, 2} /\ slaveInService' \in BOOLEAN
  BY <1>6 DEF IInv, TypeOK
<1>. QED  BY <1>1, <1>2, <1>3, <1>4, <1>5, <1>7, <1>8, HandlerSuffices DEF IInv, TypeOK

LEMMA FinishedHasNoSection ==
    ASSUME NEW frame \in Finished
    PROVE  SectionsOf(frame) = 0 /\ frame.irq = USB /\ frame # Frame(Timer, "EOI")
BY DEF Finished, FinishedPlaces, SectionsOf, Frame, Timer, USB

(* Below a handler that returns is the foreground or one that is finished.  *)
LEMMA ReturnIsSound ==
    ASSUME IInv, NEW irq \in {Timer, USB}, Return(irq)
    PROVE  IInv'
<1>1. /\ frames \in Seq(Frames) /\ frames # <<>> /\ Last(frames) = Frame(irq, "Return")
      /\ frames' = Front(frames) /\ InterruptFlag' = TRUE
      /\ UNCHANGED <<gInterruptStack, foreground, TicksToGo, picVars>>
  BY DEF Return, IInv, TypeOK
<1>2. UNCHANGED <<timerRequest, usbLine, masterInService, slaveInService>>
  BY <1>1 DEF picVars
<1>3. /\ frames' \in Seq(Frames)
      /\ Len(frames) \in Nat \ {0} /\ Len(frames') = Len(frames) - 1
      /\ frames' = <<>> <=> Len(frames) = 1
      /\ \A i \in 1 .. Len(frames) - 1 : frames'[i] = frames[i]
  BY <1>1, Popped
<1>4. /\ foreground.depth = 0
      /\ gInterruptStack = SectionsOfForeground + SectionsOf(Frame(irq, "Return"))
      /\ 0 \in masterInService <=> Frame(irq, "Return") = Frame(Timer, "EOI")
  BY <1>1, AtHandler
<1>5. SectionsOf(Frame(irq, "Return")) = 0 /\ Frame(irq, "Return") # Frame(Timer, "EOI")
  BY DEF SectionsOf, Frame
<1>6. StackIsFinished'
  BY SMTT(40), <1>3 DEF IInv, StackIsFinished
<1>7. frames' # <<>> => Top' \in Finished
  BY <1>3 DEF IInv, StackIsFinished, Top
<1>8. TypeOK'
  <2>1. InterruptFlag' \in BOOLEAN
    BY <1>1
  <2>. QED  BY <1>1, <1>2, <1>3, <2>1 DEF IInv, TypeOK
<1>9. CountIsOfTop'
  <2>1. /\ gInterruptStack' = SectionsOfForeground /\ SectionsOfForeground \in Nat
        /\ SectionsOfForeground' = SectionsOfForeground
    BY <1>1, <1>4, <1>5 DEF SectionsOfForeground, IInv, TypeOK
  <2>2. frames' # <<>> => SectionsOf(Top') = 0
    BY <1>7, FinishedHasNoSection
  <2>. QED  BY <2>1, <2>2 DEF CountIsOfTop
<1>10. ForegroundIsOpen'
  BY <1>1, <1>3 DEF IInv, ForegroundIsOpen
<1>11. FlagIsKnown'
  <2>1. foreground.depth = 0 /\ foreground.at # "Sti"
    BY <1>1 DEF IInv, ForegroundIsOpen
  <2>2. frames' # <<>> => foreground.at # "Cli"
    BY <1>3 DEF IInv, ForegroundIsOpen
  <2>. QED  BY <1>1, <1>7, <2>1, <2>2 DEF FlagIsKnown
<1>12. ServiceIsOfStack'
  <2>1. ASSUME NEW places, "Return" \in places
        PROVE  Owes(frames', places) <=> Owes(frames, places)
    BY <1>1, <2>1, OwedWhenPopped DEF Top, Last, Frame
  <2>2. /\ Owes(frames', {"EOISlave", "Return"}) <=> Owes(frames, {"EOISlave", "Return"})
        /\ Owes(frames', {"Return"}) <=> Owes(frames, {"Return"})
    BY <2>1
  <2>3. 0 \notin masterInService /\ ~(frames' # <<>> /\ Top' = Frame(Timer, "EOI"))
    BY <1>4, <1>5, <1>7, FinishedHasNoSection
  <2>. QED  BY <1>2, <2>2, <2>3 DEF IInv, ServiceIsOfStack
<1>. QED  BY <1>6, <1>8, <1>9, <1>10, <1>11, <1>12 DEF IInv

(* An interrupt finds the foreground outside its sections, or a handler     *)
(* that is finished; one of the USB controller, only if it has told the     *)
(* slave, too.                                                              *)
LEMMA TakeIsSound ==
    ASSUME IInv, NEW irq \in {Timer, USB}, NEW first,
           first = IF irq = Timer THEN "EOI" ELSE "Raise",
           TakeInterrupt(irq, first)
    PROVE  IInv'
<1>. DEFINE f == Frame(irq, first)
<1>1. /\ frames \in Seq(Frames) /\ frames' = Append(frames, f) /\ f \in Frames
      /\ UNCHANGED <<gInterruptStack, TicksToGo, usbLine>>
      /\ InterruptFlag' = FALSE
  <2>1. f \in Frames
    BY DEF Frame, Frames
  <2>. QED  BY <2>1 DEF TakeInterrupt, FlagInHandler, IInv, TypeOK
<1>2. /\ InterruptFlag /\ \A i \in masterInService : Input(irq) < i
      /\ irq = USB => ~slaveInService
  BY DEF TakeInterrupt, Deliverable
<1>3. /\ f.irq = irq /\ SectionsOf(f) = 0 /\ f \notin Finished
      /\ f = Frame(Timer, "EOI") <=> irq = Timer
      /\ irq = USB => f.at = "Raise"
  BY DEF Frame, SectionsOf, Finished, FinishedPlaces, Timer, USB
<1>. HIDE DEF f
<1>4. /\ frames' \in Seq(Frames) /\ frames' # <<>>
      /\ Len(frames) \in Nat /\ Len(frames') = Len(frames) + 1
      /\ Top' = f
      /\ \A i \in 1 .. Len(frames) : frames'[i] = frames[i]
  BY <1>1, Pushed
<1>5. /\ foreground.depth = 0 /\ foreground.at # "Sti"
      /\ frames # <<>> => foreground.at # "Cli" /\ Top \in Finished
      /\ frames = <<>> <=> Len(frames) = 0
  BY <1>1, <1>2, EmptySeq DEF IInv, FlagIsKnown, ForegroundIsOpen
<1>6. /\ foreground \in [at : Places, depth : Nat]
      /\ foreground' = [foreground EXCEPT !.at = IF @ = "Halted" THEN "Compare" ELSE @]
  BY DEF IInv, TypeOK, TakeInterrupt
<1>7. /\ foreground' \in [at : Places, depth : Nat]
      /\ foreground'.depth = 0 /\ foreground'.at # "Sti"
      /\ foreground'.at = "Cli" <=> foreground.at = "Cli"
  <2>1. CASE foreground.at = "Halted"
    BY <1>5, <1>6, <2>1 DEF Places
  <2>2. CASE foreground.at # "Halted"
    BY <1>5, <1>6, <2>2 DEF Places
  <2>. QED  BY <2>1, <2>2
<1>8. /\ masterInService' = masterInService \cup {Input(irq)}
      /\ slaveInService' = (slaveInService \/ irq = USB)
      /\ timerRequest' \in BOOLEAN
  BY DEF TakeInterrupt
<1>9. StackIsFinished'
  <2>1. \A i \in 1 .. Len(frames) : frames[i] \in Finished
    BY <1>4, <1>5 DEF IInv, StackIsFinished, Top
  <2>2. irq = USB => \A i \in 1 .. Len(frames) : frames[i].at = "Return"
    BY <1>2, <2>1, FinishedHasNoSection DEF IInv, ServiceIsOfStack, Owes
  <2>. QED  BY <1>3, <1>4, <2>1, <2>2 DEF IInv, StackIsFinished, Top
<1>10. CountIsOfTop'
  <2>1. gInterruptStack = SectionsOfForeground
    BY <1>5, FinishedHasNoSection DEF IInv, CountIsOfTop, TypeOK, SectionsOfForeground
  <2>2. SectionsOfForeground' = SectionsOfForeground
    BY <1>5, <1>7 DEF SectionsOfForeground
  <2>3. SectionsOf(Top)' = 0 /\ SectionsOfForeground \in Nat
    BY <1>3, <1>4, <1>6 DEF SectionsOf, SectionsOfForeground
  <2>. QED  BY <1>1, <1>4, <2>1, <2>2, <2>3 DEF CountIsOfTop
<1>11. FlagIsKnown'
  BY <1>1, <1>3, <1>4 DEF FlagIsKnown
<1>12. ForegroundIsOpen'
  BY <1>4, <1>5, <1>7 DEF ForegroundIsOpen
<1>13. ServiceIsOfStack'
  <2>1. ASSUME NEW places, "Raise" \notin places
        PROVE  Owes(frames', places) <=> Owes(frames, places) \/ irq = USB
    BY <1>1, <1>3, <2>1, OwedWhenPushed
  <2>2. /\ Owes(frames', {"EOISlave", "Return"}) <=>
               Owes(frames, {"EOISlave", "Return"}) \/ irq = USB
        /\ Owes(frames', {"Return"}) <=> Owes(frames, {"Return"}) \/ irq = USB
    BY <2>1
  <2>3. 0 \notin masterInService
    BY <1>2 DEF Input
  <2>4. 0 \in masterInService' <=> irq = Timer
    BY <1>8, <2>3 DEF Input, Timer, USB
  <2>5. 2 \in masterInService' <=> 2 \in masterInService \/ irq = USB
    BY <1>8 DEF Input, Timer, USB
  <2>6. slaveInService' <=> slaveInService \/ irq = USB
    BY <1>8
  <2>. QED  BY <1>3, <1>4, <2>2, <2>4, <2>5, <2>6 DEF IInv, ServiceIsOfStack
<1>14. TypeOK'
  <2>1. masterInService' \subseteq {0, 2} /\ slaveInService' \in BOOLEAN
    BY <1>8 DEF IInv, TypeOK, Input
  <2>2. InterruptFlag' \in BOOLEAN
    BY <1>1
  <2>. QED  BY <1>1, <1>4, <1>7, <1>8, <2>1, <2>2 DEF IInv, TypeOK
<1>. QED  BY <1>9, <1>10, <1>11, <1>12, <1>13, <1>14 DEF IInv

LEMMA DeviceIsSound ==
    ASSUME IInv, TimerEdge \/ USBEvent
    PROVE  IInv'
<1>1. /\ UNCHANGED <<gInterruptStack, foreground, frames, TicksToGo, masterInService>>
      /\ InterruptFlag' = InterruptFlag /\ slaveInService' = slaveInService
  BY DEF TimerEdge, USBEvent
<1>2. timerRequest' \in BOOLEAN /\ usbLine' \in BOOLEAN
  BY DEF TimerEdge, USBEvent, IInv, TypeOK
<1>3. TypeOK'
  BY <1>1, <1>2 DEF IInv, TypeOK
<1>4. /\ StackIsFinished' /\ CountIsOfTop' /\ FlagIsKnown' /\ ForegroundIsOpen'
      /\ ServiceIsOfStack'
  BY <1>1 DEF IInv, StackIsFinished, CountIsOfTop, FlagIsKnown, ForegroundIsOpen,
              ServiceIsOfStack, SectionsOfForeground, Top
<1>. QED  BY <1>3, <1>4 DEF IInv

LEMMA StutteringIsSound ==
    ASSUME IInv, UNCHANGED vars
    PROVE  IInv'
<1>1. /\ UNCHANGED <<gInterruptStack, foreground, frames, TicksToGo, masterInService,
                     timerRequest, usbLine>>
      /\ InterruptFlag' = InterruptFlag /\ slaveInService' = slaveInService
  BY DEF vars, picVars
<1>2. /\ StackIsFinished' /\ CountIsOfTop' /\ FlagIsKnown' /\ ForegroundIsOpen'
      /\ ServiceIsOfStack'
  BY <1>1 DEF IInv, StackIsFinished, CountIsOfTop, FlagIsKnown, ForegroundIsOpen,
              ServiceIsOfStack, SectionsOfForeground, Top
<1>3. TypeOK'
  BY <1>1 DEF IInv, TypeOK
<1>. QED  BY <1>2, <1>3 DEF IInv

LEMMA HandlerIsSound ==
    ASSUME IInv, HandlerStep
    PROVE  IInv'
<1>1. CASE TimerEOI
  BY <1>1, TimerEOIIsSound
<1>2. CASE CountTick
  BY <1>2, CountTickIsSound
<1>3. CASE USBDisable \/ USBNestedDisable
  BY <1>3, USBDisableIsSound
<1>4. CASE USBNestedEnable \/ USBEnable
  BY <1>4, USBEnableIsSound
<1>5. CASE USBAcknowledge
  BY <1>5, USBAcknowledgeIsSound
<1>6. CASE USBEndMaster \/ USBEndSlave
  BY <1>6, USBEndIsSound
<1>7. CASE Return(Timer) \/ Return(USB)
  BY <1>7, ReturnIsSound
<1>. QED  BY <1>1, <1>2, <1>3, <1>4, <1>5, <1>6, <1>7 DEF HandlerStep

LEMMA StepsAreSound == IInv /\ [Next]_vars => IInv'
<1>1. SUFFICES ASSUME IInv, [Next]_vars  PROVE IInv'
  OBVIOUS
<1>2. CASE TimerEdge \/ USBEvent
  BY <1>1, <1>2, DeviceIsSound
<1>3. CASE TakeTimer
  BY <1>1, <1>3, TakeIsSound DEF TakeTimer
<1>4. CASE TakeUSB
  BY <1>1, <1>4, TakeIsSound DEF TakeUSB, Timer, USB
<1>5. CASE ForegroundStep
  BY <1>1, <1>5, ForegroundIsSound
<1>6. CASE HandlerStep
  BY <1>1, <1>6, HandlerIsSound
<1>7. CASE UNCHANGED vars
  BY <1>1, <1>7, StutteringIsSound
<1>. QED  BY <1>1, <1>2, <1>3, <1>4, <1>5, <1>6, <1>7 DEF Next

(* In every state that can be reached, the count, the flag and the inputs   *)
(* in service are those of the running handler and the foreground below.    *)
THEOREM InvariantHolds == Spec => []IInv
BY InitIsSound, StepsAreSound, PTL DEF Spec

-----------------------------------------------------------------------------
(* A section that is open is open in the running handler.                   *)
LEMMA OpenSectionsAreOfTop ==
    ASSUME IInv
    PROVE  Cardinality(OpenSections) = IF frames = <<>> THEN 0 ELSE SectionsOf(Top)
<1>1. /\ frames \in Seq(Frames) /\ Len(frames) \in Nat /\ DOMAIN frames = 1 .. Len(frames)
      /\ frames = <<>> <=> Len(frames) = 0
  BY EmptySeq, LenProperties DEF IInv, TypeOK
<1>2. CASE frames = <<>>
  <2>1. OpenSections = {}
    BY <1>1, <1>2 DEF OpenSections
  <2>. QED  BY <1>2, <2>1, FS_EmptySet
<1>3. CASE frames # <<>>
  <2>1. PICK n \in Nat \ {0} : n = Len(frames)
    BY <1>1, <1>3
  <2>2. \A i \in 1 .. n - 1 : SectionsOf(frames[i]) = 0
    BY <2>1, FinishedHasNoSection DEF IInv, StackIsFinished
  <2>3. SectionsOf(Top) \in 0 .. 2 /\ frames[n] = Top
    BY <2>1 DEF SectionsOf, Top
  <2>4. OpenSections = {s \in {n} \X (1 .. 2) : s[2] <= SectionsOf(Top)}
    BY <1>1, <2>1, <2>2, <2>3 DEF OpenSections
  <2>5. OpenSections = IF SectionsOf(Top) = 0 THEN {}
                       ELSE IF SectionsOf(Top) = 1 THEN {<<n, 1>>} ELSE {<<n, 1>>, <<n, 2>>}
    BY <2>3, <2>4
  <2>6. Cardinality({<<n, 1>>}) = 1 /\ IsFiniteSet({<<n, 1>>})
    BY FS_Singleton
  <2>7. Cardinality({<<n, 1>>} \cup {<<n, 2>>}) = 1 + 1
    <3>1. <<n, 2>> \notin {<<n, 1>>}
      OBVIOUS
    <3>. QED  BY <2>6, <3>1, FS_AddElement
  <2>8. {<<n, 1>>} \cup {<<n, 2>>} = {<<n, 1>>, <<n, 2>>} /\ Cardinality({}) = 0
    BY FS_EmptySet
  <2>. QED  BY <1>3, <2>3, <2>5, <2>6, <2>7, <2>8
<1>. QED  BY <1>2, <1>3

(* The count is the number of sections that are open in the foreground and  *)
(* in all handlers on the stack, wherever each of them was interrupted.     *)
THEOREM NestingIsBalanced == Spec => []NestingBalanced
<1>1. IInv => NestingBalanced
  BY OpenSectionsAreOfTop DEF IInv, CountIsOfTop, NestingBalanced
<1>. QED  BY <1>1, InvariantHolds, PTL

(* From its cli to its sti no handler runs over the foreground and no       *)
(* interrupt can come.                                                      *)
THEOREM SectionsExclude == Spec => []SectionsAreExclusive
<1>1. IInv => SectionsAreExclusive
  BY DEF IInv, TypeOK, FlagIsKnown, ForegroundIsOpen, SectionsAreExclusive
<1>. QED  BY <1>1, InvariantHolds, PTL

(* What is in service at the PICs is what the handlers on the stack have    *)
(* still to end, so an end-of-interrupt command ends the sender's own.      *)
THEOREM EOIEndsOwn == Spec => []EOIEndsOwnInterrupt
<1>1. ASSUME IInv  PROVE EOIEndsOwnInterrupt
  <2>1. /\ frames \in Seq(Frames) /\ Len(frames) \in Nat /\ DOMAIN frames = 1 .. Len(frames)
        /\ frames # <<>> => Len(frames) \in DOMAIN frames
        /\ \A i \in DOMAIN frames : frames[i] \in Frames
    BY <1>1, EmptySeq, LenProperties, ElementOfSeq DEF IInv, TypeOK
  <2>. DEFINE Unended == {j \in DOMAIN frames :
                              frames[j].at \notin {"Count", "EOISlave", "Return"}}
  <2>2. 0 \in masterInService <=> \E i \in Unended : frames[i].irq = Timer
    <3>1. ASSUME NEW i \in Unended, frames[i].irq = Timer
          PROVE  frames # <<>> /\ Top = Frame(Timer, "EOI")
      <4>1. frames[i] = Frame(Timer, "EOI") /\ frames[i] \notin Finished
        BY <2>1, <3>1 DEF Frames, Frame, Finished, Timer, USB
      <4>2. i = Len(frames)
        BY <1>1, <2>1, <4>1 DEF IInv, StackIsFinished
      <4>. QED  BY <2>1, <4>1, <4>2, EmptySeq DEF Top
    <3>2. ASSUME frames # <<>>, Top = Frame(Timer, "EOI")
          PROVE  \E i \in Unended : frames[i].irq = Timer
      BY <2>1, <3>2 DEF Top, Frame
    <3>. QED  BY <1>1, <3>1, <3>2 DEF IInv, ServiceIsOfStack
  <2>3. 2 \in masterInService <=> \E i \in Unended : frames[i].irq = USB
    <3>1. \A i \in DOMAIN frames : frames[i].irq = USB => frames[i].at # "Count"
      BY <2>1 DEF Frames, FinishedPlaces, Timer, USB
    <3>. QED  BY <1>1, <2>1, <3>1 DEF IInv, ServiceIsOfStack, Owes
  <2>4. \A i \in DOMAIN frames : frames[i].irq \in {Timer, USB}
    BY <2>1 DEF Frames
  <2>5. \A m \in masterInService : m = 0 \/ m = 2
    BY <1>1 DEF IInv, TypeOK
  <2>6. masterInService = {Input(frames[i].irq) : i \in Unended}
    BY <2>2, <2>3, <2>4, <2>5 DEF Input, Timer, USB
  <2>7. slaveInService <=> \E i \in DOMAIN frames : frames[i].irq = USB /\ frames[i].at # "Return"
    BY <1>1, <2>1 DEF IInv, ServiceIsOfStack, Owes
  <2>8. slaveInService = \E i \in DOMAIN frames : frames[i].irq = USB /\ frames[i].at # "Return"
    BY <1>1, <2>7 DEF IInv, TypeOK
  <2>. QED  BY <2>6, <2>8 DEF EOIEndsOwnInterrupt
<1>. QED  BY <1>1, InvariantHolds, PTL

(* Below the running handler there are only USB handlers past their sti.    *)
THEOREM OnlyFinishedAreInterrupted == Spec => []OnlyFinishedHandlersAreInterrupted
<1>1. IInv => OnlyFinishedHandlersAreInterrupted
  BY DEF IInv, StackIsFinished, Finished, FinishedPlaces, OnlyFinishedHandlersAreInterrupted
<1>. QED  BY <1>1, InvariantHolds, PTL
=============================================================================
