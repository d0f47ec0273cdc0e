---------------------------- MODULE Input_proofs ----------------------------
(* Theorems about module Input, for every keyboard, every size of the ring, *)
(* and any number of reports.                                               *)
EXTENDS Input, SequenceTheorems, FiniteSetTheorems, TLAPS

-----------------------------------------------------------------------------
(* The inductive invariant.                                                 *)
Events == [TickCount : 1 .. MaxTick, ScanCode : Keys]

TypeOK ==
    /\ TickCount \in 1 .. MaxTick
    /\ KeysDown \in SUBSET Keys
    /\ gInputCapsLock \in BOOLEAN
    /\ PressedQueue \in [Slots -> Events \cup {EmptySlot}]
    /\ PressedIndex \in Slots
    /\ reader \in [at : {"Scan", "Copy", "Failed", "Sleep", "Slept"}, Index : Nat,
                   Smallest : 1 .. Infinity, Found : SUBSET Slots, arrived : Nat]
    /\ LastTickCount \in 0 .. MaxTick
    /\ pushed \in SUBSET Events /\ overwritten \in SUBSET Events
    /\ delivered \in Seq(Events)

(* An event the reader could still take is in the ring, or was overwritten. *)
RingHoldsEvents ==
    /\ \A s \in Slots : PressedQueue[s] = EmptySlot \/ PressedQueue[s] \in pushed
    /\ \A e \in pushed :
          /\ e.TickCount <= TickCount
          /\ \/ e.TickCount <= LastTickCount
             \/ e \in overwritten
             \/ \E s \in Slots : PressedQueue[s] = e

Reading == reader.at \in {"Scan", "Copy"}

(* What the scan has found is an event of the tick it remembers, unless the *)
(* slot has been overwritten, and then an event of that tick was.           *)
FoundIsKnown ==
    Reading =>
        /\ reader.at = "Scan" => reader.Index \in Slots
        /\ reader.at = "Copy" => reader.Index = RingSize /\ reader.Found # {}
        /\ reader.Found = {} => reader.Smallest = Infinity
        /\ \A s \in reader.Found :
              /\ LastTickCount < reader.Smallest /\ reader.Smallest <= MaxTick
              /\ \E e \in pushed : e.TickCount = reader.Smallest
              /\ PressedQueue[s] \in pushed
              /\ \/ PressedQueue[s].TickCount = reader.Smallest
                 \/ \E e \in overwritten : e.TickCount = reader.Smallest

DeliveredIsConsumed ==
    overwritten = {} => \A i \in DOMAIN delivered : delivered[i].TickCount <= LastTickCount

IInv ==
    /\ TypeOK
    /\ RingHoldsEvents
    /\ FoundIsKnown
    /\ DeliveredIsConsumed
    /\ DeliveredOnceInOrder

(* In a scan, an event the reader could take is not older than the oldest   *)
(* found so far, or in a slot still ahead, or overwritten; or it came with  *)
(* the report that interrupted the scan, and then no event is younger.      *)
SeenOrAhead ==
    Reading => \A e \in pushed : e.TickCount > LastTickCount =>
        \/ reader.Smallest <= e.TickCount
        \/ \E s \in Slots : s >= reader.Index /\ PressedQueue[s] = e
        \/ e \in overwritten
        \/ reader.arrived > 0 /\ \A f \in pushed : f.TickCount <= e.TickCount

(* The tick the reader is at is one of which an event was delivered or      *)
(* overwritten: a later report of that tick is skipped for a reason.        *)
LastIsKnown ==
    /\ LastTickCount <= TickCount
    /\ LastTickCount > 0 =>
           \E f \in Range(delivered) \cup overwritten : f.TickCount = LastTickCount

ScanInv == SeenOrAhead /\ LastIsKnown /\ SkippedOnlyWithinATick

-----------------------------------------------------------------------------
(* The slots of a report's events *)

LEMMA RemainderBelowTwice ==
    ASSUME NEW r \in Nat \ {0}, NEW x \in Nat, x < r + r
    PROVE  x % r = IF x < r THEN x ELSE x - r
OBVIOUS

LEMMA PlacesAreDistinct ==
    ASSUME NEW keys \in SUBSET Keys
    PROVE  /\ Cardinality(keys) \in Nat /\ Cardinality(keys) < RingSize
           /\ \A key \in keys : Cardinality({k \in keys : k < key}) \in 0 .. Cardinality(keys) - 1
           /\ \A key, later \in keys : key < later =>
                  Cardinality({k \in keys : k < key}) < Cardinality({k \in keys : k < later})
<1>1. /\ IsFiniteSet(keys) /\ Cardinality(keys) <= Cardinality(Keys)
      /\ Cardinality(Keys) \in Nat /\ RingSize \in Nat /\ RingSize > Cardinality(Keys)
      /\ Cardinality(keys) \in Nat /\ \A key \in keys : key \in Nat
  BY KeysAssumption, RingSizeAssumption, FS_Subset, FS_CardinalityType
<1>2. ASSUME NEW S \in SUBSET keys, NEW T \in SUBSET keys, S \subseteq T, S # T
      PROVE  Cardinality(S) \in Nat /\ Cardinality(T) \in Nat /\ Cardinality(S) < Cardinality(T)
  <2>1. IsFiniteSet(T) /\ IsFiniteSet(S)
    BY <1>1, FS_Subset
  <2>2. Cardinality(S) <= Cardinality(T) /\ (Cardinality(S) = Cardinality(T) => S = T)
    BY <1>2, <2>1, FS_Subset
  <2>3. Cardinality(S) \in Nat /\ Cardinality(T) \in Nat
    BY <2>1, FS_CardinalityType
  <2>. QED  BY <1>2, <2>2, <2>3
<1>. DEFINE before(key) == {k \in keys : k < key}
<1>3. ASSUME NEW key \in keys
      PROVE  Cardinality(before(key)) \in 0 .. Cardinality(keys) - 1
  <2>1. before(key) \in SUBSET keys /\ before(key) # keys
    BY <1>1
  <2>2. /\ Cardinality(before(key)) \in Nat
        /\ Cardinality(before(key)) < Cardinality(keys)
    BY <1>2, <2>1
  <2>. QED  BY <1>1, <2>2
<1>4. ASSUME NEW key \in keys, NEW later \in keys, key < later
      PROVE  Cardinality(before(key)) < Cardinality(before(later))
  <2>1. /\ before(key) \in SUBSET keys /\ before(later) \in SUBSET keys
        /\ before(key) \subseteq before(later) /\ before(key) # before(later)
    BY <1>1, <1>4
  <2>. QED  BY <1>2, <2>1
<1>. QED  BY <1>1, <1>3, <1>4

(* No event of a report overwrites another of it.                           *)
LEMMA SlotsAreDistinct ==
    ASSUME PressedIndex \in Slots, NEW keys \in SUBSET Keys
    PROVE  /\ \A key \in keys : SlotOf(key, keys) \in Slots
           /\ \A j, k \in keys : SlotOf(j, keys) = SlotOf(k, keys) => j = k
           /\ (PressedIndex + Cardinality(keys)) % RingSize \in Slots
<1>. DEFINE before(key) == Cardinality({k \in keys : k < key})
<1>1. PICK n \in Nat : n = Cardinality(keys) /\ n < RingSize
  BY PlacesAreDistinct
<1>2. /\ \A key \in keys : before(key) \in 0 .. n - 1
      /\ \A key, later \in keys : key < later => before(key) < before(later)
  BY <1>1, PlacesAreDistinct
<1>. HIDE DEF before
<1>3. PICK place \in [keys -> 0 .. n - 1] : \A key \in keys : place[key] = before(key)
  <2>1. [key \in keys |-> before(key)] \in [keys -> 0 .. n - 1]
    BY <1>2
  <2>. QED  BY <2>1
<1>4. /\ RingSize \in Nat \ {0} /\ PressedIndex \in Nat /\ PressedIndex < RingSize
      /\ \A key \in keys : key \in Nat
  BY RingSizeAssumption, KeysAssumption DEF Slots
<1>5. \A j, k \in keys : place[j] = place[k] => j = k
  BY <1>2, <1>3, <1>4
<1>6. ASSUME NEW i \in 0 .. n
      PROVE  /\ (PressedIndex + i) % RingSize \in Slots
             /\ (PressedIndex + i) % RingSize =
                    IF PressedIndex + i < RingSize THEN PressedIndex + i
                                                   ELSE PressedIndex + i - RingSize
  <2>1. PICK x \in Nat : x = PressedIndex + i /\ x < RingSize + RingSize
    BY <1>1, <1>4
  <2>2. x % RingSize = IF x < RingSize THEN x ELSE x - RingSize
    BY <1>4, <2>1, RemainderBelowTwice
  <2>. QED  BY <1>4, <2>1, <2>2 DEF Slots
<1>7. \A i, j \in 0 .. n : (PressedIndex + i) % RingSize = (PressedIndex + j) % RingSize => i = j
  <2>. TAKE i, j \in 0 .. n
  <2>1. i < RingSize /\ j < RingSize
    BY <1>1, <1>4
  <2>. QED  BY <1>4, <1>6, <2>1
<1>8. \A key \in keys : place[key] \in 0 .. n /\ SlotOf(key, keys) = (PressedIndex + place[key]) % RingSize
  BY <1>1, <1>3 DEF SlotOf, before
<1>9. n \in 0 .. n
  BY <1>1
<1>. QED  BY <1>1, <1>5, <1>6, <1>7, <1>8, <1>9

-----------------------------------------------------------------------------
(* What a report does to the ring *)

EventsOf(report) == {Event(TickCount, key) : key \in NewlyDown(report)}

LEMMA WhatIsPushed ==
    ASSUME TypeOK, NEW report \in SUBSET Keys, PushKeyboardEvent(report)
    PROVE  /\ pushed' = pushed \cup EventsOf(report)
           /\ EventsOf(report) \in SUBSET Events
           /\ \A e \in EventsOf(report) : e.TickCount = TickCount
           /\ PressedQueue' \in [Slots -> Events \cup {EmptySlot}]
           /\ \A e \in EventsOf(report) : \E s \in Slots : PressedQueue'[s] = e
           /\ \A s \in Slots :
                 \/ PressedQueue'[s] = PressedQueue[s]
                 \/ /\ PressedQueue'[s] \in EventsOf(report)
                    /\ PressedQueue[s].TickCount > LastTickCount =>
                           PressedQueue[s] \in overwritten'
           /\ overwritten \subseteq overwritten' /\ overwritten' \in SUBSET Events
           /\ PressedIndex' \in Slots /\ KeysDown' \in SUBSET Keys /\ gInputCapsLock' \in BOOLEAN
<1>. DEFINE keys == NewlyDown(report)
            slots == {SlotOf(key, keys) : key \in keys}
            EventIn(s) == Event(TickCount, CHOOSE key \in keys : SlotOf(key, keys) = s)
<1>1. keys \in SUBSET Keys /\ KeysDown' \in SUBSET Keys /\ gInputCapsLock' \in BOOLEAN
  BY Zenon DEF TypeOK, NewlyDown, PushKeyboardEvent
<1>2. /\ \A key \in keys : SlotOf(key, keys) \in Slots
      /\ \A j, k \in keys : SlotOf(j, keys) = SlotOf(k, keys) => j = k
      /\ (PressedIndex + Cardinality(keys)) % RingSize \in Slots
  BY <1>1, SlotsAreDistinct DEF TypeOK
<1>3. /\ PressedQueue' = [s \in Slots |-> IF s \in slots THEN EventIn(s) ELSE PressedQueue[s]]
      /\ PressedIndex' = (PressedIndex + Cardinality(keys)) % RingSize
      /\ overwritten' = overwritten \cup
             {e \in {PressedQueue[s] : s \in slots} : e.TickCount > LastTickCount}
      /\ pushed' = pushed \cup {Event(TickCount, key) : key \in keys}
  BY DEF PushKeyboardEvent
<1>. HIDE DEF keys
<1>4. \A key \in keys : EventIn(SlotOf(key, keys)) = Event(TickCount, key)
  BY <1>2
<1>5. \A key \in keys : Event(TickCount, key) \in Events /\ Event(TickCount, key).TickCount = TickCount
  BY <1>1 DEF TypeOK, Event, Events
<1>6. EventsOf(report) = {Event(TickCount, key) : key \in keys}
  BY DEF EventsOf, keys
<1>. HIDE DEF EventIn
<1>7. \A s \in slots : EventIn(s) \in EventsOf(report) /\ s \in Slots
  BY <1>2, <1>4, <1>6
<1>8. /\ EventsOf(report) \in SUBSET Events
      /\ \A e \in EventsOf(report) : e.TickCount = TickCount
  BY <1>5, <1>6
<1>9. PressedQueue' \in [Slots -> Events \cup {EmptySlot}]
  BY <1>3, <1>7, <1>8 DEF TypeOK
<1>10. \A e \in EventsOf(report) : \E s \in Slots : PressedQueue'[s] = e
  BY <1>2, <1>3, <1>4, <1>6
<1>11. ASSUME NEW s \in Slots
       PROVE  \/ PressedQueue'[s] = PressedQueue[s]
              \/ /\ PressedQueue'[s] \in EventsOf(report)
                 /\ PressedQueue[s].TickCount > LastTickCount =>
                        PressedQueue[s] \in overwritten'
  BY <1>3, <1>7
<1>12. overwritten \subseteq overwritten' /\ overwritten' \in SUBSET Events
  <2>1. ASSUME NEW s \in slots, PressedQueue[s].TickCount > LastTickCount
        PROVE  PressedQueue[s] \in Events
    BY <1>7, <2>1 DEF TypeOK, EmptySlot, Event
  <2>. QED  BY <1>3, <2>1 DEF TypeOK
<1>. QED  BY <1>1, <1>2, <1>3, <1>6, <1>8, <1>9, <1>10, <1>11, <1>12

-----------------------------------------------------------------------------
(* The inductive invariant holds at the start, and every step keeps it.     *)
LEMMA InitIsSound == Init => IInv /\ ScanInv
<1>. SUFFICES ASSUME Init PROVE IInv /\ ScanInv
  OBVIOUS
<1>1. /\ MaxTick \in Nat \ {0} /\ RingSize \in Nat \ {0} /\ 0 \in Slots
      /\ reader.at = "Scan" /\ reader.Index = 0 /\ reader.Smallest = Infinity /\ reader.Found = {}
  BY BoundsAssumption, RingSizeAssumption, KeysAssumption, FS_CardinalityType
     DEF Init, StartScan, Slots
<1>2. TypeOK
  <2>1. reader \in [at : {"Scan", "Copy", "Failed", "Sleep", "Slept"}, Index : Nat,
                    Smallest : 1 .. Infinity, Found : SUBSET Slots, arrived : Nat]
    BY <1>1 DEF Init, StartScan, Infinity
  <2>2. PressedQueue \in [Slots -> Events \cup {EmptySlot}]
    BY DEF Init
  <2>3. delivered \in Seq(Events)
    BY EmptySeq DEF Init
  <2>4. TickCount \in 1 .. MaxTick /\ LastTickCount \in 0 .. MaxTick /\ PressedIndex \in Slots
    BY <1>1 DEF Init
  <2>5. KeysDown \in SUBSET Keys /\ gInputCapsLock \in BOOLEAN /\ pushed \in SUBSET Events /\ overwritten \in SUBSET Events
    BY DEF Init
  <2>. QED  BY <2>1, <2>2, <2>3, <2>4, <2>5 DEF TypeOK
<1>3. RingHoldsEvents /\ FoundIsKnown /\ SeenOrAhead /\ LastIsKnown /\ SkippedOnlyWithinATick
  BY <1>1 DEF Init, RingHoldsEvents, FoundIsKnown, SeenOrAhead, LastIsKnown,
              SkippedOnlyWithinATick
<1>4. DeliveredIsConsumed /\ DeliveredOnceInOrder
  BY EmptySeq DEF Init, DeliveredIsConsumed, DeliveredOnceInOrder
<1>. QED  BY <1>2, <1>3, <1>4 DEF IInv, ScanInv

LEMMA PushIsSound ==
    ASSUME IInv, InputPushKeyboardEvent
    PROVE  IInv'
<1>1. PICK report \in SUBSET Keys : PushKeyboardEvent(report)
  BY DEF InputPushKeyboardEvent
<1>2. /\ pushed' = pushed \cup EventsOf(report)
      /\ EventsOf(report) \in SUBSET Events
      /\ \A e \in EventsOf(report) : e.TickCount = TickCount
      /\ PressedQueue' \in [Slots -> Events \cup {EmptySlot}]
      /\ \A e \in EventsOf(report) : \E s \in Slots : PressedQueue'[s] = e
      /\ \A s \in Slots :
            \/ PressedQueue'[s] = PressedQueue[s]
            \/ /\ PressedQueue'[s] \in EventsOf(report)
               /\ PressedQueue[s].TickCount > LastTickCount =>
                      PressedQueue[s] \in overwritten'
      /\ overwritten \subseteq overwritten' /\ overwritten' \in SUBSET Events
      /\ PressedIndex' \in Slots /\ KeysDown' \in SUBSET Keys /\ gInputCapsLock' \in BOOLEAN
  BY <1>1, WhatIsPushed DEF IInv
<1>3. /\ UNCHANGED <<TickCount, LastTickCount, delivered>>
      /\ \E n \in Nat : reader' = [reader EXCEPT !.arrived = n]
  <2>1. PICK n \in Nat : n = IF reader.at \in Polling THEN reader.arrived + 1 ELSE 0
    BY DEF IInv, TypeOK
  <2>2. reader' = [reader EXCEPT !.arrived = n]
    BY <2>1 DEF InputPushKeyboardEvent
  <2>. QED  BY <2>2 DEF InputPushKeyboardEvent
<1>4. TypeOK'
  BY <1>2, <1>3 DEF IInv, TypeOK
<1>5. /\ TickCount \in Nat /\ LastTickCount \in Nat
      /\ \A e \in Events \cup {EmptySlot} : e.TickCount \in Nat
      /\ \A s \in Slots : PressedQueue[s] \in Events \cup {EmptySlot}
  BY DEF IInv, TypeOK, Events, EmptySlot, Event
<1>6. RingHoldsEvents'
  <2>1. \A s \in Slots : PressedQueue'[s] = EmptySlot \/ PressedQueue'[s] \in pushed'
    BY <1>2 DEF IInv, RingHoldsEvents
  <2>2. \A e \in EventsOf(report) : e.TickCount <= TickCount
    BY <1>2, <1>5
  <2>3. ASSUME NEW e \in pushed, e.TickCount > LastTickCount, e \notin overwritten'
        PROVE  \E s \in Slots : PressedQueue'[s] = e
    <3>1. PICK s \in Slots : PressedQueue[s] = e
      BY <1>2, <1>5, <2>3 DEF IInv, RingHoldsEvents, TypeOK
    <3>2. PressedQueue'[s] = e
      BY <1>2, <2>3, <3>1
    <3>. QED  BY <3>2
  <2>4. \A e \in pushed : e.TickCount <= TickCount /\ e.TickCount \in Nat
    BY <1>5 DEF IInv, RingHoldsEvents, TypeOK
  <2>. QED  BY <1>2, <1>3, <1>5, <2>1, <2>2, <2>3, <2>4 DEF RingHoldsEvents
<1>7. FoundIsKnown'
  <2>1. /\ reader'.at = reader.at /\ reader'.Index = reader.Index
        /\ reader'.Smallest = reader.Smallest /\ reader'.Found = reader.Found
    BY <1>3 DEF IInv, TypeOK
  <2>2. ASSUME Reading, NEW s \in reader.Found
        PROVE  /\ PressedQueue'[s] \in pushed'
               /\ \/ PressedQueue'[s].TickCount = reader.Smallest
                  \/ \E e \in overwritten' : e.TickCount = reader.Smallest
    <3>1. s \in Slots /\ LastTickCount < reader.Smallest /\ PressedQueue[s] \in pushed
      BY <2>2 DEF IInv, FoundIsKnown, TypeOK
    <3>2. CASE PressedQueue'[s] = PressedQueue[s]
      BY <1>2, <2>2, <3>1, <3>2 DEF IInv, FoundIsKnown
    <3>3. CASE PressedQueue'[s] \in EventsOf(report) /\ PressedQueue[s] \in overwritten'
      BY <1>2, <2>2, <3>1, <3>3 DEF IInv, FoundIsKnown
    <3>4. CASE PressedQueue'[s] \in EventsOf(report) /\ ~(PressedQueue[s].TickCount > LastTickCount)
      BY <1>2, <2>2, <3>1, <3>4 DEF IInv, FoundIsKnown
    <3>. QED  BY <1>2, <3>1, <3>2, <3>3, <3>4
  <2>. QED  BY <1>2, <1>3, <2>1, <2>2 DEF IInv, FoundIsKnown, Reading
<1>8. overwritten' = {} => overwritten = {}
  BY <1>2
<1>9. DeliveredIsConsumed' /\ DeliveredOnceInOrder'
  BY <1>3, <1>8 DEF IInv, DeliveredIsConsumed, DeliveredOnceInOrder
<1>. QED  BY <1>4, <1>6, <1>7, <1>9 DEF IInv

LEMMA TickIsSound ==
    ASSUME IInv, Tick
    PROVE  IInv'
<1>1. /\ UNCHANGED <<KeysDown, gInputCapsLock, PressedQueue, PressedIndex, pushed,
                     overwritten, LastTickCount, delivered>>
      /\ TickCount' \in 1 .. MaxTick /\ TickCount' >= TickCount
      /\ \/ reader' = reader
         \/ ~Reading /\ reader' = [reader EXCEPT !.at = "Slept"]
  BY BoundsAssumption DEF Tick, queueVars, IInv, TypeOK, Reading
<1>2. TypeOK'
  BY <1>1 DEF IInv, TypeOK
<1>3. RingHoldsEvents'
  <2>1. \A e \in pushed : e.TickCount \in Nat /\ TickCount \in Nat
    BY DEF IInv, TypeOK, Events
  <2>. QED  BY <1>1, <2>1 DEF IInv, RingHoldsEvents
<1>4. FoundIsKnown'
  <2>1. reader' = reader \/ reader'.at = "Slept"
    BY <1>1 DEF IInv, TypeOK
  <2>. QED  BY <1>1, <2>1 DEF IInv, FoundIsKnown, Reading
<1>5. DeliveredIsConsumed' /\ DeliveredOnceInOrder'
  BY <1>1 DEF IInv, DeliveredIsConsumed, DeliveredOnceInOrder
<1>. QED  BY <1>2, <1>3, <1>4, <1>5 DEF IInv

(* What one turn of the scan leaves in the reader.                          *)
LEMMA WhatIsScanned ==
    ASSUME IInv, ScanSlot
    PROVE  LET event == PressedQueue[reader.Index]
           IN  /\ reader.at = "Scan" /\ reader.Index \in Slots
               /\ reader'.Index = reader.Index + 1 /\ reader'.arrived = reader.arrived
               /\ reader' \in [at : {"Scan", "Copy", "Failed"}, Index : Nat,
                               Smallest : 1 .. Infinity, Found : SUBSET Slots, arrived : Nat]
               /\ reader'.at = "Scan" <=> reader.Index # RingSize - 1
               /\ reader'.at = "Copy" => reader'.Found # {}
               /\ IF Better(event)
                  THEN reader'.Smallest = event.TickCount /\ reader'.Found = {reader.Index}
                  ELSE reader'.Smallest = reader.Smallest /\ reader'.Found = reader.Found
<1>. DEFINE event == PressedQueue[reader.Index]
<1>1. /\ reader.at = "Scan" /\ reader.Index \in Slots
      /\ reader \in [at : {"Scan", "Copy", "Failed", "Sleep", "Slept"}, Index : Nat,
                     Smallest : 1 .. Infinity, Found : SUBSET Slots, arrived : Nat]
  BY DEF ScanSlot, IInv, FoundIsKnown, TypeOK, Reading
<1>2. PICK found \in SUBSET Slots : found = IF Better(event) THEN {reader.Index} ELSE reader.Found
  BY <1>1
<1>3. PICK smallest \in 1 .. Infinity :
          smallest = IF Better(event) THEN event.TickCount ELSE reader.Smallest
  <2>1. CASE Better(event)
    <3>1. event \in Events /\ MaxTick \in Nat
      BY <1>1, <2>1, BoundsAssumption DEF IInv, TypeOK, Better, Eligible, EmptySlot, Event
    <3>. QED  BY <2>1, <3>1 DEF Events, Infinity
  <2>2. CASE ~Better(event)
    BY <1>1, <2>2
  <2>. QED  BY <2>1, <2>2
<1>4. PICK next : next = [reader EXCEPT !.Index = @ + 1, !.Smallest = smallest, !.Found = found]
  OBVIOUS
<1>5. /\ next \in [at : {"Scan"}, Index : Nat, Smallest : 1 .. Infinity, Found : SUBSET Slots,
                   arrived : Nat]
      /\ next.Index = reader.Index + 1 /\ next.Smallest = smallest /\ next.Found = found
      /\ next.arrived = reader.arrived
  <2>1. PICK n \in Nat : n = reader.Index + 1
    BY <1>1
  <2>2. next = [reader EXCEPT !.Index = n, !.Smallest = smallest, !.Found = found]
    BY <1>4, <2>1, Zenon
  <2>. QED  BY <1>1, <2>1, <2>2
<1>6. reader' = IF ~IsLastSlot(reader.Index) THEN next
                ELSE IF found # {} THEN [next EXCEPT !.at = "Copy"]
                ELSE [next EXCEPT !.at = "Failed"]
  <2>. DEFINE n == [reader EXCEPT
                       !.Index = @ + 1,
                       !.Smallest = IF Better(event) THEN event.TickCount ELSE @,
                       !.Found = IF Better(event) THEN {reader.Index} ELSE reader.Found]
  <2>1. reader' = IF ~IsLastSlot(reader.Index) THEN n
                  ELSE IF (IF Better(event) THEN {reader.Index} ELSE reader.Found) # {}
                  THEN [n EXCEPT !.at = "Copy"]
                  ELSE [n EXCEPT !.at = "Failed"]
    BY Zenon DEF ScanSlot
  <2>2. n = next
    BY <1>2, <1>3, <1>4, Zenon
  <2>. HIDE DEF n
  <2>. QED  BY <1>2, <2>1, <2>2
<1>7. /\ reader'.Index = reader.Index + 1 /\ reader'.arrived = reader.arrived
      /\ reader'.Smallest = smallest /\ reader'.Found = found
      /\ reader' \in [at : {"Scan", "Copy", "Failed"}, Index : Nat,
                      Smallest : 1 .. Infinity, Found : SUBSET Slots, arrived : Nat]
      /\ reader'.at = IF ~IsLastSlot(reader.Index) THEN "Scan"
                      ELSE IF found # {} THEN "Copy" ELSE "Failed"
  BY <1>5, <1>6
<1>. QED  BY <1>1, <1>2, <1>3, <1>7 DEF IsLastSlot

LEMMA ScanIsSound ==
    ASSUME IInv, ScanSlot
    PROVE  IInv'
<1>. DEFINE event == PressedQueue[reader.Index]
<1>1. /\ UNCHANGED <<TickCount, KeysDown, gInputCapsLock, PressedQueue, PressedIndex, pushed,
                     overwritten, LastTickCount, delivered>>
  BY DEF ScanSlot, queueVars
<1>2. /\ reader.at = "Scan" /\ reader.Index \in Slots
      /\ reader'.Index = reader.Index + 1
      /\ reader' \in [at : {"Scan", "Copy", "Failed"}, Index : Nat,
                      Smallest : 1 .. Infinity, Found : SUBSET Slots, arrived : Nat]
      /\ reader'.at = "Scan" <=> reader.Index # RingSize - 1
      /\ reader'.at = "Copy" => reader'.Found # {}
      /\ IF Better(event)
         THEN reader'.Smallest = event.TickCount /\ reader'.Found = {reader.Index}
         ELSE reader'.Smallest = reader.Smallest /\ reader'.Found = reader.Found
  BY WhatIsScanned
<1>3. TypeOK'
  BY <1>1, <1>2 DEF IInv, TypeOK
<1>4. RingHoldsEvents' /\ DeliveredIsConsumed' /\ DeliveredOnceInOrder'
  BY <1>1 DEF IInv, RingHoldsEvents, DeliveredIsConsumed, DeliveredOnceInOrder
<1>5. ASSUME Reading'  PROVE FoundIsKnown'
  <2>1. /\ reader'.at = "Scan" => reader'.Index \in Slots
        /\ reader'.at = "Copy" => reader'.Index = RingSize /\ reader'.Found # {}
    BY <1>2, RingSizeAssumption DEF Slots
  <2>2. CASE Better(event)
    <3>1. event \in Events /\ event \in pushed /\ LastTickCount < event.TickCount
      BY <1>2, <2>2 DEF IInv, TypeOK, RingHoldsEvents, Better, Eligible, EmptySlot, Event, Events
    <3>2. event.TickCount \in 1 .. MaxTick
      BY <3>1 DEF Events
    <3>. QED  BY <1>1, <1>2, <2>1, <2>2, <3>1, <3>2, BoundsAssumption DEF FoundIsKnown, Reading
  <2>3. CASE ~Better(event)
    BY <1>1, <1>2, <2>1, <2>3 DEF IInv, FoundIsKnown, Reading
  <2>. QED  BY <2>2, <2>3
<1>6. FoundIsKnown'
  BY <1>5 DEF FoundIsKnown
<1>. QED  BY <1>3, <1>4, <1>6 DEF IInv

(* What is copied: with nothing overwritten, the event that was found.      *)
LEMMA WhatIsCopied ==
    ASSUME IInv, CopyEvent
    PROVE  /\ UNCHANGED <<TickCount, KeysDown, gInputCapsLock, PressedQueue, PressedIndex, pushed,
                     overwritten>>
           /\ reader' = StartScan
           /\ reader.at = "Copy" /\ reader.Index = RingSize
           /\ LastTickCount' = reader.Smallest
           /\ LastTickCount < reader.Smallest /\ reader.Smallest \in 1 .. MaxTick
           /\ \E e \in pushed : e.TickCount = reader.Smallest
           /\ \E event \in pushed :
                 /\ delivered' = Append(delivered, event)
                 /\ \/ event.TickCount = reader.Smallest
                    \/ \E e \in overwritten : e.TickCount = reader.Smallest
<1>1. /\ UNCHANGED <<TickCount, KeysDown, gInputCapsLock, PressedQueue, PressedIndex, pushed,
                     overwritten>>
      /\ reader' = StartScan /\ reader.at = "Copy" /\ LastTickCount' = reader.Smallest
  BY DEF CopyEvent, CopiedTick, queueVars
<1>2. PICK s \in reader.Found : delivered' = Append(delivered, PressedQueue[s])
  BY DEF CopyEvent
<1>3. /\ reader.Index = RingSize
      /\ LastTickCount < reader.Smallest /\ reader.Smallest <= MaxTick
      /\ \E e \in pushed : e.TickCount = reader.Smallest
      /\ PressedQueue[s] \in pushed
      /\ \/ PressedQueue[s].TickCount = reader.Smallest
         \/ \E e \in overwritten : e.TickCount = reader.Smallest
  BY <1>1, <1>2 DEF IInv, FoundIsKnown, Reading
<1>4. reader.Smallest \in 1 .. MaxTick
  BY <1>3, BoundsAssumption DEF IInv, TypeOK, Infinity
<1>. QED  BY <1>1, <1>2, <1>3, <1>4

LEMMA ScanStarts ==
    ASSUME TypeOK
    PROVE  /\ StartScan \in [at : {"Scan", "Copy", "Failed", "Sleep", "Slept"}, Index : Nat,
                             Smallest : 1 .. Infinity, Found : SUBSET Slots, arrived : Nat]
           /\ StartScan.at = "Scan" /\ StartScan.Index = 0 /\ 0 \in Slots /\ StartScan.arrived = 0
           /\ StartScan.Found = {} /\ StartScan.Smallest = Infinity
<1>1. MaxTick \in Nat \ {0} /\ Infinity \in 1 .. Infinity
  BY BoundsAssumption DEF Infinity
<1>2. 0 \in Slots
  BY RingSizeAssumption, KeysAssumption, FS_CardinalityType DEF Slots
<1>. QED  BY <1>1, <1>2 DEF StartScan

LEMMA CopyIsSound ==
    ASSUME IInv, CopyEvent
    PROVE  IInv'
<1>1. /\ UNCHANGED <<TickCount, KeysDown, gInputCapsLock, PressedQueue, PressedIndex, pushed,
                     overwritten>>
      /\ reader' = StartScan
      /\ LastTickCount' = reader.Smallest
      /\ LastTickCount < reader.Smallest /\ reader.Smallest \in 1 .. MaxTick
  BY WhatIsCopied
<1>2. PICK event \in pushed :
          /\ delivered' = Append(delivered, event)
          /\ event.TickCount = reader.Smallest \/ overwritten # {}
  BY WhatIsCopied
<1>3. /\ delivered \in Seq(Events) /\ event \in Events /\ pushed \in SUBSET Events
      /\ LastTickCount \in Nat /\ TickCount \in Nat
  BY DEF IInv, TypeOK
<1>4. /\ delivered' \in Seq(Events) /\ Len(delivered) \in Nat
      /\ DOMAIN delivered = 1 .. Len(delivered) /\ DOMAIN delivered' = 1 .. Len(delivered) + 1
      /\ delivered'[Len(delivered) + 1] = event
      /\ \A i \in 1 .. Len(delivered) : delivered'[i] = delivered[i] /\ delivered[i] \in Events
  BY <1>2, <1>3, LenProperties, ElementOfSeq
<1>5. TypeOK'
  BY <1>1, <1>4, ScanStarts DEF IInv, TypeOK
<1>6. RingHoldsEvents'
  <2>1. \A e \in pushed : e.TickCount \in Nat
    BY <1>3 DEF Events
  <2>. QED  BY <1>1, <1>3, <2>1 DEF IInv, RingHoldsEvents
<1>7. FoundIsKnown'
  BY <1>1, ScanStarts DEF IInv, FoundIsKnown, Reading
<1>8. ASSUME overwritten = {}
      PROVE  /\ \A i \in 1 .. Len(delivered) : delivered[i].TickCount <= LastTickCount
             /\ \A i \in 1 .. Len(delivered) : delivered[i].TickCount \in Nat
             /\ event.TickCount = reader.Smallest
  <2>1. \A i \in 1 .. Len(delivered) : delivered[i].TickCount <= LastTickCount
    BY <1>4, <1>8 DEF IInv, DeliveredIsConsumed
  <2>2. \A e \in Events : e.TickCount \in Nat
    BY DEF Events
  <2>. QED  BY <1>2, <1>4, <1>8, <2>1, <2>2
<1>9. DeliveredIsConsumed'
  BY <1>1, <1>3, <1>4, <1>8 DEF DeliveredIsConsumed
<1>10. DeliveredOnceInOrder'
  BY <1>1, <1>3, <1>4, <1>8 DEF IInv, DeliveredOnceInOrder
<1>. QED  BY <1>5, <1>6, <1>7, <1>9, <1>10 DEF IInv

(* The reader begins a scan, or sleeps before it does.                      *)
LEMMA PauseIsSound ==
    ASSUME IInv, SleepMS \/ PollAgain
    PROVE  IInv'
<1>1. /\ UNCHANGED <<TickCount, KeysDown, gInputCapsLock, PressedQueue, PressedIndex, pushed,
                     overwritten, LastTickCount, delivered>>
      /\ reader' = StartScan \/ reader' = [StartScan EXCEPT !.at = "Sleep"]
  BY DEF SleepMS, PollAgain, queueVars
<1>2. /\ reader' \in [at : {"Scan", "Copy", "Failed", "Sleep", "Slept"}, Index : Nat,
                      Smallest : 1 .. Infinity, Found : SUBSET Slots, arrived : Nat]
      /\ reader' = StartScan \/ reader'.at = "Sleep"
  BY <1>1, ScanStarts DEF IInv
<1>3. TypeOK'
  BY <1>1, <1>2 DEF IInv, TypeOK
<1>4. FoundIsKnown'
  BY <1>1, <1>2, ScanStarts DEF IInv, FoundIsKnown, Reading
<1>5. RingHoldsEvents' /\ DeliveredIsConsumed' /\ DeliveredOnceInOrder'
  BY <1>1 DEF IInv, RingHoldsEvents, DeliveredIsConsumed, DeliveredOnceInOrder
<1>. QED  BY <1>3, <1>4, <1>5 DEF IInv

LEMMA StepsAreSound == IInv /\ [Next]_vars => IInv'
<1>1. SUFFICES ASSUME IInv, [Next]_vars  PROVE IInv'
  OBVIOUS
<1>2. CASE UNCHANGED vars
  BY <1>1, <1>2 DEF vars, queueVars, readerVars, IInv, TypeOK, RingHoldsEvents, FoundIsKnown,
                    Reading, DeliveredIsConsumed, DeliveredOnceInOrder
<1>. QED  BY <1>1, <1>2, TickIsSound, PushIsSound, ScanIsSound, CopyIsSound, PauseIsSound DEF Next

(* In every state that can be reached, every event the reader could still   *)
(* take is in the ring or was overwritten there, and so is the event that   *)
(* the reader has found and is about to copy.                               *)
THEOREM InvariantHolds == Spec => []IInv
BY InitIsSound, StepsAreSound, PTL DEF Spec

(* As long as the ring overwrites nothing the reader could take, it gets    *)
(* its events in the order of their ticks and none twice, wherever reports  *)
(* interrupt its scans.                                                     *)
THEOREM DeliveryIsInOrder == Spec => []DeliveredOnceInOrder
<1>1. IInv => DeliveredOnceInOrder
  BY DEF IInv
<1>. QED  BY <1>1, InvariantHolds, PTL

-----------------------------------------------------------------------------
(* No event is passed over, when one report at most interrupts a scan.      *)

(* The numbers the invariant compares.                                      *)
LEMMA TicksAreNumbers ==
    ASSUME TypeOK
    PROVE  /\ TickCount \in Nat /\ LastTickCount \in Nat
           /\ reader.Smallest \in Nat /\ reader.Index \in Nat /\ reader.arrived \in Nat
           /\ \A e \in Events \cup {EmptySlot} : e.TickCount \in Nat
           /\ \A e \in pushed \cup overwritten : e \in Events
           /\ \A s \in Slots : PressedQueue[s] \in Events \cup {EmptySlot}
<1>1. MaxTick \in Nat
  BY BoundsAssumption
<1>. QED  BY <1>1 DEF TypeOK, Events, EmptySlot, Event

LEMMA PushSkipsNothing ==
    ASSUME IInv, ScanInv, ReportsPerPoll = 1, InputPushKeyboardEvent
    PROVE  ScanInv'
<1>1. PICK report \in SUBSET Keys : PushKeyboardEvent(report)
  BY DEF InputPushKeyboardEvent
<1>2. /\ pushed' = pushed \cup EventsOf(report)
      /\ \A e \in EventsOf(report) : e.TickCount = TickCount
      /\ \A s \in Slots :
            \/ PressedQueue'[s] = PressedQueue[s]
            \/ PressedQueue[s].TickCount > LastTickCount => PressedQueue[s] \in overwritten'
      /\ overwritten \subseteq overwritten'
  BY <1>1, WhatIsPushed DEF IInv
<1>3. UNCHANGED <<TickCount, LastTickCount, delivered>>
  BY DEF InputPushKeyboardEvent
<1>4. /\ \A e \in pushed : e.TickCount \in Nat /\ e.TickCount <= TickCount
      /\ TickCount \in Nat /\ LastTickCount \in Nat /\ reader.arrived \in Nat
  BY TicksAreNumbers DEF IInv, RingHoldsEvents
<1>5. /\ reader'.at = reader.at /\ reader'.Index = reader.Index
      /\ reader'.Smallest = reader.Smallest
      /\ Reading => reader.arrived = 0 /\ reader'.arrived = 1
  <2>1. reader' = [reader EXCEPT !.arrived = IF reader.at \in Polling THEN @ + 1 ELSE 0]
    BY DEF InputPushKeyboardEvent
  <2>2. Reading => reader.at \in Polling /\ reader.arrived < 1
    BY DEF InputPushKeyboardEvent, Reading, Polling
  <2>. QED  BY <1>4, <2>1, <2>2 DEF IInv, TypeOK
<1>6. ASSUME Reading, NEW e \in pushed', e.TickCount > LastTickCount
      PROVE  \/ reader'.Smallest <= e.TickCount
             \/ \E s \in Slots : s >= reader'.Index /\ PressedQueue'[s] = e
             \/ e \in overwritten'
             \/ reader'.arrived > 0 /\ \A f \in pushed' : f.TickCount <= e.TickCount
  <2>1. CASE e \in EventsOf(report)
    BY <1>2, <1>4, <1>5, <1>6, <2>1
  <2>2. CASE e \in pushed
    <3>1. \/ reader.Smallest <= e.TickCount
          \/ \E s \in Slots : s >= reader.Index /\ PressedQueue[s] = e
          \/ e \in overwritten
      BY <1>4, <1>5, <1>6, <2>2 DEF ScanInv, SeenOrAhead
    <3>2. ASSUME NEW s \in Slots, s >= reader.Index, PressedQueue[s] = e, e \notin overwritten'
          PROVE  PressedQueue'[s] = e
      BY <1>2, <1>6, <3>2
    <3>. QED  BY <1>2, <1>5, <3>1, <3>2
  <2>. QED  BY <1>2, <1>6, <2>1, <2>2
<1>7. SeenOrAhead'
  BY <1>3, <1>5, <1>6 DEF SeenOrAhead, Reading
<1>8. LastIsKnown'
  BY <1>2, <1>3 DEF ScanInv, LastIsKnown
<1>9. ASSUME NEW e \in pushed', e.TickCount <= LastTickCount
      PROVE  \E f \in Range(delivered) \cup overwritten' : f.TickCount = e.TickCount
  <2>1. CASE e \in pushed
    BY <1>2, <1>9, <2>1 DEF ScanInv, SkippedOnlyWithinATick
  <2>2. CASE e \in EventsOf(report)
    <3>1. e.TickCount = LastTickCount /\ LastTickCount > 0
      BY <1>2, <1>4, <1>9, <2>2 DEF ScanInv, LastIsKnown, IInv, TypeOK
    <3>. QED  BY <1>2, <3>1 DEF ScanInv, LastIsKnown
  <2>. QED  BY <1>2, <1>9, <2>1, <2>2
<1>10. SkippedOnlyWithinATick'
  BY <1>3, <1>9 DEF SkippedOnlyWithinATick
<1>. QED  BY <1>7, <1>8, <1>10 DEF ScanInv

LEMMA ScanSkipsNothing ==
    ASSUME IInv, ScanInv, ScanSlot
    PROVE  ScanInv'
<1>. DEFINE event == PressedQueue[reader.Index]
<1>1. UNCHANGED <<TickCount, PressedQueue, pushed, overwritten, LastTickCount, delivered>>
  BY DEF ScanSlot, queueVars
<1>2. /\ reader.at = "Scan" /\ reader.Index \in Slots
      /\ reader'.Index = reader.Index + 1 /\ reader'.arrived = reader.arrived
      /\ IF Better(event) THEN reader'.Smallest = event.TickCount
                          ELSE reader'.Smallest = reader.Smallest
  BY WhatIsScanned
<1>3. /\ reader.Smallest \in Nat /\ reader.Index \in Nat /\ LastTickCount \in Nat
      /\ \A e \in pushed : e.TickCount \in Nat /\ e.ScanCode # None
      /\ \A s \in Slots : s \in Nat /\ PressedQueue[s].TickCount \in Nat
  BY TicksAreNumbers, KeysAssumption DEF IInv, Events, None, Slots
<1>4. reader'.Smallest \in Nat /\ reader'.Smallest <= reader.Smallest
  BY <1>2, <1>3 DEF Better
<1>5. ASSUME NEW e \in pushed, e.TickCount > LastTickCount
      PROVE  \/ reader'.Smallest <= e.TickCount
             \/ \E s \in Slots : s >= reader'.Index /\ PressedQueue[s] = e
             \/ e \in overwritten
             \/ reader'.arrived > 0 /\ \A f \in pushed : f.TickCount <= e.TickCount
  <2>1. \/ reader.Smallest <= e.TickCount
        \/ \E s \in Slots : s >= reader.Index /\ PressedQueue[s] = e
        \/ e \in overwritten
        \/ reader'.arrived > 0 /\ \A f \in pushed : f.TickCount <= e.TickCount
    BY <1>2, <1>5 DEF ScanInv, SeenOrAhead, Reading
  <2>2. CASE reader.Smallest <= e.TickCount
    BY <1>3, <1>4, <2>2
  <2>3. CASE event = e
    <3>1. Eligible(event)
      BY <1>3, <1>5, <2>3 DEF Eligible
    <3>2. reader'.Smallest <= e.TickCount
      BY <1>2, <1>3, <2>3, <3>1 DEF Better
    <3>. QED  BY <3>2
  <2>4. ASSUME NEW s \in Slots, s >= reader.Index, PressedQueue[s] = e, event # e
        PROVE  s >= reader'.Index
    BY <1>2, <1>3, <2>4
  <2>. QED  BY <2>1, <2>2, <2>3, <2>4
<1>6. SeenOrAhead'
  BY <1>1, <1>5 DEF SeenOrAhead
<1>. QED  BY <1>1, <1>6 DEF ScanInv, LastIsKnown, SkippedOnlyWithinATick

LEMMA CopySkipsNothing ==
    ASSUME IInv, ScanInv, CopyEvent
    PROVE  ScanInv'
<1>1. /\ UNCHANGED <<TickCount, PressedQueue, pushed, overwritten>>
      /\ reader' = StartScan /\ LastTickCount' = reader.Smallest
      /\ reader.at = "Copy" /\ reader.Index = RingSize /\ LastTickCount < reader.Smallest
  BY WhatIsCopied
<1>2. PICK newest \in pushed : newest.TickCount = reader.Smallest
  BY WhatIsCopied
<1>3. PICK event \in pushed :
          /\ delivered' = Append(delivered, event)
          /\ \/ event.TickCount = reader.Smallest
             \/ \E e \in overwritten : e.TickCount = reader.Smallest
  BY WhatIsCopied
<1>4. /\ reader.Smallest \in Nat /\ LastTickCount \in Nat /\ TickCount \in Nat
      /\ \A e \in pushed : e.TickCount \in Nat /\ e.TickCount <= TickCount
      /\ RingSize \in Nat /\ \A s \in Slots : ~(s >= RingSize)
  BY TicksAreNumbers, RingSizeAssumption DEF IInv, RingHoldsEvents, Slots
<1>5. Range(delivered') = Range(delivered) \cup {event}
  <2>1. delivered \in Seq(Events) /\ event \in Events
    BY <1>3 DEF IInv, TypeOK
  <2>. QED  BY <1>3, <2>1, LenProperties, AppendProperties DEF Range
<1>6. \E f \in Range(delivered') \cup overwritten : f.TickCount = reader.Smallest
  BY <1>3, <1>5
<1>7. LastIsKnown'
  BY <1>1, <1>2, <1>4, <1>6 DEF LastIsKnown
<1>8. ASSUME NEW e \in pushed, e.TickCount <= reader.Smallest
      PROVE  \E f \in Range(delivered') \cup overwritten : f.TickCount = e.TickCount
  <2>1. CASE e.TickCount = reader.Smallest
    BY <1>6, <2>1
  <2>2. CASE e.TickCount <= LastTickCount
    BY <1>5, <2>2 DEF ScanInv, SkippedOnlyWithinATick
  <2>3. CASE LastTickCount < e.TickCount /\ e.TickCount < reader.Smallest
    <3>1. e \in overwritten
      BY <1>1, <1>2, <1>4, <2>3 DEF ScanInv, SeenOrAhead, Reading
    <3>. QED  BY <3>1
  <2>. QED  BY <1>4, <1>8, <2>1, <2>2, <2>3
<1>9. SkippedOnlyWithinATick'
  BY <1>1, <1>8 DEF SkippedOnlyWithinATick
<1>10. SeenOrAhead'
  <2>1. ASSUME NEW e \in pushed, e.TickCount > reader.Smallest, e \notin overwritten
        PROVE  \E s \in Slots : s >= 0 /\ PressedQueue[s] = e
    BY <1>1, <1>4, <2>1 DEF IInv, RingHoldsEvents, Slots
  <2>. QED  BY <1>1, <2>1, ScanStarts DEF IInv, SeenOrAhead
<1>. QED  BY <1>7, <1>9, <1>10 DEF ScanInv

LEMMA PauseSkipsNothing ==
    ASSUME IInv, ScanInv, Tick \/ SleepMS \/ PollAgain
    PROVE  ScanInv'
<1>1. /\ UNCHANGED <<PressedQueue, pushed, overwritten, LastTickCount, delivered>>
      /\ TickCount' >= TickCount /\ TickCount' \in Nat
      /\ \/ reader' = reader
         \/ reader' = StartScan
         \/ reader'.at \in {"Sleep", "Slept"}
  <2>1. CASE Tick
    <3>1. /\ reader' = reader \/ reader' = [reader EXCEPT !.at = "Slept"]
          /\ UNCHANGED <<PressedQueue, pushed, overwritten, LastTickCount, delivered>>
      BY <2>1 DEF Tick, queueVars
    <3>2. TickCount' >= TickCount /\ TickCount' \in Nat
      BY <2>1, TicksAreNumbers DEF Tick, IInv
    <3>. QED  BY <3>1, <3>2 DEF IInv, TypeOK
  <2>2. CASE SleepMS \/ PollAgain
    <3>1. /\ UNCHANGED <<TickCount, PressedQueue, pushed, overwritten, LastTickCount, delivered>>
          /\ reader' = StartScan \/ reader' = [StartScan EXCEPT !.at = "Sleep"]
      BY <2>2 DEF SleepMS, PollAgain, queueVars
    <3>2. reader' = StartScan \/ reader'.at = "Sleep"
      BY <3>1, ScanStarts DEF IInv
    <3>. QED  BY <3>1, <3>2, TicksAreNumbers DEF IInv
  <2>. QED  BY <2>1, <2>2
<1>2. LastIsKnown' /\ SkippedOnlyWithinATick'
  BY <1>1, TicksAreNumbers DEF IInv, ScanInv, LastIsKnown, SkippedOnlyWithinATick
<1>3. SeenOrAhead'
  <2>1. CASE reader' = reader
    BY <1>1, <2>1 DEF ScanInv, SeenOrAhead, Reading
  <2>2. CASE reader'.at \in {"Sleep", "Slept"}
    BY <2>2 DEF SeenOrAhead, Reading
  <2>3. CASE reader' = StartScan
    <3>1. ASSUME NEW e \in pushed, e.TickCount > LastTickCount, e \notin overwritten
          PROVE  \E s \in Slots : s >= 0 /\ PressedQueue[s] = e
      BY <3>1, TicksAreNumbers DEF IInv, RingHoldsEvents, Slots
    <3>. QED  BY <1>1, <2>3, <3>1, ScanStarts DEF IInv, SeenOrAhead
  <2>. QED  BY <1>1, <2>1, <2>2, <2>3
<1>. QED  BY <1>2, <1>3 DEF ScanInv

LEMMA StepsSkipNothing ==
    ASSUME ReportsPerPoll = 1
    PROVE  IInv /\ ScanInv /\ [Next]_vars => ScanInv'
<1>1. SUFFICES ASSUME IInv, ScanInv, [Next]_vars  PROVE ScanInv'
  OBVIOUS
<1>2. CASE UNCHANGED vars
  BY <1>1, <1>2 DEF vars, queueVars, readerVars, ScanInv, SeenOrAhead, LastIsKnown,
                    SkippedOnlyWithinATick, Reading
<1>. QED  BY <1>1, <1>2, PushSkipsNothing, ScanSkipsNothing, CopySkipsNothing,
             PauseSkipsNothing DEF Next

(* When at most one report interrupts a scan of the ring, the reader passes *)
(* no tick of which it neither took an event nor had one overwritten. (A    *)
(* scan that two reports of different ticks interrupt may see the second    *)
(* and not the first: the property is then false.)                          *)
THEOREM OnlyATickIsSkipped ==
    ASSUME ReportsPerPoll = 1
    PROVE  Spec => []SkippedOnlyWithinATick
<1>1. IInv /\ ScanInv /\ [Next]_vars => ScanInv'
  BY StepsSkipNothing
<1>2. ScanInv => SkippedOnlyWithinATick
  BY DEF ScanInv
<1>. QED  BY <1>1, <1>2, InitIsSound, InvariantHolds, PTL DEF Spec
=============================================================================
