---------------------------- MODULE LaptopProofs ----------------------------
(***************************************************************************)
(* Proofs about the LED daemon of Laptop, for every length of the device's *)
(* event queue: the LEDs follow the locks through keyboards that vanish and *)
(* daemons that are killed.                                                *)
(***************************************************************************)
EXTENDS Laptop, TLAPS

LedEvents == Leds \X {0, 1}

LedTypes ==
  /\ present \in BOOLEAN /\ alive \in BOOLEAN
  /\ lock \in [Leds -> {0, 1}] /\ gpio \in [Leds -> {0, 1}]
  /\ led \in {"open", "exportNum", "exportCaps", "read", "pause"}
  /\ queue \in Seq(LedEvents)
  /\ told \subseteq Leds

\* fd is open on the device only between open and close, and events wait only
\* for an open fd.
FdOpen ==
  /\ led \in {"open", "pause"} => ~alive
  /\ ~alive => queue = <<>>

\* The last event of an LED tells its lock, and is of a lock that changed.
LastEvent ==
  \A i \in 1..Len(queue) :
    /\ queue[i][1] \in told
    /\ (\A j \in i+1..Len(queue) : queue[j][1] # queue[i][1])
         => queue[i][2] = lock[queue[i][1]]

Pending(l)  == \E i \in 1..Len(queue) : queue[i][1] = l
Exported(l) == led = "read" \/ (l = "NUM" /\ led = "exportCaps")

\* An LED without an event in the queue shows its lock, once main reads, or is
\* off from its export on.  Nothing is read before both are exported.
NothingPending ==
  alive => \A l \in Leds : ~Pending(l) =>
    IF l \in told THEN led = "read" /\ gpio[l] = lock[l]
                  ELSE Exported(l) => gpio[l] = 0

LedInv == LedTypes /\ FdOpen /\ LastEvent /\ NothingPending

----------------------------------------------------------------------------
\* An empty queue is a queue of LED events.
LEMMA NoEvents == <<>> \in Seq(LedEvents)
OBVIOUS

\* A lock key adds the new value as the last event of its LED, if fd is open.
LEMMA LedToggle ==
  ASSUME LedInv, NEW l \in Leds, Toggle(l)
  PROVE  LedInv'
<1> DEFINE e == <<l, 1 - lock[l]>>
<1>1. e \in LedEvents /\ e[1] = l /\ e[2] = 1 - lock[l]
  BY DEF LedInv, LedTypes, LedEvents
<1>2. /\ lock' \in [Leds -> {0, 1}] /\ lock'[l] = 1 - lock[l]
      /\ \A m \in Leds : m # l => lock'[m] = lock[m]
      /\ UNCHANGED <<present, gpio, led, alive>>
  BY DEF LedInv, LedTypes, Toggle
<1>3. CASE alive
  <2>1. queue' = Append(queue, e) /\ told' = told \cup {l}
    BY <1>3 DEF Toggle
  <2>2. /\ queue' \in Seq(LedEvents) /\ Len(queue') = Len(queue) + 1
        /\ queue'[Len(queue) + 1] = e
        /\ \A i \in 1..Len(queue) : queue'[i] = queue[i] /\ queue[i] \in LedEvents
        /\ Len(queue) \in Nat
    BY <2>1, <1>1 DEF LedInv, LedTypes
  <2>3. LedTypes' /\ FdOpen'
    BY <1>2, <1>3, <2>1, <2>2 DEF LedInv, LedTypes, FdOpen
  <2>4. LastEvent'
    <3>1. SUFFICES ASSUME NEW i \in 1..Len(queue')
                   PROVE  /\ queue'[i][1] \in told'
                          /\ (\A j \in i+1..Len(queue') : queue'[j][1] # queue'[i][1])
                               => queue'[i][2] = lock'[queue'[i][1]]
      BY DEF LastEvent
    <3>2. CASE i = Len(queue) + 1
      BY <3>2, <2>1, <2>2, <1>1, <1>2
    <3>3. CASE i # Len(queue) + 1
      <4>1. i \in 1..Len(queue)
        BY <3>3, <2>2
      <4>2. queue'[i] = queue[i] /\ queue[i][1] \in Leds
        BY <4>1, <2>2 DEF LedEvents
      <4>3. queue[i][1] \in told
        BY <4>1 DEF LedInv, LastEvent
      <4>4. ASSUME \A j \in i+1..Len(queue') : queue'[j][1] # queue'[i][1]
            PROVE  queue'[i][2] = lock'[queue'[i][1]]
        <5>1. queue[i][1] # l
          <6>1. Len(queue) + 1 \in i+1..Len(queue')
            BY <4>1, <2>2
          <6>2. QED
            BY <6>1, <4>4, <4>2, <2>2, <1>1
        <5>2. \A j \in i+1..Len(queue) : queue[j][1] # queue[i][1]
          <6>1. \A j \in i+1..Len(queue) : j \in i+1..Len(queue') /\ queue'[j] = queue[j]
            BY <4>1, <2>2
          <6>2. QED
            BY <6>1, <4>4, <4>2
        <5>3. queue[i][2] = lock[queue[i][1]]
          BY <5>2, <4>1 DEF LedInv, LastEvent
        <5>4. QED
          BY <5>1, <5>3, <4>2, <1>2
      <4>5. QED
        BY <4>2, <4>3, <4>4, <2>1
    <3>4. QED
      BY <3>2, <3>3
  <2>5. NothingPending'
    <3>1. \A m \in Leds : (m = l => Pending(m)') /\ (Pending(m) => Pending(m)')
      BY <2>2, <1>1 DEF Pending
    <3>2. \A m \in Leds : m # l => (m \in told' <=> m \in told) /\ lock'[m] = lock[m]
      BY <2>1, <1>2
    <3>3. led' = led /\ gpio' = gpio /\ \A m \in Leds : Exported(m)' <=> Exported(m)
      BY <1>2 DEF Exported
    <3>4. QED
      BY <3>1, <3>2, <3>3, <1>3 DEF LedInv, NothingPending
  <2>6. QED
    BY <2>3, <2>4, <2>5 DEF LedInv
<1>4. CASE ~alive
  <2>1. queue = <<>> /\ UNCHANGED <<queue, told>>
    BY <1>4 DEF LedInv, FdOpen, Toggle
  <2>2. QED
    BY <2>1, <1>2, <1>4
       DEF LedInv, LedTypes, FdOpen, LastEvent, NothingPending
<1>5. QED
  BY <1>3, <1>4

\* Reading an event leaves its LED at the lock if it was the LED's last one.
LEMMA LedReadEvent ==
  ASSUME LedInv, ReadEvent
  PROVE  LedInv'
<1> DEFINE e == Head(queue)
<1>1. /\ queue \in Seq(LedEvents) /\ Len(queue) \in Nat /\ Len(queue) > 0
      /\ e = queue[1] /\ e \in LedEvents /\ e[1] \in Leds /\ e[2] \in {0, 1}
  BY DEF LedInv, LedTypes, ReadEvent, LedEvents
<1>2. /\ queue' \in Seq(LedEvents) /\ Len(queue') = Len(queue) - 1
      /\ \A i \in 1..Len(queue') : queue'[i] = queue[i + 1]
  BY <1>1 DEF ReadEvent
<1>3. /\ led = "read" /\ UNCHANGED <<present, lock, led, alive, told>>
      /\ gpio' \in [Leds -> {0, 1}] /\ gpio'[e[1]] = e[2]
      /\ \A m \in Leds : m # e[1] => gpio'[m] = gpio[m]
  BY <1>1 DEF ReadEvent, SetGpio, LedInv, LedTypes
<1>4. LedTypes' /\ FdOpen'
  BY <1>1, <1>2, <1>3 DEF LedInv, LedTypes, FdOpen
<1>5. LastEvent'
  <2>1. SUFFICES ASSUME NEW i \in 1..Len(queue')
                 PROVE  /\ queue'[i][1] \in told
                        /\ (\A j \in i+1..Len(queue') : queue'[j][1] # queue'[i][1])
                             => queue'[i][2] = lock[queue'[i][1]]
    BY <1>3 DEF LastEvent
  <2>2. i + 1 \in 1..Len(queue) /\ queue'[i] = queue[i + 1]
    BY <1>1, <1>2
  <2>3. ASSUME \A j \in i+1..Len(queue') : queue'[j][1] # queue'[i][1]
        PROVE  \A k \in (i+1)+1..Len(queue) : queue[k][1] # queue[i + 1][1]
    <3>1. TAKE k \in (i+1)+1..Len(queue)
    <3>2. k - 1 \in i+1..Len(queue') /\ k - 1 \in 1..Len(queue') /\ (k - 1) + 1 = k
      BY <2>2, <1>1, <1>2
    <3>3. QED
      BY <3>2, <2>3, <2>2, <1>2
  <2>4. QED
    BY <2>2, <2>3 DEF LedInv, LastEvent
<1>6. NothingPending'
  <2>1. SUFFICES ASSUME alive, NEW m \in Leds, ~Pending(m)'
                 PROVE  IF m \in told THEN gpio'[m] = lock[m] ELSE gpio'[m] = 0
    BY <1>3 DEF NothingPending
  <2>2. \A k \in 2..Len(queue) : queue[k][1] # m
    <3>1. TAKE k \in 2..Len(queue)
    <3>2. k - 1 \in 1..Len(queue') /\ (k - 1) + 1 = k
      BY <1>1, <1>2
    <3>3. QED
      BY <3>2, <2>1, <1>2 DEF Pending
  <2>3. CASE e[1] = m
    <3>1. 1 \in 1..Len(queue) /\ \A k \in 1+1..Len(queue) : queue[k][1] # queue[1][1]
      BY <2>2, <2>3, <1>1
    <3>2. m \in told /\ e[2] = lock[m]
      BY <3>1, <2>3, <1>1 DEF LedInv, LastEvent
    <3>3. QED
      BY <3>2, <2>3, <1>3
  <2>4. CASE e[1] # m
    <3>1. ~Pending(m)
      BY <2>2, <2>4, <1>1 DEF Pending
    <3>2. QED
      BY <3>1, <2>1, <2>4, <1>3 DEF LedInv, NothingPending, Exported
  <2>5. QED
    BY <2>3, <2>4
<1>7. QED
  BY <1>4, <1>5, <1>6 DEF LedInv

\* export_gpio drives its LED low; its pending events are still to be read.
LEMMA LedExport ==
  ASSUME LedInv, Export
  PROVE  LedInv'
<1>1. PICK l \in Leds : 
        /\ ExportGpio(l, led')
        /\ \/ led = "exportNum" /\ l = "NUM" /\ led' = "exportCaps"
           \/ led = "exportCaps" /\ l = "CAPS" /\ led' = "read"
  BY DEF Export, ExportGpio, Leds
<1>2. /\ UNCHANGED <<present, lock, alive, queue, told>>
      /\ gpio' \in [Leds -> {0, 1}] /\ gpio'[l] = 0
      /\ \A m \in Leds : m # l => gpio'[m] = gpio[m]
  BY <1>1 DEF ExportGpio, LedInv, LedTypes
<1>3. LedTypes' /\ FdOpen' /\ LastEvent'
  BY <1>1, <1>2 DEF LedInv, LedTypes, FdOpen, LastEvent
<1>4. NothingPending'
  <2>1. \A m \in Leds : Pending(m)' <=> Pending(m)
    BY <1>2 DEF Pending
  <2>2. \A m \in Leds : Exported(m)' => m = l \/ Exported(m)
    BY <1>1 DEF Exported, Leds
  <2>3. led # "read"
    BY <1>1
  <2>4. QED
    BY <2>1, <2>2, <2>3, <1>2 DEF LedInv, NothingPending
<1>5. QED
  BY <1>3, <1>4 DEF LedInv

\* Every step of the LED daemon, its restarts, the user and the keyboard keeps
\* the invariant.
LEMMA LedStepInv ==
  ASSUME LedInv, LedNext
  PROVE  LedInv'
<1>1. CASE \E l \in Leds : Toggle(l)
  BY <1>1, LedToggle
<1>2. CASE Unplug
  <2>1. /\ present' = FALSE /\ alive' = FALSE /\ queue' = <<>>
        /\ UNCHANGED <<lock, gpio, led, told>>
    BY <1>2 DEF Unplug
  <2>2. LastEvent'
    BY <2>1 DEF LastEvent
  <2>3. LedTypes'
    BY <2>1, NoEvents DEF LedInv, LedTypes
  <2>4. QED
    BY <2>1, <2>2, <2>3 DEF LedInv, FdOpen, NothingPending
<1>3. CASE Plug
  <2>1. UNCHANGED <<lock, gpio, led, alive, queue, told>> /\ present' \in BOOLEAN
    BY <1>3 DEF Plug
  <2>2. QED
    BY <2>1 DEF LedInv, LedTypes, FdOpen, LastEvent, NothingPending, Pending, Exported
<1>4. CASE OpenDevice
  <2>1. ~alive /\ queue = <<>> /\ UNCHANGED <<present, lock, gpio, queue>>
    BY <1>4 DEF OpenDevice, LedInv, FdOpen
  <2>2. \/ led' = "exportNum" /\ alive' = TRUE /\ told' = {}
        \/ led' = "pause" /\ UNCHANGED <<alive, told>>
    BY <1>4 DEF OpenDevice
  <2>3. LedTypes' /\ FdOpen'
    <3>1. CASE led' = "exportNum" /\ alive' = TRUE /\ told' = {}
      BY <3>1, <2>1 DEF LedInv, LedTypes, FdOpen
    <3>2. CASE led' = "pause" /\ UNCHANGED <<alive, told>>
      BY <3>2, <2>1 DEF LedInv, LedTypes, FdOpen
    <3>3. QED
      BY <3>1, <3>2, <2>2
  <2>4. LastEvent'
    BY <2>1 DEF LastEvent
  <2>5. NothingPending'
    BY <2>1, <2>2 DEF NothingPending, Exported
  <2>6. QED
    BY <2>3, <2>4, <2>5 DEF LedInv
<1>5. CASE Export
  BY <1>5, LedExport
<1>6. CASE ReadEvent
  BY <1>6, LedReadEvent
<1>7. CASE ReadFails
  BY <1>7 DEF ReadFails, LedInv, LedTypes, FdOpen, LastEvent, NothingPending
<1>8. CASE Rinse
  BY <1>8 DEF Rinse, LedInv, LedTypes, FdOpen, LastEvent, NothingPending
<1>9. CASE LedRestart
  <2>1. /\ led' = "open" /\ alive' = FALSE /\ queue' = <<>>
        /\ UNCHANGED <<present, lock, gpio, told>>
    BY <1>9 DEF LedRestart
  <2>2. LastEvent'
    BY <2>1 DEF LastEvent
  <2>3. LedTypes'
    BY <2>1, NoEvents DEF LedInv, LedTypes
  <2>4. QED
    BY <2>1, <2>2, <2>3 DEF LedInv, FdOpen, NothingPending
<1>10. QED
  BY <1>1, <1>2, <1>3, <1>4, <1>5, <1>6, <1>7, <1>8, <1>9 DEF LedNext, LedStep

\* Whenever the daemon has read all there is, an LED shows its lock if that
\* changed since the device was opened, and is off otherwise: for a queue of
\* any length, through every unplugging, restart and lock pressed in between.
THEOREM LedShowsLockThm == LaptopSpec => []LedShowsLock
<1>1. LaptopInit => LedInv
  <2>1. SUFFICES ASSUME LedInit PROVE LedInv
    BY DEF LaptopInit
  <2>2. LedTypes
    BY <2>1, NoEvents DEF LedInit, LedTypes
  <2>3. LastEvent
    BY <2>1 DEF LedInit, LastEvent
  <2>4. QED
    BY <2>1, <2>2, <2>3 DEF LedInit, LedInv, FdOpen, NothingPending
<1>2. LedInv /\ [LaptopNext]_laptopVars => LedInv'
  <2>1. SUFFICES ASSUME LedInv, [LaptopNext]_laptopVars PROVE LedInv'
    OBVIOUS
  <2>2. CASE LedNext
    BY <2>1, <2>2, LedStepInv
  <2>3. CASE UNCHANGED ledVars
    BY <2>1, <2>3 DEF ledVars, LedInv, LedTypes, FdOpen, LastEvent,
                      NothingPending, Pending, Exported
  <2>4. QED
    BY <2>1, <2>2, <2>3 DEF LaptopNext, laptopVars
<1>3. LedInv => LedShowsLock
  <2>1. SUFFICES ASSUME LedInv, led = "read", alive, queue = <<>>, NEW l \in Leds
                 PROVE  gpio[l] = IF l \in told THEN lock[l] ELSE 0
    BY DEF LedShowsLock
  <2>2. ~Pending(l) /\ Exported(l)
    BY <2>1 DEF Pending, Exported
  <2>3. QED
    BY <2>1, <2>2 DEF LedInv, NothingPending
<1>4. QED
  BY <1>1, <1>2, <1>3, PTL DEF LaptopSpec
=============================================================================
