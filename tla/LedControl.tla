----------------------------- MODULE LedControl -----------------------------
(***************************************************************************)
(* teres1-ledctrl: copies the lock LEDs of the keyboard's input device to  *)
(* two GPIOs.  The device disappears when the keyboard controller resets   *)
(* (see Bootloader), and the daemon opens it again.                        *)
(***************************************************************************)
EXTENDS Integers, Sequences

CONSTANT MaxEvents           \* LED events that wait in the device's queue

Leds == {"NUM", "CAPS"}

VARIABLES
  present,     \* the keyboard's input device exists
  lock,        \* Num and Caps lock
  gpio,        \* level of the LED's pin
  led,         \* where main is: open, exportNum, exportCaps, read, pause
  alive,       \* fd is open on the device that is present
  queue,       \* LED events between the device and fd
  told         \* locks that changed since fd was opened (history)

ledVars == <<present, lock, gpio, led, alive, queue, told>>

LedInit ==
  /\ present \in BOOLEAN /\ lock \in [Leds -> {0, 1}] /\ gpio \in [Leds -> {0, 1}]
  /\ led = "open" /\ alive = FALSE /\ queue = <<>> /\ told = {}

\* A lock key; an open reader gets an EV_LED event.
Toggle(l) ==
  /\ present /\ Len(queue) < MaxEvents
  /\ lock' = [lock EXCEPT ![l] = 1 - @]
  /\ IF alive THEN queue' = Append(queue, <<l, 1 - lock[l]>>) /\ told' = told \cup {l}
     ELSE UNCHANGED <<queue, told>>
  /\ UNCHANGED <<present, gpio, led, alive>>

\* The device goes, and what fd had not read with it.
Unplug ==
  /\ present
  /\ present' = FALSE /\ alive' = FALSE /\ queue' = <<>>
  /\ UNCHANGED <<lock, gpio, led, told>>
Plug == ~present /\ present' = TRUE /\ UNCHANGED <<lock, gpio, led, alive, queue, told>>

OpenDevice ==
  /\ led = "open"
  /\ IF present THEN led' = "exportNum" /\ alive' = TRUE /\ told' = {}
     ELSE led' = "pause" /\ UNCHANGED <<alive, told>>
  /\ UNCHANGED <<present, lock, gpio, queue>>

ExportKeepsLevel(l, next) ==  \* mutant: the pin is not driven low
  /\ led' = next
  /\ UNCHANGED <<present, lock, gpio, alive, queue, told>>
\* export_gpio: writing "out" also drives the pin low.
ExportGpio(l, next) ==
  /\ gpio' = [gpio EXCEPT ![l] = 0]
  /\ led' = next
  /\ UNCHANGED <<present, lock, alive, queue, told>>

Export == \/ led = "exportNum" /\ ExportGpio("NUM", "exportCaps")
          \/ led = "exportCaps" /\ ExportGpio("CAPS", "read")

SetGpio(l, value) == gpio' = [gpio EXCEPT ![l] = value]

\* An EV_LED event; others change nothing.
ReadEvent ==
  /\ led = "read" /\ queue # <<>>
  /\ SetGpio(Head(queue)[1], Head(queue)[2])
  /\ queue' = Tail(queue)
  /\ UNCHANGED <<present, lock, led, alive, told>>

ReadFails ==
  /\ led = "read" /\ ~alive
  /\ led' = "pause"
  /\ UNCHANGED <<present, lock, gpio, alive, queue, told>>

\* close and usleep.
Rinse ==
  /\ led = "pause"
  /\ led' = "open"
  /\ UNCHANGED <<present, lock, gpio, alive, queue, told>>

\* Killed and started again by systemd: fd is closed by the kernel.
LedRestart ==
  /\ led # "open"
  /\ led' = "open" /\ alive' = FALSE /\ queue' = <<>>
  /\ UNCHANGED <<present, lock, gpio, told>>

LedStep == OpenDevice \/ Export \/ ReadEvent \/ ReadFails \/ Rinse
=============================================================================
