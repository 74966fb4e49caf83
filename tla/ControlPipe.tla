---------------------------- MODULE ControlPipe ----------------------------
(***************************************************************************)
(* The USB control pipe between the host loader (hid_bootloader_cli.c) and *)
(* the keyboard controller, and the flash geometry both sides share.       *)
(*                                                                         *)
(* One SetReport control transfer is in flight at a time.  A transfer is   *)
(* a SETUP packet, a data stage of 8-byte OUT packets, and a status stage  *)
(* (a zero-length IN packet queued by the device).  Endpoint 0 of the      *)
(* ATmega32U4 holds one packet: `setup` is a SETUP packet the firmware has *)
(* not acknowledged, `bank` an OUT packet it has not released, `reply` the *)
(* status packet it has queued.  A packet is represented by the request it *)
(* belongs to.  The hardware refuses OUT data while a SETUP packet is      *)
(* unacknowledged, and a new SETUP packet empties the bank.                *)
(***************************************************************************)
EXTENDS Integers

CONSTANTS
    LastPage,        \* highest flash page number
    BootStart,       \* first page of the write-protected bootloader section
    RebootPage,      \* the page the bytes "re" of "reboot" address (0x6572)
    PacketsPerPage,  \* OUT packets of a page request: address and page data
    Data,            \* contents a page of an image can have
    Blank,           \* an erased page, every word 0xFFFF
    Corrupt,         \* a page that is neither erased nor any image's page
    NoRequest        \* "no packet", "no transfer"

ASSUME GeometryAssumption ==
    /\ LastPage \in Nat
    /\ BootStart \in 1..(LastPage + 1)
    /\ RebootPage \in 0..(BootStart - 1)
    /\ PacketsPerPage \in Nat \ {0, 1}

ASSUME ContentAssumption ==
    /\ Blank \notin Data
    /\ Corrupt \notin Data
    /\ Blank # Corrupt

Pages    == 0..LastPage
AppPages == 0..(BootStart - 1)
Content  == Data \cup {Blank, Corrupt}

\* The page address 0xFFFF, COMMAND_STARTAPPLICATION.
StartCommand == LastPage + 1

Requests == [page: 0..StartCommand, data: Content, packets: 1..PacketsPerPage]

ASSUME NoRequestAssumption == NoRequest \notin Requests

\* What teensy_write sends for one block of the image, to start the
\* application, and what hard_reboot sends: six bytes, one packet.
PageRequest(p, d) == [page |-> p, data |-> d, packets |-> PacketsPerPage]
StartRequest  == PageRequest(StartCommand, Corrupt)
RebootRequest == [page |-> RebootPage, data |-> Corrupt, packets |-> 1]

VARIABLES
    bus,     \* which program answers on the bus: "none", "boot" or "app"
    handle,  \* the host's libusb handle: "closed", "open" or "stale"
    setup,   \* the SETUP packet waiting in endpoint 0, or NoRequest
    bank,    \* the OUT packet waiting in endpoint 0, or NoRequest
    reply    \* the device has queued the status stage

pipeVars == <<bus, handle, setup, bank, reply>>

PipeTypeOK ==
    /\ bus \in {"none", "boot", "app"}
    /\ handle \in {"closed", "open", "stale"}
    /\ setup \in Requests \cup {NoRequest}
    /\ bank \in Requests \cup {NoRequest}
    /\ reply \in BOOLEAN

PipeInit ==
    /\ bus = "none"
    /\ handle = "closed"
    /\ setup = NoRequest
    /\ bank = NoRequest
    /\ reply = FALSE

\* The device leaves the bus (detach, reset, power loss): its endpoint is
\* reset, and a handle the host holds is of no use from now on.
Detach ==
    /\ bus' = "none"
    /\ handle' = IF handle = "open" THEN "stale" ELSE handle
    /\ setup' = NoRequest
    /\ bank' = NoRequest
    /\ reply' = FALSE
=============================================================================
