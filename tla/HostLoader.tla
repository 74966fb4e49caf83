----------------------------- MODULE HostLoader -----------------------------
(***************************************************************************)
(* The host program hid_bootloader_cli: it reads an Intel HEX file, opens  *)
(* the bootloader (asking the running application to reboot, once, if the  *)
(* bootloader is not there), programs the used blocks in ascending order,  *)
(* asks the bootloader to start the application, and exits.  One program   *)
(* runs at a time; it may be run again and again, with any image.          *)
(***************************************************************************)
EXTENDS ControlPipe

CONSTANT Images  \* the HEX files: what ihex_get_data returns, page by page

ASSUME ImagesAssumption == Images \subseteq [Pages -> Data \cup {Blank}]

VARIABLES
    hpc,     \* where the host program is; "idle" when it does not run
    image,   \* the image of the last file read
    hard,    \* hard_reboot_device
    waited,  \* the program has waited for the device
    block,   \* the next block of the programming loop
    xfer,    \* the request of the control transfer in flight, or NoRequest
    sent,    \* OUT packets of that transfer the device has taken
    result   \* exit status of the last run: "none", "ok" or "failed"

hostVars == <<hpc, image, hard, waited, block, xfer, sent, result>>

HostTypeOK ==
    /\ hpc \in {"idle", "open", "rebootor", "rebooting", "program", "write", "start"}
    /\ image \in Images
    /\ hard \in BOOLEAN /\ waited \in BOOLEAN
    /\ block \in 0..(LastPage + 1)
    /\ hpc = "write" => block # LastPage + 1
    /\ xfer \in Requests \cup {NoRequest}
    /\ sent \in 0..PacketsPerPage
    /\ result \in {"none", "ok", "failed"}

HostInit ==
    /\ hpc = "idle"
    /\ image \in Images
    /\ hard = FALSE /\ waited = FALSE
    /\ block = 0
    /\ xfer = NoRequest /\ sent = 0
    /\ result = "none"

\* The blocks of an image the loop does not skip.
Used(img) == {p \in Pages : p = 0 \/ img[p] # Blank}

----------------------------------------------------------------------------
(* Control transfers *)

\* usb_control_msg starts: a SETUP packet, if the device is still there.
Begin(r) ==
    /\ xfer' = r
    /\ sent' = 0
    /\ IF handle = "stale"
         THEN UNCHANGED <<setup, bank, reply>>
         ELSE setup' = r /\ bank' = NoRequest /\ reply' = FALSE

\* The host controller delivers the next OUT packet of the data stage.
SendPacket ==
    /\ xfer # NoRequest /\ handle = "open"
    /\ setup = NoRequest /\ bank = NoRequest
    /\ sent < xfer.packets
    /\ bank' = xfer
    /\ sent' = sent + 1
    /\ UNCHANGED <<hpc, image, hard, waited, block, xfer, result,
                   bus, handle, setup, reply>>

\* The data stage is over and the device has queued the status stage.
Complete ==
    /\ xfer # NoRequest /\ handle = "open"
    /\ reply /\ sent = xfer.packets

EndTransfer == xfer' = NoRequest /\ sent' = 0

\* The process ends; its handle is closed.
Exit(status) ==
    /\ hpc' = "idle"
    /\ result' = status
    /\ hard' = FALSE /\ waited' = FALSE /\ block' = 0
    /\ EndTransfer
    /\ handle' = "closed"
    /\ UNCHANGED <<image, bus, setup, bank, reply>>

----------------------------------------------------------------------------
(* The main program *)

\* main: parse_options, read_intel_hex.
StartLoader ==
    /\ hpc = "idle"
    /\ image' \in Images
    /\ hard' = TRUE /\ waited' = FALSE
    /\ hpc' = "open"
    /\ result' = "none"
    /\ UNCHANGED <<block, xfer, sent, pipeVars>>

\* teensy_open succeeds.  A program that had to wait reads the file again.
OpenDevice ==
    /\ hpc = "open" /\ bus = "boot"
    /\ handle' = "open"
    /\ IF waited THEN image' \in Images ELSE UNCHANGED image
    /\ block' = 0
    /\ hpc' = "program"
    /\ UNCHANGED <<hard, waited, xfer, sent, result, bus, setup, bank, reply>>

\* teensy_open fails: the first time hard_reboot is tried, later a delay.
OpenFails ==
    /\ hpc = "open" /\ bus # "boot"
    /\ IF hard THEN hpc' = "rebootor" /\ UNCHANGED waited
               ELSE waited' = TRUE /\ UNCHANGED hpc
    /\ UNCHANGED <<image, hard, block, xfer, sent, result, pipeVars>>

\* hard_reboot opens the application or, failing that, the bootloader.
HardReboot ==
    /\ hpc = "rebootor" /\ bus # "none"
    /\ handle' = "open"
    /\ xfer' = RebootRequest /\ sent' = 0
    /\ setup' = RebootRequest /\ bank' = NoRequest /\ reply' = FALSE
    /\ hpc' = "rebooting"
    /\ UNCHANGED <<image, hard, waited, block, result, bus>>

NoRebootor ==
    /\ hpc = "rebootor" /\ bus = "none"
    /\ Exit("failed")

HardRebootDone ==
    /\ hpc = "rebooting" /\ Complete
    /\ hard' = FALSE /\ waited' = TRUE
    /\ handle' = "closed"
    /\ EndTransfer
    /\ hpc' = "open"
    /\ UNCHANGED <<image, block, result, bus, setup, bank, reply>>

\* One turn of the programming loop.
SkipBlock ==
    /\ hpc = "program" /\ block \in Pages \ Used(image)
    /\ block' = block + 1
    /\ UNCHANGED <<hpc, image, hard, waited, xfer, sent, result, pipeVars>>

WriteFirstBlockData ==  \* mutant: the buffer is filled once, before the loop
    /\ hpc = "program" /\ block \in Used(image)
    /\ Begin(PageRequest(block, image[0]))
    /\ hpc' = "write"
    /\ UNCHANGED <<image, hard, waited, block, result, bus, handle>>

WriteBlock ==
    /\ hpc = "program" /\ block \in Used(image)
    /\ Begin(PageRequest(block, image[block]))
    /\ hpc' = "write"
    /\ UNCHANGED <<image, hard, waited, block, result, bus, handle>>

WriteSucceeds ==
    /\ hpc = "write" /\ Complete
    /\ block' = block + 1
    /\ EndTransfer
    /\ hpc' = "program"
    /\ UNCHANGED <<image, hard, waited, result, pipeVars>>

FailureIgnored ==  \* mutant: the loop goes on after a failed write
    /\ hpc = "write"
    /\ block' = block + 1
    /\ EndTransfer
    /\ hpc' = "program"
    /\ UNCHANGED <<image, hard, waited, result, pipeVars>>

\* A transfer of hard_reboot or of the loop fails: die.
TransferFails ==
    /\ hpc \in {"rebooting", "write"}
    /\ Exit("failed")

\* reboot_after_programming; option -n leaves it out.
StartApplication ==
    /\ hpc = "program" /\ block = LastPage + 1
    /\ Begin(StartRequest)
    /\ hpc' = "start"
    /\ UNCHANGED <<image, hard, waited, block, result, bus, handle>>

ExitWithoutStart ==
    /\ hpc = "program" /\ block = LastPage + 1
    /\ Exit("ok")

\* The result of the last transfer is ignored.
StartSucceeds ==
    /\ hpc = "start" /\ Complete
    /\ Exit("ok")

StartFails ==
    /\ hpc = "start"
    /\ Exit("ok")

\* The process is killed, or the second reading of the file fails.
Killed ==
    /\ hpc # "idle"
    /\ Exit("failed")

HostProgram ==
    \/ OpenDevice \/ OpenFails \/ HardReboot \/ NoRebootor \/ HardRebootDone
    \/ SkipBlock \/ WriteBlock \/ WriteSucceeds
    \/ StartApplication \/ ExitWithoutStart \/ StartSucceeds
=============================================================================
