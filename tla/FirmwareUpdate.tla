--------------------------- MODULE FirmwareUpdate ---------------------------
(***************************************************************************)
(* The firmware-update system: the controller (Bootloader) and the host    *)
(* program (HostLoader) joined by the control pipe, and what is claimed of *)
(* the whole.                                                              *)
(***************************************************************************)
EXTENDS Bootloader, HostLoader

vars == <<devVars, pipeVars, hostVars>>

Init ==
    /\ DeviceInit(Images \cup {[p \in Pages |-> Blank]})
    /\ PipeInit
    /\ HostInit

\* The handler busy-waits for an OUT packet that no transfer will send.
Wedged ==
    /\ pc \in {"address", "fill"} /\ bank = NoRequest
    /\ xfer # NoRequest => setup # NoRequest \/ sent = xfer.packets

NeverTimesOut == handle # "open"  \* mutant: transfers without a timeout

\* usb_control_msg gives up: the device is gone, or does not take the data
\* before the timeout.  Without the fault "abort" the timeout is long enough
\* for a device that is still serving the transfer.
MayFail == handle # "open" \/ Wedged \/ "abort" \in Faults

HostFails ==
    \/ MayFail /\ (TransferFails \/ StartFails)
    \/ "abort" \in Faults /\ Killed

HostNext == StartLoader \/ HostProgram \/ SendPacket \/ HostFails

Next ==
    \/ DeviceNext /\ UNCHANGED hostVars
    \/ HostNext /\ UNCHANGED devVars

Spec == Init /\ [][Next]_vars

(***************************************************************************)
(* Fairness: the controller executes its program, its timer and watchdog   *)
(* run, the host program and the host controller are scheduled.  Nobody    *)
(* has to switch the device on, to press keys, or to run the loader.  The  *)
(* watchdog leaves the application at least 15 ms, its first statement     *)
(* disarms it: strong fairness of AppStart.                                *)
(***************************************************************************)
Device(A) == A /\ UNCHANGED hostVars
Host(A)   == A /\ UNCHANGED devVars

Fairness ==
    /\ WF_vars(Device(Application_Jump_Check))
    /\ WF_vars(Device(MainProgram))
    /\ WF_vars(Device(Handler))
    /\ WF_vars(Device(Timer0Overflow))
    /\ WF_vars(Device(WatchdogReset))
    /\ WF_vars(Device(Application))
    /\ SF_vars(Device(AppStart))
    /\ WF_vars(Host(HostProgram \/ HostFails))
    /\ WF_vars(Host(SendPacket))

FairSpec == Spec /\ Fairness

----------------------------------------------------------------------------
(* Safety *)

\* Every variable keeps its type, the handler's locals are in use only while
\* it serves a page, and the bootloader has a location exactly when it runs.
TypeOK ==
    /\ PipeTypeOK /\ DeviceTypeOK /\ HostTypeOK
    /\ pc = "idle" <=> cpu # "boot"

\* When the loader has exited with success, every block it did not skip is
\* in the application flash as the file has it (main, lines 156-187), through
\* timeouts of the bootloader, power failures, aborted earlier runs and a
\* hard reboot that hit the bootloader.  It needs the SPM instructions to
\* take effect (see SpmDropped).
SuccessMeansFlashed ==
    "spm" \notin Faults /\ result = "ok" =>
      \A p \in Used(image) \cap AppPages : flash[p] = image[p]

\* The application never runs while MagicBootKey is set: a reset it causes
\* (Jump_To_Bootloader) must stop in the bootloader, not bounce back.
KeyConsumed ==
    cpu \in {"appinit", "app", "appexit"} => key = "other"

\* The application is only entered with its first page programmed, and no
\* page is written while it runs (Application_Jump_Check, line 72).
NeverRunsBlank ==
    cpu \in {"appinit", "app", "appexit"} => flash[0] # Blank

\* An erase or write is only ever abandoned half-way by a power failure: not
\* by the timer interrupt clearing RunBootloader, a host that gives up, or a
\* later transfer (the loop of main, line 102, tests the flag between requests).
Torn(p) ==
    flash[p] = Corrupt /\ ~(pc \in {"erasing", "writing"} /\ page = p)
OnlyPowerTears ==
    [][\A p \in AppPages :
         "spm" \notin Faults /\ Torn(p)' => Torn(p) \/ cpu' = "off"]_vars

\* A page only ever holds what some file has for that very page: no request
\* is served under another one's address.
PageProvenance ==
    "spm" \notin Faults =>
      \A p \in AppPages :
        flash[p] \in {img[p] : img \in Images} \cup {Blank, Corrupt}

----------------------------------------------------------------------------
(* The inductive invariant behind SuccessMeansFlashed *)

Serving == {"address", "finish"} \cup PageSteps

\* The device holds no request at all, or none that names a page.
Quiet == setup = NoRequest /\ bank = NoRequest /\ pc \notin Serving
NoPageRequest ==
    /\ setup \in {NoRequest, StartRequest}
    /\ bank \in {NoRequest, StartRequest}
    /\ pc \notin PageSteps

\* Who is on the bus, and whom the host's handle belongs to.
BusInv ==
    /\ bus = "boot" => pc \notin {"idle", "setup", "halt"}
    /\ handle = "open" /\ hpc # "rebooting" => bus = "boot"
    /\ handle = "stale" => Quiet

\* What the loader's location says of its handle and its transfer.
LoaderInv ==
    /\ hpc \in {"idle", "open", "rebootor"} => handle = "closed"
    /\ hpc \in {"rebooting", "program", "write", "start"} => handle # "closed"
    /\ hpc \in {"idle", "open", "rebootor", "program"} => xfer = NoRequest
    /\ hpc = "rebooting" => xfer = RebootRequest
    /\ hpc = "start" => xfer = StartRequest /\ block = LastPage + 1
    /\ hpc = "write" => /\ block \in Used(image)
                       /\ xfer = PageRequest(block, image[block])
    /\ result = "ok" => hpc = "idle"

\* Between two page writes, and after the last, no page request is left in
\* the device: a page that has been acknowledged stays as it is.
QuietInv ==
    /\ (hpc = "program" /\ block > 0) => Quiet
    /\ (hpc = "start" \/ result = "ok") => NoPageRequest

BlockHolds(c) == block \in AppPages => flash[block] = c

\* The stages of a page write the loader waits for: the device has not seen
\* it, waits for its address, erases, fills, programs, acknowledges.
Unseen ==
    /\ setup = xfer /\ bank = NoRequest /\ ~reply /\ sent = 0
    /\ block > 0 => pc \notin Serving
Addressed ==
    /\ pc = "address" /\ ~reply
    /\ \/ sent = 0 /\ bank = NoRequest
       \/ sent = 1 /\ bank = xfer
Erasing ==
    /\ pc \in {"erase", "erasing"} /\ ~reply
    /\ page = block /\ buf = NoData /\ filled = 0
    /\ sent = 1 /\ bank = xfer
Filling ==
    /\ pc = "fill" /\ ~reply
    /\ page = block /\ BlockHolds(Blank)
    /\ filled < PacketsPerPage
    /\ buf = IF filled = 0 THEN NoData ELSE image[block]
    /\ \/ sent = filled /\ bank = NoRequest
       \/ sent = filled + 1 /\ bank = xfer
Programming ==
    /\ pc \in {"write", "writing", "finish"} /\ ~reply
    /\ page = block /\ bank = xfer /\ sent = PacketsPerPage
    /\ pc = "write" => buf = image[block] /\ BlockHolds(Blank)
    /\ pc = "writing" => (block \in AppPages => buf = image[block])
    /\ pc = "finish" => BlockHolds(image[block])
Acknowledged ==
    /\ reply /\ bank = NoRequest /\ sent = PacketsPerPage
    /\ pc \notin Serving
    /\ BlockHolds(image[block])

WriteInv ==
    hpc = "write" /\ handle = "open" =>
      \/ Unseen
      \/ /\ setup = NoRequest
         /\ Addressed \/ Erasing \/ Filling \/ Programming \/ Acknowledged

\* The blocks behind the loop counter are in the flash.
PrefixInv ==
    hpc \in {"program", "write", "start"} =>
      \A p \in Used(image) \cap AppPages : p < block => flash[p] = image[p]

\* The invariant that is proved: each loader state is tied to what is left
\* in the device's endpoint and handler, so that success implies the flash.
UpdateInv ==
    /\ TypeOK /\ BusInv /\ LoaderInv
    /\ "spm" \notin Faults =>
         QuietInv /\ WriteInv /\ PrefixInv /\ SuccessMeansFlashed

----------------------------------------------------------------------------
(* The update as the contract sees it *)

Contract ==
    INSTANCE UpdateContract WITH
      Page   <- AppPages,
      Value  <- Content,
      Target <- {[p \in AppPages |-> img[p]] : img \in Images},
      Needed <- LAMBDA t : {p \in AppPages : p = 0 \/ t[p] # Blank},
      store  <- [p \in AppPages |-> flash[p]],
      target <- [p \in AppPages |-> image[p]],
      phase  <- CASE hpc \in {"program", "write", "start"} -> "active"
                  [] result = "ok"                         -> "ok"
                  [] OTHER                                 -> "idle",
      acked  <- IF hpc \in {"program", "write", "start"} \/ result = "ok"
                  THEN {p \in Used(image) \cap AppPages :
                          p < block \/ result = "ok"}
                  ELSE {}

\* The loader and the controller together keep the contract of an update.
KeepsContract == Contract!ContractSpec

----------------------------------------------------------------------------
(* Liveness, with a host that does not give up early *)

\* The loader never hangs in a transfer: having found a device it exits, or
\* goes back to waiting for one.
LoaderReturns ==
    hpc \notin {"idle", "open"} ~> hpc \in {"idle", "open"}

\* Fn+Tux+ESC ends in the bootloader (Jump_To_Bootloader sets no key; the
\* watchdog flag alone must not start the application).
KeysReachBootloader == cpu = "appexit" ~> cpu = "boot"

\* A bootloader nobody talks to starts a valid application, through the
\* timer, the hand-over, the watchdog and the jump check.
ApplicationStarts ==
    (cpu = "boot" /\ hpc = "idle" /\ flash[0] \in Data)
      ~> (cpu = "app" \/ Wedged \/ hpc # "idle")

----------------------------------------------------------------------------
(* What the comments say and the code does not do *)

\* BootloaderHID.c:48-51: "When cleared, the bootloader will abort, the USB
\* interface will shut down and the application started via a forced watchdog
\* reset."
ClearedFlagAborts == (cpu = "boot" /\ ~run) ~> cpu # "boot"
=============================================================================
