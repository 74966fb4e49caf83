----------------------------- MODULE Bootloader -----------------------------
(***************************************************************************)
(* The keyboard controller: the HID bootloader of BootloaderHID.c (reset   *)
(* path, main loop, SetReport handler, timer interrupt, hand-over by       *)
(* watchdog), and of the application only what the update system sees of   *)
(* it: its start-up, its answer to a report, and Jump_To_Bootloader.       *)
(*                                                                         *)
(* The fuses of the project's makefile (hfuse 0xD8) start every reset in   *)
(* the bootloader; its lock bits (0xCF) make the self-programming          *)
(* instruction (SPM) ignore the bootloader section.                        *)
(***************************************************************************)
EXTENDS ControlPipe

CONSTANTS
    BootTimeout,  \* BOOTLOADER_TIMEOUT, in timer overflows
    NoData,       \* the page buffer holds nothing
    Faults        \* the kinds of fault this instance suffers

(***************************************************************************)
(* "power": the supply fails at any moment.                                *)
(* "abort": the host gives up a transfer, or is killed, at any moment.     *)
(* "spm":   the timer interrupt falls between the store to SPMCSR and the  *)
(*          SPM instruction.  boot_page_erase, boot_page_fill and          *)
(*          boot_page_write do not mask interrupts, and the hardware       *)
(*          drops an SPM that comes more than four cycles after the store. *)
(***************************************************************************)
ASSUME FaultsAssumption == Faults \subseteq {"power", "abort", "spm"}
ASSUME TimeoutAssumption == BootTimeout \in Nat
ASSUME NoDataAssumption == NoData \notin Content

VARIABLES
    cpu,       \* what the controller runs
    pc,        \* where the bootloader is, "idle" outside the bootloader
    flash,     \* contents of the flash pages
    key,       \* MagicBootKey: "magic" is MAGIC_BOOT_KEY
    wdrf,      \* the watchdog-reset flag of MCUSR
    wdt,       \* the watchdog is armed
    run,       \* RunBootloader
    boottime,  \* the countdown of the timer interrupt
    page,      \* PageAddress of the request being served
    buf,       \* contents of the SPM page buffer
    filled     \* packets of the request whose words are in the buffer

regVars  == <<key, wdrf, wdt>>
ramVars  == <<run, boottime>>
workVars == <<pc, page, buf, filled>>
devVars  == <<cpu, flash, regVars, ramVars, workVars>>

CpuStates == {"off", "reset", "boot", "appinit", "app", "appexit"}

\* "erasing" and "writing": the flash is busy with the page (boot_spm_busy_wait).
PageSteps == {"erase", "erasing", "fill", "write", "writing"}
Locations == {"idle", "setup", "loop", "task", "address", "finish", "halt"}
               \cup PageSteps

DeviceTypeOK ==
    /\ cpu \in CpuStates
    /\ pc \in Locations
    /\ flash \in [Pages -> Content]
    /\ key \in {"magic", "other"}
    /\ wdrf \in BOOLEAN /\ wdt \in BOOLEAN
    /\ run \in BOOLEAN /\ boottime \in 0..BootTimeout
    /\ page \in Pages
    /\ buf \in Content \cup {NoData}
    /\ filled \in 0..PacketsPerPage
    /\ pc \notin {"fill", "write", "writing", "finish"} =>
         buf = NoData /\ filled = 0
    /\ pc = "fill" => filled < PacketsPerPage
    /\ pc \in {"write", "writing"} => buf # NoData

\* No request is being served: the handler's locals are gone.
NoWork(loc) == pc' = loc /\ page' = 0 /\ buf' = NoData /\ filled' = 0

DeviceInit(firmware) ==
    /\ cpu = "off" /\ pc = "idle"
    /\ flash \in firmware
    /\ key = "other" /\ wdrf = FALSE /\ wdt = FALSE
    /\ run = TRUE /\ boottime = 0
    /\ page = 0 /\ buf = NoData /\ filled = 0

----------------------------------------------------------------------------
(* Resets *)

\* A power-on reset clears MCUSR; MagicBootKey is in no-init RAM.
PowerOn ==
    /\ cpu = "off"
    /\ cpu' = "reset"
    /\ key' \in {"magic", "other"}
    /\ wdrf' = FALSE /\ wdt' = FALSE
    /\ UNCHANGED <<flash, ramVars, workVars, pipeVars>>

PowerLoss ==
    /\ "power" \in Faults
    /\ cpu # "off"
    /\ cpu' = "off"
    /\ wdrf' = FALSE /\ wdt' = FALSE
    /\ NoWork("idle")
    /\ Detach
    /\ UNCHANGED <<flash, key, ramVars>>

\* The code spins in for(;;) until the armed watchdog bites.  It is still
\* armed when the application starts, and bites one that does not disarm it.
WatchdogReset ==
    /\ wdt
    /\ pc = "halt" \/ cpu \in {"appinit", "appexit"}
    /\ cpu' = "reset"
    /\ wdrf' = TRUE
    /\ NoWork("idle")
    /\ Detach
    /\ UNCHANGED <<flash, key, wdt, ramVars>>

VectorAlwaysValid == {TRUE}  \* mutant: the reset vector is not tested

\* What the test of the reset vector against 0xFFFF can yield: the first
\* word of a corrupt page may read either way.
VectorValid ==
    IF flash[0] = Corrupt THEN BOOLEAN ELSE {flash[0] # Blank}

JumpCheckKeepsKey ==  \* mutant: the key is not cleared before the jump
    /\ cpu = "reset"
    /\ \E ApplicationValid \in VectorValid :
         IF wdrf /\ key = "magic" /\ ApplicationValid
           THEN cpu' = "appinit" /\ UNCHANGED pc
           ELSE cpu' = "boot" /\ pc' = "setup"
    /\ UNCHANGED <<flash, regVars, ramVars, page, buf, filled, pipeVars>>

Application_Jump_Check ==
    /\ cpu = "reset"
    /\ \E ApplicationValid \in VectorValid :
         \/ /\ wdrf /\ key = "magic" /\ ApplicationValid
            /\ key' = "other"
            /\ cpu' = "appinit"
            /\ UNCHANGED pc
         \/ /\ ~(wdrf /\ key = "magic" /\ ApplicationValid)
            /\ cpu' = "boot"
            /\ pc' = "setup"
            /\ UNCHANGED key
    /\ UNCHANGED <<flash, wdrf, wdt, ramVars, page, buf, filled, pipeVars>>

----------------------------------------------------------------------------
(* The bootloader's main program and timer interrupt *)

\* RunBootloader is initialised data: start-up code sets it before main.
SetupHardware ==
    /\ pc = "setup"
    /\ wdrf' = FALSE /\ wdt' = FALSE
    /\ run' = TRUE
    /\ boottime' = BootTimeout
    /\ pc' = "loop"
    /\ UNCHANGED <<cpu, flash, key, page, buf, filled, pipeVars>>

EnterTask ==
    /\ pc = "loop" /\ run
    /\ pc' = "task"
    /\ UNCHANGED <<cpu, flash, regVars, ramVars, page, buf, filled, pipeVars>>

\* USB_USBTask with no SETUP packet to serve; it enumerates the device.
IdleTask ==
    /\ pc = "task" /\ setup = NoRequest
    /\ pc' = "loop"
    /\ bus' = "boot"
    /\ UNCHANGED <<cpu, flash, regVars, ramVars, page, buf, filled,
                   handle, setup, bank, reply>>

HandOverAnywhere ==  \* mutant: the loop is left in the middle of a request
    /\ cpu = "boot" /\ pc \notin {"setup", "halt"} /\ ~run
    /\ Detach
    /\ key' = "magic"
    /\ wdt' = TRUE
    /\ NoWork("halt")
    /\ UNCHANGED <<cpu, flash, wdrf, ramVars>>

\* The loop ends: USB_Detach, MagicBootKey, watchdog.
HandOver ==
    /\ pc = "loop" /\ ~run
    /\ Detach
    /\ key' = "magic"
    /\ wdt' = TRUE
    /\ pc' = "halt"
    /\ UNCHANGED <<cpu, flash, wdrf, ramVars, page, buf, filled>>

TickPastZero == boottime' = boottime - 1 /\ UNCHANGED run  \* mutant: no test for 0

TickStopsAtZero ==  \* mutant: the countdown ends without clearing RunBootloader
    boottime' = (IF boottime # 0 THEN boottime - 1 ELSE 0) /\ UNCHANGED run

\* ISR(TIMER0_OVF_vect); interrupts are on from the end of SetupHardware.
TimerTick ==
    IF boottime # 0 THEN boottime' = boottime - 1 /\ UNCHANGED run
                    ELSE run' = FALSE /\ UNCHANGED boottime

Timer0Overflow ==
    /\ cpu = "boot" /\ pc \notin {"setup", "halt"}
    /\ TimerTick
    /\ UNCHANGED <<cpu, flash, regVars, workVars, pipeVars>>

----------------------------------------------------------------------------
(* EVENT_USB_Device_ControlRequest, HID_REQ_SetReport *)

\* Endpoint_ClearSETUP.
AcceptSetup ==
    /\ pc = "task" /\ setup # NoRequest
    /\ setup' = NoRequest
    /\ pc' = "address"
    /\ UNCHANGED <<cpu, flash, regVars, ramVars, page, buf, filled,
                   bus, handle, bank, reply>>

\* The first OUT packet has come: Endpoint_Read_16_LE.
ReadAddress ==
    /\ pc = "address" /\ bank # NoRequest
    /\ IF bank.page = StartCommand
         THEN /\ run' = FALSE
              /\ pc' = "finish"
              /\ UNCHANGED <<boottime, page>>
         ELSE /\ boottime' = BootTimeout
              /\ page' = bank.page
              /\ pc' = "erase"
              /\ UNCHANGED run
    /\ UNCHANGED <<cpu, flash, regVars, buf, filled, pipeVars>>

\* An SPM instruction takes effect on a page outside the bootloader section.
SetPage(c) ==
    flash' = IF page \in AppPages THEN [flash EXCEPT ![page] = c] ELSE flash

\* The SPM instruction was dropped: the interrupt ran, the flash did not change.
SpmDropped == "spm" \in Faults /\ TimerTick /\ UNCHANGED flash

\* boot_page_erase; a page is indeterminate until the erase is over.
PageErase ==
    /\ pc = "erase"
    /\ \/ SetPage(Corrupt) /\ pc' = "erasing" /\ UNCHANGED ramVars
       \/ SpmDropped /\ pc' = "fill"
    /\ UNCHANGED <<cpu, regVars, page, buf, filled, pipeVars>>

EraseDone ==
    /\ pc = "erasing"
    /\ SetPage(Blank)
    /\ pc' = "fill"
    /\ UNCHANGED <<cpu, regVars, ramVars, page, buf, filled, pipeVars>>

\* The page buffer after the words of a packet: one request's data, or a mix.
Merge(d) == IF buf \in {NoData, d} THEN d ELSE Corrupt

\* The words of one packet go to the page buffer.  Endpoint_ClearOUT releases
\* a packet when another must follow; the last stays until the handler's end.
PageFill ==
    /\ pc = "fill" /\ bank # NoRequest
    /\ \/ buf' = Merge(bank.data) /\ UNCHANGED <<flash, ramVars>>
       \/ SpmDropped /\ buf' = Corrupt
    /\ filled' = filled + 1
    /\ IF filled + 1 < PacketsPerPage
         THEN bank' = NoRequest /\ UNCHANGED pc
         ELSE pc' = "write" /\ UNCHANGED bank
    /\ UNCHANGED <<cpu, regVars, page, bus, handle, setup, reply>>

\* Programming only clears bits.
Programmed(old, new) ==
    CASE old = Blank \/ old = new -> new
      [] new = Blank              -> old
      [] OTHER                    -> Corrupt

\* boot_page_write; boot_rww_enable then empties the page buffer.
PageWrite ==
    /\ pc = "write"
    /\ \/ /\ SetPage(Corrupt)
          /\ buf' = Programmed(flash[page], buf)
          /\ pc' = "writing"
          /\ UNCHANGED ramVars
       \/ SpmDropped /\ pc' = "finish" /\ UNCHANGED buf
    /\ UNCHANGED <<cpu, regVars, page, filled, pipeVars>>

WriteDone ==
    /\ pc = "writing"
    /\ SetPage(buf)
    /\ pc' = "finish"
    /\ UNCHANGED <<cpu, regVars, ramVars, page, buf, filled, pipeVars>>

FinishRepliesToAny ==  \* mutant: a replaced transfer is acknowledged too
    /\ pc = "finish"
    /\ bank' = NoRequest
    /\ reply' = TRUE
    /\ NoWork("loop")
    /\ UNCHANGED <<cpu, flash, regVars, ramVars, bus, handle, setup>>

\* Endpoint_ClearOUT and Endpoint_ClearStatusStage.  The status packet of a
\* transfer that a new SETUP packet has replaced is not sent.
FinishRequest ==
    /\ pc = "finish"
    /\ bank' = NoRequest
    /\ reply' = (setup = NoRequest)
    /\ NoWork("loop")
    /\ UNCHANGED <<cpu, flash, regVars, ramVars, bus, handle, setup>>

----------------------------------------------------------------------------
(* The application, as the update system sees it *)

\* SetupHardware of the application.  Its own data may overlay MagicBootKey.
AppStart ==
    /\ cpu = "appinit"
    /\ wdrf' = FALSE /\ wdt' = FALSE
    /\ key' \in {key, "other"}
    /\ cpu' = "app"
    /\ UNCHANGED <<flash, ramVars, workVars, pipeVars>>

AppEnumerate ==
    /\ cpu = "app" /\ bus = "none"
    /\ bus' = "app"
    /\ UNCHANGED <<devVars, handle, setup, bank, reply>>

\* The HID class driver reads a whole report; the callback ignores it.
AppAcceptSetup ==
    /\ cpu = "app" /\ setup # NoRequest
    /\ setup' = NoRequest
    /\ UNCHANGED <<devVars, bus, handle, bank, reply>>

AppReadReport ==
    /\ cpu = "app" /\ bank # NoRequest
    /\ bank' = NoRequest
    /\ reply' = TRUE
    /\ UNCHANGED <<devVars, bus, handle, setup>>

\* Fn+Tux+ESC: USB_Disable, cli, wdt_enable, for(;;).
Jump_To_Bootloader ==
    /\ cpu = "app"
    /\ Detach
    /\ wdt' = TRUE
    /\ cpu' = "appexit"
    /\ UNCHANGED <<flash, key, wdrf, ramVars, workVars>>

----------------------------------------------------------------------------
Handler ==
    \/ AcceptSetup \/ ReadAddress \/ PageErase \/ EraseDone
    \/ PageFill \/ PageWrite \/ WriteDone \/ FinishRequest

MainProgram == SetupHardware \/ EnterTask \/ IdleTask \/ HandOver

Application ==
    AppStart \/ AppEnumerate \/ AppAcceptSetup \/ AppReadReport

DeviceNext ==
    \/ PowerOn \/ PowerLoss \/ WatchdogReset \/ Application_Jump_Check
    \/ MainProgram \/ Timer0Overflow \/ Handler
    \/ Application \/ Jump_To_Bootloader
=============================================================================
