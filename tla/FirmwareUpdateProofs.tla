------------------------ MODULE FirmwareUpdateProofs ------------------------
(***************************************************************************)
(* Theorems about the firmware update, for every flash geometry, image     *)
(* set, timeout and combination of faults the assumptions of ControlPipe,  *)
(* Bootloader and HostLoader allow.                                        *)
(***************************************************************************)
EXTENDS FirmwareUpdate, TLAPS

----------------------------------------------------------------------------
(* The requests of the loader *)

\* What the loader sends is well-formed.
LEMMA RequestsTyped ==
    /\ \A p \in 0..StartCommand, d \in Content : PageRequest(p, d) \in Requests
    /\ StartRequest \in Requests
    /\ RebootRequest \in Requests
<1>1. \A p \in 0..StartCommand, d \in Content : PageRequest(p, d) \in Requests
  BY GeometryAssumption DEF PageRequest, Requests
<1>2. StartRequest \in Requests
  <2>1. StartCommand \in 0..StartCommand
    BY GeometryAssumption DEF StartCommand
  <2>2. Corrupt \in Content
    BY DEF Content
  <2> QED BY <1>1, <2>1, <2>2 DEF StartRequest
<1>3. RebootRequest \in Requests
  BY GeometryAssumption DEF RebootRequest, Requests, Content, StartCommand
<1> QED BY <1>1, <1>2, <1>3

\* The request for the block at hand, main's loop over the blocks, is
\* well-formed.
LEMMA BlockRequestTyped ==
  ASSUME image \in Images, block \in Used(image)
  PROVE  /\ block \in Pages /\ image[block] \in Data \cup {Blank}
         /\ PageRequest(block, image[block]) \in Requests
<1>1. block \in Pages /\ image[block] \in Data \cup {Blank}
  BY ImagesAssumption DEF Used
<1>2. block \in 0..StartCommand
  BY <1>1, GeometryAssumption DEF Pages, StartCommand
<1> QED BY <1>1, <1>2, RequestsTyped DEF Content

\* The first page and the bounds of the counters are in range.
LEMMA ZeroTyped ==
    /\ 0 \in Pages
    /\ 0 \in 0..PacketsPerPage
    /\ 0 \in 0..BootTimeout
    /\ 0 \in 0..(LastPage + 1)
    /\ 0 < PacketsPerPage
BY GeometryAssumption, TimeoutAssumption DEF Pages

\* The timer interrupt keeps the countdown in range.
LEMMA TickTyped ==
  ASSUME boottime \in 0..BootTimeout, TimerTick
  PROVE  boottime' \in 0..BootTimeout
BY TimeoutAssumption DEF TimerTick

\* Setting a page of the flash to some content keeps it a flash.
LEMMA SetPageTyped ==
  ASSUME flash \in [Pages -> Content], page \in Pages,
         NEW c \in Content, SetPage(c)
  PROVE  flash' \in [Pages -> Content]
BY DEF SetPage

----------------------------------------------------------------------------
(* Types *)

\* Power-up leaves every variable in its type.
LEMMA InitTyped == Init => TypeOK
<1> SUFFICES ASSUME Init PROVE TypeOK
  OBVIOUS
<1>1. PipeTypeOK
  BY DEF Init, PipeInit, PipeTypeOK
<1>2. DeviceTypeOK
  <2>1. flash \in [Pages -> Content]
    BY ContentAssumption, ImagesAssumption DEF Init, DeviceInit, Content
  <2>2. page \in Pages /\ filled \in 0..PacketsPerPage
    BY GeometryAssumption DEF Init, DeviceInit, Pages
  <2>3. boottime \in 0..BootTimeout
    BY TimeoutAssumption DEF Init, DeviceInit
  <2> QED
    BY <2>1, <2>2, <2>3
    DEF Init, DeviceInit, DeviceTypeOK, CpuStates, Locations
<1>3. HostTypeOK
  <2>1. block \in 0..(LastPage + 1) /\ sent \in 0..PacketsPerPage
    BY GeometryAssumption DEF Init, HostInit
  <2> QED BY <2>1 DEF Init, HostInit, HostTypeOK
<1> QED
  BY <1>1, <1>2, <1>3 DEF TypeOK, Init, DeviceInit


\* The Boolean variables, which the solver handles apart from the others.
Flags ==
    /\ reply \in BOOLEAN
    /\ wdrf \in BOOLEAN /\ wdt \in BOOLEAN /\ run \in BOOLEAN
    /\ hard \in BOOLEAN /\ waited \in BOOLEAN

\* The controller's steps keep the bootloader's and the watchdog's flags
\* Boolean.
LEMMA DeviceStepFlags ==
  ASSUME TypeOK, DeviceNext, UNCHANGED hostVars
  PROVE  Flags'
<1> USE DEF TypeOK, PipeTypeOK, DeviceTypeOK, HostTypeOK, Flags,
        pipeVars, regVars, ramVars, devVars, hostVars
<1>1. CASE PowerOn
  BY <1>1 DEF PowerOn
<1>2. CASE PowerLoss
  BY <1>2 DEF PowerLoss, Detach, NoWork
<1>3. CASE WatchdogReset
  BY <1>3 DEF WatchdogReset, Detach, NoWork
<1>4. CASE Application_Jump_Check
  BY <1>4 DEF Application_Jump_Check, VectorValid
<1>5. CASE SetupHardware
  BY <1>5 DEF SetupHardware
<1>6. CASE EnterTask
  BY <1>6 DEF EnterTask
<1>7. CASE IdleTask
  BY <1>7 DEF IdleTask
<1>8. CASE HandOver
  BY <1>8 DEF HandOver, Detach
<1>9. CASE Timer0Overflow
  BY <1>9 DEF Timer0Overflow, TimerTick
<1>10. CASE AcceptSetup
  BY <1>10 DEF AcceptSetup
<1>11. CASE ReadAddress
  BY <1>11 DEF ReadAddress
<1>12. CASE PageErase
  BY <1>12 DEF PageErase, SetPage, SpmDropped, TimerTick
<1>13. CASE EraseDone
  BY <1>13 DEF EraseDone, SetPage
<1>14. CASE PageFill
  BY <1>14 DEF PageFill, Merge, SpmDropped, TimerTick
<1>15. CASE PageWrite
  BY <1>15 DEF PageWrite, SetPage, SpmDropped, TimerTick, Programmed
<1>16. CASE WriteDone
  BY <1>16 DEF WriteDone, SetPage
<1>17. CASE FinishRequest
  BY <1>17 DEF FinishRequest, NoWork
<1>18. CASE AppStart
  BY <1>18 DEF AppStart
<1>19. CASE AppEnumerate
  BY <1>19 DEF AppEnumerate
<1>20. CASE AppAcceptSetup
  BY <1>20 DEF AppAcceptSetup
<1>21. CASE AppReadReport
  BY <1>21 DEF AppReadReport
<1>22. CASE Jump_To_Bootloader
  BY <1>22 DEF Jump_To_Bootloader, Detach
<1> QED
  BY <1>1, <1>2, <1>3, <1>4, <1>5, <1>6, <1>7, <1>8, <1>9, <1>10, <1>11,
     <1>12, <1>13, <1>14, <1>15, <1>16, <1>17, <1>18, <1>19, <1>20, <1>21,
     <1>22
  DEF DeviceNext, MainProgram, Handler, Application

\* The loader's steps keep the same flags Boolean.
LEMMA HostStepFlags ==
  ASSUME TypeOK, HostNext, UNCHANGED devVars
  PROVE  Flags'
<1> USE DEF TypeOK, PipeTypeOK, DeviceTypeOK, HostTypeOK, Flags,
        pipeVars, regVars, ramVars, devVars, hostVars
<1>1. CASE StartLoader
  BY <1>1 DEF StartLoader
<1>2. CASE OpenDevice
  BY <1>2 DEF OpenDevice
<1>3. CASE OpenFails
  BY <1>3 DEF OpenFails
<1>4. CASE HardReboot
  BY <1>4 DEF HardReboot
<1>5. CASE NoRebootor
  BY <1>5 DEF NoRebootor, Exit, EndTransfer
<1>6. CASE HardRebootDone
  BY <1>6 DEF HardRebootDone, EndTransfer, Complete
<1>7. CASE SkipBlock
  BY <1>7 DEF SkipBlock
<1>8. CASE WriteBlock
  BY <1>8 DEF WriteBlock, Begin
<1>9. CASE WriteSucceeds
  BY <1>9 DEF WriteSucceeds, EndTransfer, Complete
<1>10. CASE StartApplication
  BY <1>10 DEF StartApplication, Begin
<1>11. CASE ExitWithoutStart
  BY <1>11 DEF ExitWithoutStart, Exit, EndTransfer
<1>12. CASE StartSucceeds
  BY <1>12 DEF StartSucceeds, Exit, EndTransfer, Complete
<1>13. CASE SendPacket
  BY <1>13 DEF SendPacket
<1>14. CASE TransferFails
  BY <1>14 DEF TransferFails, Exit, EndTransfer
<1>15. CASE StartFails
  BY <1>15 DEF StartFails, Exit, EndTransfer
<1>16. CASE Killed
  BY <1>16 DEF Killed, Exit, EndTransfer
<1> QED
  BY <1>1, <1>2, <1>3, <1>4, <1>5, <1>6, <1>7, <1>8, <1>9, <1>10, <1>11,
     <1>12, <1>13, <1>14, <1>15, <1>16
  DEF HostNext, HostProgram, HostFails

\* A step of the controller keeps the types.
LEMMA DeviceStepTyped ==
  ASSUME TypeOK, DeviceNext, UNCHANGED hostVars
  PROVE  TypeOK'
<1>0. Flags'
  BY DeviceStepFlags
<1> USE <1>0, ZeroTyped, GeometryAssumption, NoRequestAssumption
    DEF TypeOK, PipeTypeOK, DeviceTypeOK, HostTypeOK, Flags, CpuStates,
        Locations, PageSteps, pipeVars, regVars, ramVars, workVars, devVars,
        hostVars
<1>1. CASE PowerOn
  BY <1>1 DEF PowerOn
<1>2. CASE PowerLoss
  BY <1>2 DEF PowerLoss, Detach, NoWork
<1>3. CASE WatchdogReset
  BY <1>3 DEF WatchdogReset, Detach, NoWork
<1>4. CASE Application_Jump_Check
  BY <1>4 DEF Application_Jump_Check, VectorValid
<1>5. CASE SetupHardware
  BY <1>5, TimeoutAssumption DEF SetupHardware
<1>6. CASE EnterTask
  BY <1>6 DEF EnterTask
<1>7. CASE IdleTask
  BY <1>7 DEF IdleTask
<1>8. CASE HandOver
  BY <1>8 DEF HandOver, Detach
<1>9. CASE Timer0Overflow
  <2>1. boottime' \in 0..BootTimeout
    BY <1>9, TickTyped DEF Timer0Overflow
  <2> QED BY <1>9, <2>1 DEF Timer0Overflow
<1>10. CASE AcceptSetup
  BY <1>10 DEF AcceptSetup
<1>11. CASE ReadAddress
  <2>1. page' \in Pages /\ boottime' \in 0..BootTimeout
    BY <1>11, TimeoutAssumption, GeometryAssumption
    DEF ReadAddress, Requests, Pages, StartCommand
  <2> QED BY <1>11, <2>1 DEF ReadAddress
<1>12. CASE PageErase
  <2>1. flash' \in [Pages -> Content]
    BY <1>12, SetPageTyped DEF PageErase, SpmDropped, Content
  <2>2. boottime' \in 0..BootTimeout
    BY <1>12, TickTyped DEF PageErase, SpmDropped
  <2> QED BY <1>12, <2>1, <2>2 DEF PageErase
<1>13. CASE EraseDone
  <2>1. flash' \in [Pages -> Content]
    BY <1>13, SetPageTyped DEF EraseDone, Content
  <2> QED BY <1>13, <2>1 DEF EraseDone
<1>14. CASE PageFill
  <2>1. flash' \in [Pages -> Content]
    BY <1>14 DEF PageFill, SpmDropped
  <2>2. boottime' \in 0..BootTimeout
    BY <1>14, TickTyped DEF PageFill, SpmDropped
  <2>3. buf' \in Content
    BY <1>14 DEF PageFill, Merge, Requests, Content
  <2>4. filled' \in 1..PacketsPerPage
        /\ (pc' = "fill" => filled' < PacketsPerPage)
    BY <1>14, GeometryAssumption DEF PageFill
  <2> QED BY <1>14, <2>1, <2>2, <2>3, <2>4, NoDataAssumption DEF PageFill
<1>15. CASE PageWrite
  <2>1. flash' \in [Pages -> Content]
    BY <1>15, SetPageTyped DEF PageWrite, SpmDropped, Content
  <2>2. boottime' \in 0..BootTimeout
    BY <1>15, TickTyped DEF PageWrite, SpmDropped
  <2>3. buf' \in Content \cup {NoData}
    BY <1>15 DEF PageWrite, Programmed, Content
  <2>4. pc' = "writing" => buf' # NoData
    BY <1>15, NoDataAssumption DEF PageWrite, Programmed, Content
  <2> QED BY <1>15, <2>1, <2>2, <2>3, <2>4 DEF PageWrite
<1>16. CASE WriteDone
  <2>1. flash' \in [Pages -> Content]
    BY <1>16, SetPageTyped DEF WriteDone
  <2> QED BY <1>16, <2>1 DEF WriteDone
<1>17. CASE FinishRequest
  BY <1>17 DEF FinishRequest, NoWork
<1>18. CASE AppStart
  BY <1>18 DEF AppStart
<1>19. CASE AppEnumerate
  BY <1>19 DEF AppEnumerate
<1>20. CASE AppAcceptSetup
  BY <1>20 DEF AppAcceptSetup
<1>21. CASE AppReadReport
  BY <1>21 DEF AppReadReport
<1>22. CASE Jump_To_Bootloader
  BY <1>22 DEF Jump_To_Bootloader, Detach
<1> QED
  BY <1>1, <1>2, <1>3, <1>4, <1>5, <1>6, <1>7, <1>8, <1>9, <1>10, <1>11,
     <1>12, <1>13, <1>14, <1>15, <1>16, <1>17, <1>18, <1>19, <1>20, <1>21,
     <1>22
  DEF DeviceNext, MainProgram, Handler, Application

\* A step of the loader or of the host controller keeps the types.
LEMMA HostStepTyped ==
  ASSUME TypeOK, HostNext, UNCHANGED devVars
  PROVE  TypeOK'
<1>0. Flags'
  BY HostStepFlags
<1> USE <1>0, ZeroTyped, RequestsTyped, NoRequestAssumption
    DEF TypeOK, PipeTypeOK, DeviceTypeOK, HostTypeOK, Flags,
        pipeVars, regVars, ramVars, workVars, devVars, hostVars
<1>1. CASE StartLoader
  BY <1>1 DEF StartLoader
<1>2. CASE OpenDevice
  BY <1>2 DEF OpenDevice
<1>3. CASE OpenFails
  BY <1>3 DEF OpenFails
<1>4. CASE HardReboot
  BY <1>4 DEF HardReboot
<1>5. CASE NoRebootor
  BY <1>5 DEF NoRebootor, Exit, EndTransfer
<1>6. CASE HardRebootDone
  BY <1>6 DEF HardRebootDone, EndTransfer, Complete
<1>7. CASE SkipBlock
  <2>1. block' \in 0..(LastPage + 1)
    BY <1>7, GeometryAssumption DEF SkipBlock, Pages
  <2> QED BY <1>7, <2>1 DEF SkipBlock
<1>8. CASE WriteBlock
  <2>1. PageRequest(block, image[block]) \in Requests
    BY <1>8, BlockRequestTyped DEF WriteBlock
  <2>2. block # LastPage + 1
    BY <1>8, GeometryAssumption DEF WriteBlock, Used, Pages
  <2> QED BY <1>8, <2>1, <2>2 DEF WriteBlock, Begin
<1>9. CASE WriteSucceeds
  <2>1. block' \in 0..(LastPage + 1)
    BY <1>9, GeometryAssumption DEF WriteSucceeds
  <2> QED BY <1>9, <2>1 DEF WriteSucceeds, EndTransfer
<1>10. CASE StartApplication
  BY <1>10 DEF StartApplication, Begin
<1>11. CASE ExitWithoutStart
  BY <1>11 DEF ExitWithoutStart, Exit, EndTransfer
<1>12. CASE StartSucceeds
  BY <1>12 DEF StartSucceeds, Exit, EndTransfer, Complete
<1>13. CASE SendPacket
  <2>1. sent' \in 0..PacketsPerPage
    BY <1>13, GeometryAssumption DEF SendPacket, Requests
  <2> QED BY <1>13, <2>1 DEF SendPacket
<1>14. CASE TransferFails
  BY <1>14 DEF TransferFails, Exit, EndTransfer
<1>15. CASE StartFails
  BY <1>15 DEF StartFails, Exit, EndTransfer
<1>16. CASE Killed
  BY <1>16 DEF Killed, Exit, EndTransfer
<1> QED
  BY <1>1, <1>2, <1>3, <1>4, <1>5, <1>6, <1>7, <1>8, <1>9, <1>10, <1>11,
     <1>12, <1>13, <1>14, <1>15, <1>16
  DEF HostNext, HostProgram, HostFails

\* Every variable keeps its type in every reachable state.
THEOREM TypeInvariant == Spec => []TypeOK
<1>1. TypeOK /\ [Next]_vars => TypeOK'
  <2> SUFFICES ASSUME TypeOK, [Next]_vars PROVE TypeOK'
    OBVIOUS
  <2>1. CASE Next
    BY <2>1, DeviceStepTyped, HostStepTyped DEF Next
  <2>2. CASE UNCHANGED vars
    BY <2>2 DEF vars, devVars, pipeVars, hostVars, regVars, ramVars, workVars,
               TypeOK, PipeTypeOK, DeviceTypeOK, HostTypeOK
  <2> QED BY <2>1, <2>2
<1> QED BY InitTyped, <1>1, PTL DEF Spec

----------------------------------------------------------------------------
(* The application and the reset path *)

\* Only the reset path touches MagicBootKey: PowerOn and the jump check with
\* the processor in reset, HandOver in the bootloader, AppStart.
LEMMA KeyStep ==
  ASSUME TypeOK, KeyConsumed, DeviceNext
  PROVE  KeyConsumed'
<1> USE DEF TypeOK, KeyConsumed, regVars, devVars
<1>1. CASE PowerOn \/ PowerLoss \/ WatchdogReset
  BY <1>1 DEF PowerOn, PowerLoss, WatchdogReset
<1>2. CASE Application_Jump_Check
  BY <1>2 DEF Application_Jump_Check
<1>3. CASE MainProgram
  BY <1>3 DEF MainProgram, SetupHardware, EnterTask, IdleTask, HandOver
<1>4. CASE Handler \/ Timer0Overflow
  BY <1>4 DEF Handler, AcceptSetup, ReadAddress, PageErase, EraseDone,
              PageFill, PageWrite, WriteDone, FinishRequest, Timer0Overflow
<1>5. CASE Application \/ Jump_To_Bootloader
  BY <1>5 DEF Application, AppStart, AppEnumerate, AppAcceptSetup,
              AppReadReport, Jump_To_Bootloader
<1> QED BY <1>1, <1>2, <1>3, <1>4, <1>5 DEF DeviceNext

\* A step that changes the flash is a step of the handler's page loop.
LEMMA FlashStep ==
  ASSUME TypeOK, DeviceNext, flash' # flash
  PROVE  /\ pc \in PageSteps /\ cpu = "boot" /\ cpu' = cpu
         /\ \A p \in Pages : p # page => flash'[p] = flash[p]
<1> USE DEF TypeOK, regVars, devVars
<1>1. CASE PowerOn \/ PowerLoss \/ WatchdogReset \/ Application_Jump_Check
  BY <1>1 DEF PowerOn, PowerLoss, WatchdogReset, Application_Jump_Check
<1>2. CASE MainProgram \/ Timer0Overflow
  BY <1>2 DEF MainProgram, SetupHardware, EnterTask, IdleTask, HandOver,
              Timer0Overflow
<1>3. CASE Application \/ Jump_To_Bootloader
  BY <1>3 DEF Application, AppStart, AppEnumerate, AppAcceptSetup,
              AppReadReport, Jump_To_Bootloader
<1>4. CASE AcceptSetup \/ ReadAddress \/ PageFill \/ FinishRequest
  BY <1>4 DEF AcceptSetup, ReadAddress, PageFill, FinishRequest, SpmDropped
<1>5. CASE PageErase \/ EraseDone \/ PageWrite \/ WriteDone
  <2>1. pc \in {"erase", "erasing", "write", "writing"} /\ cpu' = cpu
    BY <1>5 DEF PageErase, EraseDone, PageWrite, WriteDone
  <2>2. \E c : SetPage(c)
    BY <1>5 DEF PageErase, EraseDone, PageWrite, WriteDone, SpmDropped
  <2>3. \A p \in Pages : p # page => flash'[p] = flash[p]
    BY <2>2 DEF SetPage, DeviceTypeOK
  <2> QED BY <2>1, <2>3 DEF PageSteps
<1> QED BY <1>1, <1>2, <1>3, <1>4, <1>5 DEF DeviceNext, Handler

\* The jump check passes a blank reset vector by.
LEMMA VectorStep ==
  ASSUME TypeOK, NeverRunsBlank, DeviceNext
  PROVE  NeverRunsBlank'
<1> USE DEF NeverRunsBlank
<1>1. CASE flash' # flash
  BY <1>1, FlashStep
<1> SUFFICES ASSUME flash' = flash PROVE NeverRunsBlank'
  BY <1>1
<1> USE DEF regVars, devVars
<1>2. CASE PowerOn \/ PowerLoss \/ WatchdogReset
  BY <1>2 DEF PowerOn, PowerLoss, WatchdogReset, TypeOK
<1>3. CASE Application_Jump_Check
  BY <1>3, ContentAssumption DEF Application_Jump_Check, VectorValid
<1>4. CASE MainProgram \/ Handler \/ Timer0Overflow
  BY <1>4 DEF MainProgram, SetupHardware, EnterTask, IdleTask, HandOver,
              Handler, AcceptSetup, ReadAddress, PageErase, EraseDone,
              PageFill, PageWrite, WriteDone, FinishRequest, Timer0Overflow
<1>5. CASE Application \/ Jump_To_Bootloader
  BY <1>5 DEF Application, AppStart, AppEnumerate, AppAcceptSetup,
              AppReadReport, Jump_To_Bootloader
<1> QED BY <1>2, <1>3, <1>4, <1>5 DEF DeviceNext

\* MagicBootKey is consumed by the jump, and no reset the application can
\* cause finds it set: Fn+Tux+ESC stops in the bootloader.
THEOREM KeyAlwaysConsumed == Spec => []KeyConsumed
<1>1. Init => KeyConsumed
  BY DEF Init, DeviceInit, KeyConsumed
<1>2. TypeOK /\ KeyConsumed /\ [Next]_vars => KeyConsumed'
  BY KeyStep DEF Next, KeyConsumed, vars, devVars, regVars
<1> QED BY <1>1, <1>2, TypeInvariant, PTL DEF Spec

\* The application never runs over a blank reset vector.
THEOREM BlankNeverRuns == Spec => []NeverRunsBlank
<1>1. Init => NeverRunsBlank
  BY DEF Init, DeviceInit, NeverRunsBlank
<1>2. TypeOK /\ NeverRunsBlank /\ [Next]_vars => NeverRunsBlank'
  BY VectorStep DEF Next, NeverRunsBlank, vars, devVars
<1> QED BY <1>1, <1>2, TypeInvariant, PTL DEF Spec

----------------------------------------------------------------------------
(* The loader and the device agree on what is in flight *)

\* Who is on the bus: the device's side.
LEMMA DeviceStepBus ==
  ASSUME TypeOK, BusInv, DeviceNext, UNCHANGED hostVars
  PROVE  BusInv'
<1> USE DEF TypeOK, BusInv, Quiet, Serving, PageSteps, pipeVars, regVars,
        workVars, devVars, hostVars
<1>1. CASE PowerOn \/ PowerLoss \/ WatchdogReset \/ Application_Jump_Check
  BY <1>1 DEF PowerOn, PowerLoss, WatchdogReset, Application_Jump_Check,
              Detach, NoWork
<1>2. CASE MainProgram \/ Timer0Overflow
  BY <1>2 DEF MainProgram, SetupHardware, EnterTask, IdleTask, HandOver,
              Timer0Overflow, Detach
<1>3. CASE Handler
  BY <1>3 DEF Handler, AcceptSetup, ReadAddress, PageErase, EraseDone,
              PageFill, PageWrite, WriteDone, FinishRequest, NoWork
<1>4. CASE Application \/ Jump_To_Bootloader
  BY <1>4 DEF Application, AppStart, AppEnumerate, AppAcceptSetup,
              AppReadReport, Jump_To_Bootloader, Detach, PipeTypeOK
<1> QED BY <1>1, <1>2, <1>3, <1>4 DEF DeviceNext

\* The loader's handle after a step of the device: it can only go stale.
LEMMA DeviceStepHandle ==
  ASSUME DeviceNext
  PROVE  handle' = handle \/ (handle = "open" /\ handle' = "stale")
<1> USE DEF pipeVars, devVars
<1>1. CASE PowerOn \/ PowerLoss \/ WatchdogReset \/ Application_Jump_Check
  BY <1>1 DEF PowerOn, PowerLoss, WatchdogReset, Application_Jump_Check, Detach
<1>2. CASE MainProgram \/ Timer0Overflow
  BY <1>2 DEF MainProgram, SetupHardware, EnterTask, IdleTask, HandOver,
              Timer0Overflow, Detach
<1>3. CASE Handler
  BY <1>3 DEF Handler, AcceptSetup, ReadAddress, PageErase, EraseDone,
              PageFill, PageWrite, WriteDone, FinishRequest
<1>4. CASE Application \/ Jump_To_Bootloader
  BY <1>4 DEF Application, AppStart, AppEnumerate, AppAcceptSetup,
              AppReadReport, Jump_To_Bootloader, Detach
<1> QED BY <1>1, <1>2, <1>3, <1>4 DEF DeviceNext

\* The controller does not touch the loader's variables.
LEMMA DeviceStepLoader ==
  ASSUME LoaderInv, DeviceNext, UNCHANGED hostVars
  PROVE  LoaderInv'
BY DeviceStepHandle DEF LoaderInv, hostVars

\* The loader's side of both invariants.
LEMMA HostStepLoader ==
  ASSUME TypeOK, BusInv, LoaderInv, HostNext, UNCHANGED devVars
  PROVE  BusInv' /\ LoaderInv'
<1> USE DEF BusInv, LoaderInv, Quiet, pipeVars, workVars, devVars
<1>1. CASE StartLoader \/ OpenDevice \/ OpenFails
  BY <1>1 DEF StartLoader, OpenDevice, OpenFails
<1>2. CASE HardReboot \/ HardRebootDone
  BY <1>2 DEF HardReboot, HardRebootDone, EndTransfer
<1>3. CASE SkipBlock \/ SendPacket
  BY <1>3 DEF SkipBlock, SendPacket
<1>4. CASE WriteBlock \/ WriteSucceeds \/ StartApplication
  BY <1>4 DEF WriteBlock, WriteSucceeds, StartApplication, Begin, EndTransfer
<1>5. CASE NoRebootor \/ TransferFails \/ StartFails \/ Killed
             \/ ExitWithoutStart \/ StartSucceeds
  BY <1>5 DEF NoRebootor, TransferFails, StartFails, Killed,
              ExitWithoutStart, StartSucceeds, Exit, EndTransfer
<1> QED BY <1>1, <1>2, <1>3, <1>4, <1>5 DEF HostNext, HostProgram, HostFails

----------------------------------------------------------------------------
(* A successful run leaves the image in the flash *)

\* A device without a page request gets none by itself.
LEMMA DeviceStepQuiet ==
  ASSUME TypeOK, QuietInv, DeviceNext, UNCHANGED hostVars
  PROVE  QuietInv'
<1>1. StartRequest.page = StartCommand
  BY DEF StartRequest, PageRequest
<1> USE <1>1 DEF TypeOK, QuietInv, Quiet, NoPageRequest, Serving, PageSteps,
        pipeVars, workVars, devVars, hostVars
<1>2. CASE PowerOn \/ PowerLoss \/ WatchdogReset \/ Application_Jump_Check
  BY <1>2 DEF PowerOn, PowerLoss, WatchdogReset, Application_Jump_Check,
              Detach, NoWork
<1>3. CASE MainProgram \/ Timer0Overflow
  BY <1>3 DEF MainProgram, SetupHardware, EnterTask, IdleTask, HandOver,
              Timer0Overflow, Detach
<1>4. CASE Handler
  BY <1>4 DEF Handler, AcceptSetup, ReadAddress, PageErase, EraseDone,
              PageFill, PageWrite, WriteDone, FinishRequest, NoWork
<1>5. CASE Application \/ Jump_To_Bootloader
  BY <1>5 DEF Application, AppStart, AppEnumerate, AppAcceptSetup,
              AppReadReport, Jump_To_Bootloader, Detach
<1> QED BY <1>2, <1>3, <1>4, <1>5 DEF DeviceNext

\* The handler only works on the block the loader is writing, or on one of an
\* earlier run before the loader has written any.
LEMMA HandlerBlock ==
  ASSUME TypeOK, BusInv, LoaderInv, QuietInv, WriteInv, pc \in PageSteps
  PROVE  /\ result # "ok" /\ hpc # "start"
         /\ hpc = "program" => block = 0
         /\ hpc = "write" => block = 0 \/ page = block
<1>1. result # "ok" /\ hpc # "start"
  BY DEF QuietInv, NoPageRequest
<1>2. hpc = "program" => block = 0
  BY DEF QuietInv, Quiet, Serving, TypeOK, HostTypeOK
<1>3. hpc = "write" => block = 0 \/ page = block
  <2> SUFFICES ASSUME hpc = "write" PROVE block = 0 \/ page = block
    OBVIOUS
  <2>1. handle = "open"
    BY DEF BusInv, LoaderInv, Quiet, Serving, TypeOK, PipeTypeOK
  <2>2. CASE Unseen
    BY <2>2 DEF Unseen, Serving, TypeOK, HostTypeOK
  <2>3. CASE Addressed \/ Erasing \/ Filling \/ Programming \/ Acknowledged
    BY <2>3 DEF Addressed, Erasing, Filling, Programming,
                Acknowledged, Serving, PageSteps
  <2> QED BY <2>1, <2>2, <2>3 DEF WriteInv
<1> QED BY <1>1, <1>2, <1>3

\* The blocks behind the loop counter, and all blocks after a success, keep
\* their content.
LEMMA DeviceStepPrefix ==
  ASSUME "spm" \notin Faults, TypeOK, BusInv, LoaderInv, QuietInv, WriteInv,
         PrefixInv, SuccessMeansFlashed, DeviceNext, UNCHANGED hostVars
  PROVE  PrefixInv' /\ SuccessMeansFlashed'
<1>1. CASE flash' = flash
  BY <1>1 DEF PrefixInv, SuccessMeansFlashed, hostVars
<1>2. CASE flash' # flash
  <2>1. pc \in PageSteps /\ (\A p \in Pages : p # page => flash'[p] = flash[p])
    BY <1>2, FlashStep
  <2>2. /\ result # "ok" /\ hpc # "start"
        /\ hpc = "program" => block = 0
        /\ hpc = "write" => block = 0 \/ page = block
    BY <2>1, HandlerBlock
  <2>3. \A p \in Used(image) \cap AppPages : p \in Pages /\ p \in Int /\ ~(p < 0)
    BY GeometryAssumption DEF Used, AppPages, Pages
  <2> QED
    BY <2>1, <2>2, <2>3
    DEF PrefixInv, SuccessMeansFlashed, hostVars, TypeOK, HostTypeOK
<1> QED BY <1>1, <1>2

\* The device while the loader waits for a page write: every step of the
\* handler leads from one stage of the write to the next.
LEMMA DeviceStepWrite ==
  ASSUME "spm" \notin Faults, TypeOK, BusInv, LoaderInv, WriteInv,
         DeviceNext, UNCHANGED hostVars
  PROVE  WriteInv'
<1> SUFFICES ASSUME hpc = "write", handle' = "open" PROVE WriteInv'
  BY DEF WriteInv, hostVars
<1>1. handle = "open" /\ bus = "boot"
  BY DeviceStepHandle DEF BusInv, TypeOK, PipeTypeOK
<1>2. /\ block \in Pages /\ image[block] \in Data \cup {Blank}
      /\ xfer = PageRequest(block, image[block]) /\ xfer \in Requests
  BY BlockRequestTyped DEF LoaderInv, TypeOK, HostTypeOK
<1>3. /\ xfer.page = block /\ xfer.data = image[block]
      /\ xfer.packets = PacketsPerPage
  BY <1>2 DEF PageRequest
<1>4. block # StartCommand /\ xfer # NoRequest /\ NoData # image[block]
  BY <1>2, GeometryAssumption, NoRequestAssumption, NoDataAssumption
  DEF Pages, StartCommand, Content
<1>5. cpu = "boot" /\ pc \notin {"idle", "setup", "halt"}
  BY <1>1 DEF BusInv, TypeOK
<1> USE <1>1, <1>2, <1>3, <1>4, <1>5
    DEF TypeOK, WriteInv, Unseen, Addressed, Erasing, Filling, Programming,
        Acknowledged, BlockHolds, Serving, PageSteps, hostVars, workVars,
        regVars, ramVars, pipeVars, devVars
<1>6. CASE PowerOn \/ PowerLoss \/ WatchdogReset \/ Application_Jump_Check
  BY <1>6 DEF PowerOn, PowerLoss, WatchdogReset, Application_Jump_Check, Detach
<1>7. CASE MainProgram \/ Timer0Overflow
  BY <1>7 DEF MainProgram, SetupHardware, EnterTask, IdleTask, HandOver,
              Timer0Overflow, Detach
<1>8. CASE AcceptSetup
  BY <1>8 DEF AcceptSetup
<1>9. CASE ReadAddress
  BY <1>9, GeometryAssumption DEF ReadAddress, DeviceTypeOK
<1>10. CASE PageErase
  BY <1>10 DEF PageErase, SpmDropped
<1>11. CASE EraseDone
  BY <1>11, GeometryAssumption DEF EraseDone, SetPage, DeviceTypeOK
<1>12. CASE PageFill
  BY <1>12, GeometryAssumption DEF PageFill, SpmDropped, Merge, DeviceTypeOK
<1>13. CASE PageWrite
  BY <1>13 DEF PageWrite, SpmDropped, Programmed, DeviceTypeOK
<1>14. CASE WriteDone
  BY <1>14 DEF WriteDone, SetPage, DeviceTypeOK
<1>15. CASE FinishRequest
  BY <1>15 DEF FinishRequest, NoWork
<1>16. CASE Application \/ Jump_To_Bootloader
  BY <1>16 DEF Application, AppStart, AppEnumerate, AppAcceptSetup,
              AppReadReport, Jump_To_Bootloader
<1> QED
  BY <1>6, <1>7, <1>8, <1>9, <1>10, <1>11, <1>12, <1>13, <1>14, <1>15, <1>16
  DEF DeviceNext, Handler

\* The loader's steps: it sends a block only to a quiet device, moves on only
\* when the block is acknowledged, and succeeds only behind the last block.
LEMMA HostStepSuccess ==
  ASSUME TypeOK, BusInv, LoaderInv, QuietInv, WriteInv,
         PrefixInv, SuccessMeansFlashed, HostNext, UNCHANGED devVars
  PROVE  QuietInv' /\ WriteInv' /\ PrefixInv' /\ SuccessMeansFlashed'
<1> USE DEF LoaderInv, QuietInv, Quiet, NoPageRequest, WriteInv, PrefixInv,
        SuccessMeansFlashed, Used, pipeVars, workVars, devVars
<1>1. CASE StartLoader \/ OpenFails
  BY <1>1 DEF StartLoader, OpenFails
<1>2. CASE OpenDevice
  BY <1>2, GeometryAssumption DEF OpenDevice, AppPages
<1>3. CASE HardReboot \/ HardRebootDone
  BY <1>3 DEF HardReboot, HardRebootDone
<1>4. CASE SkipBlock
  BY <1>4, GeometryAssumption DEF SkipBlock, Pages, AppPages
<1>5. CASE WriteBlock
  BY <1>5 DEF WriteBlock, Begin, Unseen, BusInv, TypeOK, PipeTypeOK
<1>6. CASE WriteSucceeds
  <2>1. hpc = "write" /\ handle = "open" /\ reply
    BY <1>6 DEF WriteSucceeds, Complete
  <2>2. setup = NoRequest /\ Acknowledged
    BY <2>1 DEF Unseen, Addressed, Erasing, Filling, Programming
  <2>3. block' = block + 1 /\ hpc' = "program" /\ result' # "ok"
        /\ UNCHANGED <<image, setup, bank, reply, pc, flash>>
    BY <1>6 DEF WriteSucceeds
  <2>4. \A p \in Used(image) \cap AppPages : p < block' => p < block \/ p = block
    BY <2>3, GeometryAssumption DEF AppPages, TypeOK, HostTypeOK
  <2> QED BY <2>1, <2>2, <2>3, <2>4 DEF Acknowledged, BlockHolds
<1>7. CASE SendPacket
  <2>1. hpc = "write" \/ hpc = "start" \/ hpc = "rebooting"
    BY <1>7 DEF SendPacket, TypeOK, HostTypeOK
  <2>2. CASE hpc = "write"
    <3>1. xfer.packets = PacketsPerPage /\ handle = "open" /\ xfer # NoRequest
      BY <1>7, <2>2 DEF SendPacket, PageRequest
    <3>2. setup = NoRequest /\ bank = NoRequest /\ sent < PacketsPerPage
      BY <1>7, <3>1 DEF SendPacket
    <3>3. setup # xfer
      BY <3>1, <3>2
    <3>4. \/ Addressed /\ sent = 0
          \/ Filling /\ sent = filled
      BY <2>2, <3>1, <3>2, <3>3, GeometryAssumption
      DEF Unseen, Addressed, Erasing, Filling, Programming, Acknowledged
    <3>5. bank' = xfer /\ sent' = sent + 1
          /\ UNCHANGED <<hpc, image, block, xfer, result, handle, setup, reply>>
      BY <1>7 DEF SendPacket
    <3>6. Addressed' \/ Filling'
      BY <3>4, <3>5 DEF Addressed, Filling, BlockHolds
    <3> QED BY <2>2, <3>2, <3>5, <3>6
  <2>3. CASE hpc = "start" \/ hpc = "rebooting"
    BY <1>7, <2>3 DEF SendPacket
  <2> QED BY <2>1, <2>2, <2>3
<1>8. CASE StartApplication
  <2>1. block > 0 /\ hpc = "program"
    BY <1>8, GeometryAssumption DEF StartApplication
  <2> QED BY <1>8, <2>1 DEF StartApplication, Begin, Serving
<1>9. CASE ExitWithoutStart \/ StartSucceeds \/ StartFails
  <2>1. block = LastPage + 1 /\ hpc \in {"program", "start"}
    BY <1>9 DEF ExitWithoutStart, StartSucceeds, StartFails
  <2>2. block > 0 /\ \A p \in Pages : p < block
    BY <2>1, GeometryAssumption DEF Pages
  <2>3. \A p \in Used(image) \cap AppPages : flash[p] = image[p]
    BY <2>1, <2>2
  <2>4. NoPageRequest
    BY <2>1, <2>2 DEF Serving
  <2> QED
    BY <1>9, <2>3, <2>4
    DEF  ExitWithoutStart, StartSucceeds, StartFails, Exit, EndTransfer
<1>10. CASE NoRebootor \/ TransferFails \/ Killed
  BY <1>10 DEF NoRebootor, TransferFails, Killed, Exit, EndTransfer
<1> QED
  BY <1>1, <1>2, <1>3, <1>4, <1>5, <1>6, <1>7, <1>8, <1>9, <1>10
  DEF HostNext, HostProgram, HostFails

\* The inductive invariant.
THEOREM UpdateInvariant == Spec => []UpdateInv
<1>1. Init => UpdateInv
  <2> SUFFICES ASSUME Init PROVE UpdateInv
    OBVIOUS
  <2> USE DEF Init, DeviceInit, PipeInit, HostInit
  <2>1. BusInv /\ LoaderInv
    BY DEF BusInv, LoaderInv
  <2>2. QuietInv /\ WriteInv /\ PrefixInv /\ SuccessMeansFlashed
    BY DEF QuietInv, WriteInv, PrefixInv, SuccessMeansFlashed
  <2> QED BY <2>1, <2>2, InitTyped DEF UpdateInv
<1>2. UpdateInv /\ [Next]_vars => UpdateInv'
  <2> SUFFICES ASSUME UpdateInv, [Next]_vars PROVE UpdateInv'
    OBVIOUS
  <2> USE DEF UpdateInv
  <2>1. CASE DeviceNext /\ UNCHANGED hostVars
    BY <2>1, DeviceStepTyped, DeviceStepBus, DeviceStepLoader,
       DeviceStepQuiet, DeviceStepWrite, DeviceStepPrefix
  <2>2. CASE HostNext /\ UNCHANGED devVars
    BY <2>2, HostStepTyped, HostStepLoader, HostStepSuccess
  <2>3. CASE UNCHANGED vars
    <3>1. TypeOK' /\ BusInv' /\ LoaderInv'
      BY <2>3
      DEF vars, devVars, pipeVars, hostVars, regVars, ramVars, workVars,
          TypeOK, PipeTypeOK, DeviceTypeOK, HostTypeOK, BusInv, Quiet,
          LoaderInv
    <3>2. QuietInv' <=> QuietInv
      BY <2>3 DEF vars, devVars, pipeVars, hostVars, workVars, QuietInv, Quiet,
                  NoPageRequest
    <3>3. WriteInv' <=> WriteInv
      BY <2>3
      DEF vars, devVars, pipeVars, hostVars, workVars, WriteInv, Unseen,
          Addressed, Erasing, Filling, Programming, Acknowledged, BlockHolds
    <3>4. /\ PrefixInv' <=> PrefixInv
          /\ SuccessMeansFlashed' <=> SuccessMeansFlashed
      BY <2>3 DEF vars, devVars, hostVars, PrefixInv, SuccessMeansFlashed
    <3> QED BY <3>1, <3>2, <3>3, <3>4
  <2> QED BY <2>1, <2>2, <2>3 DEF Next
<1> QED BY <1>1, <1>2, PTL DEF Spec

\* When the loader exits with success, the flash holds the image, for every
\* geometry, image, timeout and schedule, if no SPM instruction is dropped.
THEOREM SuccessfulUpdate == Spec => []SuccessMeansFlashed
<1>1. UpdateInv => SuccessMeansFlashed
  BY DEF UpdateInv, SuccessMeansFlashed
<1> QED BY <1>1, UpdateInvariant, PTL

----------------------------------------------------------------------------
(* What the flash holds during an update, and the contract of an update,   *)
(* when no SPM instruction is dropped.                                     *)
----------------------------------------------------------------------------
(* The invariant: what is in flight, and what the handler makes of it *)

\* The transfers the loader makes.
Transfers ==
    {StartRequest, RebootRequest}
      \cup {PageRequest(p, img[p]) : p \in Pages, img \in Images}

\* The loader's transfer is the one the device has accepted last.
Live == setup = NoRequest /\ xfer # NoRequest /\ handle = "open"

\* Packets of the request being served that have come.
Arrived == IF bank = NoRequest THEN filled ELSE filled + 1

InFlight ==
    /\ setup \in Transfers \cup {NoRequest}
    /\ bank \in Transfers \cup {NoRequest}
    /\ xfer \in Transfers \cup {NoRequest}
    /\ setup # NoRequest => bank = NoRequest
    /\ setup # NoRequest /\ xfer # NoRequest /\ handle = "open" => sent = 0

\* The packet whose address the handler reads is the loader's first.
AddressInv ==
    pc = "address" /\ Live =>
      IF bank = NoRequest THEN sent = 0 ELSE sent = 1 /\ bank = xfer

\* The handler fills the buffer from packets of one request.
FillInv ==
    pc \in {"erase", "erasing", "fill"} =>
      /\ bank # NoRequest => /\ bank.page = page /\ filled + 1 <= bank.packets
                             /\ buf \in {NoData, bank.data}
      /\ Live => /\ xfer.page = page /\ sent = Arrived
                 /\ bank \in {NoRequest, xfer} /\ buf \in {NoData, xfer.data}

\* What is programmed is an image's page, over an erased one.
BurnInv ==
    /\ pc \in {"fill", "write"} /\ page \in AppPages => flash[page] = Blank
    /\ pc \in {"write", "writing"} /\ page \in AppPages =>
         buf \in {img[page] : img \in Images}

ServeInv == InFlight /\ AddressInv /\ FillInv /\ BurnInv /\ PageProvenance

----------------------------------------------------------------------------
(* Every packet is of a transfer of the loader *)

\* A transfer with all packets of a page carries that page of some image.
LEMMA TransferFacts ==
  \A r \in Transfers :
    /\ r \in Requests /\ r # NoRequest /\ r.packets >= 1 /\ r.packets \in Nat
    /\ r.page \in Pages /\ r.packets >= PacketsPerPage =>
         r.data \in {img[r.page] : img \in Images}
<1>1. TAKE r \in Transfers
<1>2. CASE r = StartRequest
  <2>1. r.page = StartCommand /\ r.packets = PacketsPerPage
    BY <1>2 DEF StartRequest, PageRequest
  <2>2. QED
    BY <1>2, <2>1, RequestsTyped, GeometryAssumption, NoRequestAssumption
    DEF StartCommand, Pages
<1>3. CASE r = RebootRequest
  <2>1. r.packets = 1
    BY <1>3 DEF RebootRequest
  <2>2. QED
    BY <1>3, <2>1, RequestsTyped, GeometryAssumption, NoRequestAssumption
<1>4. ASSUME NEW p \in Pages, NEW img \in Images, r = PageRequest(p, img[p])
      PROVE  /\ r \in Requests /\ r # NoRequest /\ r.packets >= 1 /\ r.packets \in Nat
             /\ r.page \in Pages /\ r.packets >= PacketsPerPage =>
                  r.data \in {i[r.page] : i \in Images}
  <2>1. r.page = p /\ r.data = img[p] /\ r.packets = PacketsPerPage
    BY <1>4 DEF PageRequest
  <2>2. p \in 0..StartCommand /\ img[p] \in Content
    BY ImagesAssumption, GeometryAssumption DEF Pages, StartCommand, Content
  <2>3. r \in Requests
    BY <1>4, <2>2, RequestsTyped
  <2>4. QED
    BY <2>1, <2>3, GeometryAssumption, NoRequestAssumption
<1>5. QED
  BY <1>2, <1>3, <1>4 DEF Transfers

\* The loader's next request is one of its transfers.
LEMMA BlockTransfer ==
  ASSUME image \in Images, block \in Used(image)
  PROVE  PageRequest(block, image[block]) \in Transfers
BY DEF Transfers, Used

----------------------------------------------------------------------------
(* The device's steps *)

\* The controller drops packets and takes them, it makes none.
LEMMA DeviceInFlight ==
  ASSUME TypeOK, InFlight, DeviceNext, UNCHANGED hostVars
  PROVE  InFlight'
<1>1. handle' = handle \/ (handle = "open" /\ handle' = "stale")
  BY DeviceStepHandle
<1> USE <1>1 DEF InFlight, pipeVars, devVars, hostVars
<1>2. CASE PowerOn \/ PowerLoss \/ WatchdogReset \/ Application_Jump_Check
  BY <1>2 DEF PowerOn, PowerLoss, WatchdogReset, Application_Jump_Check, Detach
<1>3. CASE MainProgram \/ Timer0Overflow
  BY <1>3 DEF MainProgram, SetupHardware, EnterTask, IdleTask, HandOver,
              Timer0Overflow, Detach
<1>4. CASE Handler
  BY <1>4 DEF Handler, AcceptSetup, ReadAddress, PageErase, EraseDone,
              PageFill, PageWrite, WriteDone, FinishRequest
<1>5. CASE Application \/ Jump_To_Bootloader
  BY <1>5 DEF Application, AppStart, AppEnumerate, AppAcceptSetup,
              AppReadReport, Jump_To_Bootloader, Detach
<1> QED BY <1>2, <1>3, <1>4, <1>5 DEF DeviceNext

\* The handler reads the address of the request it has accepted.
LEMMA DeviceAddress ==
  ASSUME TypeOK, InFlight, AddressInv, DeviceNext, UNCHANGED hostVars
  PROVE  AddressInv'
<1>1. handle' = handle \/ (handle = "open" /\ handle' = "stale")
  BY DeviceStepHandle
<1> USE <1>1 DEF TypeOK, AddressInv, Live, pipeVars, workVars, devVars, hostVars
<1>2. CASE PowerOn \/ PowerLoss \/ WatchdogReset \/ Application_Jump_Check
  BY <1>2 DEF PowerOn, PowerLoss, WatchdogReset, Application_Jump_Check, NoWork
<1>3. CASE MainProgram \/ Timer0Overflow
  BY <1>3 DEF MainProgram, SetupHardware, EnterTask, IdleTask, HandOver,
              Timer0Overflow, Detach
<1>4. CASE AcceptSetup
  BY <1>4 DEF AcceptSetup, InFlight
<1>5. CASE ReadAddress \/ PageErase \/ EraseDone \/ PageFill \/ PageWrite
             \/ WriteDone \/ FinishRequest
  BY <1>5 DEF ReadAddress, PageErase, EraseDone, PageFill, PageWrite,
              WriteDone, FinishRequest, NoWork
<1>6. CASE Application \/ Jump_To_Bootloader
  BY <1>6 DEF Application, AppStart, AppEnumerate, AppAcceptSetup,
              AppReadReport, Jump_To_Bootloader, Detach
<1> QED BY <1>2, <1>3, <1>4, <1>5, <1>6 DEF DeviceNext, Handler

\* The buffer is filled from one request.
LEMMA DeviceFill ==
  ASSUME "spm" \notin Faults, TypeOK, InFlight, AddressInv, FillInv, DeviceNext,
         UNCHANGED hostVars
  PROVE  FillInv'
<1>1. handle' = handle \/ (handle = "open" /\ handle' = "stale")
  BY DeviceStepHandle
<1> USE <1>1 DEF TypeOK, FillInv, Live, Arrived, pipeVars, workVars, devVars, hostVars
<1>2. CASE PowerOn \/ PowerLoss \/ WatchdogReset \/ Application_Jump_Check
  BY <1>2 DEF PowerOn, PowerLoss, WatchdogReset, Application_Jump_Check, NoWork
<1>3. CASE MainProgram \/ Timer0Overflow
  BY <1>3 DEF MainProgram, SetupHardware, EnterTask, IdleTask, HandOver,
              Timer0Overflow, Detach
<1>4. CASE AcceptSetup \/ WriteDone \/ FinishRequest
  BY <1>4 DEF AcceptSetup, WriteDone, FinishRequest, NoWork
<1>5. CASE ReadAddress
  <2>1. bank \in Transfers /\ bank # NoRequest /\ pc = "address"
    BY <1>5 DEF ReadAddress, InFlight
  <2>2. bank.packets >= 1 /\ buf = NoData /\ filled = 0
    BY <2>1, TransferFacts DEF DeviceTypeOK
  <2>3. Live => sent = 1 /\ bank = xfer
    BY <2>1 DEF AddressInv
  <2>4. UNCHANGED <<pipeVars, buf, filled>> /\ (pc' = "finish" \/ page' = bank.page)
    BY <1>5 DEF ReadAddress
  <2>5. pc' \in {"finish", "erase"}
    BY <1>5 DEF ReadAddress
  <2> QED BY <2>1, <2>2, <2>3, <2>4, <2>5
<1>6. CASE PageErase \/ EraseDone
  BY <1>6 DEF PageErase, EraseDone, SpmDropped
<1>7. CASE PageFill
  <2>1. CASE filled + 1 < PacketsPerPage
    <3>1. /\ pc = "fill" /\ bank # NoRequest /\ bank' = NoRequest
          /\ filled' = filled + 1 /\ buf' = Merge(bank.data)
          /\ UNCHANGED <<page, handle, setup>>
      BY <1>7, <2>1 DEF PageFill, SpmDropped
    <3>2. buf' = bank.data
      BY <3>1 DEF Merge
    <3>3. Live => bank.data = xfer.data
      BY <3>1
    <3> QED BY <3>1, <3>2, <3>3
  <2>2. CASE ~(filled + 1 < PacketsPerPage)
    BY <1>7, <2>2 DEF PageFill
  <2> QED BY <2>1, <2>2
<1>8. CASE PageWrite
  BY <1>8 DEF PageWrite, SpmDropped
<1>9. CASE Application \/ Jump_To_Bootloader
  BY <1>9 DEF Application, AppStart, AppEnumerate, AppAcceptSetup,
              AppReadReport, Jump_To_Bootloader, Detach
<1> QED
  BY <1>2, <1>3, <1>4, <1>5, <1>6, <1>7, <1>8, <1>9 DEF DeviceNext, Handler

\* A page is erased, and then programmed with an image's page.
LEMMA DeviceBurn ==
  ASSUME "spm" \notin Faults, TypeOK, InFlight, FillInv, BurnInv, DeviceNext,
         UNCHANGED hostVars
  PROVE  BurnInv'
<1> USE DEF TypeOK, BurnInv, PageSteps, workVars, devVars
<1>1. CASE PowerOn \/ PowerLoss \/ WatchdogReset \/ Application_Jump_Check
  BY <1>1 DEF PowerOn, PowerLoss, WatchdogReset, Application_Jump_Check, NoWork
<1>2. CASE MainProgram \/ Timer0Overflow
  BY <1>2 DEF MainProgram, SetupHardware, EnterTask, IdleTask, HandOver,
              Timer0Overflow
<1>3. CASE AcceptSetup \/ ReadAddress \/ PageErase \/ WriteDone \/ FinishRequest
  BY <1>3 DEF AcceptSetup, ReadAddress, PageErase, WriteDone, FinishRequest, NoWork,
              SpmDropped
<1>4. CASE EraseDone
  BY <1>4 DEF EraseDone, SetPage, DeviceTypeOK
<1>5. CASE PageFill
  <2>1. /\ pc = "fill" /\ bank # NoRequest /\ UNCHANGED <<flash, page>>
        /\ buf' = Merge(bank.data)
    BY <1>5 DEF PageFill, SpmDropped
  <2>2. CASE pc' = "fill"
    BY <2>1, <2>2
  <2>3. CASE pc' = "write"
    <3>1. filled + 1 >= PacketsPerPage
      BY <1>5, <2>1, <2>3, GeometryAssumption DEF PageFill, DeviceTypeOK
    <3>2. bank \in Transfers /\ bank.page = page /\ filled + 1 <= bank.packets
          /\ buf' = bank.data
      BY <2>1 DEF InFlight, FillInv, Merge
    <3>3. bank.packets >= PacketsPerPage
      BY <3>1, <3>2, TransferFacts, GeometryAssumption DEF DeviceTypeOK
    <3>4. page \in Pages
      BY DEF DeviceTypeOK
    <3>5. bank.data \in {img[bank.page] : img \in Images}
      BY <3>2, <3>3, <3>4, TransferFacts
    <3>6. buf' \in {img[page] : img \in Images}
      BY <3>2, <3>5
    <3> QED BY <2>1, <2>3, <3>6
  <2>4. pc' \in {"fill", "write"}
    BY <1>5, <2>1 DEF PageFill
  <2> QED BY <2>2, <2>3, <2>4
<1>6. CASE PageWrite
  <2>1. /\ pc = "write" /\ pc' = "writing" /\ UNCHANGED page
        /\ buf' = Programmed(flash[page], buf)
    BY <1>6 DEF PageWrite, SpmDropped
  <2>2. page \in AppPages => buf' = buf
    BY <2>1 DEF Programmed
  <2> QED BY <2>1, <2>2
<1>7. CASE Application \/ Jump_To_Bootloader
  BY <1>7 DEF Application, AppStart, AppEnumerate, AppAcceptSetup,
              AppReadReport, Jump_To_Bootloader
<1> QED
  BY <1>1, <1>2, <1>3, <1>4, <1>5, <1>6, <1>7 DEF DeviceNext, Handler

\* What a step of the device can make of a page, without a dropped SPM: it
\* starts an erase or a write, ends one, or leaves the page.
LEMMA PageStep ==
  ASSUME "spm" \notin Faults, TypeOK, BurnInv, DeviceNext, NEW p \in AppPages,
         flash'[p] # flash[p]
  PROVE  /\ p = page /\ page' = page
         /\ \/ flash'[p] = Corrupt /\ pc' \in {"erasing", "writing"}
            \/ flash'[p] = Blank
            \/ flash'[p] \in {img[p] : img \in Images}
<1>1. p \in Pages
  BY GeometryAssumption DEF AppPages, Pages
<1>2. flash' # flash
  OBVIOUS
<1>3. p = page
  BY <1>1, <1>2, FlashStep
<1>4. PageErase \/ EraseDone \/ PageWrite \/ WriteDone
  <2>1. ~(PowerOn \/ PowerLoss \/ WatchdogReset \/ Application_Jump_Check)
    BY <1>2 DEF PowerOn, PowerLoss, WatchdogReset, Application_Jump_Check
  <2>2. ~(MainProgram \/ Timer0Overflow)
    BY <1>2 DEF MainProgram, SetupHardware, EnterTask, IdleTask, HandOver, Timer0Overflow
  <2>3. ~(Application \/ Jump_To_Bootloader)
    BY <1>2 DEF Application, AppStart, AppEnumerate, AppAcceptSetup,
                AppReadReport, Jump_To_Bootloader, devVars
  <2>4. ~(AcceptSetup \/ ReadAddress \/ PageFill \/ FinishRequest)
    BY <1>2 DEF AcceptSetup, ReadAddress, PageFill, FinishRequest, SpmDropped
  <2> QED BY <2>1, <2>2, <2>3, <2>4 DEF DeviceNext, Handler
<1>5. flash \in [Pages -> Content]
  BY DEF TypeOK, DeviceTypeOK
<1>6. ASSUME NEW c, SetPage(c) PROVE flash'[p] = c
  BY <1>1, <1>3, <1>5, <1>6 DEF SetPage
<1>7. page' = page
  BY <1>4 DEF PageErase, EraseDone, PageWrite, WriteDone
<1>8. CASE PageErase
  BY <1>3, <1>6, <1>7, <1>8 DEF PageErase, SpmDropped
<1>9. CASE EraseDone
  BY <1>3, <1>6, <1>7, <1>9 DEF EraseDone
<1>10. CASE PageWrite
  BY <1>3, <1>6, <1>7, <1>10 DEF PageWrite, SpmDropped
<1>11. CASE WriteDone
  BY <1>3, <1>6, <1>7, <1>11 DEF WriteDone, BurnInv
<1> QED BY <1>4, <1>8, <1>9, <1>10, <1>11

\* Together: the device's side of the invariant.
LEMMA DeviceServe ==
  ASSUME "spm" \notin Faults, TypeOK, ServeInv, DeviceNext, UNCHANGED hostVars
  PROVE  ServeInv'
<1>1. InFlight' /\ AddressInv' /\ FillInv' /\ BurnInv'
  BY DeviceInFlight, DeviceAddress, DeviceFill, DeviceBurn DEF ServeInv
<1>2. PageProvenance'
  <2>1. SUFFICES ASSUME NEW p \in AppPages
                 PROVE  flash'[p] \in {img[p] : img \in Images} \cup {Blank, Corrupt}
    BY DEF PageProvenance
  <2>2. CASE flash'[p] = flash[p]
    BY <2>2 DEF ServeInv, PageProvenance
  <2>3. CASE flash'[p] # flash[p]
    BY <2>3, PageStep DEF ServeInv
  <2> QED BY <2>2, <2>3
<1> QED BY <1>1, <1>2 DEF ServeInv

----------------------------------------------------------------------------
(* The loader's steps *)

\* The loader sends its own transfers, and packets of one at a time.
LEMMA HostServe ==
  ASSUME TypeOK, LoaderInv, ServeInv, HostNext, UNCHANGED devVars
  PROVE  ServeInv'
<1>1. BurnInv' /\ PageProvenance'
  BY DEF ServeInv, BurnInv, PageProvenance, devVars, workVars
<1> USE DEF TypeOK, LoaderInv, ServeInv, InFlight, AddressInv, FillInv, Live, Arrived,
        pipeVars, devVars, workVars
<1>2. CASE StartLoader \/ OpenFails \/ SkipBlock
  BY <1>1, <1>2 DEF StartLoader, OpenFails, SkipBlock
<1>3. CASE OpenDevice
  BY <1>1, <1>3 DEF OpenDevice
<1>4. CASE HardReboot
  BY <1>1, <1>4 DEF HardReboot, Transfers
<1>5. CASE HardRebootDone \/ WriteSucceeds
  BY <1>1, <1>5 DEF HardRebootDone, WriteSucceeds, EndTransfer
<1>6. CASE WriteBlock \/ StartApplication
  <2>1. PICK r \in Transfers : Begin(r) /\ UNCHANGED handle
    BY <1>6, BlockTransfer DEF WriteBlock, StartApplication, HostTypeOK, Transfers
  <2>2. r # NoRequest
    BY TransferFacts
  <2>3. CASE handle = "stale"
    BY <1>1, <2>1, <2>2, <2>3 DEF Begin
  <2>4. CASE handle # "stale"
    BY <1>1, <2>1, <2>2, <2>4 DEF Begin
  <2> QED BY <2>3, <2>4
<1>7. CASE SendPacket
  <2>1. /\ xfer # NoRequest /\ xfer \in Transfers /\ handle = "open"
        /\ setup = NoRequest /\ bank = NoRequest /\ sent < xfer.packets
        /\ bank' = xfer /\ sent' = sent + 1
        /\ UNCHANGED <<handle, setup, xfer, pc, page, buf, filled>>
    BY <1>7 DEF SendPacket
  <2>2. InFlight' /\ AddressInv'
    BY <2>1
  <2>3. sent + 1 <= xfer.packets
    BY <2>1, TransferFacts DEF HostTypeOK
  <2>4. FillInv'
    BY <2>1, <2>3
  <2> QED BY <1>1, <2>2, <2>4
<1>8. CASE NoRebootor \/ TransferFails \/ StartFails \/ Killed
             \/ ExitWithoutStart \/ StartSucceeds
  BY <1>1, <1>8 DEF NoRebootor, TransferFails, StartFails, Killed,
              ExitWithoutStart, StartSucceeds, Exit, EndTransfer
<1> QED
  BY <1>2, <1>3, <1>4, <1>5, <1>6, <1>7, <1>8 DEF HostNext, HostProgram, HostFails

----------------------------------------------------------------------------
(* What the flash holds *)

\* The invariant holds at all times.
LEMMA ServeInvAlways == ASSUME "spm" \notin Faults PROVE Spec => []ServeInv
<1>1. Init => ServeInv
  <2> SUFFICES ASSUME Init PROVE ServeInv
    OBVIOUS
  <2> USE DEF Init, DeviceInit, PipeInit, HostInit
  <2>1. InFlight /\ AddressInv /\ FillInv /\ BurnInv
    BY DEF InFlight, AddressInv, FillInv, BurnInv, Live
  <2>2. PageProvenance
    BY GeometryAssumption DEF PageProvenance, AppPages, Pages
  <2> QED BY <2>1, <2>2 DEF ServeInv
<1>2. TypeOK /\ LoaderInv /\ ServeInv /\ [Next]_vars => ServeInv'
  <2> SUFFICES ASSUME TypeOK, LoaderInv, ServeInv, [Next]_vars PROVE ServeInv'
    OBVIOUS
  <2>1. CASE Next
    BY <2>1, DeviceServe, HostServe DEF Next
  <2>2. CASE UNCHANGED vars
    BY <2>2 DEF vars, devVars, pipeVars, hostVars, workVars, ServeInv, InFlight,
                AddressInv, FillInv, BurnInv, PageProvenance, Live, Arrived
  <2> QED BY <2>1, <2>2
<1>3. UpdateInv => TypeOK /\ LoaderInv
  BY DEF UpdateInv
<1> QED BY <1>1, <1>2, <1>3, UpdateInvariant, PTL DEF Spec

\* A page holds nothing but what some file has for that very page, an erased
\* page, or the rest of an erase or write that lost its power: no packet is
\* ever written under the address of another request, aborted or replaced.
THEOREM PageProvenanceThm == Spec => []PageProvenance
<1>1. CASE "spm" \notin Faults
  <2>1. ServeInv => PageProvenance
    BY DEF ServeInv
  <2> QED BY <1>1, <2>1, ServeInvAlways, PTL
<1>2. CASE "spm" \in Faults
  <2>1. PageProvenance
    BY <1>2 DEF PageProvenance
  <2> QED BY <2>1, PTL
<1> QED BY <1>1, <1>2


\* An image's page is no torn one.
LEMMA ImagePage ==
  \A p \in AppPages : Corrupt \notin {img[p] : img \in Images} \cup {Blank}
BY ImagesAssumption, ContentAssumption, GeometryAssumption DEF AppPages, Pages

\* An erase or write that has begun is ended, goes on, or loses its power.
LEMMA BusyStep ==
  ASSUME TypeOK, BurnInv, [Next]_vars, page \in AppPages, pc \in {"erasing", "writing"}
  PROVE  \/ pc' = pc /\ page' = page
         \/ cpu' = "off"
         \/ flash'[page] \in {img[page] : img \in Images} \cup {Blank}
<1>1. CASE (HostNext /\ UNCHANGED devVars) \/ UNCHANGED vars
  BY <1>1 DEF vars, devVars, workVars
<1> USE DEF TypeOK, workVars, devVars
<1>2. CASE PowerOn \/ PowerLoss \/ WatchdogReset \/ Application_Jump_Check
  BY <1>2 DEF PowerOn, PowerLoss, WatchdogReset, Application_Jump_Check
<1>3. CASE MainProgram \/ Timer0Overflow
  BY <1>3 DEF MainProgram, SetupHardware, EnterTask, IdleTask, HandOver,
              Timer0Overflow
<1>4. CASE AcceptSetup \/ ReadAddress \/ PageErase \/ PageFill \/ PageWrite
             \/ FinishRequest
  BY <1>4 DEF AcceptSetup, ReadAddress, PageErase, PageFill, PageWrite, FinishRequest
<1>5. CASE EraseDone \/ WriteDone
  <2>1. page \in Pages /\ flash \in [Pages -> Content]
    BY DEF DeviceTypeOK
  <2>2. CASE EraseDone
    BY <2>1, <2>2 DEF EraseDone, SetPage
  <2>3. CASE WriteDone
    BY <2>1, <2>3 DEF WriteDone, SetPage, BurnInv
  <2> QED BY <1>5, <2>2, <2>3
<1>6. CASE Application \/ Jump_To_Bootloader
  BY <1>6 DEF Application, AppStart, AppEnumerate, AppAcceptSetup,
              AppReadReport, Jump_To_Bootloader
<1> QED
  BY <1>1, <1>2, <1>3, <1>4, <1>5, <1>6 DEF Next, DeviceNext, Handler

\* Nothing but a power failure leaves a page half erased or half written: not
\* the timer that clears RunBootloader, a loader that is killed or gives up,
\* or the next transfer.
THEOREM OnlyPowerTearsThm == Spec => OnlyPowerTears
<1> DEFINE Untorn == \A p \in AppPages :
             "spm" \notin Faults /\ Torn(p)' => Torn(p) \/ cpu' = "off"
<1>1. CASE "spm" \notin Faults
  <2>1. TypeOK /\ ServeInv /\ [Next]_vars => [Untorn]_vars
    <3> SUFFICES ASSUME TypeOK, BurnInv, [Next]_vars, NEW p \in AppPages, Torn(p)'
                 PROVE  Torn(p) \/ cpu' = "off"
      BY DEF ServeInv
    <3>1. flash'[p] = Corrupt /\ ~(pc' \in {"erasing", "writing"} /\ page' = p)
      BY DEF Torn
    <3>2. flash'[p] \notin {img[p] : img \in Images} \cup {Blank}
      BY <3>1, ImagePage
    <3>3. CASE flash'[p] # flash[p]
      <4>1. DeviceNext
        BY <3>3 DEF Next, vars, devVars
      <4> QED BY <1>1, <3>1, <3>2, <3>3, <4>1, PageStep
    <3>4. CASE flash'[p] = flash[p]
      BY <3>1, <3>2, <3>4, BusyStep DEF Torn
    <3> QED BY <3>3, <3>4
  <2> QED BY <1>1, <2>1, TypeInvariant, ServeInvAlways, PTL DEF Spec, OnlyPowerTears
<1>2. CASE "spm" \in Faults
  <2>1. [Next]_vars => [Untorn]_vars
    BY <1>2
  <2> QED BY <2>1, PTL DEF Spec, OnlyPowerTears
<1> QED BY <1>1, <1>2

----------------------------------------------------------------------------
(* The contract *)

\* The contract's variables, as the update has them.
Store  == [p \in AppPages |-> flash[p]]
Target == [p \in AppPages |-> image[p]]
Phase  == CASE hpc \in {"program", "write", "start"} -> "active"
            [] result = "ok"                         -> "ok"
            [] OTHER                                 -> "idle"
Acked  == IF hpc \in {"program", "write", "start"} \/ result = "ok"
            THEN {p \in Used(image) \cap AppPages : p < block \/ result = "ok"}
            ELSE {}
Required == {p \in AppPages : p = 0 \/ Target[p] # Blank}
Targets  == {[p \in AppPages |-> img[p]] : img \in Images}

ContractStep ==
  \/ /\ Phase # "ok"
     /\ \E p \in AppPages \ Acked, v \in Content : Store' = [Store EXCEPT ![p] = v]
     /\ UNCHANGED <<Target, Acked, Phase>>
  \/ /\ Phase = "active"
     /\ \E p \in Required : Store[p] = Target[p] /\ Acked' = Acked \cup {p}
     /\ UNCHANGED <<Store, Target, Phase>>
  \/ /\ Phase = "active" /\ Acked = Required
     /\ Phase' = "ok"
     /\ UNCHANGED <<Store, Target, Acked>>
  \/ /\ Phase = "active"
     /\ Phase' = "idle" /\ Acked' = {}
     /\ UNCHANGED <<Store, Target>>
  \/ /\ Target' \in Targets /\ Acked' = {} /\ Phase' = "idle"
     /\ UNCHANGED Store
  \/ /\ Phase = "idle"
     /\ Target' \in Targets /\ Acked' = {} /\ Phase' = "active"
     /\ UNCHANGED Store
  \/ UNCHANGED <<Store, Target, Acked, Phase>>

\* That is the contract's next-state relation.
LEMMA ContractStepIs ==
  ASSUME ContractStep
  PROVE  [Contract!ContractNext]_(Contract!contractVars)
BY DEF ContractStep, Store, Target, Phase, Acked, Required, Targets,
       Contract!ContractNext, Contract!contractVars, Contract!Disturb,
       Contract!Acknowledge, Contract!Succeed, Contract!Fail, Contract!Choose

\* The loader's location gives the phase.
LEMMA PhaseOf ==
  /\ hpc \in {"program", "write", "start"} /\ result # "ok" => Phase = "active"
  /\ hpc \notin {"program", "write", "start"} /\ result = "ok" => Phase = "ok"
  /\ hpc \notin {"program", "write", "start"} /\ result # "ok" => Phase = "idle"
BY Zenon DEF Phase

\* The required pages are the used ones.
LEMMA RequiredPages ==
  ASSUME image \in Images
  PROVE  Required = Used(image) \cap AppPages
<1>1. AppPages \subseteq Pages /\ \A p \in AppPages : Target[p] = image[p]
  BY GeometryAssumption DEF AppPages, Pages, Target
<1> QED BY <1>1 DEF Required, Used

\* A step of the device disturbs a page that is not acknowledged, or none.
LEMMA DeviceContract ==
  ASSUME "spm" \notin Faults, UpdateInv, DeviceNext, UNCHANGED hostVars
  PROVE  ContractStep
<1>1. UNCHANGED <<hpc, result, image, block>>
  BY DEF hostVars
<1>2. UNCHANGED <<Target, Acked, Phase>>
  BY <1>1, Zenon DEF Target, Acked, Phase, Used
<1>3. TypeOK /\ BusInv /\ LoaderInv /\ QuietInv /\ WriteInv
  BY DEF UpdateInv
<1>4. AppPages \subseteq Pages /\ flash \in [Pages -> Content] /\ flash' \in [Pages -> Content]
  <2>1. TypeOK'
    BY <1>3, DeviceStepTyped
  <2> QED BY <1>3, <2>1, GeometryAssumption DEF TypeOK, DeviceTypeOK, AppPages, Pages
<1>5. CASE Store' = Store
  BY <1>2, <1>5, Zenon DEF ContractStep
<1>6. CASE Store' # Store
  <2>1. flash' # flash
    BY <1>6 DEF Store
  <2>2. pc \in PageSteps /\ (\A p \in Pages : p # page => flash'[p] = flash[p])
    BY <1>3, <2>1, FlashStep
  <2>3. /\ result # "ok" /\ hpc # "start"
        /\ hpc = "program" => block = 0
        /\ hpc = "write" => block = 0 \/ page = block
    BY <1>3, <2>2, HandlerBlock
  <2>4. page \in AppPages
    <3>1. SUFFICES ASSUME page \notin AppPages PROVE FALSE
      OBVIOUS
    <3>2. \A p \in AppPages : flash'[p] = flash[p]
      BY <1>4, <2>2, <3>1
    <3>3. Store' = Store
      BY <3>2 DEF Store
    <3> QED BY <1>6, <3>3
  <2>5. page \notin Acked
    <3>1. page \in Nat
      BY <2>4, GeometryAssumption DEF AppPages
    <3>2. ~(page < block) \/ hpc \notin {"program", "write"}
      BY <2>3, <3>1
    <3> QED BY <2>3, <3>2 DEF Acked
  <2>6. Store' = [Store EXCEPT ![page] = flash'[page]] /\ flash'[page] \in Content
    BY <1>4, <2>2, <2>4 DEF Store
  <2>7. Phase # "ok"
    BY <2>3, PhaseOf
  <2> QED BY <1>2, <2>4, <2>5, <2>6, <2>7, Zenon DEF ContractStep
<1> QED BY <1>5, <1>6

\* A step of the loader chooses a file, acknowledges a page, succeeds, fails
\* or is not seen.
LEMMA HostContract ==
  ASSUME "spm" \notin Faults, UpdateInv, HostNext, UNCHANGED devVars
  PROVE  ContractStep
<1>1. /\ TypeOK /\ BusInv /\ LoaderInv /\ QuietInv /\ WriteInv /\ PrefixInv
      /\ image \in Images /\ block \in 0..(LastPage + 1)
      /\ result = "ok" => hpc = "idle"
  BY DEF UpdateInv, TypeOK, HostTypeOK, LoaderInv
<1>2. UNCHANGED Store
  BY DEF Store, devVars
<1>3. \A p \in AppPages : p \in Pages /\ p \in Nat /\ p < LastPage + 1
  BY GeometryAssumption DEF AppPages, Pages
<1>4. image' \in Images
  BY <1>1, HostStepTyped DEF TypeOK, HostTypeOK
<1>5. Target' \in Targets
  BY <1>4 DEF Target, Targets
<1>6. ASSUME UNCHANGED <<hpc, result, image, block>> PROVE ContractStep
  <2>1. UNCHANGED <<Target, Acked, Phase>>
    BY <1>6, Zenon DEF Target, Acked, Phase, Used
  <2> QED BY <1>2, <2>1, Zenon DEF ContractStep
<1>7. CASE StartLoader \/ HardReboot \/ HardRebootDone \/ OpenFails
             \/ (Exit("failed") /\ hpc \notin {"program", "write", "start"})
  <2>1. hpc' \notin {"program", "write", "start"} /\ result' # "ok"
    BY <1>1, <1>7 DEF StartLoader, HardReboot, HardRebootDone, OpenFails, Exit
  <2>2. Phase' = "idle" /\ Acked' = {}
    BY <2>1, Zenon DEF Phase, Acked
  <2> QED BY <1>2, <1>5, <2>2, Zenon DEF ContractStep
<1>8. CASE OpenDevice
  <2>1. hpc = "open" /\ hpc' = "program" /\ block' = 0 /\ result # "ok" /\ result' # "ok"
    BY <1>1, <1>8 DEF OpenDevice
  <2>2. Phase = "idle" /\ Phase' = "active"
    BY <2>1, Zenon DEF Phase
  <2>3. Acked' = {}
    BY <1>3, <2>1 DEF Acked
  <2> QED BY <1>2, <1>5, <2>2, <2>3, Zenon DEF ContractStep
<1>9. CASE SkipBlock
  <2>1. /\ hpc = "program" /\ block \notin Used(image) /\ block' = block + 1
        /\ UNCHANGED <<hpc, image, result>>
    BY <1>9 DEF SkipBlock
  <2>2. UNCHANGED <<Target, Phase>>
    BY <2>1, Zenon DEF Target, Phase
  <2>3. \A p \in Used(image) \cap AppPages : p < block' <=> p < block
    BY <1>1, <1>3, <2>1
  <2>4. UNCHANGED Acked
    BY <2>1, <2>3 DEF Acked
  <2> QED BY <1>2, <2>2, <2>4, Zenon DEF ContractStep
<1>10. CASE WriteBlock \/ StartApplication
  <2>1. /\ hpc = "program" /\ hpc' \in {"write", "start"}
        /\ UNCHANGED <<image, block, result>> /\ result # "ok"
    BY <1>1, <1>10 DEF WriteBlock, StartApplication
  <2>2. Phase = "active" /\ Phase' = "active"
    BY <2>1, Zenon DEF Phase
  <2>3. UNCHANGED <<Target, Phase, Acked>>
    BY <2>1, <2>2, Zenon DEF Target, Acked, Used
  <2> QED BY <1>2, <2>3, Zenon DEF ContractStep
<1>11. CASE WriteSucceeds
  <2>1. /\ hpc = "write" /\ hpc' = "program" /\ block' = block + 1
        /\ UNCHANGED <<image, result>> /\ handle = "open" /\ reply
    BY <1>11 DEF WriteSucceeds, Complete
  <2>2. result # "ok" /\ block \in Used(image)
    BY <1>1, <2>1 DEF LoaderInv
  <2>3. block \in AppPages => flash[block] = image[block]
    BY <1>1, <2>1 DEF WriteInv, Unseen, Addressed, Erasing, Filling, Programming,
                      Acknowledged, BlockHolds
  <2>4. UNCHANGED Target /\ Phase = "active" /\ Phase' = "active"
    BY <2>1, <2>2, Zenon DEF Target, Phase
  <2>5. \A p \in Used(image) \cap AppPages : p < block' <=> (p < block \/ p = block)
    BY <1>1, <1>3, <2>1
  <2>6. CASE block \in AppPages
    <3>1. Acked' = Acked \cup {block}
      BY <2>1, <2>2, <2>5, <2>6 DEF Acked
    <3>2. block \in Required
      BY <1>1, <2>2, <2>6, RequiredPages
    <3>3. Store[block] = Target[block]
      BY <2>3, <2>6 DEF Store, Target
    <3> QED BY <1>2, <2>4, <3>1, <3>2, <3>3, Zenon DEF ContractStep
  <2>7. CASE block \notin AppPages
    <3>1. UNCHANGED Acked
      BY <2>1, <2>2, <2>5, <2>7 DEF Acked
    <3> QED BY <1>2, <2>4, <3>1, Zenon DEF ContractStep
  <2> QED BY <2>6, <2>7
<1>12. CASE ExitWithoutStart \/ StartSucceeds \/ StartFails
  <2>1. block = LastPage + 1 /\ hpc \in {"program", "start"} /\ result # "ok"
        /\ hpc' = "idle" /\ result' = "ok" /\ UNCHANGED image
    BY <1>1, <1>12 DEF ExitWithoutStart, StartSucceeds, StartFails, Exit, LoaderInv
  <2>2. Phase = "active" /\ Phase' = "ok" /\ UNCHANGED Target
    BY <2>1, Zenon DEF Phase, Target
  <2>3. Acked = Used(image) \cap AppPages
    BY <1>3, <2>1 DEF Acked
  <2>4. Acked' = Used(image) \cap AppPages
    BY <2>1 DEF Acked
  <2>5. Acked = Required /\ Acked' = Acked
    BY <1>1, <2>3, <2>4, RequiredPages
  <2> QED BY <1>2, <2>2, <2>5, Zenon DEF ContractStep
<1>13. CASE Exit("failed") /\ hpc \in {"program", "write", "start"}
  <2>1. hpc' = "idle" /\ result' = "failed" /\ UNCHANGED image /\ result # "ok"
    BY <1>1, <1>13 DEF Exit
  <2>2. Phase = "active" /\ Phase' = "idle" /\ Acked' = {} /\ UNCHANGED Target
    BY <1>13, <2>1, Zenon DEF Phase, Acked, Target
  <2> QED BY <1>2, <2>2, Zenon DEF ContractStep
<1>14. CASE SendPacket
  BY <1>6, <1>14 DEF SendPacket
<1>15. CASE NoRebootor \/ TransferFails \/ Killed
  BY <1>7, <1>13, <1>15 DEF NoRebootor, TransferFails, Killed
<1> QED
  BY <1>7, <1>8, <1>9, <1>10, <1>11, <1>12, <1>14, <1>15
  DEF HostNext, HostProgram, HostFails

\* The loader and the controller keep the contract of an update: pages are
\* acknowledged only when they hold their image, stay so until the session
\* ends, and success means all of them, whatever aborts, power failures and
\* timeouts come between.
THEOREM KeepsContractThm == ASSUME "spm" \notin Faults PROVE Spec => KeepsContract
<1>1. Init => Contract!ContractInit
  <2> SUFFICES ASSUME Init PROVE Contract!ContractInit
    OBVIOUS
  <2>1. TypeOK
    BY InitTyped
  <2>2. hpc = "idle" /\ result = "none" /\ image \in Images /\ flash \in [Pages -> Content]
    BY <2>1 DEF Init, HostInit, TypeOK, DeviceTypeOK
  <2>3. Store \in [AppPages -> Content]
    BY <2>2, GeometryAssumption DEF Store, AppPages, Pages
  <2>4. Target \in Targets
    BY <2>2 DEF Target, Targets
  <2>5. Acked = {} /\ Phase = "idle"
    BY <2>2, Zenon DEF Acked, Phase
  <2> QED
    BY <2>3, <2>4, <2>5, Zenon
    DEF Contract!ContractInit, Store, Target, Targets, Acked, Phase
<1>2. UpdateInv /\ [Next]_vars => [Contract!ContractNext]_(Contract!contractVars)
  <2> SUFFICES ASSUME UpdateInv, [Next]_vars PROVE ContractStep
    BY ContractStepIs
  <2>1. CASE Next
    BY <2>1, DeviceContract, HostContract DEF Next
  <2>2. CASE UNCHANGED vars
    <3>1. UNCHANGED <<hpc, result, image, block, flash>>
      BY <2>2 DEF vars, hostVars, devVars
    <3>2. UNCHANGED <<Store, Target, Acked, Phase>>
      BY <3>1, Zenon DEF Store, Target, Acked, Phase, Used
    <3> QED BY <3>2, Zenon DEF ContractStep
  <2> QED BY <2>1, <2>2
<1> QED
  BY <1>1, <1>2, UpdateInvariant, PTL DEF Spec, KeepsContract, Contract!ContractSpec
=============================================================================
