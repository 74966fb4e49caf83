# TLA+ verification of the TERES repository

The repository holds the software and hardware of the TERES laptop: the
firmware of its keyboard controller and the tool that updates it
(`DIY-LAPTOP/SOFTWARE/A64-TERES/TERES-KBD-RELEASE`, below `KBD`), scripts and
daemons of the laptop (`DIY-LAPTOP/SOFTWARE/A64-TERES`), and the COD5, a
computer on the GateMate FPGA (`TERES-GMA1`), with the tools that build it.
Most of its files are schematics, layouts, device trees and images.  This
directory models the parts that have state and concurrency.

## 1. Inventory

### Firmware update

| part | code | state | operations |
|---|---|---|---|
| host loader | `KBD/BootLoaderHID/HostLoaderApp/hid_bootloader_cli.c` | image read from the HEX file, block counter, USB handle, exit status | find device, hard reboot, write a block, retry until time-out, start the application |
| USB control pipe | `teensy_write` on one side, `HID_Device_ProcessControlRequest`/`EVENT_USB_Device_ControlRequest` on the other | SETUP received, data packets sent and banked, status stage | SETUP, OUT packet, status, STALL, time-out, cancellation, detach |
| bootloader | `KBD/BootLoaderHID/BootloaderHID.c` | `RunBootloader`, `boottime`, `MagicBootKey`, watchdog and its flag, page buffer, flash | reset and jump check, main loop, page request (wait for address, erase, fill, write, acknowledge), start request, timer interrupt, hand-over by watchdog |
| application, as the update sees it | `KBD/TERES-HID/KeyboardMouse.c` | runs or not | start-up, `Jump_To_Bootloader` on Fn+Tux+ESC |

They interact through the pipe (one transfer at a time), through resets, and
through two bytes that survive them (`MagicBootKey`, `MCUSR`).  Hard: a power
failure or a given-up transfer at any step; busy waits in a handler that later
packets resume; interrupts between a store and the instruction it arms;
time-outs on both sides.  Correct means: a loader that reports success has
flashed its file; a torn page comes only from a power failure; a blank
application is never entered; key presses lead to the bootloader, and an idle
bootloader to the application; nobody waits for ever.

### Keyboard and touchpad firmware

`KBD/TERES-HID/KeyboardMouse.c`: the main loop makes keyboard reports (key
scan) and mouse reports (touchpad, buttons) and shares two dozen variables
with three interrupt handlers (touchpad `INT2`, 60 Hz `TIMER0_OVF`, button
ladder `ADC`), without masking.  Hard: every access of the main loop can be
split from the next.  Correct means: a tap is one click at most, palm rejection
ends by itself, a pad that is switched off is quiet.

### COD5

| part | code (`TERES-GMA1/common/src`) | state | operations |
|---|---|---|---|
| asynchronous FIFO | `async_fifo.v` | memory, binary and Gray pointers, synchronisers, flags, in two clock domains | write edge, read edge, reset |
| display beam | `display.v`, `c5_soc.v` | beam position, `O_read`, `O_sync` | pixel clock, frame synchronisation (resets the FIFO) |
| UART | `uart.v`, bus in `c5_soc.v` | transmitter and receiver state, counters, shift registers, ready and busy | clock edge, bus write, bus read |
| SD card, SPI master | `sdcard.v`, `spi_master.v` | two coupled state machines | clock edge, `I_cmd_init` |
| arbiter, bus, RAM | `c5_arbiter.v`, `c5_soc.v`, `c5_ram.v` | grant mask, RAM | clock edge |
| CPU | `c5_cpu.v`, `c5_fetch.v`, `c5_decode.v`, `c5_instr_mem.v` | program counter | fetch; decode and execute do not exist yet |
| TMDS encoder, ternary arithmetic | `tmds_encoder.v`, `ternary.v` | running disparity; none | combinational |

Hard: two clocks without a relation, registers read one edge late by the
neighbour, resets that reach some registers only.  Correct means: FIFO, UART
and SPI are queues of words, bytes and bytes; nothing waits for ever; the SD
card gets what its standard asks for.

### Build tool

`TERES-GMA1/tools/build.c` reads `tasks.json` and runs a task after the tasks
it depends on.

| part | lines | state | operations |
|---|---|---|---|
| JSON reader | 40-760, 860-892 | a stack with one object per nesting level; no tree | `json__get`, `json__get_next`, `json__parse`, the recursive `json__visitor` |
| task list | 943-1145 | list of tasks with slots for arguments and dependencies | `bld__gather_tasks` for every value visited, `bld__args` |
| runner | 1150-1404 | C stack of `bld__depends`, `done` of each task, working directory, child process | `bld__make`, `bld__depends`, `bld__exec`, `_spawnvp` |

The reader calls the task list back for each value; the runner walks the list.
Hard: objects that are rewritten while their parents are in use, a text that is
scanned again from the middle for each member, members in any order, graphs
with diamonds and cycles, system calls that fail unnoticed.  Correct means:
every value is seen once, a command runs as the file says, once, and after
what it depends on; the tool ends.

### Daemons

`A64-TERES/teres1-ledctrl` copies LED events of the keyboard to GPIOs and opens
the device again when it vanishes.  `A64-TERES/teres1-audioselect` sets the
mixer from the jack's register and ends; systemd starts it again.  Hard: kills
and restarts between two commands, events around a reopening.  Correct means:
LEDs show the locks, one output is on, the mixer comes to follow the jack.

### Other tools and scripts

`cod5asm.c`, `bin2ter.c`, `dump2v.c` (file conversion), `monitor.c` (serial
terminal), `teres1-debug`, image scripts: straight-line programs.

`PROJECT.json` lists every component with its status, and the hazards of the
code, each at its line, with the properties that cover it.

## 2. Plan

Order by what can go wrong and how little a test would see of it:

1. *(done)* firmware update: `ControlPipe`, `Bootloader`, `HostLoader`, their
   composition `FirmwareUpdate`, the contract `UpdateContract`; proofs.
2. *(done)* `AsyncFifo` with `GrayCode`, against the queue `WordQueue`.
3. *(done)* `TouchPad`.
4. *(done)* `Uart` (against `WordQueue`), `SpiMaster` and `SdCard`.
5. *(done)* the build tool: `JsonReader`, `TaskList`, `Builder`, against
   `BuildContract`.
6. *(done)* `HexFile`, the other half of the loader; the daemons `AudioSelect`
   and `LedControl`, together `Laptop`.
7. `SocBus`: arbiter, address decoding and RAM latency; who gets a grant, and
   whether the word a master latches is the one it asked for.
8. Pure algorithms with reference definitions: `TernaryAdders` and the other
   circuits of `ternary.v` against integers (the row `0 +` of the half adder,
   line 393, gives 0), the TMDS encoder against DC balance, the key scan with
   its limit of six keys.
9. *(done)* Proofs of every safety property of update, FIFO, touchpad, UART, SD
   card, HEX file and LED daemon (section 6).
10. *(done)* Proofs about the runner of the build tool: what it executes, in
   which order, and how deep it recurses.

At most twelve runs are kept, one per question.

## 3. Modules

| module | models | extends / instances |
|---|---|---|
| `ControlPipe` | the one outstanding SET_REPORT transfer and the endpoint's bank | - |
| `Bootloader` | the controller | `ControlPipe` |
| `HostLoader` | `main` of the loader | `ControlPipe` |
| `FirmwareUpdate` | both, joined; all properties of the update | `Bootloader`, `HostLoader`, `UpdateContract` |
| `UpdateContract` | what an update promises: the store changes only while an update is active or power fails; success needs every needed page acknowledged and in place | - |
| `FirmwareUpdateProofs` | theorems about the update, page contents and the contract | `FirmwareUpdate` |
| `WordQueue` | a bounded queue with an output register | - |
| `GrayCode` | the Gray code of `async_fifo.v`, bit by bit | - |
| `AsyncFifo` | FIFO and display | `WordQueue` |
| `TouchPad` | main loop and interrupt handlers | - |
| `Uart` | transmitter, receiver, line | `WordQueue` |
| `SpiMaster`, `SdCard` | SPI master; controller on top of it, sharing the clock | `SdCard` extends `SpiMaster` |
| `JsonReader` | the reader of `build.c`, as operators on its stack of objects | - |
| `TaskList` | the tasks gathered from the values it reports | `JsonReader` |
| `Builder` | the build tool as a process | `TaskList`, `BuildContract` |
| `BuildContract` | what running a task promises: each command once, after what it depends on, none after a failure | - |
| `HexFile` | the loader's HEX parser, second reading, and block loop | - |
| `AudioSelect`, `LedControl` | the two daemons | - |
| `Laptop` | both daemons, user and systemd; their properties | `AudioSelect`, `LedControl` |
| `AsyncFifoProofs`, `TouchPadProofs`, `UartProofs`, `SdCardProofs`, `HexFileProofs`, `LaptopProofs`, `BuilderProofs` | theorems about the module of that name | that module |
| `MC...` | instances for TLC | the module of that name |

An operator marked `mutant:` is a plausible bug of the code; no specification
uses it.  `PROJECT.json` names for each property the mutant that violates it.

### Firmware update: how the model corresponds to the code

The controller's `cpu` tells what runs (off, in reset, bootloader, application
starting, running, or spinning for a reset); `pc` is the location in the
bootloader: `loop` is the head of `main`'s `while (RunBootloader)`, `task` is
`USB_USBTask`, `address` and `fill` are the two busy waits of the request
handler (lines 168 and 200), `erase`, `erasing`, `write`, `writing` the SPM
instructions and the waits behind them, `finish` the status stage, `halt` the
`for(;;)` that waits for the watchdog.  A page's 128 bytes arrive in
`PacketsPerPage` packets; one fill step stands for one packet's loop of words.
Page contents are model values; `Blank` is an erased page and, in an
image, a page the file has no byte for (a block of explicit 0xFF bytes is sent
like any other, which `HexFile` models; the images here have none but page 0);
`Corrupt` is a page that
lost power or was mixed from two requests.  `FinishRequest` sends no status packet
for a transfer that a new SETUP has replaced (`reply' = (setup = NoRequest)`): that
is not in lines 215-218 but assumed of the USB hardware.  What the start-up code
and the reset do to RAM is in `Application_Jump_Check` and `SetupHardware`.

A request is a record of page, content and packet count; the loader's `reboot`
message is the 6-byte request that a bootloader takes for a page request cut
short (`RebootRequest`).  The timer interrupt is an action of its own, enabled
whenever the bootloader has interrupts on; with the fault `spm` it may fall
between SPMCSR and SPM.

The fuses and lock bits are those of the makefile: every reset enters the
bootloader, and SPM does nothing in the bootloader's section.

### FIFO

A clock edge of either side, or both at once, is an action: all registers of
the domain change together.  A synchroniser's first stage that samples a code
in the edge that changes it gets any mixture of old and new bits (`Sample`),
which is where the Gray code matters.  `raster` reduces the beam to the parts
of a frame (`top`, after a system reset; `sync`; `porch`; `draw`).  The
producer is the bus master that would drive `display_write`, which `c5_soc.v`
leaves open: it writes at any edge but heeds `O_write_full` (`Obedient`).
Between a system reset and the first `O_sync` the FIFO may hand out anything
(`O_read` has no reset): the queue is claimed from the first frame on.
`WordQueue` may `Clear` at any step, as a system reset or frame synchronisation
may come at any: that no words are lost without a reset is for `WordsArrive` to
show, not for the refinement.

### Touchpad

`at` is the main loop's position; between any two positions interrupts may
run.  The steps are cut where shared variables are read and written:
`tp_guarder`'s two statements, the load and the store of `MR_B |= mouse`, the
switch on `tpdata[2]`, `time_zero = 0`, `lastfingers = tpdata[2]`, the copy into
the report, `MR_B = 0`.  Whether a touch moved, turned the wheel or stayed near
its start is free.  `tpdata` is not volatile: the second read of `tpdata[2]` may
be the first one's value.  The scan of the
key matrix is not translated: what matters here is whether the main loop found a
key typed, the F3 switch (510-527), or neither, and that is a free choice.

### UART, SPI, SD card

One action per clock edge.  In `Uart` the boards' edges interleave freely as
long as one clock does not gain more than `Skew` edges on the other from the
start of a byte; a simultaneous edge is one of the two orders, as only one wire
connects them.  `lead` starts at `Skew`: after a reset the receiver's edge
comes first (see Known divergences).  In `SdCard` controller and SPI master change in the same edge,
each from the other's old registers.  The card is external: it answers every
byte with any of `Answers`, at mode-0 timing.

### Build tool

A text is a sequence of tokens; `pos` is a token position.  The bytes inside a
token matter in one place, `LastRead`: `json__pop` sets `value_end` one byte
before the closer and `json__get` stops before it.  `JsonReader` keeps the
stack `struct json__tree` as a function from depth to object, with the state
machine of `json__get`'s loop one operator per `case`; `Get` is one call.
`Builder` turns the two recursions into stacks: `frames` for `json__visitor`,
`calls` for `bld__depends`, whose `todo` is what is left of its two loops: pairs of
a slot of `dependsOn` and a task of the list, taken slot by slot and in a slot in
the order of the list.  `Docs` pairs a text with the tasks its author means by it;
a label names one task there (with two, the tool would run both).
`MaxCalls` activations fit the C stack; one more is the location `crash`.
`dir` is the chain of relative `chdir`s since the start, and `job.old` what
`getcwd` returned.  Commands succeed or fail freely; `fork`, `execve` and `chdir`
may fail where `Faults` allows it, and `lost` marks a command that never ran while
`_spawnvp` returned 0.  No result of `chdir` is looked at, so each call, to the
task's directory and back (1204, 1250, 1254), may leave the process where it is; the
history variable `astray` records that one has.  A `getcwd` that fails (1192) is
met as a `chdir` back that fails.

### HEX file

`ReadLine` is one turn of `read_intel_hex`'s loop with `parse_hex_line`; the
file is chosen line by line, so that the second reading may find another.
`lines` is history: every line of this reading, also the one that ends it.  From
it `FileByte` says what a file means: the last good record that covers an address,
at the base of the last good extended address; and `Broken` which lines a file
that is sent cannot have: those that are no record, and data records with a wrong
checksum or beyond the memory.
The two scales of an extended address (16 and 64K bytes) are `Paragraph` and
`MaxMemory`.  `HostLoader` goes on where this module ends: there the image is
given and the transfers are modelled.

### Daemons

Each amixer command and each GPIO export is a step; kills come between any two.
`main` looks for `debug=on` in `/boot/uEnv.txt`, line by line (`ReadLine`).
`readLine` of `teres1-audioselect.c` (line 75) returns a local array, so that `main`
may find the line, an empty one or another.  An empty line is the only way out:
`readLine` keeps `getc`'s result in a `char`, which has no sign on the laptop's
aarch64 and never equals `EOF`, so behind the last line it enlarges its buffer
until `realloc` fails or the process is ended (`UenvFails`, which also stands for
the other `exit(1)`s and for an access to the dead array that faults).  A failing
`open` or `mmap` of `/dev/mem` is `MemFails`.  The loop that reads jack events is
never entered, as `device` is never set: the program ends there, and systemd's
`Restart=always` makes it poll.  In `LedControl` the kernel's queue loses what
is unread when the device goes; setting a GPIO's direction to `out` drives it
low.

## 4. Runs

| run | checks | bounds |
|---|---|---|
| `UpdateFaults` | `TypeOK`, `UpdateInv`, `SuccessMeansFlashed`, `KeyConsumed`, `NeverRunsBlank`, `PageProvenance`, `OnlyPowerTears`, refinement `KeepsContract`; power failures and aborted transfers at every step | 4 pages of which 3 are the application's, 2 packets a page, time-out of 1 tick, the images of `MCFirmwareUpdate` |
| `UpdateLiveness` | `LoaderReturns`, `KeysReachBootloader`, `ApplicationStarts`, with dropped SPM instructions | as above, smaller images |
| `WedgedHandler` (violation) | `ClearedFlagAborts` | |
| `FifoWords` | `FifoTypeOK`, `ReadsSettledWord`, refinement `KeepsWords`, `WordsArrive`, `FullClears` | depth 4, 2 words |
| `TouchTaps` | `ClickOnce` | short tick counts in the order of the real ones, 0 to 3 fingers, one button |
| `TouchGuard` | `GuardCounts`, `GuardEnds`, `LockedPadQuiets`, `TapTaken` | 0 or 1 finger, keys typed at any time |
| `UartLink` | `UartTypeOK`, refinement `KeepsBytes`, `BytesArrive` | 11 edges a bit, 4 bytes, either clock up to 2 edges ahead in a byte |
| `SdInit` | `SdTypeOK`, `PowerUpClocks`, `CardHearsCommand`, `BytesExchanged`, `SelectSteady`, `InitEnds` | 2 clocks a half bit, 2 polls, 1 retry, 3 answers |
| `Build` | `ReadsFile`, `RunsAsWritten`, `TargetMade`, refinement `RunsGraph`, `BuildEnds` | the files of `MCBuilder`: all 512 graphs of three tasks, 192 orders of a task's members, some 900 small shapes, compact, cut and broken ones; 6 levels, 5 slots |
| `BuildCycle` (violation) | `NoEndlessRecursion` | all graphs of three tasks, 6 activations |
| `Hex` | `ImageIsFile`, `ProgramsFile`, on good and broken lines | 8 bytes of memory, parts of 3 blocks of 2 and 2 of 4, two readings of up to 3 lines each |
| `Laptop` | `LedShowsLock`, `SoundComesBack`, `MixerFollowsJack`; what precedes the mixer may fail every time | no `uEnv.txt`, one with an empty line, one without that has `debug=on`; one kill of the audio daemon, LED daemon restarted at will, one event queued |

Why the bounds suffice.  *Update:* one page before, one at and one behind the
block being written, and one in the bootloader's section; two packets are the
least with a packet that completes a page and one that does not; the images
are a large one, a small one that leaves a page unused and has another content
on its last page, and one that runs into the bootloader's section.  The theorems hold for all values.
*FIFO:* with depth 4 the pointers wrap, full and empty are two words apart, and
all four synchroniser stages can hold different values; with depth 2 the Gray
code degenerates.  *Touchpad:* the code compares the counts with each other and
with 0 and 1 only, so their order counts; saturation is above the largest.
*UART:* the latency of the start-bit detection (3 edges) and half a bit (5) are
in the right order, as at the real 416 edges; 2 edges of lead are the most that
leave the receiver inside the bits (`half + 2 * Skew + 2 <= period + 1`), with 3
the link fails.  At 416 edges the bound is 103 edges a byte, or 2 per cent.  The bytes have no
edge, most edges, and no symmetry.  *SD:* the number of clocks before the
command is the real one; polls and retries end by counting down, one and two
steps show both branches.

*Build:* three tasks hold every shape the recursion tells apart: a chain, a
diamond's shared task, a cycle with and without the target, a self-dependency;
values four levels below the root have tasks' depth, and the nesting files go
to and beyond the reader's limit.  *HEX:* three lines are an extended address
and two records that overlap or touch; the records start and end at, before
and behind every block's and the memory's end.  *Daemons:* a second kill only
repeats the first, as the daemon starts from the register each time; the two
LEDs do not wait for each other, so one queued event suffices to meet the
exports and a reopening.  The three `uEnv.txt` files are one that is not opened, one
that can be left, and one that can be left by `debug=on` or a misread line only.

`CHECK_DEADLOCK` is off in `Hex`, whose program ends, and on everywhere else.

### What the violations mean

* `WedgedHandler`: the comment at `BootloaderHID.c:48-50` says that clearing
  `RunBootloader` aborts the bootloader; in the handler's busy waits it does
  not.  A hard reboot that hits the bootloader itself
  (`hid_bootloader_cli.c:297-301`) gets there.
* `BuildCycle`: the parameter `p` of `bld__depends` is a "tree to check that we
  are not in infinite recursion" (`build.c:1271`), but the loop compares the task
  with `p->current`, its caller, in every turn (line 1287): two tasks that depend
  on each other recurse without end.  `RecursionEndsThm` has the other side: a
  cycle is the only way.

### Known divergences

Where the code does less than a comment says or a reader expects, the
properties above are stated for what it does.  Met while modelling:

* update: a timer interrupt between SPMCSR and SPM drops an erase
  (`BootloaderHID.c:190`); block 0 does not "erase the chip"
  (`hid_bootloader_cli.c:158-159`), pages the new file does not use keep the old
  image; an extended address with a wrong checksum is skipped and the file sent,
  with what follows at the base before it (860, 869: `return 1`), although
  `parse_hex_line` "returns a 1 if the line was valid, or a 0 if an error occurred"
  (823-826); a file without an end record is accepted;
  `ihex_get_data` blanks the last block of a 64K part (909);
* FIFO: the FIFO of "32 words" (`async_fifo.v:26`) drops the 32nd;
* touchpad: a click that an interrupt adds to `MR_B` between the copy into the
  report and `MR_B = 0` (`KeyboardMouse.c:799-802`) is lost; `ClickOnce` says at most
  once, and `TapTaken` that a tap does not stay pending, not that it is reported;
* UART: a write in the transmitter's last bit time is acknowledged ("operation
  complete", `uart.v:33`) and dropped; `in_p0` is reset to 0, so a start bit that is
  on the line at the receiver's first edge after its reset is not seen, and the
  receiver may take a later edge of the byte for one;
* build tool: a value of one byte right before a closer is not read (`[7]`,
  lines 245 and 371), so `Readable` asks for a space; a text nested exactly
  `json__MAX_DEPTH` deep is visited for ever; numbers and keywords in an array
  end its reading; a task that depends on itself, and a command that fails,
  end the tool with status 0, in the first case with the work undone; a `dependsOn`
  that is a string is ignored; a failed `fork` or `execve` counts as success, so
  that the tasks that depend on the lost command run without what it would have
  made, although `_spawnvp` is to "Execute command and wait until it terminates"
  (1149); after a `chdir` that failed (1204, 1250, 1254) a command may run in the
  directory of another task, or of none;
* audio daemon: a `uEnv.txt` without an empty line keeps the program from ever
  setting the mixer (90-93, 105), unless a misread line lets it out; a failing
  `/dev/mem` ends it before the first command, and systemd tries for ever; the jack
  is not watched, against the header comment (5-8); the
  status bits are tested with `&&` (161, 168), so headphones select the headset's
  microphone too.

## 5. Fairness

* Update: the controller executes (weak fairness of each part of its program,
  of the timer and of the armed watchdog), host program and host controller are
  scheduled; the host's `usb_control_msg` has a time-out, so a transfer that
  cannot complete fails.  Strong fairness only for `AppStart`: the watchdog
  leaves the application at least 15 ms and its first statement disarms it.
  Nobody has to press keys, switch on or start the loader.
* FIFO, UART, SD: the clocks run.
* Build tool: its process is scheduled and the commands it waits for end.
* Daemons: each is scheduled, and systemd restarts the one that ends.  Nobody
  has to move a jack, press a lock key or plug the keyboard in.  Fairness does not
  say that the audio daemon gets past `uEnv.txt` and `/dev/mem`: it may fail there
  at every start.  That it does not is a premise of the two properties:
  `SoundComesBack` speaks of behaviours in which the program comes to its commands
  again and again, `MixerFollowsJack` of those in which it maps the register
  again and again, has no line `debug=on`, and the jack is at last left alone.
* Touchpad: timer and main loop run, keys held for `while ((PIND ...))` are
  released; strong fairness of `LoadButtons`, as the host polls the mouse
  endpoint again and again (`bInterval`).

## 6. Proofs

The theorems hold for every value of the constants that the named assumptions
of the modules allow; TLC evaluates the assumptions on each run's instance.  All
inductive invariants were first checked by TLC.

### Firmware update (`FirmwareUpdateProofs`)

For every number of pages, packets, image set, time-out and set of faults:

* `TypeInvariant`: `Spec => []TypeOK`;
* `KeyAlwaysConsumed`, `BlankNeverRuns`: from `TypeOK` and three lemmas that say
  which steps touch the key, the flash, and the jump;
* `UpdateInvariant`: `Spec => []UpdateInv`; and `SuccessfulUpdate` from it;
* `PageProvenanceThm`, `OnlyPowerTearsThm`; `KeepsContractThm`: the update
  implements `UpdateContract`, step by step.

`SuccessMeansFlashed` is not inductive: it speaks of the end of a run only.
`UpdateInv` adds, for each location of the loader, what is left in the
controller: who owns the handle (`BusInv`, `LoaderInv`), that no page request is
left between two blocks and after the last (`QuietInv`), which stage the write
of the current block has reached in endpoint and handler (`WriteInv`: unseen,
addressed, erasing, filling, programming, acknowledged), and that the blocks
behind the counter are in place (`PrefixInv`).  The proof has one lemma per
side (device steps, loader steps) and per part of the invariant; a device step
leads from one stage to the next, a loader step sends a block only to a quiet
device and moves on only when it is acknowledged.

`PageProvenance` is not inductive either: a page's content comes from a buffer
filled by packets of a request that may be gone.  `ServeInv` follows it back:
requests in flight are some image's (`InFlight`), so the handler's address and
page buffer belong to one request (`AddressInv`, `FillInv`), and what is burnt is
the buffer (`BurnInv`).  The parts about page contents assume `"spm" \notin
Faults`: with dropped SPM instructions they are false (section 4, Known
divergences).

### FIFO (`AsyncFifoProofs`)

For every depth, and every code that satisfies `GrayAssumption`: convertible
back, its top bits inverted half-way round, and one bit changed from a code to
the next.  `FifoTypeOKThm`; for a producer that heeds `O_write_full`
(`Obedient`), `ReadsSettledWordThm` and `KeepsWordsThm`: the FIFO implements a
`WordQueue` of `Depth - 1` words.  `GrayAssumption` makes `Sample` yield the old or
the new code.  Then each pointer has a chain of copies, from the pointer through
the two stages to the other side's flag, each no newer than the one before it
(`Chain`); so the write side over-estimates and the read side under-estimates the
occupancy, with a `Margin` for the clock the flags are late.  That the code of
`GrayCode` satisfies the assumption is evaluated by TLC for the run's width, and for
widths 1 to 6, which include the SoC's 5, in `GrayWidths` of `MCAsyncFifo`.

### Touchpad (`TouchPadProofs`)

`GuardCountsThm` and `ClickOnceThm`, for all tick counts in the order of
`TickAssumption` and all finger sets.  `GuardInv` adds what holds between the two
statements of `tp_guarder`; `ClickInv` where each button of `MR_B`, `MR_B_REQ` and
the value loaded by the merge came from.

### UART (`UartProofs`)

`UartTypeOKThm` and `KeepsBytesThm`, for every bit length, byte set and drift with
`half + 2 * Skew + 2 <= period + 1`.  `UartInv` counts edges: `Sent` since the byte
was taken, `Heard` since the receiver found the line low.  `Sent - lead - Heard` is
the edge at which that happened, 1 to `Skew + 1`, and no step in a byte changes it;
the bound on the drift then puts each sample inside its bit (`Samples`, `PinAt`),
so that the receiver has the first bits of the byte (`BitsInv`) and is idle again
before the next one (`StillSending`).  `ReadInv` says that the program's reading
does not meet the completion of a byte, which would drop it.

### SD card (`SdCardProofs`)

`PowerUpClocksThm`, `CardHearsCommandThm`, `BytesExchangedThm`, `SelectSteadyThm`
(an action property) and `SdTypeOKThm`, for every divider, number of polls and
retries, set of answers, and number of leading bytes that brings the clocks
(`8 * (InitBytes - 1) >= ClocksNeeded`; the code has 11).  `SpiInv` says, for each
place in a byte, which bits have crossed; `SdInv` what the card has been told at
each step of the controller, including the edge in which one machine has moved and
the other has not.

### HEX file (`HexFileProofs`)

`ImageIsFileThm` and `ProgramsFileThm`, for every memory size, set of lines and
parts, and number of lines and readings, if blocks divide the code and the
loader's memory (`HexAssumption`; 64K and the parts of `-mmcu` do).  The second
says that nothing of a file is sent that has a line which is no record, or a data
record with a wrong checksum or beyond the memory; of extended addresses with a
wrong checksum it says what the code does: they count for nothing.  Lemmas say
what one more line adds to a file's bases, covering records and bytes
(`BaseAppended`, `CoveringAppended`, `ByteAppended`); `FileInv` adds to
`ImageIsFile` that no line so far is `Broken` unless the loader has ended, and
that `extended_addr` is the next line's base.  `BlockInv` says that below `addr` every byte of the file is in a
block that was sent.  The greatest element of a set of lines comes from the
library's well-founded induction (`Least`).

### LED daemon (`LaptopProofs`)

`LedShowsLockThm`, for every queue length: the last queued event of each lock, if
any, is its state, and with none queued the GPIO shows it (`LastEvent`,
`NothingPending`).

### Build tool (`BuilderProofs`)

`RunsAsWrittenThm`, `TargetMadeThm`, `RunsGraphThm` (step simulation of
`BuildContract`) and `RecursionEndsThm`, for every set of files, dependency graph,
stack bound and set of failing system calls.  Their hypothesis `[]GathersTasks` is the
second half of `ReadsFile`, which the run `Build` checks: the list that `bld__make`
gets is the one the file means.  Labels are distinct (`DocsAssumption`).
`RunsAsWrittenThm` is about command and arguments whatever fails, and about the
directory as long as no `chdir` has.  `TargetMadeThm` is about a tool that ended
with 0 without a failed command, and about targets that need no task which depends
on itself: exactly the needed tasks were handed to `_spawnvp`, and executed if it
lost none.

None of the properties is inductive.  `RunInv` says of each activation on the
stack that a call it has made either ended well or is the one it waits for, and
was not for the task itself (`CallsMade`); that `done` is set exactly for what was
handed to `_spawnvp` and a failure is the end (`DoneOnce`); that the running command
belongs to the innermost activation, which has no call left, and that without a
failed `chdir` the process is where its task wants it and came from the start
directory (`JobRuns`); that only needed
tasks are called (`CallsNeeded`) and what succeeded had its dependencies
(`DepsFirst`); and why `main` returned 0 (`ExitWhy`).  So all dependencies of a task
have succeeded when it starts, although `bld__depends` returns 0 for a task that was
done long before.  At the end the tasks handed over are closed under
dependency and hold the target, so they are all that is needed.  `RecursionEndsThm`
adds `Ranked`: along the stack a numbering that goes down with every dependency
leaves less and less room, so without a cycle among different tasks one activation
per label is enough.

### Only model-checked

* All liveness: `LoaderReturns`, `KeysReachBootloader`, `ApplicationStarts`,
  `WordsArrive`, `FullClears`, `GuardEnds`, `LockedPadQuiets`, `TapTaken`,
  `BytesArrive`, `InitEnds`, `BuildEnds`, `SoundComesBack`, `MixerFollowsJack`.  Fairness
  and `ENABLED` are beyond the prover.
* The reader of the build tool, `ReadsFile`: what a reader that recurses over a text
  yields for every text is induction over data.  The theorems about the runner
  start where it ends.
* That `GrayCode` is a Gray code for every width: the provers have no laws of `2^n`,
  and a recursive power would need induction over data.

## 7. Not modelled

* The USB back ends of the loader; descriptors and LUFA; HEX addresses that wrap
  around 2^32.
* Build tool: `json__dump` and `json__save_file`, which `main` does not call; the
  Windows and Mac branches; characters inside a token; names too long for their
  arrays (`json__copy_string` is given limits above the 60 bytes of `label` and
  `dependsOn`).
* Touchpad: the scan of the key matrix, its table and the limit of six keys.
* Daemons: failing amixer calls; GPIO files that cannot be opened; a lock key
  pressed when the kernel's queue is full (`SYN_DROPPED`); in `teres1-audioselect`,
  which bytes a dead array holds.
* In `FirmwareUpdate`, files with a block of explicit 0xFF bytes other than the
  first; `HexFile` has them.
* Non-atomic accesses to `boottime`, torn touch positions, pointer motion.
* UART: noise, a reset within a byte, a program slower than one byte time.
* SD card: block transfers (empty in the code), SPI modes other than 0.
* Pixel timing, TMDS, the CPU, the bus (planned or without behaviour, see
  `PROJECT.json`), the conversion tools, `monitor`, `teres1-debug` and the scripts,
  which have no state worth exploring, hardware design files.
