----------------------------- MODULE AudioSelect -----------------------------
(***************************************************************************)
(* teres1-audioselect: looks through /boot/uEnv.txt, sets the mixer from   *)
(* the jack's status register and ends; systemd starts it again            *)
(* (Restart=always).  The loop that would watch jack events opens device,  *)
(* which main never sets, so that open fails and the program exits there:  *)
(* in effect the register is polled by restarts.                           *)
(*                                                                         *)
(* main leaves uEnv.txt only at an empty line.  readLine does not see the  *)
(* end of the file: it keeps getc's EOF in a char, which on the laptop's   *)
(* aarch64 has no sign, and grows its buffer until realloc fails.          *)
(*                                                                         *)
(* amixer commands are steps of their own, and the daemon may be killed    *)
(* between any two.                                                        *)
(***************************************************************************)
EXTENDS Integers, Sequences

CONSTANTS
  UenvFiles,   \* [exists, lines]: what /boot/uEnv.txt may be
  MaxKills     \* times somebody stops the daemon

VARIABLES
  uenv,        \* /boot/uEnv.txt
  unread,      \* lines of it that main has not read yet
  jack,        \* what is plugged: none, headphones, headset
  mixer,       \* switch -> on
  audio,       \* where main is: down, uenv, mem, phones, input
  todo,        \* amixer commands of the select_mode that is running
  kills

audioVars == <<uenv, unread, jack, mixer, audio, todo, kills>>

Debug == "debug=on"
Jacks == {"none", "headphones", "headset"}
Controls == {"Speaker", "Headphone", "MIC1", "MIC2"}

\* select_mode: the commands in their order.  The commands for the right and
\* the left channel of a microphone follow each other and are one here; the
\* last four of case 4 set what is never set otherwise.
SelectMode(mmsel, mval) ==
  CASE mmsel = 2 /\ mval = 0 -> <<<<"Speaker", TRUE>>, <<"Headphone", FALSE>>>>
    [] mmsel = 2 /\ mval = 1 -> <<<<"Speaker", FALSE>>, <<"Headphone", TRUE>>>>
    [] mmsel = 4 /\ mval = 0 -> <<<<"MIC1", TRUE>>, <<"MIC2", FALSE>>>>
    [] mmsel = 4 /\ mval = 1 -> <<<<"MIC2", TRUE>>, <<"MIC1", FALSE>>>>

AudioInit ==
  /\ uenv \in UenvFiles /\ jack \in Jacks
  /\ mixer = [c \in Controls |-> FALSE]
  /\ unread = <<>> /\ audio = "down" /\ todo = <<>> /\ kills = 0

\* systemd, RestartSec after the program ended; the program opens uEnv.txt.
Restart ==
  /\ audio = "down"
  /\ IF uenv.exists THEN audio' = "uenv" /\ unread' = uenv.lines
     ELSE audio' = "mem" /\ UNCHANGED unread
  /\ UNCHANGED <<uenv, jack, mixer, todo, kills>>

Ends == audio' = "down" /\ todo' = <<>> /\ unread' = <<>>

\* main reads a line.  readLine returns the address of an array that is gone,
\* so that main may find the line there, nothing, or something else.
ReadLine ==
  /\ audio = "uenv" /\ unread # <<>>
  /\ \E seen \in {Head(unread), "", "other"} :
       CASE seen = ""    -> audio' = "mem" /\ unread' = <<>> /\ UNCHANGED todo
         [] seen = Debug -> /\ audio' = "input" /\ unread' = <<>>
                            /\ todo' = SelectMode(2, 0) \o SelectMode(4, 0)
         [] OTHER        -> unread' = Tail(unread) /\ UNCHANGED <<audio, todo>>
  /\ UNCHANGED <<uenv, jack, mixer, kills>>

\* malloc or realloc fails, exit(1), or the address is none to read from; and
\* behind the last line nothing else can happen.
UenvFails ==
  /\ audio = "uenv"
  /\ Ends
  /\ UNCHANGED <<uenv, jack, mixer, kills>>

\* open or mmap of /dev/mem fails, main returns -1.
MemFails ==
  /\ audio = "mem"
  /\ Ends
  /\ UNCHANGED <<uenv, jack, mixer, kills>>

\* /dev/mem is mapped, and the register read for the first time.  The test
\* is "register && 0x08": true for every status but zero.
SelectMic ==
  /\ audio = "mem"
  /\ todo' = SelectMode(4, IF jack # "none" THEN 1 ELSE 0) /\ audio' = "phones"
  /\ UNCHANGED <<uenv, unread, jack, mixer, kills>>

HeadsetStatus ==  \* mutant: the headset's bit
  jack = "headset"
\* "register && 0x04"
PhoneStatus == jack # "none"

\* The register is read again for the output.
SelectPhones ==
  /\ audio = "phones" /\ todo = <<>>
  /\ todo' = SelectMode(2, IF PhoneStatus THEN 1 ELSE 0) /\ audio' = "input"
  /\ UNCHANGED <<uenv, unread, jack, mixer, kills>>

SystemStops ==  \* mutant: only the first command of select_mode is issued
  /\ todo # <<>>
  /\ todo' = <<>>
  /\ mixer' = [mixer EXCEPT ![todo[1][1]] = todo[1][2]]
  /\ UNCHANGED <<uenv, unread, jack, audio, kills>>
\* system("amixer ..."); its result is not looked at.
System ==
  /\ todo # <<>>
  /\ todo' = Tail(todo)
  /\ mixer' = [mixer EXCEPT ![todo[1][1]] = todo[1][2]]
  /\ UNCHANGED <<uenv, unread, jack, audio, kills>>

\* open(NULL) fails, exit(255); or exit(0) in debug mode.
Exits ==
  /\ audio = "input" /\ todo = <<>>
  /\ Ends
  /\ UNCHANGED <<uenv, jack, mixer, kills>>

AudioStep ==
  \/ Restart \/ ReadLine \/ UenvFails \/ MemFails
  \/ SelectMic \/ SelectPhones \/ System \/ Exits

Killed ==
  /\ audio # "down" /\ kills < MaxKills
  /\ Ends /\ kills' = kills + 1
  /\ UNCHANGED <<uenv, jack, mixer>>

PlugJack(j) == jack' = j /\ UNCHANGED <<uenv, unread, mixer, audio, todo, kills>>
=============================================================================
