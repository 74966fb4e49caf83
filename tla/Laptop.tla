------------------------------- MODULE Laptop -------------------------------
(***************************************************************************)
(* The laptop's two daemons beside each other, with the user who plugs     *)
(* jacks and presses lock keys, a keyboard that comes and goes, and an     *)
(* administrator who stops them at any moment.                             *)
(***************************************************************************)
EXTENDS AudioSelect, LedControl

laptopVars == <<audioVars, ledVars>>

LaptopInit == AudioInit /\ LedInit

AudioNext == AudioStep \/ Killed \/ (\E j \in Jacks : PlugJack(j))
LedNext   == LedStep \/ LedRestart \/ (\E l \in Leds : Toggle(l)) \/ Unplug \/ Plug

LaptopNext ==
  \/ AudioNext /\ UNCHANGED ledVars
  \/ LedNext /\ UNCHANGED audioVars

\* The scheduler runs both daemons and systemd.
LaptopFairness ==
  /\ WF_laptopVars(AudioStep /\ UNCHANGED ledVars)
  /\ WF_laptopVars(LedStep /\ UNCHANGED audioVars)

LaptopSpec == LaptopInit /\ [][LaptopNext]_laptopVars /\ LaptopFairness

-----------------------------------------------------------------------------
\* While the daemon listens and has nothing left to read, an LED shows its
\* lock if the lock changed since the device was opened, and is off if not:
\* no event is lost between open and the loop, and none is put on the other
\* LED, however often the keyboard vanished before (teres1-ledctrl main).
LedShowsLock ==
  led = "read" /\ alive /\ queue = <<>> =>
    \A l \in Leds : gpio[l] = IF l \in told THEN lock[l] ELSE 0

OneOutput == mixer["Speaker"] # mixer["Headphone"]

\* If the program comes to a select_mode of the output again and again (in
\* debug mode, or past uEnv.txt and /dev/mem), the laptop is again and again
\* left with exactly one output, however jacks are moved and whenever the
\* daemon is killed.  A uEnv.txt without an empty line, or a /dev/mem that
\* cannot be mapped, keeps it from there for ever (select_mode, main,
\* Restart=always).
SoundComesBack == []<>(audio \in {"phones", "input"}) => []<>OneOutput

Microphone(n) == mixer["MIC1"] = (n = 1) /\ mixer["MIC2"] = (n = 2)
FollowsJack ==
  CASE jack = "none"       -> mixer["Speaker"] /\ ~mixer["Headphone"] /\ Microphone(1)
    [] jack = "headphones" -> ~mixer["Speaker"] /\ mixer["Headphone"]
    [] jack = "headset"    -> ~mixer["Speaker"] /\ mixer["Headphone"] /\ Microphone(2)

\* Where uEnv.txt has no line debug=on, the program maps the register again
\* and again, and the jack is at last left alone, the mixer comes to follow
\* the jack and then stays: the output for every jack, the microphone for
\* none and for a headset (headphones without one also select the headset's).
\* It takes the restarts: no jack event is ever read (teres1-audioselect
\* main).
MixerFollowsJack ==
  /\ \A i \in DOMAIN uenv.lines : uenv.lines[i] # Debug
  /\ []<>(audio = "phones")
  /\ <>[][FALSE]_jack
  => <>[]FollowsJack
=============================================================================
