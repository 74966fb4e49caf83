------------------------------ MODULE TouchPad ------------------------------
(***************************************************************************)
(* The application firmware of the keyboard controller, KeyboardMouse.c:   *)
(* the main loop, which makes keyboard and mouse reports, and the three    *)
(* interrupt handlers it shares variables with: the touchpad's (INT2), the *)
(* 60 Hz timer's (TIMER0_OVF) and the button ladder's (ADC).               *)
(*                                                                         *)
(* An interrupt handler runs to its end; the main loop can be interrupted  *)
(* between any two of the steps below.  A key scan is reduced to what the  *)
(* touchpad sees of it.  Positions are reduced to the outcomes of the      *)
(* comparisons made with them, motion and wheel values are left out, and   *)
(* so is the debouncing of the buttons: what matters is when mouse changes.*)
(* time_pressed is never changed, and time_one, ticks, dragtime, drag,     *)
(* tap_enabled and itsDone are never read.                                 *)
(***************************************************************************)
EXTENDS Integers

CONSTANTS
    TOUCH_TO,  \* ticks without a touch before a tap becomes a click
    CLICK_MS,  \* ticks a touch counts as new
    PRETAP,    \* ticks between two touches that make the second one a tap
    TP_LOCK,   \* ticks the touchpad is ignored after a key
    TimeMax,   \* where the tick counters saturate (0xff)
    Fingers,   \* finger counts the pad reports; 3 for more
    Buttons,   \* physical buttons that may be pressed
    Keys       \* whether keys may be pressed

ASSUME TickAssumption ==
    /\ {TOUCH_TO, CLICK_MS, PRETAP, TP_LOCK, TimeMax} \subseteq Nat
    /\ 1 < TOUCH_TO /\ 1 < TP_LOCK
    /\ PRETAP < TOUCH_TO /\ TOUCH_TO < TimeMax
    /\ 0 \in Fingers /\ Fingers \subseteq 0..3
    /\ Keys \in BOOLEAN

VARIABLES
    \* set by the interrupt handlers
    tpdata,          \* fingers on the pad, as last read (tpdata[2])
    ActionSend,      \* there is touch data to process
    time_zero,       \* ticks without a finger on the pad, as read
    time_two,        \* whether two fingers were counted (time_two # 0)
    presstime,       \* ticks the present touch is still new
    touch_to,        \* ticks until the present touch is given up
    tpguard,         \* ticks the pad is still ignored
    mouse,           \* physical buttons held
    \* set by the main loop
    TouchPadLocked, tp_guard, lastfingers, MR_B, MR_B_REQ,
    at,              \* where the main loop is
    seen,            \* local: the fingers the switch saw
    loaded,          \* local: MR_B in a register
    \* history
    held,            \* the buttons merged into the report being made
    owed             \* buttons of taps recognised and not yet reported

padVars    == <<tpdata, ActionSend, time_zero, time_two, presstime, touch_to>>
guardVars  == <<TouchPadLocked, tp_guard, tpguard>>
clickVars  == <<MR_B, MR_B_REQ>>
mainVars   == <<at, seen, loaded, held, owed>>
touchVars  == <<padVars, guardVars, mouse, clickVars, lastfingers, mainVars>>

TouchInit ==
    /\ tpdata = 0 /\ lastfingers = 0 /\ seen = 0
    /\ ActionSend = FALSE /\ time_two = FALSE
    /\ TouchPadLocked = FALSE /\ tp_guard = FALSE
    /\ time_zero = 0 /\ presstime = 0 /\ touch_to = 0 /\ tpguard = 0
    /\ mouse = {}
    /\ MR_B = {} /\ MR_B_REQ = {}
    /\ loaded = {} /\ held = {} /\ owed = {}
    /\ at = "keys"

----------------------------------------------------------------------------
(* Interrupt handlers *)

Dec(n) == IF n # 0 THEN n - 1 ELSE 0

\* Touch data is to be processed, unless the pad is off or guarded.
HeardThoughLocked(touched) ==  \* mutant: a pad turned off is heard
    ActionSend \/ (~tp_guard /\ touched)
Heard(touched) == ActionSend \/ (~TouchPadLocked /\ ~tp_guard /\ touched)

\* Two equal samples of the ladder, which shows one button at a time.
ADC_vect ==
    /\ mouse' \in {{}} \cup {{b} : b \in Buttons}
    /\ UNCHANGED <<padVars, guardVars, clickVars, lastfingers, mainVars>>

\* The pad has data.  A failing TWI transfer leaves the old data in place.
INT2_vect ==
    /\ tpdata' \in Fingers
    /\ ActionSend' = Heard(TRUE)
    /\ UNCHANGED <<time_zero, time_two, presstime, touch_to, guardVars,
                   mouse, clickVars, lastfingers, mainVars>>

\* tpguard reaches 1: the pad is heard again.
GuardOutlivesCount == UNCHANGED tp_guard  \* mutant: the guard is not released
GuardTick == tp_guard' = (tp_guard /\ tpguard' # 1)

\* The requested click goes out.
ClickRepeats == MR_B' = MR_B_REQ /\ UNCHANGED MR_B_REQ  \* mutant: it stays
HandOnClick == MR_B' = MR_B_REQ /\ MR_B_REQ' = {}

\* touch_to reaches 1: a new touch is looked at once more, an old one is over.
TouchTimeout(heard) ==
    IF presstime' # 0 THEN ActionSend' = TRUE /\ UNCHANGED lastfingers
                      ELSE ActionSend' = heard /\ lastfingers' = 0

\* The timer polls the pad (touched is tpdata[0] # 0) and counts the ticks.
TIMER0_OVF_vect ==
    /\ tpdata' \in Fingers
    /\ time_zero' = IF time_zero # TimeMax /\ tpdata' = 0
                      THEN time_zero + 1 ELSE time_zero
    /\ IF time_zero' = TOUCH_TO THEN HandOnClick ELSE UNCHANGED clickVars
    /\ time_two' = ((time_two /\ time_zero' # TOUCH_TO) \/ tpdata' = 2)
    /\ presstime' = Dec(presstime)
    /\ tpguard' = Dec(tpguard)
    /\ GuardTick
    /\ touch_to' = Dec(touch_to)
    /\ \E touched \in BOOLEAN :
         IF touch_to' = 1 THEN TouchTimeout(Heard(touched))
         ELSE ActionSend' = Heard(touched) /\ UNCHANGED lastfingers
    /\ UNCHANGED <<TouchPadLocked, mouse, mainVars>>

----------------------------------------------------------------------------
(* Keyboard reports *)

\* No report is due, no key is down, or a modifier is held.
NoTyping ==
    /\ at = "keys"
    /\ TouchPadLocked' \in IF Keys THEN BOOLEAN ELSE {TouchPadLocked}
    /\ at' = "mouse"
    /\ UNCHANGED <<padVars, tp_guard, tpguard, mouse, clickVars, lastfingers,
                   seen, loaded, held, owed>>

\* A key without a modifier.  Fn+F3 also turns the touchpad off or on, here or
\* in NoTyping, and waits for its release.
Typing ==
    /\ at = "keys" /\ Keys
    /\ TouchPadLocked' \in BOOLEAN
    /\ at' = "typed"
    /\ UNCHANGED <<padVars, tp_guard, tpguard, mouse, clickVars, lastfingers,
                   seen, loaded, held, owed>>

\* tp_guarder is two assignments.
RaiseGuard ==
    /\ at = "typed"
    /\ tp_guard' = TRUE
    /\ at' = "guard"
    /\ UNCHANGED <<padVars, TouchPadLocked, tpguard, mouse, clickVars,
                   lastfingers, seen, loaded, held, owed>>

CountNotRestarted ==  \* mutant: a guard still counting is not prolonged
    /\ at = "guard"
    /\ tpguard' = IF tpguard = 0 THEN TP_LOCK ELSE tpguard
    /\ at' = "mouse"
    /\ UNCHANGED <<padVars, TouchPadLocked, tp_guard, mouse, clickVars,
                   lastfingers, seen, loaded, held, owed>>

StartGuardCount ==
    /\ at = "guard"
    /\ tpguard' = TP_LOCK
    /\ at' = "mouse"
    /\ UNCHANGED <<padVars, TouchPadLocked, tp_guard, mouse, clickVars,
                   lastfingers, seen, loaded, held, owed>>

----------------------------------------------------------------------------
(* Mouse reports *)

NoMouseReport ==
    /\ at = "mouse"
    /\ at' = "keys"
    /\ UNCHANGED <<padVars, guardVars, mouse, clickVars, lastfingers,
                   seen, loaded, held, owed>>

\* MR_B |= mouse is a load, an or, and a store.
LoadButtons ==
    /\ at = "mouse"
    /\ loaded' = MR_B
    /\ at' = "merge"
    /\ UNCHANGED <<padVars, guardVars, mouse, clickVars, lastfingers,
                   seen, held, owed>>

MergeButtons ==
    /\ at = "merge"
    /\ MR_B' = loaded \cup mouse
    /\ held' = mouse
    /\ loaded' = {}
    /\ at' = IF ActionSend THEN "action" ELSE "report"
    /\ UNCHANGED <<padVars, guardVars, mouse, MR_B_REQ, lastfingers,
                   seen, owed>>

\* The switch on tpdata[2], up to the resets that follow in its cases.
\* All fingers are gone: a tap, if the last touch was near its start.
Lifted ==
    /\ tpdata = 0
    /\ \E near \in BOOLEAN :
         IF lastfingers # 0 /\ time_zero > PRETAP /\ near
           THEN /\ MR_B_REQ' = IF time_two THEN {"right"} ELSE {"left"}
                /\ owed' = owed \cup MR_B_REQ'
           ELSE UNCHANGED <<MR_B_REQ, owed>>
    /\ at' = IF lastfingers # 0 THEN "settle" ELSE "finish"
    /\ UNCHANGED <<time_zero, time_two, presstime, touch_to, lastfingers>>

OneFinger ==
    /\ tpdata = 1
    /\ touch_to' = TOUCH_TO
    /\ presstime' = IF lastfingers = 0 THEN CLICK_MS ELSE presstime
    /\ lastfingers' = 1
    /\ at' = "finish"
    /\ UNCHANGED <<time_zero, time_two, MR_B_REQ, owed>>

TwoFingers ==
    /\ tpdata = 2
    /\ touch_to' = IF lastfingers = 0 THEN TOUCH_TO ELSE touch_to
    /\ IF lastfingers = 2
         THEN /\ time_zero' \in {time_zero, 0}  \* 0 when the wheel turns
              /\ presstime' = 0
              /\ UNCHANGED time_two
         ELSE /\ time_two' = FALSE
              /\ UNCHANGED <<time_zero, presstime>>
    /\ lastfingers' = 2
    /\ at' = "finish"
    /\ UNCHANGED <<MR_B_REQ, owed>>

MoreFingers ==
    /\ tpdata = 3
    /\ at' = "finish"
    /\ UNCHANGED <<time_zero, time_two, presstime, touch_to, MR_B_REQ,
                   lastfingers, owed>>

ProcessTouch ==
    /\ at = "action"
    /\ seen' = tpdata
    /\ Lifted \/ OneFinger \/ TwoFingers \/ MoreFingers
    /\ UNCHANGED <<tpdata, ActionSend, guardVars, mouse, MR_B, loaded, held>>

SettleLift ==
    /\ at = "settle"
    /\ time_zero' = 0
    /\ at' = "finish"
    /\ UNCHANGED <<tpdata, ActionSend, time_two, presstime, touch_to, guardVars,
                   mouse, clickVars, lastfingers, seen, loaded, held, owed>>

\* lastfingers = tpdata[2]; tpdata is not volatile: it is read again, or the
\* value the switch read is used.
FinishTouch ==
    /\ at = "finish"
    /\ lastfingers' \in {seen, tpdata}
    /\ ActionSend' = FALSE
    /\ seen' = 0
    /\ at' = "report"
    /\ UNCHANGED <<tpdata, time_zero, time_two, presstime, touch_to, guardVars,
                   mouse, clickVars, loaded, held, owed>>

SendReport ==
    /\ at = "report"
    /\ at' = "clear"
    /\ UNCHANGED <<padVars, guardVars, mouse, clickVars, lastfingers,
                   seen, loaded, held, owed>>

ButtonsStay ==  \* mutant: MR_B is not cleared after the report
    /\ at = "clear"
    /\ held' = {} /\ owed' = MR_B_REQ
    /\ at' = "keys"
    /\ UNCHANGED <<padVars, guardVars, mouse, clickVars, lastfingers,
                   seen, loaded>>

ClearButtons ==
    /\ at = "clear"
    /\ MR_B' = {}
    /\ held' = {} /\ owed' = MR_B_REQ
    /\ at' = "keys"
    /\ UNCHANGED <<padVars, guardVars, mouse, MR_B_REQ, lastfingers,
                   seen, loaded>>

MainLoop ==
    \/ NoTyping \/ Typing \/ RaiseGuard \/ StartGuardCount
    \/ NoMouseReport \/ LoadButtons \/ MergeButtons \/ ProcessTouch
    \/ SettleLift \/ FinishTouch \/ SendReport \/ ClearButtons

TouchNext == MainLoop \/ ADC_vect \/ INT2_vect \/ TIMER0_OVF_vect

TouchSpec == TouchInit /\ [][TouchNext]_touchVars

\* The timer ticks, keys are released, the main loop runs, and the host polls
\* both endpoints: it is not for ever that no mouse report is due.
FairTouchSpec ==
    /\ TouchSpec
    /\ WF_touchVars(TIMER0_OVF_vect)
    /\ WF_touchVars(MainLoop)
    /\ SF_touchVars(LoadButtons)

----------------------------------------------------------------------------
(* Properties *)

\* Palm rejection always ends by itself: whenever the main loop is not inside
\* tp_guarder, a raised guard has a count running that will lower it, though
\* flag and count are set by two statements that interrupts may separate.
GuardCounts == tp_guard /\ at # "guard" => tpguard > 1

\* A report shows a button that is held, or one of a tap that was recognised
\* and that no report has shown: a tap is at most one click, whatever falls
\* between the steps of the main loop.
ClickOnce == at = "report" => MR_B \subseteq held \cup owed

\* Keys raise the guard again and again, or it is lowered.
GuardEnds == []<>~tp_guard \/ []<>(at = "typed")

\* A touchpad that is turned off and let go for good becomes quiet, although
\* the timeout of a touch asks for one more action without looking at
\* TouchPadLocked.  (It must be let go: a finger lifted between the switch and
\* the second reading of tpdata leaves a new touch that times out in turn.)
LockedPadQuiets == <>[](TouchPadLocked /\ tpdata = 0) => <>[]~ActionSend

\* A recognised tap is handed on as a click unless the pad is touched again.
TapTaken == MR_B_REQ # {} ~> (MR_B_REQ = {} \/ tpdata # 0)
=============================================================================
