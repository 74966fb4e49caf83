--------------------------- MODULE TouchPadProofs ---------------------------
(***************************************************************************)
(* Proofs about TouchPad, for every value of the tick counts, whatever     *)
(* fingers the pad reports and whatever buttons there are.                 *)
(***************************************************************************)
EXTENDS TouchPad, TLAPS

----------------------------------------------------------------------------
(* Palm rejection *)

GuardInv == tpguard \in Nat /\ GuardCounts

\* The timer's handler keeps the guard's count: it lowers the flag in the tick
\* in which the count reaches 1, so a flag still up has a count above 1.
LEMMA GuardTicks ==
  ASSUME GuardInv, TIMER0_OVF_vect
  PROVE  GuardInv'
<1>1. tpguard' \in Nat /\ (tpguard > 1 => tpguard' >= 1)
  BY DEF GuardInv, TIMER0_OVF_vect, Dec
<1>2. tp_guard' => tp_guard /\ tpguard' # 1
  BY DEF TIMER0_OVF_vect, GuardTick
<1>3. at' = at
  BY DEF TIMER0_OVF_vect, mainVars
<1>4. tp_guard' /\ at' # "guard" => tpguard' > 1
  <2>1. SUFFICES ASSUME tp_guard', at' # "guard" PROVE tpguard' > 1
    OBVIOUS
  <2>2. tp_guard /\ at # "guard" /\ tpguard' # 1
    BY <2>1, <1>2, <1>3
  <2>3. tpguard > 1
    BY <2>2 DEF GuardInv, GuardCounts
  <2>4. QED
    BY <2>2, <2>3, <1>1
<1>5. QED
  BY <1>1, <1>4 DEF GuardInv, GuardCounts

\* No step of the main loop leaves a raised guard without a count: only
\* tp_guarder raises it, and is still between its two assignments then.
LEMMA GuardMainLoop ==
  ASSUME GuardInv, MainLoop
  PROVE  GuardInv'
<1>1. CASE RaiseGuard
  BY <1>1 DEF RaiseGuard, GuardInv, GuardCounts
<1>2. CASE StartGuardCount
  BY <1>2, TickAssumption DEF StartGuardCount, GuardInv, GuardCounts
<1>3. CASE NoTyping
  BY <1>3 DEF NoTyping, GuardInv, GuardCounts
<1>4. CASE Typing
  BY <1>4 DEF Typing, GuardInv, GuardCounts
<1>5. CASE NoMouseReport
  BY <1>5 DEF NoMouseReport, guardVars, GuardInv, GuardCounts
<1>6. CASE LoadButtons
  BY <1>6 DEF LoadButtons, guardVars, GuardInv, GuardCounts
<1>7. CASE MergeButtons
  BY <1>7 DEF MergeButtons, guardVars, GuardInv, GuardCounts
<1>8. CASE ProcessTouch
  <2>1. UNCHANGED <<tp_guard, tpguard>> /\ at = "action"
    BY <1>8 DEF ProcessTouch, guardVars
  <2>2. QED
    BY <2>1 DEF GuardInv, GuardCounts
<1>9. CASE SettleLift
  BY <1>9 DEF SettleLift, guardVars, GuardInv, GuardCounts
<1>10. CASE FinishTouch
  BY <1>10 DEF FinishTouch, guardVars, GuardInv, GuardCounts
<1>11. CASE SendReport
  BY <1>11 DEF SendReport, guardVars, GuardInv, GuardCounts
<1>12. CASE ClearButtons
  BY <1>12 DEF ClearButtons, guardVars, GuardInv, GuardCounts
<1>13. QED
  BY <1>1, <1>2, <1>3, <1>4, <1>5, <1>6, <1>7, <1>8, <1>9, <1>10, <1>11,
     <1>12 DEF MainLoop

\* Palm rejection always has a count running that ends it, for every length
\* TP_LOCK of the guard above one tick and however keys, ticks and touches
\* fall between the two assignments of tp_guarder.
THEOREM GuardCountsThm == TouchSpec => []GuardCounts
<1>1. TouchInit => GuardInv
  BY DEF TouchInit, GuardInv, GuardCounts
<1>2. GuardInv /\ [TouchNext]_touchVars => GuardInv'
  <2>1. SUFFICES ASSUME GuardInv, [TouchNext]_touchVars PROVE GuardInv'
    OBVIOUS
  <2>2. CASE ADC_vect
    BY <2>1, <2>2 DEF ADC_vect, guardVars, mainVars, GuardInv, GuardCounts
  <2>3. CASE INT2_vect
    BY <2>1, <2>3 DEF INT2_vect, guardVars, mainVars, GuardInv, GuardCounts
  <2>4. CASE UNCHANGED touchVars
    BY <2>1, <2>4 DEF touchVars, guardVars, mainVars, GuardInv, GuardCounts
  <2>5. QED
    BY <2>1, <2>2, <2>3, <2>4, GuardTicks, GuardMainLoop DEF TouchNext
<1>3. GuardInv => GuardCounts
  BY DEF GuardInv
<1>4. QED
  BY <1>1, <1>2, <1>3, PTL DEF TouchSpec

----------------------------------------------------------------------------
(* Clicks of taps *)

\* Where the buttons of the report under way are: what the request, the
\* report and the register hold is held by a finger or owed to a tap.  The
\* register lives from the load to the merge only, and nothing counts as held
\* before the merge.
RequestOwed == MR_B_REQ \subseteq owed
ReportOwed  == MR_B \subseteq held \cup owed
LoadedOwed  == loaded \subseteq owed /\ (at # "merge" => loaded = {})
NotYetHeld  == at \in {"keys", "typed", "guard", "mouse", "merge"} => held = {}
ClickInv    == RequestOwed /\ ReportOwed /\ LoadedOwed /\ NotYetHeld

\* The timer moves the request into the report, or leaves both alone.
LEMMA ClickTicks ==
  ASSUME ClickInv, TIMER0_OVF_vect
  PROVE  ClickInv'
<1>1. UNCHANGED <<at, loaded, held, owed>>
  BY DEF TIMER0_OVF_vect, mainVars
<1>2. \/ MR_B' = MR_B_REQ /\ MR_B_REQ' = {}
      \/ UNCHANGED <<MR_B, MR_B_REQ>>
  BY DEF TIMER0_OVF_vect, HandOnClick, clickVars
<1>3. QED
  BY <1>1, <1>2 DEF ClickInv, RequestOwed, ReportOwed, LoadedOwed, NotYetHeld

\* The switch records what a tap is owed together with its request.
LEMMA ClickProcessTouch ==
  ASSUME ClickInv, ProcessTouch
  PROVE  ClickInv'
<1>1. /\ UNCHANGED <<MR_B, loaded, held>>
      /\ at = "action" /\ at' \in {"settle", "finish"}
  BY DEF ProcessTouch, Lifted, OneFinger, TwoFingers, MoreFingers
<1>2. \/ owed' = owed \cup MR_B_REQ'
      \/ UNCHANGED <<MR_B_REQ, owed>>
  BY DEF ProcessTouch, Lifted, OneFinger, TwoFingers, MoreFingers
<1>3. QED
  BY <1>1, <1>2 DEF ClickInv, RequestOwed, ReportOwed, LoadedOwed, NotYetHeld

\* The main loop keeps every button accounted for: the merge brings in only
\* buttons that are held, and the report's end forgets what it showed.
LEMMA ClickMainLoop ==
  ASSUME ClickInv, MainLoop
  PROVE  ClickInv'
<1> USE DEF ClickInv, RequestOwed, ReportOwed, LoadedOwed, NotYetHeld
<1>1. CASE NoTyping
  BY <1>1 DEF NoTyping, clickVars
<1>2. CASE Typing
  BY <1>2 DEF Typing, clickVars
<1>3. CASE RaiseGuard
  BY <1>3 DEF RaiseGuard, clickVars
<1>4. CASE StartGuardCount
  BY <1>4 DEF StartGuardCount, clickVars
<1>5. CASE NoMouseReport
  BY <1>5 DEF NoMouseReport, clickVars
<1>6. CASE LoadButtons
  BY <1>6 DEF LoadButtons, clickVars
<1>7. CASE MergeButtons
  BY <1>7 DEF MergeButtons
<1>8. CASE ProcessTouch
  BY <1>8, ClickProcessTouch
<1>9. CASE SettleLift
  BY <1>9 DEF SettleLift, clickVars
<1>10. CASE FinishTouch
  BY <1>10 DEF FinishTouch, clickVars
<1>11. CASE SendReport
  BY <1>11 DEF SendReport, clickVars
<1>12. CASE ClearButtons
  BY <1>12 DEF ClearButtons
<1>13. QED
  BY <1>1, <1>2, <1>3, <1>4, <1>5, <1>6, <1>7, <1>8, <1>9, <1>10, <1>11,
     <1>12 DEF MainLoop

\* Whatever interrupts the merge of the buttons, a report shows only buttons
\* that are held or owed to a tap no report has shown: a tap is never two
\* clicks, for every choice of the tick counts.
THEOREM ClickOnceThm == TouchSpec => []ClickOnce
<1>1. TouchInit => ClickInv
  BY DEF TouchInit, ClickInv, RequestOwed, ReportOwed, LoadedOwed, NotYetHeld
<1>2. ClickInv /\ [TouchNext]_touchVars => ClickInv'
  <2>1. SUFFICES ASSUME ClickInv, [TouchNext]_touchVars PROVE ClickInv'
    OBVIOUS
  <2> USE DEF ClickInv, RequestOwed, ReportOwed, LoadedOwed, NotYetHeld
  <2>2. CASE ADC_vect
    BY <2>1, <2>2 DEF ADC_vect, clickVars, mainVars
  <2>3. CASE INT2_vect
    BY <2>1, <2>3 DEF INT2_vect, clickVars, mainVars
  <2>4. CASE UNCHANGED touchVars
    BY <2>1, <2>4 DEF touchVars, clickVars, mainVars
  <2>5. QED
    BY <2>1, <2>2, <2>3, <2>4, ClickTicks, ClickMainLoop DEF TouchNext
<1>3. ClickInv => ClickOnce
  BY DEF ClickInv, ReportOwed, ClickOnce
<1>4. QED
  BY <1>1, <1>2, <1>3, PTL DEF TouchSpec
=============================================================================
