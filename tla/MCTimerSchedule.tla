-------------------------- MODULE MCTimerSchedule ---------------------------
(* A small instance of TimerSchedule for TLC: times in hundredths of a      *)
(* second, of three ticks each.                                             *)
EXTENDS TimerSchedule

NoWidths == [w \in {} |-> 0]
Numbers == [zero |-> 0, cent |-> 1, one |-> 100, two |-> 200]
NoHosts == {"broadcast"}

F(n, e, d) == [picture |-> <<n>>, exposure |-> <<e>>, delay |-> <<d>>]

\* No picture and no delay, and a field left empty.
MCForms == {F("two", "cent", "cent"), F("zero", "cent", "zero"),
            [F("one", "cent", "cent") EXCEPT !.delay = <<>>]}

Shipped == [picture |-> 1, exposure |-> 2 * Fine, delay |-> Fine]
=============================================================================
