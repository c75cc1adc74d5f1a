---------------------------- MODULE TimerSchedule ----------------------------
(***************************************************************************)
(* The intervalometer of AstroTimer in time (MicroLogiciel/timer.c): from  *)
(* the numbers that a form posts, through the getters of JsonParser and    *)
(* the static record, to the ticks at which timer_task moves the shutter,  *)
(* and back from the stored settings to the numbers that the page shows.   *)
(* A call is one step here; TimerApi has the places between.               *)
(***************************************************************************)
EXTENDS JsonParser

CONSTANTS
    Forms,     \* what is typed: picture, exposure and delay, as words
    Factory,   \* content of the settings sector when it is first flashed
    Rate,      \* configTICK_RATE_HZ, also the milliseconds in a second
    Period,    \* the tick count wraps at 2^32
    Count,     \* a bound of the runs: the loop counter goes back to 1 here
    Horizon,   \* a bound of the runs: more ticks than a sequence takes
    Late       \* ticks that a ready task may wait for a core, a lock or both

FieldOrder == <<"picture", "exposure", "delay">>
Fields == {"picture", "exposure", "delay"}
Zero == [f \in Fields |-> 0]
NoForm == [f \in Fields |-> <<>>]
Text(form) == Stringify(FieldOrder, [k \in Fields |-> Quote(form[k])])

ASSUME ScheduleAssumption ==
    /\ Rate \in Nat \ {0} /\ Period \in Nat \ {0} /\ Late \in Nat /\ Fine > 1
    /\ Horizon \in Nat /\ Factory \in [Fields -> 0..(Word - 1)]
    /\ Count \in 1..Word /\ \A p \in Forms : IsNumber(p["picture"]) =>
         Number[p["picture"][1]] \div 100 < Count     \* never reached
    \* The page allows 3600 s: 3600000 * 1000 < 2^32 (www/index.html:195-196).
    /\ \A p \in Forms : \A f \in Fields \ {"picture"} :
         IsNumber(p[f]) => Number[p[f][1]] * Fine * Rate < Word
    /\ \A f \in Fields \ {"picture"} : Factory[f] * Rate < Word

\* The fields of the page take numbers (type="number").
ASSUME FormsAssumption ==
    /\ Forms \subseteq [Fields -> Seq(DOMAIN Number)]
    /\ DOMAIN Number \cap ({Q, ":", " ", ",", "{", "}"} \cup Fields) = {}

VARIABLES
    flash,       \* s_TimerSettings.timer_data
    timer_data,  \* the handler's static local, and the argument of the task
    update,      \* s_UpdateTimerSemaphore is free
    armed,       \* watchdog_reboot was called
    tick,        \* xTaskGetTickCount()
    place,       \* where timer_task is, "none" without one
    par, i,      \* nbPicture, expTime and delayTime, and the loop counter
    wake,        \* xLasteWakeTime
    shutter,     \* level of SHUTTER_PIN
    asserts,     \* whether the build keeps assert()
    \* For the properties: the form that started the sequence, whether another
    \* call came before the task had read its numbers, the ticks since then,
    \* and how long the task has been ready.
    asked, overtaken, elapsed, waiting

taskVars == <<place, par, i, wake, shutter>>
ghostVars == <<asked, overtaken, elapsed, waiting>>
vars == <<flash, timer_data, update, armed, tick, taskVars, asserts, ghostVars>>

Reads == {"picture", "exposure", "delay"}      \* timer.c:105-107
Blocked == {"exposing", "resting"}
Ready == Reads \cup {"begin", "open", "close", "end"}

Nobody ==
    /\ place' = "none" /\ par' = Zero /\ i' = 1 /\ wake' = 0
    /\ asked' = NoForm /\ overtaken' = FALSE /\ elapsed' = 0 /\ waiting' = 0

Init ==
    /\ flash = Factory /\ timer_data = Zero /\ update = TRUE /\ armed = FALSE
    /\ tick = 0 /\ place = "none" /\ par = Zero /\ i = 1 /\ wake = 0
    /\ shutter = 0 /\ asserts \in BOOLEAN
    /\ asked = NoForm /\ overtaken = FALSE /\ elapsed = 0 /\ waiting = 0

Reset ==
    /\ timer_data' = Zero /\ update' = TRUE /\ armed' = FALSE
    /\ tick' = 0 /\ Nobody /\ shutter' = 0
    /\ UNCHANGED <<flash, asserts>>

WatchdogReset == armed /\ Reset
PowerCycle == Reset

-----------------------------------------------------------------------------
(* The calls, one at a time                                                 *)

Get(text, f) == IF f = "picture" THEN GetInteger(text, f) ELSE GetFloatInt(text, f)

\* parse_timer: the fields in order, into a copy of the stored settings, until
\* one is refused.
ParseField(results, form, f) ==
    UNION {IF ~r.ok THEN {r}
           ELSE {[ok |-> g.ok,
                  stored |-> IF g.stored = <<>> THEN r.stored
                             ELSE [r.stored EXCEPT ![f] = g.stored]]
                 : g \in Get(Text(form), f)} : r \in results}
NothingParsed == [ok |-> TRUE, stored |-> [f \in Fields |-> <<>>]]
Parsed(form) ==
    ParseField(ParseField(ParseField({NothingParsed}, form, "picture"),
                          form, "exposure"), form, "delay")
ParsedForms == [p \in Forms |-> Parsed(p)]

\* What a parse has stored over a record.
Over(record, stored) ==
    [f \in Fields |-> IF stored[f] = <<>> THEN record[f] ELSE stored[f][1]]

Running == place # "none"
Up == place # "halted"

\* A call that comes while the new task has not read all of its numbers.
Overtakes == overtaken' = (overtaken \/ place \in Reads)

Start ==
    /\ Up
    /\ IF Running
       THEN timer_data' = flash /\ Overtakes
            /\ UNCHANGED <<place, asked>>
       ELSE \E p \in Forms : \E r \in ParsedForms[p] :
              /\ timer_data' = Over(flash, r.stored)
              /\ IF r.ok THEN place' = "picture" /\ asked' = p
                 ELSE UNCHANGED <<place, asked>>
              /\ UNCHANGED overtaken
    /\ UNCHANGED <<flash, update, armed, tick, par, i, wake, shutter, asserts,
                   elapsed, waiting>>

PinAfterStop == 0

Stop ==
    /\ Up
    /\ timer_data' = flash
    /\ IF Running THEN Nobody /\ shutter' = PinAfterStop
       ELSE UNCHANGED <<taskVars, ghostVars>>
    /\ UNCHANGED <<flash, update, armed, tick, asserts>>

\* GET of update or settings.  A call that finds the semaphore taken gives it.
Show ==
    /\ Up
    /\ timer_data' = flash /\ update' = TRUE
    /\ Overtakes
    /\ UNCHANGED <<flash, armed, tick, taskVars, asserts, asked, elapsed, waiting>>

\* POST settings.  A refused form keeps the semaphore.
Save ==
    /\ Up
    /\ IF ~update
       THEN timer_data' = flash /\ update' = TRUE /\ UNCHANGED <<flash, armed>>
       ELSE \E p \in Forms : \E r \in ParsedForms[p] :
              /\ timer_data' = Over(flash, r.stored)
              /\ update' = r.ok
              /\ flash' = IF r.ok THEN timer_data' ELSE flash
              /\ armed' = (armed \/ r.ok)
    /\ Overtakes
    /\ UNCHANGED <<tick, taskVars, asserts, asked, elapsed, waiting>>

\* "%.2f" of (float)ms/1000, in hundredths.
Cut(ms) == ms \div Fine                     \* mutant: no rounding
Rounded(ms) == (2 * ms + Fine) \div (2 * Fine)
Shown(record) ==
    [f \in Fields |-> IF f = "picture" THEN record[f] * 100
                                       ELSE Rounded(record[f])]

-----------------------------------------------------------------------------
(* The task and the clock                                                   *)

Go(to) == place' = to /\ waiting' = 0

StoredSettings == flash             \* mutant: the task is given the sector
Argument == timer_data

Read ==
    /\ place \in Reads
    /\ par' = [par EXCEPT ![place] = Argument[place]]
    /\ Go(CASE place = "picture"  -> "exposure"
            [] place = "exposure" -> "delay"
            [] place = "delay"    -> "begin")
    /\ UNCHANGED <<flash, timer_data, update, armed, tick, i, wake, shutter,
                   asserts, asked, overtaken, elapsed>>

Begin ==
    /\ place = "begin" /\ Go("open")
    /\ wake' = tick /\ elapsed' = 0
    /\ UNCHANGED <<flash, timer_data, update, armed, tick, par, i, shutter,
                   asserts, asked, overtaken>>

\* pdMS_TO_TICKS: the product is cut to 32 bits.
Ticks(ms) == ((ms * Rate) % Word) \div Rate

\* vTaskDelayUntil(&xLasteWakeTime, ms): from the last wake-up and not from
\* now.  It goes on at once when it is late, and refuses a zero.
SinceNow(last) == tick              \* mutant: vTaskDelay
Since(last) == last

DelayUntil(ms, blocked, next) ==
    LET last == Since(wake)
        until == (last + Ticks(ms)) % Period
        ahead == IF tick < last THEN until < last /\ until > tick
                                ELSE until < last \/ until > tick
    IN IF asserts /\ Ticks(ms) = 0 THEN Go("halted") /\ UNCHANGED wake
       ELSE wake' = until /\ Go(IF ahead THEN blocked ELSE next)

Open ==
    /\ place = "open"
    /\ shutter' = 1
    /\ DelayUntil(par["exposure"], "exposing", "close")
    /\ UNCHANGED <<flash, timer_data, update, armed, tick, par, i, asserts,
                   asked, overtaken, elapsed>>

LastDone(n) == i >= n

Close ==
    /\ place = "close"
    /\ shutter' = 0
    /\ IF LastDone(par["picture"]) THEN Go("end") /\ UNCHANGED <<i, wake>>
       ELSE i' = (i % Count) + 1 /\ DelayUntil(par["delay"], "resting", "open")
    /\ UNCHANGED <<flash, timer_data, update, armed, tick, par, asserts,
                   asked, overtaken, elapsed>>

\* mutant: s_TimerTaskHandle keeps the ended task
Registered == place = "end" /\ UNCHANGED vars
End ==
    /\ place = "end" /\ Nobody
    /\ UNCHANGED <<flash, timer_data, update, armed, tick, shutter, asserts>>

Woken == CASE place = "exposing" -> "close" [] place = "resting" -> "open"

Tick ==
    /\ Up
    /\ place \in Ready => waiting < Late
    /\ tick' = (tick + 1) % Period
    /\ elapsed' = IF place \in Reads \cup {"none", "begin"} THEN 0 ELSE Min({elapsed + 1, Horizon})
    /\ IF place \in Blocked /\ tick' = wake THEN Go(Woken)
       ELSE /\ UNCHANGED place
            /\ waiting' = IF place \in Ready THEN waiting + 1 ELSE 0
    /\ UNCHANGED <<flash, timer_data, update, armed, par, i, wake, shutter,
                   asserts, asked, overtaken>>

-----------------------------------------------------------------------------
(* The specification                                                        *)

Call == Start \/ Stop \/ Show \/ Save
Task == Read \/ Begin \/ Open \/ Close \/ End
Next == Call \/ Task \/ Tick \/ WatchdogReset \/ PowerCycle

Spec == Init /\ [][Next]_vars

\* The tick interrupt comes, and a ready task gets a core (FreeRTOSConfig.h).
FairSpec == Spec /\ WF_vars(Tick) /\ WF_vars(Task)

-----------------------------------------------------------------------------
(* Properties                                                               *)

TypeOK ==
    /\ {flash, timer_data, par} \subseteq [Fields -> 0..(Word - 1)]
    /\ update \in BOOLEAN /\ armed \in BOOLEAN /\ overtaken \in BOOLEAN
    /\ tick \in 0..(Period - 1) /\ wake \in 0..(Period - 1)
    /\ place \in Ready \cup Blocked \cup {"none", "halted"}
    /\ i \in 1..Count /\ waiting \in 0..Late /\ elapsed \in 0..Horizon
    /\ shutter \in IF place \in {"exposing", "close", "halted"} THEN {0, 1} ELSE {0}
    /\ asked \in Forms \cup {NoForm}

\* The numbers of a sequence are those of the form that started it, but for a
\* thousandth, if no call comes before the task has read them: the record is
\* reloaded by every call (timer.c:104-107, 132, 145).
Means(form, f) == IF f = "picture" THEN Number[form[f][1]] \div 100
                                   ELSE Number[form[f][1]] * Fine
AskedIsShot ==
    place \in {"begin", "open", "close", "end"} \cup Blocked =>
      \/ overtaken
      \/ \A f \in Fields :
           Means(asked, f) - par[f] \in {0, IF f = "picture" THEN 0 ELSE 1}

\* Lateness does not add up: every exposure starts and ends as far from the
\* beginning of the sequence as it should, but for one delay of the scheduler,
\* also when the tick count wraps (timer.c:109-122).
Opening(k) == (k - 1) * (par["exposure"] + par["delay"])
OnSchedule ==
    /\ place = "exposing" =>
         elapsed \in Opening(i)..(Opening(i) + par["exposure"])
    /\ place = "resting" =>
         elapsed \in (Opening(i) - par["delay"])..Opening(i)
    /\ shutter = 1 /\ Up => elapsed <= Opening(i) + par["exposure"] + Late

\* What is saved is what the page then shows, although the conversion from
\* text cuts a thousandth that may be missing (timer.c:76, json_parser.c:206).
SavedIsShown ==
    [][flash' # flash => \E p \in Forms : \A f \in Fields :
         p[f] # <<>> /\ Shown(flash')[f] = Number[p[f][1]]]_vars

\* A sequence comes to its end whatever is asked for meanwhile, unless an
\* assertion stops the chip (timer.c:111-126).
SequenceEnds == Running ~> ~Running \/ ~Up
=============================================================================
