------------------------ MODULE TimerScheduleProofs ------------------------
(* Theorems about TimerSchedule: its types, and the schedule of a sequence   *)
(* whatever the numbers of its form, the length of the tick count and the    *)
(* lateness of the scheduler.                                                *)
EXTENDS TimerSchedule, SharedLemmas

LEMMA Constants ==
    /\ Fine \in Nat \ {0} /\ Word \in Nat \ {0} /\ Rate \in Nat \ {0}
    /\ Period \in Nat \ {0} /\ Late \in Nat /\ Horizon \in Nat /\ Count \in Nat \ {0}
    /\ Count <= Word /\ Factory \in [Fields -> 0..(Word - 1)]
    /\ \A w \in DOMAIN Number : Number[w] \in Nat
BY JsonAssumption, ScheduleAssumption

-----------------------------------------------------------------------------
(* Types                                                                    *)

Numbers32 == 0..(Word - 1)
Stored == {<<>>} \cup {<<v>> : v \in Numbers32}
ResultType == [ok : BOOLEAN, stored : [Fields -> Stored]]

\* What a getter stores is a number of 32 bits.
LEMMA Got ==
    ASSUME NEW text, NEW f, NEW g \in Get(text, f)
    PROVE  g.ok \in BOOLEAN /\ g.stored \in Stored
<1> USE Constants
<1>1. Refused.ok \in BOOLEAN /\ Refused.stored \in Stored
  BY DEF Refused, Outcome, Stored
<1>2. ASSUME NEW v \in Nat PROVE Ok(v % Word).ok \in BOOLEAN /\ Ok(v % Word).stored \in Stored
  <2>1. v % Word \in Numbers32
    BY <1>2 DEF Numbers32
  <2> QED BY <2>1 DEF Ok, Outcome, Stored
<1>3. CASE f = "picture"
  <2>1. g \in GetInteger(text, f)
    BY <1>3 DEF Get
  <2>2. g = Refused \/ \E s : IsInteger(s) /\ g = Ok((Number[s[1]] \div 100) % Word)
    <3> HIDE DEF Refused
    <3> QED BY <2>1 DEF GetInteger
  <2>3. CASE g = Refused
    BY <1>1, <2>3
  <2>4. ASSUME NEW s, IsInteger(s), g = Ok((Number[s[1]] \div 100) % Word)
        PROVE  g.ok \in BOOLEAN /\ g.stored \in Stored
    <3>1. Number[s[1]] \div 100 \in Nat
      BY <2>4 DEF IsInteger, IsNumber
    <3> QED BY <1>2, <2>4, <3>1
  <2> QED BY <2>2, <2>3, <2>4
<1>4. CASE f # "picture"
  <2>1. g \in GetFloatInt(text, f)
    BY <1>4 DEF Get
  <2>2. \/ g = Refused
        \/ \E s : IsNumber(s) /\ \E m \in Thousandths(Number[s[1]]) : g = Ok(m % Word)
    BY <2>1 DEF GetFloatInt
  <2>3. CASE g = Refused
    BY <1>1, <2>3
  <2>4. ASSUME NEW s, IsNumber(s), NEW m \in Thousandths(Number[s[1]]), g = Ok(m % Word)
        PROVE  g.ok \in BOOLEAN /\ g.stored \in Stored
    <3>1. Number[s[1]] \in Nat
      BY <2>4 DEF IsNumber
    <3> DEFINE h == Number[s[1]]
    <3>2. h * Fine \in Nat /\ (h # 0 => h * Fine - 1 \in Nat)
      <4> HIDE DEF h
      <4>1. h \in Nat
        BY <3>1 DEF h
      <4>2. h # 0 => h * Fine >= 1
        BY <4>1
      <4> QED BY <4>1, <4>2
    <3>3. m \in Nat
      BY <2>4, <3>2 DEF Thousandths
    <3> QED BY <1>2, <2>4, <3>3
  <2> QED BY <2>2, <2>3, <2>4
<1> QED BY <1>3, <1>4

LEMMA FieldType ==
    ASSUME NEW results, results \subseteq ResultType, NEW form, NEW f \in Fields
    PROVE  ParseField(results, form, f) \subseteq ResultType
<1> SUFFICES ASSUME NEW x \in ParseField(results, form, f) PROVE x \in ResultType
  OBVIOUS
<1>1. PICK r \in results :
        \/ x = r
        \/ \E g \in Get(Text(form), f) :
             x = [ok |-> g.ok, stored |-> IF g.stored = <<>> THEN r.stored
                                          ELSE [r.stored EXCEPT ![f] = g.stored]]
  BY DEF ParseField
<1>2. r \in ResultType
  BY <1>1
<1>3. CASE x = r
  BY <1>2, <1>3
<1>4. ASSUME NEW g \in Get(Text(form), f),
             x = [ok |-> g.ok, stored |-> IF g.stored = <<>> THEN r.stored
                                          ELSE [r.stored EXCEPT ![f] = g.stored]]
      PROVE  x \in ResultType
  <2>1. g.ok \in BOOLEAN /\ g.stored \in Stored
    BY <1>4, Got
  <2> QED BY <1>2, <1>4, <2>1 DEF ResultType
<1> QED BY <1>1, <1>3, <1>4

LEMMA ParsedType == ASSUME NEW form PROVE Parsed(form) \subseteq ResultType
<1>1. {NothingParsed} \subseteq ResultType
  BY DEF NothingParsed, ResultType, Stored
<1> QED BY <1>1, FieldType DEF Parsed, Fields

LEMMA OverType ==
    ASSUME NEW record \in [Fields -> Numbers32], NEW p \in Forms, NEW r \in ParsedForms[p]
    PROVE  Over(record, r.stored) \in [Fields -> Numbers32] /\ r.ok \in BOOLEAN
<1>1. r \in ResultType
  BY ParsedType DEF ParsedForms
<1>2. ASSUME NEW s \in Stored, s # <<>> PROVE s[1] \in Numbers32
  BY <1>2 DEF Stored
<1> QED BY <1>1, <1>2 DEF ResultType, Over

LEMMA LeastOfTwo ==
    ASSUME NEW a \in Nat, NEW b \in Nat
    PROVE  /\ Min({a, b}) \in Nat /\ Min({a, b}) <= b
           /\ a <= b => Min({a, b}) = a
<1> DEFINE IsMin(m) == m \in {a, b} /\ \A y \in {a, b} : m <= y
<1>1. IsMin(IF a <= b THEN a ELSE b)
  OBVIOUS
<1>2. IsMin(Min({a, b}))
  <2>1. Min({a, b}) = CHOOSE m : IsMin(m)
    BY DEF Min
  <2> HIDE DEF IsMin
  <2> QED BY <1>1, <2>1
<1> QED BY <1>2

LEMMA ZeroType == Zero \in [Fields -> 0..(Word - 1)]
BY Constants DEF Zero

\* Where no task is.
LEMMA NobodyType ==
    ASSUME Nobody, TypeOK, UNCHANGED flash, update' \in BOOLEAN, armed' \in BOOLEAN,
           timer_data' \in [Fields -> Numbers32],
           tick' \in 0..(Period - 1), shutter' = 0
    PROVE  TypeOK'
<1>1. par' \in [Fields -> Numbers32]
  BY ZeroType DEF Nobody, Numbers32
<1>2. 1 \in 1..Count /\ 0 \in 0..Late /\ 0 \in 0..Horizon /\ 0 \in 0..(Period - 1)
  BY Constants
<1>3. /\ wake' = 0 /\ i' = 1 /\ waiting' = 0 /\ elapsed' = 0 /\ overtaken' = FALSE
      /\ asked' = NoForm /\ place' = "none"
  BY DEF Nobody
<1> QED BY <1>1, <1>2, <1>3 DEF TypeOK, Numbers32

LEMMA TypeInit == Init => TypeOK
<1> SUFFICES ASSUME Init PROVE TypeOK
  OBVIOUS
<1>1. {flash, timer_data, par} \subseteq [Fields -> 0..(Word - 1)]
  BY Constants, ZeroType DEF Init
<1>2. 1 \in 1..Count /\ 0 \in 0..Late /\ 0 \in 0..Horizon /\ 0 \in 0..(Period - 1)
  BY Constants
<1> QED BY <1>1, <1>2 DEF Init, TypeOK

LEMMA TypeReset == TypeOK /\ Reset => TypeOK'
<1> SUFFICES ASSUME TypeOK, Reset PROVE TypeOK'
  OBVIOUS
<1>1. timer_data' \in [Fields -> Numbers32] /\ tick' \in 0..(Period - 1)
  BY Constants, ZeroType DEF Reset, Numbers32
<1>2. Nobody /\ shutter' = 0 /\ UNCHANGED flash /\ update' = TRUE /\ armed' = FALSE
  BY DEF Reset
<1> QED BY <1>1, <1>2, NobodyType

LEMMA TypeCall == TypeOK /\ Call => TypeOK'
<1> SUFFICES ASSUME TypeOK, Call PROVE TypeOK'
  OBVIOUS
<1> USE Constants
<1>1. flash \in [Fields -> Numbers32]
  BY DEF TypeOK, Numbers32
<1>2. CASE Start
  <2>1. timer_data' \in [Fields -> Numbers32]
    BY <1>1, <1>2, OverType DEF Start
  <2>2. overtaken' \in BOOLEAN
    BY <1>2 DEF Start, Overtakes, TypeOK
  <2>3. asked' \in Forms \cup {NoForm}
    BY <1>2 DEF Start, TypeOK
  <2>4. \/ UNCHANGED place
        \/ place = "none" /\ place' = "picture"
    BY <1>2 DEF Start, Running
  <2> QED BY <1>2, <2>1, <2>2, <2>3, <2>4 DEF Start, TypeOK, Ready, Reads, Blocked, Numbers32
<1>3. CASE Stop
  <2>1. CASE Running
    BY <1>1, <1>3, <2>1, NobodyType DEF Stop, PinAfterStop, TypeOK
  <2>2. CASE ~Running
    BY <1>3, <2>2 DEF Stop, taskVars, ghostVars, TypeOK
  <2> QED BY <2>1, <2>2
<1>4. CASE Show
  <2>1. overtaken' \in BOOLEAN
    BY <1>4 DEF Show, Overtakes, TypeOK
  <2> QED BY <1>4, <2>1 DEF Show, taskVars, TypeOK
<1>5. CASE Save
  <2>1. /\ timer_data' \in [Fields -> Numbers32] /\ flash' \in [Fields -> Numbers32]
        /\ update' \in BOOLEAN
    <3>1. CASE ~update
      BY <1>1, <1>5, <3>1 DEF Save
    <3>2. CASE update
      <4>1. PICK p \in Forms : \E r \in ParsedForms[p] :
              /\ timer_data' = Over(flash, r.stored)
              /\ update' = r.ok
              /\ flash' = IF r.ok THEN timer_data' ELSE flash
        BY <1>5, <3>2 DEF Save
      <4> QED BY <1>1, <4>1, OverType
    <3> QED BY <3>1, <3>2 DEF TypeOK
  <2>2. armed' \in BOOLEAN /\ overtaken' \in BOOLEAN
    BY <1>5 DEF Save, Overtakes, TypeOK
  <2> QED BY <1>5, <2>1, <2>2 DEF Save, taskVars, TypeOK, Numbers32
<1> QED BY <1>2, <1>3, <1>4, <1>5 DEF Call

\* Where vTaskDelayUntil goes on, and the wake-up time that it notes.
LEMMA DelayType ==
    ASSUME NEW ms \in Nat, NEW blocked, NEW next, TypeOK, DelayUntil(ms, blocked, next)
    PROVE  /\ wake' \in 0..(Period - 1) /\ waiting' = 0
           /\ place' \in {"halted", blocked, next}
<1> USE Constants
<1>1. Ticks(ms) \in Int
  BY DEF Ticks
<1>2. wake \in Int /\ wake \in 0..(Period - 1)
  BY DEF TypeOK
<1>3. (wake + Ticks(ms)) % Period \in 0..(Period - 1)
  BY <1>1, <1>2
<1> HIDE DEF Ticks
<1> QED BY <1>2, <1>3 DEF DelayUntil, Go, Since

LEMMA TypeTask == TypeOK /\ Task => TypeOK'
<1> SUFFICES ASSUME TypeOK, Task PROVE TypeOK'
  OBVIOUS
<1> USE Constants
<1>1. CASE Read
  <2>1. par' \in [Fields -> 0..(Word - 1)]
    BY <1>1 DEF Read, TypeOK, Argument, Reads, Fields
  <2>2. place' \in {"exposure", "delay", "begin"} /\ waiting' = 0 /\ shutter = 0
    BY <1>1 DEF Read, Go, Reads, TypeOK
  <2> QED BY <1>1, <2>1, <2>2 DEF Read, TypeOK, Ready, Reads, Blocked
<1>2. CASE Begin
  BY <1>2 DEF Begin, Go, TypeOK, Ready, Reads, Blocked
<1>3. CASE Open
  <2>1. par["exposure"] \in Nat
    BY DEF TypeOK, Fields
  <2>2. /\ wake' \in 0..(Period - 1) /\ waiting' = 0
        /\ place' \in {"halted", "exposing", "close"}
    BY <1>3, <2>1, DelayType DEF Open
  <2> QED BY <1>3, <2>2 DEF Open, TypeOK, Ready, Reads, Blocked
<1>4. CASE Close
  <2>1. par["delay"] \in Nat /\ i \in Nat
    BY DEF TypeOK, Fields
  <2>2. /\ wake' \in 0..(Period - 1) /\ waiting' = 0 /\ i' \in 1..Count
        /\ place' \in {"halted", "resting", "open", "end"}
    <3>1. CASE LastDone(par["picture"])
      BY <1>4, <3>1 DEF Close, Go, TypeOK
    <3>2. CASE ~LastDone(par["picture"])
      <4>1. i' \in 1..Count
        BY <1>4, <2>1, <3>2 DEF Close
      <4> QED BY <1>4, <2>1, <3>2, <4>1, DelayType DEF Close
    <3> QED BY <3>1, <3>2
  <2> QED BY <1>4, <2>2 DEF Close, TypeOK, Ready, Reads, Blocked
<1>5. CASE End
  BY <1>5, NobodyType DEF End, TypeOK, Numbers32
<1> QED BY <1>1, <1>2, <1>3, <1>4, <1>5 DEF Task

LEMMA TickType ==
    ASSUME TypeOK, Tick
    PROVE  /\ tick' \in 0..(Period - 1) /\ elapsed' \in 0..Horizon
           /\ elapsed < Horizon /\ place \notin Reads \cup {"none", "begin"}
                => elapsed' = elapsed + 1
<1> USE Constants
<1>1. tick' \in 0..(Period - 1)
  BY DEF Tick, TypeOK
<1>2. elapsed \in Nat /\ elapsed + 1 \in Nat
  BY DEF TypeOK
<1>3. /\ Min({elapsed + 1, Horizon}) \in 0..Horizon
      /\ elapsed < Horizon => Min({elapsed + 1, Horizon}) = elapsed + 1
  BY <1>2, LeastOfTwo
<1> QED BY <1>1, <1>3 DEF Tick

LEMMA TypeTick == TypeOK /\ Tick => TypeOK'
<1> SUFFICES ASSUME TypeOK, Tick PROVE TypeOK'
  OBVIOUS
<1>1. tick' \in 0..(Period - 1) /\ elapsed' \in 0..Horizon
  BY TickType
<1>2. /\ waiting' \in 0..Late
      /\ \/ UNCHANGED place
         \/ place = "exposing" /\ place' = "close"
         \/ place = "resting" /\ place' = "open"
  BY Constants DEF Tick, Go, Woken, TypeOK, Blocked
<1> QED BY <1>1, <1>2 DEF Tick, TypeOK, Ready, Reads, Blocked

\* The records hold numbers of 32 bits, and the pin is only high where the task
\* exposes (timer.c:109-122).
THEOREM TypesAreCorrect == Spec => []TypeOK
<1>1. TypeOK /\ [Next]_vars => TypeOK'
  <2>1. TypeOK /\ UNCHANGED vars => TypeOK'
    BY DEF TypeOK, vars, taskVars, ghostVars
  <2> QED BY <2>1, TypeReset, TypeCall, TypeTask, TypeTick
          DEF Next, WatchdogReset, PowerCycle
<1> QED BY <1>1, TypeInit, PTL DEF Spec

-----------------------------------------------------------------------------
(* Times                                                                    *)

\* The ticks from one reading of the tick count to a later one.
After(a, b) == IF a <= b THEN b - a ELSE b + Period - a

LEMMA Wrap ==
    ASSUME NEW a \in 0..(Period - 1), NEW b \in 0..Period
    PROVE  (a + b) % Period = IF a + b < Period THEN a + b ELSE a + b - Period
<1> USE Constants
<1>1. CASE a + b < Period
  BY <1>1
<1>2. CASE a + b >= Period
  <2>1. a + b - Period \in 0..(Period - 1) /\ a + b = Period * 1 + (a + b - Period)
    BY <1>2
  <2>2. (Period * 1 + (a + b - Period)) % Period = a + b - Period
    BY <2>1, UniqueRemainder
  <2> QED BY <1>2, <2>1, <2>2
<1> QED BY <1>1, <1>2

\* pdMS_TO_TICKS gives as many ticks as milliseconds while the product fits.
LEMMA TicksAre ==
    ASSUME NEW ms \in Nat, ms * Rate < Word
    PROVE  Ticks(ms) = ms
<1> USE Constants
<1> DEFINE a == ms * Rate
<1>1. a \in 0..(Word - 1)
  BY SMT
<1>2. a % Word = a
  <2> HIDE DEF a
  <2> QED BY <1>1
<1>3. (Rate * ms + 0) % Rate = 0
  BY UniqueRemainder
<1>4. a = Rate * ms + 0
  OBVIOUS
<1>5. a \div Rate \in Int /\ a = Rate * (a \div Rate) + (a % Rate)
  <2> HIDE DEF a
  <2> QED BY <1>1, Remainder
<1>6. Rate * ms = Rate * (a \div Rate)
  <2> HIDE DEF a
  <2> QED BY <1>3, <1>4, <1>5
<1>7. a \div Rate = ms
  <2> DEFINE q == a \div Rate
  <2>1. q \in Int /\ Rate * (q - ms) = 0
    <3> HIDE DEF a
    <3> QED BY <1>5, <1>6
  <2> HIDE DEF q, a
  <2>2. q - ms = 0
    BY <2>1
  <2> QED BY <2>1, <2>2 DEF q
<1> QED BY <1>2, <1>7 DEF Ticks

\* vTaskDelayUntil called some ticks after the last wake-up blocks when the
\* time that is asked for is longer than that, across the wrap of the count.
LEMMA DelayIs ==
    ASSUME NEW ms \in 0..(Period - 1), ms * Rate < Word, NEW blocked, NEW next,
           TypeOK, DelayUntil(ms, blocked, next), place' # "halted"
    PROVE  /\ waiting' = 0 /\ wake' \in 0..(Period - 1)
           /\ IF After(wake, tick) < ms
              THEN place' = blocked /\ After(tick, wake') = ms - After(wake, tick)
              ELSE place' = next /\ After(wake', tick) = After(wake, tick) - ms
<1> USE Constants
<1>1. tick \in 0..(Period - 1) /\ wake \in 0..(Period - 1)
  BY DEF TypeOK
<1>2. Ticks(ms) = ms
  BY TicksAre
<1>3. (wake + ms) % Period = IF wake + ms < Period THEN wake + ms ELSE wake + ms - Period
  <2>1. ms \in 0..Period
    OBVIOUS
  <2> QED BY <1>1, <2>1, Wrap, Zenon
<1> DEFINE until == (wake + Ticks(ms)) % Period
           ahead == IF tick < wake THEN until < wake /\ until > tick
                                   ELSE until < wake \/ until > tick
<1>4. wake' = until /\ waiting' = 0 /\ place' = IF ahead THEN blocked ELSE next
  BY DEF DelayUntil, Since, Go
<1>5. until = IF wake + ms < Period THEN wake + ms ELSE wake + ms - Period
  BY <1>2, <1>3
<1> HIDE DEF until
<1>6. ahead <=> After(wake, tick) < ms
  BY <1>1, <1>5 DEF After
<1>7. IF After(wake, tick) < ms THEN After(tick, until) = ms - After(wake, tick)
                                ELSE After(until, tick) = After(wake, tick) - ms
  BY <1>1, <1>5 DEF After
<1>8. until \in 0..(Period - 1)
  BY <1>1, <1>5
<1> QED BY <1>4, <1>6, <1>7, <1>8

-----------------------------------------------------------------------------
(* The schedule of a sequence                                               *)

\* The sequences that can keep their schedule: an exposure outlasts the
\* lateness of the scheduler, so do a delay or two of them, and no product or
\* count runs over.
Pictures == IF par["picture"] = 0 THEN 1 ELSE par["picture"]
Steady ==
    /\ par["picture"] < Count
    /\ \A f \in {"exposure", "delay"} : par[f] * Rate < Word /\ par[f] < Period
    /\ par["exposure"] > Late /\ 2 * Late < Period
    /\ Pictures = 1 \/ par["delay"] > Late \/ par["exposure"] > 2 * Late
    /\ Opening(Pictures) + par["exposure"] + Late < Horizon

\* How far the task is from its last wake-up, or from its next one.
Slack == IF i = 1 \/ par["delay"] > Late THEN 0 ELSE Late
Phase ==
    /\ place = "open" =>
         /\ elapsed - Opening(i) \in 0..(waiting + Slack)
         /\ After(wake, tick) = elapsed - Opening(i)
    /\ place = "exposing" =>
         /\ Opening(i) + par["exposure"] - elapsed \in 1..par["exposure"]
         /\ After(tick, wake) = Opening(i) + par["exposure"] - elapsed
    /\ place = "close" =>
         /\ elapsed = Opening(i) + par["exposure"] + waiting
         /\ After(wake, tick) = waiting
    /\ place = "resting" =>
         /\ Opening(i) - elapsed \in 1..par["delay"]
         /\ After(tick, wake) = Opening(i) - elapsed
Shooting == {"open", "exposing", "close", "resting"}
Timely ==
    /\ place \in Reads \cup {"none", "begin"} => i = 1
    /\ Steady /\ place \in Shooting => i <= Pictures /\ Phase

LEMMA Openings ==
    ASSUME TypeOK, NEW k \in Nat \ {0}
    PROVE  /\ Opening(1) = 0 /\ Opening(k) \in Nat
           /\ Opening(k + 1) = Opening(k) + par["exposure"] + par["delay"]
           /\ \A n \in Nat : k <= n => Opening(k) <= Opening(n)
<1> DEFINE d == par["exposure"] + par["delay"]
<1>1. par["exposure"] \in Nat /\ par["delay"] \in Nat /\ d \in Nat
  BY Constants DEF TypeOK, Fields
<1>2. Opening(k + 1) = ((k + 1) - 1) * d /\ Opening(k) = (k - 1) * d /\ Opening(1) = (1 - 1) * d
  BY DEF Opening
<1>3. ASSUME NEW n \in Nat, k <= n PROVE Opening(k) <= Opening(n)
  <2>1. (n - 1) * d = (k - 1) * d + (n - k) * d /\ (n - k) * d \in Nat /\ (k - 1) * d \in Nat
    <3> HIDE DEF d
    <3> QED BY <1>1, <1>3
  <2> HIDE DEF d
  <2> QED BY <1>1, <2>1 DEF Opening, d
<1>4. (k - 1) * d \in Nat /\ ((k + 1) - 1) * d = (k - 1) * d + d /\ (1 - 1) * d = 0
  <2> HIDE DEF d
  <2> QED BY <1>1
<1> QED BY <1>1, <1>2, <1>3, <1>4

LEMMA TimelyInit == Init => Timely
BY DEF Init, Timely, Shooting

LEMMA TimelyNobody == Nobody => Timely'
BY DEF Nobody, Timely, Shooting

\* What a step of the others leaves alone.
LEMMA TimelyFrame ==
    ASSUME Timely, UNCHANGED <<tick, taskVars, elapsed, waiting>>
    PROVE  Timely'
BY DEF Timely, Steady, Phase, Slack, Pictures, Opening, After, taskVars

LEMMA TimelyCall == Timely /\ Call => Timely'
<1> SUFFICES ASSUME Timely, Call PROVE Timely'
  OBVIOUS
<1>1. CASE Start
  <2>1. CASE UNCHANGED place
    BY <1>1, <2>1, TimelyFrame DEF Start, taskVars
  <2>2. CASE ~UNCHANGED place
    BY <1>1, <2>2 DEF Start, Running, Timely, Reads, Shooting
  <2> QED BY <2>1, <2>2
<1>2. CASE Stop
  BY <1>2, TimelyFrame, TimelyNobody DEF Stop, ghostVars
<1>3. CASE Show \/ Save
  BY <1>3, TimelyFrame DEF Show, Save
<1> QED BY <1>1, <1>2, <1>3 DEF Call

\* Late by less than an exposure, the task always blocks until it ends.
LEMMA TimelyOpen == TypeOK /\ Timely /\ Open => Timely'
<1> SUFFICES ASSUME TypeOK, Timely, Open, Steady, place' \in Shooting
             PROVE  i' <= Pictures' /\ Phase'
  BY DEF Open, Timely, Steady, Pictures, Opening, DelayUntil, Go, Reads
<1> USE Constants
<1> DEFINE O == Opening(i)
           E == par["exposure"]
<1>1. /\ E \in 0..(Period - 1) /\ E * Rate < Word /\ E > Late
      /\ par["picture"] \in Nat /\ par["delay"] \in Nat
  BY DEF TypeOK, Steady, Fields
<1>2. /\ i \in Nat \ {0} /\ i <= Pictures /\ O \in Nat /\ elapsed \in Nat
      /\ waiting \in 0..Late
      /\ elapsed - O \in 0..(waiting + Slack) /\ After(wake, tick) = elapsed - O
  BY Openings DEF Open, TypeOK, Timely, Phase, Shooting
<1>3. Slack = 0 \/ (Slack = Late /\ E > 2 * Late)
  <2>1. Pictures = 1 => i = 1
    BY <1>2
  <2> QED BY <2>1, <1>1 DEF Slack, Steady
<1>4. After(wake, tick) < E
  <2> HIDE DEF O, E
  <2> QED BY <1>1, <1>2, <1>3
<1>5. place' = "exposing" /\ After(tick, wake') = E - (elapsed - O)
  <2>1. DelayUntil(E, "exposing", "close") /\ place' # "halted"
    BY DEF Open, Shooting
  <2> HIDE DEF E, O
  <2> QED BY <1>1, <1>2, <1>4, <2>1, DelayIs
<1>6. UNCHANGED <<tick, elapsed, par, i>> /\ O' = O /\ Pictures' = Pictures
  BY DEF Open, Opening, Pictures
<1>7. After(tick, wake)' = E - (elapsed - O)
  BY <1>5, <1>6 DEF After
<1>8. Opening(i)' + par["exposure"]' - elapsed' \in 1..par["exposure"]'
  <2>1. O + E - elapsed \in 1..E
    <3> HIDE DEF O, E
    <3> QED BY <1>1, <1>2, <1>4
  <2> QED BY <1>6, <2>1
<1>9. After(tick, wake)' = Opening(i)' + par["exposure"]' - elapsed'
  <2>1. E - (elapsed - O) = O + E - elapsed
    <3> HIDE DEF O, E
    <3> QED BY <1>1, <1>2
  <2> QED BY <1>6, <1>7, <2>1
<1> QED BY <1>2, <1>5, <1>6, <1>8, <1>9 DEF Phase

\* The delay counts from the time at which the exposure should have ended.
LEMMA TimelyClose == TypeOK /\ Timely /\ Close => Timely'
<1> SUFFICES ASSUME TypeOK, Timely, Close, Steady, place' \in Shooting
             PROVE  i' <= Pictures' /\ Phase'
  BY DEF Close, Timely, Steady, Pictures, Opening, DelayUntil, Go, Reads
<1> USE Constants
<1> DEFINE O == Opening(i)
           E == par["exposure"]
           D == par["delay"]
<1>1. /\ D \in 0..(Period - 1) /\ D * Rate < Word
      /\ par["picture"] \in Nat /\ E \in Nat /\ par["picture"] < Count
  BY DEF TypeOK, Steady, Fields
<1>2. /\ i \in Nat \ {0} /\ O \in Nat /\ waiting \in 0..Late
      /\ elapsed = O + E + waiting /\ After(wake, tick) = waiting
      /\ Opening(i + 1) = O + E + D
  BY Openings DEF Close, TypeOK, Timely, Phase, Shooting
<1>3. ~LastDone(par["picture"]) /\ DelayUntil(D, "resting", "open") /\ place' # "halted"
  BY DEF Close, Go, Shooting
<1>4. i' = i + 1 /\ i' # 1 /\ i' <= Pictures
  <2>1. i' = (i % Count) + 1 /\ i < par["picture"]
    BY <1>1, <1>2, <1>3 DEF Close, LastDone
  <2>2. i % Count = i
    BY <1>1, <1>2, <2>1
  <2> QED BY <1>1, <1>2, <2>1, <2>2 DEF Pictures
<1>5. UNCHANGED <<tick, elapsed, par>> /\ Opening(i)' = O + E + D /\ Pictures' = Pictures
  BY <1>2, <1>4 DEF Close, Opening, Pictures
<1>6. /\ waiting' = 0
      /\ IF waiting < D
         THEN place' = "resting" /\ After(tick, wake)' = D - waiting
         ELSE place' = "open" /\ After(wake, tick)' = waiting - D
  <2>1. /\ waiting' = 0
        /\ IF After(wake, tick) < D
           THEN place' = "resting" /\ After(tick, wake') = D - After(wake, tick)
           ELSE place' = "open" /\ After(wake', tick) = After(wake, tick) - D
    <3> HIDE DEF D
    <3> QED BY <1>1, <1>3, DelayIs
  <2> QED BY <1>2, <1>5, <2>1 DEF After
<1>7. CASE waiting < D
  <2>1. (O + E + D) - elapsed = D - waiting /\ D - waiting \in 1..D
    <3> HIDE DEF O, E, D
    <3> QED BY <1>1, <1>2, <1>7
  <2> QED BY <1>4, <1>5, <1>6, <1>7, <2>1 DEF Phase
<1>8. CASE ~(waiting < D)
  <2>1. elapsed - (O + E + D) = waiting - D /\ waiting - D \in 0..Late /\ ~(D > Late)
    <3> HIDE DEF O, E, D
    <3> QED BY <1>1, <1>2, <1>8
  <2>2. Slack' = Late
    BY <1>4, <1>5, <2>1 DEF Slack
  <2> QED BY <1>4, <1>5, <1>6, <1>8, <2>1, <2>2 DEF Phase
<1> QED BY <1>7, <1>8

LEMMA TimelyTask == TypeOK /\ Timely /\ Task => Timely'
<1> SUFFICES ASSUME TypeOK, Timely, Task PROVE Timely'
  OBVIOUS
<1>1. CASE Read
  BY <1>1 DEF Read, Go, Timely, Reads, Shooting
<1>2. CASE Begin
  <2>1. /\ place' = "open" /\ waiting' = 0 /\ elapsed' = 0 /\ wake' = tick /\ tick' = tick
        /\ i' = 1 /\ UNCHANGED par /\ tick \in Nat
    BY <1>2, Constants DEF Begin, Go, Timely, TypeOK
  <2>2. Opening(i)' = 0 /\ Slack' = 0 /\ i' <= Pictures'
    <3>1. Opening(1) = 0 /\ par["picture"] \in Nat
      BY Openings, Constants DEF TypeOK, Fields
    <3> QED BY <2>1, <3>1 DEF Opening, Slack, Pictures
  <2>3. After(wake, tick)' = 0
    BY <2>1 DEF After
  <2> QED BY <2>1, <2>2, <2>3 DEF Timely, Phase, Reads
<1>3. CASE End
  BY <1>3, TimelyNobody DEF End
<1> QED BY <1>1, <1>2, <1>3, TimelyOpen, TimelyClose DEF Task

LEMMA TimelyTick == TypeOK /\ Timely /\ Tick => Timely'
<1> SUFFICES ASSUME TypeOK, Timely, Tick PROVE Timely'
  OBVIOUS
<1> USE Constants
<1>1. UNCHANGED <<par, i, wake>>
  BY DEF Tick
<1>2. \/ UNCHANGED place /\ waiting' = IF place \in Ready THEN waiting + 1 ELSE 0
      \/ /\ place \in Blocked /\ tick' = wake /\ waiting' = 0
         /\ place' = IF place = "exposing" THEN "close" ELSE "open"
  BY DEF Tick, Go, Woken, Blocked
<1>3. place' \in Reads \cup {"none", "begin"} => i' = 1
  BY <1>1, <1>2 DEF Timely, Reads, Blocked
<1>4. SUFFICES ASSUME Steady, place' \in Shooting PROVE i' <= Pictures' /\ Phase'
  BY <1>1, <1>3 DEF Timely, Steady, Pictures, Opening
<1>5. place \in Shooting /\ i <= Pictures /\ Phase
  BY <1>2, <1>4 DEF Timely, Shooting, Blocked
<1> DEFINE O == Opening(i)
           E == par["exposure"]
           D == par["delay"]
<1>6. /\ E \in Nat /\ D \in Nat /\ i \in Nat \ {0} /\ elapsed \in Nat /\ waiting \in Nat
      /\ tick \in 0..(Period - 1) /\ wake \in 0..(Period - 1)
      /\ E < Period /\ D < Period /\ E > Late /\ O \in Nat /\ O + E + Late < Horizon
  <2>1. par["picture"] \in Nat /\ par["exposure"] \in Nat /\ par["delay"] \in Nat
    BY DEF TypeOK, Fields
  <2>2. i \in Nat \ {0} /\ Pictures \in Nat /\ Pictures \in Nat \ {0}
    BY <2>1 DEF TypeOK, Pictures
  <2>3. O \in Nat /\ Opening(Pictures) \in Nat /\ O <= Opening(Pictures)
    BY <1>5, <2>2, Openings
  <2>4. E < Period /\ D < Period /\ E > Late /\ Opening(Pictures) + E + Late < Horizon
    BY <1>4 DEF Steady
  <2>5. elapsed \in Nat /\ waiting \in Nat /\ tick \in 0..(Period - 1) /\ wake \in 0..(Period - 1)
    BY DEF TypeOK
  <2>6. O + E + Late < Horizon
    <3> HIDE DEF O
    <3> QED BY <2>1, <2>3, <2>4
  <2> QED BY <2>1, <2>2, <2>3, <2>4, <2>5, <2>6
<1>7. Opening(i)' = O /\ Slack' = Slack /\ Pictures' = Pictures
  BY <1>1 DEF Opening, Slack, Pictures
<1>8. tick' = IF tick + 1 < Period THEN tick + 1 ELSE tick + 1 - Period
  <2>1. tick' = (tick + 1) % Period /\ 1 \in 0..Period
    BY DEF Tick
  <2> QED BY <1>6, <2>1, Wrap
<1>9. elapsed < Horizon => elapsed' = elapsed + 1
  BY <1>5, TickType DEF Shooting, Reads
<1>10. Slack \in {0, Late} /\ (Slack = 0 \/ E > 2 * Late)
  <2>1. Pictures = 1 => i = 1
    BY <1>5, <1>6
  <2>2. Pictures = 1 \/ D > Late \/ E > 2 * Late
    BY <1>4 DEF Steady
  <2> QED BY <2>1, <2>2 DEF Slack
<1>11. 2 * Late < Period
  BY <1>4 DEF Steady
<1> HIDE DEF O, E, D
<1>12. CASE place = "open"
  <2>1. /\ elapsed - O \in 0..(waiting + Slack) /\ After(wake, tick) = elapsed - O
        /\ waiting < Late /\ waiting' = waiting + 1 /\ place' = "open"
    BY <1>2, <1>5, <1>12 DEF Phase, O, Tick, Ready, Blocked
  <2>2. elapsed < Horizon /\ elapsed' = elapsed + 1
    BY <1>6, <1>9, <1>10, <2>1
  <2>3. elapsed' - O \in 0..(waiting' + Slack)
    BY <1>6, <1>10, <2>1, <2>2
  <2>4. After(wake, tick) + 1 < Period
    BY <1>6, <1>10, <1>11, <2>1
  <2>5. After(wake, tick') = elapsed' - O
    BY <1>6, <1>8, <2>1, <2>2, <2>4 DEF After
  <2>6. After(wake, tick)' = elapsed' - O
    BY <1>1, <2>5 DEF After
  <2> QED BY <1>1, <1>5, <1>7, <2>1, <2>3, <2>6 DEF Phase
<1>13. CASE place = "exposing"
  <2>1. O + E - elapsed \in 1..E /\ After(tick, wake) = O + E - elapsed
    BY <1>5, <1>13 DEF Phase, O, E
  <2>2. elapsed' = elapsed + 1
    BY <1>6, <1>9, <2>1
  <2>3. CASE tick' = wake
    <3>1. After(tick, wake) = 1
      BY <1>6, <1>8, <2>1, <2>3 DEF After
    <3>2. place' = "close" /\ waiting' = 0
      BY <1>2, <1>13, <2>3 DEF Tick, Blocked, Go, Woken
    <3>3. elapsed' = O + E + waiting'
      BY <1>6, <2>1, <2>2, <3>1, <3>2
    <3>4. After(wake, tick)' = 0
      BY <1>1, <1>6, <2>3 DEF After
    <3> QED BY <1>1, <1>5, <1>7, <3>2, <3>3, <3>4 DEF Phase, E
  <2>4. CASE tick' # wake
    <3>1. After(tick, wake) # 1 /\ After(tick', wake) = After(tick, wake) - 1
      BY <1>6, <1>8, <2>1, <2>4 DEF After
    <3>2. place' = "exposing"
      BY <1>2, <1>13, <2>4
    <3>3. O + E - elapsed' \in 1..E /\ After(tick', wake) = O + E - elapsed'
      BY <1>6, <2>1, <2>2, <3>1
    <3>4. After(tick, wake)' = After(tick', wake)
      BY <1>1 DEF After
    <3> QED BY <1>1, <1>5, <1>7, <3>2, <3>3, <3>4 DEF Phase, E
  <2> QED BY <2>3, <2>4
<1>14. CASE place = "close"
  <2>1. /\ elapsed = O + E + waiting /\ After(wake, tick) = waiting
        /\ waiting < Late /\ waiting' = waiting + 1 /\ place' = "close"
    BY <1>2, <1>5, <1>14 DEF Phase, O, E, Tick, Ready, Blocked
  <2>2. elapsed' = elapsed + 1
    BY <1>6, <1>9, <2>1
  <2>3. After(wake, tick') = waiting'
    BY <1>6, <1>8, <1>11, <2>1 DEF After
  <2>4. After(wake, tick)' = waiting' /\ elapsed' = O + E + waiting'
    BY <1>1, <1>6, <2>1, <2>2, <2>3 DEF After
  <2> QED BY <1>1, <1>5, <1>7, <2>1, <2>4 DEF Phase, E
<1>15. CASE place = "resting"
  <2>1. O - elapsed \in 1..D /\ After(tick, wake) = O - elapsed
    BY <1>5, <1>15 DEF Phase, O, D
  <2>2. elapsed' = elapsed + 1
    BY <1>6, <1>9, <2>1
  <2>3. CASE tick' = wake
    <3>1. After(tick, wake) = 1
      BY <1>6, <1>8, <2>1, <2>3 DEF After
    <3>2. place' = "open" /\ waiting' = 0
      BY <1>2, <1>15, <2>3 DEF Tick, Blocked, Go, Woken
    <3>3. elapsed' - O = 0 /\ 0 \in 0..(waiting' + Slack)
      BY <1>6, <1>10, <2>1, <2>2, <3>1, <3>2
    <3>4. After(wake, tick)' = 0
      BY <1>1, <1>6, <2>3 DEF After
    <3> QED BY <1>1, <1>5, <1>7, <3>2, <3>3, <3>4 DEF Phase
  <2>4. CASE tick' # wake
    <3>1. After(tick, wake) # 1 /\ After(tick', wake) = After(tick, wake) - 1
      BY <1>6, <1>8, <2>1, <2>4 DEF After
    <3>2. place' = "resting"
      BY <1>2, <1>15, <2>4
    <3>3. O - elapsed' \in 1..D /\ After(tick', wake) = O - elapsed'
      BY <1>6, <2>1, <2>2, <3>1
    <3>4. After(tick, wake)' = After(tick', wake)
      BY <1>1 DEF After
    <3> QED BY <1>1, <1>5, <1>7, <3>2, <3>3, <3>4 DEF Phase, D
  <2> QED BY <2>3, <2>4
<1> QED BY <1>5, <1>12, <1>13, <1>14, <1>15 DEF Shooting

\* Lateness does not add up: each exposure starts and ends as far from the
\* beginning of its sequence as its numbers say, but for one delay of the
\* scheduler, also when the tick count wraps (timer.c:109-122).
THEOREM KeepsItsSchedule == Spec => [](Steady => OnSchedule)
<1>1. TypeOK /\ Timely /\ [Next]_vars => Timely'
  <2>1. Timely /\ Reset => Timely'
    BY TimelyNobody DEF Reset
  <2>2. Timely /\ UNCHANGED vars => Timely'
    BY TimelyFrame DEF vars, ghostVars
  <2> QED BY <2>1, <2>2, TimelyCall, TimelyTask, TimelyTick
          DEF Next, WatchdogReset, PowerCycle
<1>2. TypeOK /\ Timely => (Steady => OnSchedule)
  <2> SUFFICES ASSUME TypeOK, Timely, Steady PROVE OnSchedule
    OBVIOUS
  <2> DEFINE O == Opening(i)
  <2>1. /\ par["exposure"] \in Nat /\ par["delay"] \in Nat /\ elapsed \in Nat
        /\ waiting \in 0..Late /\ i \in Nat \ {0} /\ O \in Nat
    BY Openings, Constants DEF TypeOK, Fields
  <2>2. place \in Shooting => Phase
    BY DEF Timely
  <2>3. place = "exposing" => elapsed \in O..(O + par["exposure"])
    <3> HIDE DEF O
    <3> QED BY <2>1, <2>2 DEF Phase, Shooting, O
  <2>4. place = "resting" => elapsed \in (O - par["delay"])..O
    <3> HIDE DEF O
    <3> QED BY <2>1, <2>2 DEF Phase, Shooting, O
  <2>5. place = "close" => elapsed <= O + par["exposure"] + Late
    <3>1. place = "close" => elapsed = O + par["exposure"] + waiting
      BY <2>2 DEF Phase, Shooting
    <3> HIDE DEF O
    <3> QED BY <2>1, <3>1, Constants
  <2>6. shutter = 1 /\ Up => place \in {"exposing", "close"}
    BY DEF TypeOK, Up
  <2>7. place = "exposing" => elapsed <= O + par["exposure"] + Late
    <3> HIDE DEF O
    <3> QED BY <2>1, <2>3, Constants
  <2> QED BY <2>3, <2>4, <2>5, <2>6, <2>7 DEF OnSchedule
<1> QED BY <1>1, <1>2, TimelyInit, TypesAreCorrect, PTL DEF Spec

-----------------------------------------------------------------------------
(* What is typed and what is stored                                         *)

Near(p, f, n) == Means(p, f) - n \in {0, IF f = "picture" THEN 0 ELSE 1}

\* n is stored for what is typed in f, and shows as it.
Right(p, f, n) ==
    /\ n \in Numbers32 /\ IsNumber(p[f]) /\ p[f] # <<>> /\ Near(p, f, n)
    /\ (IF f = "picture" THEN n * 100 ELSE Rounded(n)) = Number[p[f][1]]

LEMMA Small ==
    ASSUME NEW n \in Nat, NEW r \in Nat \ {0}, NEW w \in Nat, n * r < w
    PROVE  n < w
<1>1. n <= n * r
  <2>1. n * r = n + n * (r - 1) /\ n * (r - 1) >= 0
    OBVIOUS
  <2> QED BY <2>1
<1> DEFINE p == n * r
<1>2. p \in Nat
  OBVIOUS
<1> HIDE DEF p
<1> QED BY <1>1, <1>2 DEF p

\* The cut of a product that lacks a thousandth disappears in the rounding.
LEMMA RoundedIs ==
    ASSUME NEW h \in Nat, NEW m \in Thousandths(h)
    PROVE  m \in Nat /\ h * Fine - m \in {0, 1} /\ m <= h * Fine /\ Rounded(m) = h
<1>1. Fine \in Nat /\ Fine > 1
  BY JsonAssumption, ScheduleAssumption
<1> DEFINE a == h * Fine
           d == 2 * Fine
<1>2. a \in Nat /\ (h # 0 => a >= 1) /\ d \in Nat \ {0} /\ d * h = 2 * a
  BY <1>1
<1>3. m = a \/ (h # 0 /\ m = a - 1)
  BY DEF Thousandths
<1> HIDE DEF a
<1>4. PICK r \in 0..(d - 1) : 2 * m + Fine = d * h + r
  <2>1. CASE m = a
    <3>1. Fine \in 0..(d - 1) /\ 2 * m + Fine = d * h + Fine
      BY <1>1, <1>2, <2>1
    <3> QED BY <3>1
  <2>2. CASE m = a - 1
    <3>1. Fine - 2 \in 0..(d - 1) /\ 2 * m + Fine = d * h + (Fine - 2)
      BY <1>1, <1>2, <2>2
    <3> QED BY <3>1, Zenon
  <2> QED BY <1>3, <2>1, <2>2
<1> HIDE DEF d
<1>5. (d * h + r) \div d = h
  BY <1>2, UniqueRemainder
<1>6. Rounded(m) = h
  <2>1. Rounded(m) = (2 * m + Fine) \div d
    BY DEF Rounded, d
  <2> QED BY <1>4, <1>5, <2>1
<1> QED BY <1>2, <1>3, <1>6 DEF a

\* A number that a getter takes from what is typed.
LEMMA NumberIsRight ==
    ASSUME NEW p \in Forms, NEW f \in Fields, NEW g,
           IF f = "picture" THEN GotInteger(g, p[f]) ELSE GotFloat(g, p[f]), g.ok
    PROVE  \E n : g.stored = <<n>> /\ Right(p, f, n)
<1> DEFINE w == p[f]
           h == Number[w[1]]
<1>1. IsNumber(w) /\ h \in Nat /\ w # <<>>
  <2>1. IsNumber(w)
    BY DEF GotInteger, GotFloat, IsInteger
  <2>2. w # <<>>
    BY <2>1 DEF IsNumber
  <2> QED BY <2>1, <2>2, Constants DEF IsNumber
<1>2. CASE f = "picture"
  <2>1. IsInteger(w) /\ g.stored = <<(h \div 100) % Word>>
    BY <1>2 DEF GotInteger
  <2>2. h \div 100 < Count /\ h \div 100 \in Nat /\ h % 100 = 0
    BY <1>1, <1>2, <2>1, ScheduleAssumption DEF IsInteger
  <2> HIDE DEF w, h
  <2>3. h \div 100 \in Numbers32 /\ (h \div 100) % Word = h \div 100
    <3>1. h \div 100 < Word
      BY <2>2, Constants
    <3> QED BY <2>2, <3>1, Constants DEF Numbers32
  <2>4. (h \div 100) * 100 = h
    BY <1>1, <2>2
  <2>5. Near(p, f, h \div 100)
    BY <1>2, <2>2 DEF Near, Means, w, h
  <2> QED BY <1>1, <1>2, <2>1, <2>3, <2>4, <2>5 DEF Right, w, h
<1>3. CASE f # "picture"
  <2>1. PICK m \in Thousandths(h) : g.stored = <<m % Word>>
    BY <1>3 DEF GotFloat
  <2>2. h * Fine * Rate < Word
    BY <1>1, <1>3, ScheduleAssumption
  <2>3. m \in Nat /\ h * Fine - m \in {0, 1} /\ m <= h * Fine /\ Rounded(m) = h
    BY <1>1, RoundedIs, Zenon
  <2> DEFINE a == h * Fine
  <2>4. a \in Nat
    BY <1>1, Constants
  <2>5. a < Word
    <3> HIDE DEF a
    <3>1. Rate \in Nat \ {0} /\ Word \in Nat
      BY Constants
    <3>2. a * Rate < Word
      BY <2>2, Zenon DEF a
    <3> QED BY <2>4, <3>1, <3>2, Small
  <2> HIDE DEF h, w
  <2>6. m \in Numbers32 /\ m % Word = m
    <3> HIDE DEF a
    <3>1. m <= a /\ m \in Nat
      BY <2>3 DEF a
    <3>2. Word \in Nat \ {0}
      BY Constants
    <3>3. m < Word
      BY <2>4, <2>5, <3>1, <3>2
    <3> QED BY <3>1, <3>2, <3>3 DEF Numbers32
  <2>7. Near(p, f, m)
    <3>1. Means(p, f) = h * Fine
      BY <1>3 DEF Means, h, w
    <3> QED BY <1>3, <2>3, <3>1, Zenon DEF Near
  <2> QED BY <1>1, <1>3, <2>1, <2>3, <2>6, <2>7 DEF Right, w, h
<1> QED BY <1>2, <1>3

-----------------------------------------------------------------------------
(* What a getter finds in a form                                            *)

LEMMA FieldWords ==
    /\ FieldOrder = <<"picture", "exposure", "delay">> /\ Len(FieldOrder) = 3
    /\ \A k \in 1..3 : FieldOrder[k] \in Fields
    /\ \A f \in Fields : \E k \in 1..3 : f = FieldOrder[k]
    /\ \A k, n \in 1..3 : FieldOrder[k] = FieldOrder[n] => k = n
BY DEF FieldOrder, Fields

LEMMA FieldNames ==
    ASSUME NEW f \in Fields
    PROVE  Spelled(f) = <<f>> /\ f \notin Marks
<1>1. f = "picture" \/ f = "exposure" \/ f = "delay"
  BY DEF Fields
<1>2. f \notin Marks
  BY <1>1, Zenon DEF Marks, Q, Colon, EndMarks, StartMarks
<1> QED BY <1>1, <1>2, Zenon DEF Spelled

LEMMA NumberWords ==
    ASSUME NEW p \in Forms, NEW f \in Fields
    PROVE  /\ p[f] \in Seq(DOMAIN Number) /\ NoEnd(p[f])
           /\ \A j \in 1..Len(p[f]) : p[f][j] \notin Marks \cup Fields
<1>1. p[f] \in Seq(DOMAIN Number)
  <2>1. p \in [Fields -> Seq(DOMAIN Number)]
    BY FormsAssumption, Zenon
  <2> QED BY <2>1
<1>2. \A w \in DOMAIN Number : w \notin Marks \cup Fields
  BY FormsAssumption, Zenon DEF Marks, Colon, EndMarks, StartMarks
<1>3. \A j \in 1..Len(p[f]) : p[f][j] \in DOMAIN Number
  BY <1>1
<1> QED BY <1>1, <1>2, <1>3, MarksDiffer, Zenon DEF NoEnd, Marks

LEMMA FieldQuotes ==
    ASSUME NEW p \in Forms, NEW g \in Fields, NEW f \in Fields
    PROVE  IsValue(Quote(p[g])) /\ Differs(Quote(p[g]), <<f>>)
<1> DEFINE w == p[g]
           v == Quote(w)
           S == Marks \cup Fields \cup DOMAIN Number
<1>1. w \in Seq(S) /\ Q \in S
  <2>1. w \in Seq(DOMAIN Number)
    BY NumberWords
  <2>2. Q \in Marks
    BY MarksDiffer
  <2> QED BY <2>1, <2>2
<1>2. \A j \in 1..Len(w) : w[j] # Q /\ w[j] # f
  BY NumberWords, MarksDiffer
<1> HIDE DEF S, w
<1>3. /\ v \in Seq(S) /\ Len(v) = Len(w) + 2 /\ v[1] = Q /\ v[Len(w) + 2] = Q
      /\ \A j \in 1..Len(w) : v[j + 1] = w[j]
  BY <1>1, QuoteIs, Zenon
<1> HIDE DEF v
<1>4. Len(w) \in Nat
  BY <1>1
<1>5. Quotes(v, w)
  BY <1>2, <1>3, <1>4 DEF Quotes
<1>6. ASSUME NEW x, Quotes(v, x), Same(<<f>>, x) PROVE FALSE
  <2>1. Len(x) = 1 /\ x[1] = f
    BY <1>6 DEF Same
  <2>2. v[1 + 1] = f /\ Len(v) = 3
    BY <1>6, <2>1 DEF Quotes
  <2>3. Len(w) = 1
    <3>1. Len(w) + 2 = 3
      BY <1>3, <2>2, Zenon
    <3>2. \A n \in Nat : n + 2 = 3 => n = 1
      OBVIOUS
    <3> QED BY <1>4, <3>1, <3>2, Zenon
  <2>4. v[1 + 1] = w[1] /\ w[1] # f
    BY <1>2, <1>3, <2>3
  <2> QED BY <2>2, <2>4
<1> QED BY <1>5, <1>6 DEF IsValue, Differs, v, w

LEMMA FieldFound ==
    ASSUME NEW p \in Forms, NEW f \in Fields, NEW size
    PROVE  ExtractValue(Text(p), f, size) = Sized(Quote(p[f]), size)
<1> DEFINE S == Marks \cup Fields \cup DOMAIN Number
           keys == FieldOrder
           printed == [k \in Fields |-> Quote(p[k])]
<1>1. Marks \subseteq S /\ Q \in S /\ Fields \subseteq S
  BY MarksDiffer
<1>2. \A g \in Fields : p[g] \in Seq(S)
  <2> SUFFICES ASSUME NEW g \in Fields PROVE p[g] \in Seq(S)
    OBVIOUS
  <2>1. p[g] \in Seq(DOMAIN Number)
    BY NumberWords
  <2> QED BY <2>1
<1> HIDE DEF S
<1>3. \A g \in Fields : Spelled(g) \in Seq(S)
  <2> SUFFICES ASSUME NEW g \in Fields PROVE Spelled(g) \in Seq(S)
    OBVIOUS
  <2>1. g \in S /\ Spelled(g) = <<g>>
    BY <1>1, FieldNames
  <2>2. <<g>> \in Seq(S)
    BY <2>1
  <2> QED BY <2>1, <2>2, Zenon
<1>4. \A g \in Fields : printed[g] = Quote(p[g]) /\ printed[g] \in Seq(S)
  BY <1>1, <1>2, QuoteIs
<1>5. Text(p) = Stringify(keys, printed)
  BY DEF Text
<1> HIDE DEF printed
<1>6. IsForm(keys, printed, S)
  BY <1>1, <1>3, <1>4, FieldWords DEF IsForm
<1>7. PICK k \in 1..Len(keys) : f = keys[k]
  BY FieldWords
<1>8. ASSUME NEW g \in Fields PROVE IsName(Spelled(g))
  <2>1. Spelled(g) = <<g>> /\ g \notin Marks
    BY FieldNames
  <2>2. Len(<<g>>) = 1 /\ <<g>>[1] = g
    OBVIOUS
  <2> QED BY <2>1, <2>2 DEF IsName
<1>9. IsKey(Spelled(keys[k]), k, keys, printed)
  <2> SUFFICES ASSUME NEW n \in 1..(k - 1)
               PROVE  /\ IsName(Spelled(keys[n])) /\ ~Same(Spelled(keys[k]), Spelled(keys[n]))
                      /\ IsValue(printed[keys[n]])
                      /\ Differs(printed[keys[n]], Spelled(keys[k]))
    BY <1>7, <1>8 DEF IsKey
  <2>1. n \in 1..3 /\ k \in 1..3 /\ n # k
    BY FieldWords
  <2>2. keys[n] \in Fields /\ keys[n] # f
    BY <1>7, <2>1, FieldWords
  <2>3. Spelled(f) = <<f>> /\ Spelled(keys[n]) = <<keys[n]>>
    BY <2>2, FieldNames
  <2>4. ~Same(<<f>>, <<keys[n]>>)
    BY <2>2 DEF Same
  <2>5. IsValue(Quote(p[keys[n]])) /\ Differs(Quote(p[keys[n]]), <<f>>)
    BY <2>2, FieldQuotes
  <2>6. printed[keys[n]] = Quote(p[keys[n]])
    BY <1>4, <2>2
  <2> QED BY <1>7, <1>8, <2>2, <2>3, <2>4, <2>5, <2>6, Zenon
<1>10. p[f] \in Seq(S) /\ printed[keys[k]] = Quote(p[f]) /\ NoEnd(p[f])
  BY <1>2, <1>4, <1>7, NumberWords
<1>11. ExtractValue(Stringify(keys, printed), keys[k], size) = Sized(Quote(p[f]), size)
  <2> HIDE DEF keys
  <2>1. /\ IsForm(keys, printed, S) /\ k \in 1..Len(keys) /\ p[f] \in Seq(S)
        /\ IsKey(Spelled(keys[k]), k, keys, printed)
        /\ printed[keys[k]] = Quote(p[f]) /\ NoEnd(p[f])
    BY <1>6, <1>7, <1>9, <1>10 DEF keys
  <2> QED BY <2>1, TypedIs
<1> QED BY <1>5, <1>7, <1>11

LEMMA GetIsRight ==
    ASSUME NEW p \in Forms, NEW f \in Fields, NEW g \in Get(Text(p), f), g.ok
    PROVE  \E n : g.stored = <<n>> /\ Right(p, f, n)
<1> DEFINE S == Marks \cup DOMAIN Number
<1>1. Q \in S /\ p[f] \in Seq(S)
  <2>1. p[f] \in Seq(DOMAIN Number)
    BY NumberWords
  <2>2. Q \in Marks
    BY MarksDiffer
  <2> QED BY <2>1, <2>2
<1> HIDE DEF S
<1>2. \A size : ExtractValue(Text(p), f, size) = Sized(Quote(p[f]), size)
  BY FieldFound, Zenon
<1>3. /\ \A r \in GetInteger(Text(p), f) : GotInteger(r, p[f])
      /\ \A r \in GetFloatInt(Text(p), f) : GotFloat(r, p[f])
  BY <1>1, <1>2, NumbersAre, Zenon
<1>4. IF f = "picture" THEN GotInteger(g, p[f]) ELSE GotFloat(g, p[f])
  BY <1>3 DEF Get
<1> QED BY <1>4, NumberIsRight, Zenon

\* Every field of done holds what is typed in it.
AllRight(p, done, stored) ==
    \A f \in done : \E n : stored[f] = <<n>> /\ Right(p, f, n)

LEMMA FieldRight ==
    ASSUME NEW p \in Forms, NEW results, results \subseteq ResultType, NEW done,
           \A r \in results : r.ok => AllRight(p, done, r.stored),
           NEW f \in Fields, done \subseteq Fields \ {f}, NEW x \in ParseField(results, p, f),
           x.ok
    PROVE  AllRight(p, done \cup {f}, x.stored)
<1>1. PICK r \in results :
        \/ ~r.ok /\ x = r
        \/ r.ok /\ \E g \in Get(Text(p), f) :
             x = [ok |-> g.ok, stored |-> IF g.stored = <<>> THEN r.stored
                                          ELSE [r.stored EXCEPT ![f] = g.stored]]
  BY DEF ParseField
<1>2. r.ok
  BY <1>1
<1>3. PICK g \in Get(Text(p), f) :
        x = [ok |-> g.ok, stored |-> IF g.stored = <<>> THEN r.stored
                                     ELSE [r.stored EXCEPT ![f] = g.stored]]
  BY <1>1, <1>2
<1>4. g.ok
  BY <1>3
<1>5. PICK n : g.stored = <<n>> /\ Right(p, f, n)
  BY <1>4, GetIsRight, Zenon
<1>6. g.stored # <<>>
  BY <1>5
<1>7. x.stored = [r.stored EXCEPT ![f] = g.stored]
  BY <1>3, <1>6
<1>8. r.stored \in [Fields -> Stored]
  BY <1>1 DEF ResultType
<1>9. x.stored[f] = <<n>> /\ \A d \in done : x.stored[d] = r.stored[d]
  BY <1>5, <1>7, <1>8
<1> QED BY <1>1, <1>2, <1>5, <1>9, Zenon DEF AllRight

LEMMA ParsedRight ==
    ASSUME NEW p \in Forms, NEW r \in ParsedForms[p], r.ok
    PROVE  AllRight(p, Fields, r.stored)
<1> DEFINE a == ParseField({NothingParsed}, p, "picture")
           b == ParseField(a, p, "exposure")
<1>1. "picture" \in Fields /\ "exposure" \in Fields /\ "delay" \in Fields
  BY DEF Fields
<1>2. /\ {} \subseteq Fields \ {"picture"} /\ {} \cup {"picture"} \subseteq Fields \ {"exposure"}
      /\ ({} \cup {"picture"}) \cup {"exposure"} \subseteq Fields \ {"delay"}
      /\ (({} \cup {"picture"}) \cup {"exposure"}) \cup {"delay"} = Fields
  BY DEF Fields
<1>3. {NothingParsed} \subseteq ResultType
  BY DEF NothingParsed, ResultType, Stored
<1>4. a \subseteq ResultType
  BY <1>1, <1>3, FieldType, Zenon
<1>5. r \in ParseField(b, p, "delay")
  BY DEF ParsedForms, Parsed
<1> HIDE DEF a
<1>6. b \subseteq ResultType
  BY <1>1, <1>4, FieldType, Zenon
<1>7. \A x \in {NothingParsed} : x.ok => AllRight(p, {}, x.stored)
  BY Zenon DEF AllRight
<1>8. \A x \in a : x.ok => AllRight(p, {} \cup {"picture"}, x.stored)
  <2> SUFFICES ASSUME NEW x \in a, x.ok PROVE AllRight(p, {} \cup {"picture"}, x.stored)
    OBVIOUS
  <2> QED BY <1>1, <1>2, <1>3, <1>7, FieldRight, Zenon DEF a
<1>9. \A x \in b : x.ok => AllRight(p, ({} \cup {"picture"}) \cup {"exposure"}, x.stored)
  <2> SUFFICES ASSUME NEW x \in b, x.ok
               PROVE  AllRight(p, ({} \cup {"picture"}) \cup {"exposure"}, x.stored)
    OBVIOUS
  <2> QED BY <1>1, <1>2, <1>4, <1>8, FieldRight, Zenon
<1> HIDE DEF b
<1>10. AllRight(p, (({} \cup {"picture"}) \cup {"exposure"}) \cup {"delay"}, r.stored)
  BY <1>1, <1>2, <1>5, <1>6, <1>9, FieldRight, Zenon
<1> QED BY <1>2, <1>10

Matches(p, record) == \A f \in Fields : Right(p, f, record[f])

LEMMA OverMatches ==
    ASSUME NEW p \in Forms, NEW r \in ParsedForms[p], r.ok, NEW record
    PROVE  Matches(p, Over(record, r.stored))
<1> SUFFICES ASSUME NEW f \in Fields PROVE Right(p, f, Over(record, r.stored)[f])
  BY DEF Matches
<1>1. PICK n : r.stored[f] = <<n>> /\ Right(p, f, n)
  BY ParsedRight, Zenon DEF AllRight
<1>2. <<n>> # <<>> /\ <<n>>[1] = n
  OBVIOUS
<1>3. Over(record, r.stored)[f] = IF r.stored[f] = <<>> THEN record[f] ELSE r.stored[f][1]
  BY Zenon DEF Over
<1>4. Over(record, r.stored)[f] = n
  BY <1>1, <1>2, <1>3, Zenon
<1> QED BY <1>1, <1>4

-----------------------------------------------------------------------------
(* The sequence that was asked for                                          *)

\* The numbers that the task has copied from the record.
HasRead == CASE place = "picture"  -> {}
             [] place = "exposure" -> {"picture"}
             [] place = "delay"    -> {"picture", "exposure"}
             [] OTHER              -> Fields

\* Until another call comes, what the task has read and what it has yet to read
\* are the numbers of the form.
Asks ==
    place \notin {"none", "halted"} /\ ~overtaken =>
      /\ place \in Reads => \A f \in Fields : Near(asked, f, timer_data[f])
      /\ \A f \in HasRead : Near(asked, f, par[f])

LEMMA AsksFrame ==
    ASSUME Asks, UNCHANGED <<asked, overtaken, par, place>>,
           place \in Reads /\ ~overtaken => UNCHANGED timer_data
    PROVE  Asks'
BY DEF Asks, HasRead, Near, Means

LEMMA AsksNobody == Nobody => Asks'
BY DEF Nobody, Asks

LEMMA AsksCall == TypeOK /\ Asks /\ Call => Asks'
<1> SUFFICES ASSUME TypeOK, Asks, Call PROVE Asks'
  OBVIOUS
<1>1. CASE Start
  <2>1. CASE Running
    <3>1. UNCHANGED <<asked, par, place>> /\ overtaken' = (overtaken \/ place \in Reads)
      BY <1>1, <2>1 DEF Start, Overtakes
    <3> QED BY <3>1 DEF Asks, HasRead, Near, Means
  <2>2. CASE ~Running
    <3>1. PICK p \in Forms : \E r \in ParsedForms[p] :
            /\ timer_data' = Over(flash, r.stored)
            /\ IF r.ok THEN place' = "picture" /\ asked' = p
               ELSE UNCHANGED <<place, asked>>
      BY <1>1, <2>2 DEF Start
    <3>2. PICK r \in ParsedForms[p] :
            /\ timer_data' = Over(flash, r.stored)
            /\ IF r.ok THEN place' = "picture" /\ asked' = p
               ELSE UNCHANGED <<place, asked>>
      BY <3>1
    <3>3. CASE ~r.ok
      BY <2>2, <3>2, <3>3 DEF Asks, Running
    <3>4. CASE r.ok
      <4>1. place' = "picture" /\ asked' = p
        BY <3>2, <3>4
      <4>2. Matches(p, timer_data')
        BY <3>2, <3>4, OverMatches
      <4>3. \A f \in Fields : Near(asked, f, timer_data[f])'
        BY <4>1, <4>2 DEF Matches, Right, Near, Means
      <4> QED BY <4>1, <4>3 DEF Asks, HasRead
    <3> QED BY <3>3, <3>4
  <2> QED BY <2>1, <2>2
<1>2. CASE Stop
  <2>1. CASE Running
    BY <1>2, <2>1, AsksNobody DEF Stop
  <2>2. CASE ~Running
    BY <1>2, <2>2 DEF Stop, Running, Asks, taskVars
  <2> QED BY <2>1, <2>2
<1>3. CASE Show \/ Save
  <2>1. UNCHANGED <<asked, par, place>> /\ overtaken' = (overtaken \/ place \in Reads)
    BY <1>3 DEF Show, Save, Overtakes, taskVars
  <2> QED BY <2>1 DEF Asks, HasRead, Near, Means
<1> QED BY <1>1, <1>2, <1>3 DEF Call

LEMMA AsksRead == TypeOK /\ Asks /\ Read => Asks'
<1> SUFFICES ASSUME TypeOK, Asks, Read PROVE Asks'
  OBVIOUS
<1> SUFFICES ASSUME ~overtaken PROVE Asks'
  <2>1. UNCHANGED overtaken
    BY Zenon DEF Read
  <2> QED BY <2>1, Zenon DEF Asks
<1>1. /\ place \in Reads /\ UNCHANGED <<asked, overtaken, timer_data>>
      /\ par' = [par EXCEPT ![place] = timer_data[place]]
      /\ place' = CASE place = "picture"  -> "exposure"
                    [] place = "exposure" -> "delay"
                    [] place = "delay"    -> "begin"
  BY DEF Read, Argument, Go
<1>2. /\ \A f \in Fields : Near(asked, f, timer_data[f])
      /\ \A f \in HasRead : Near(asked, f, par[f])
  BY <1>1 DEF Asks, Reads
<1>3. /\ par \in [Fields -> 0..(Word - 1)] /\ place \in Fields /\ HasRead \subseteq Fields
      /\ HasRead' = HasRead \cup {place}
      /\ place' \in {"exposure", "delay", "begin"}
  BY <1>1 DEF TypeOK, Reads, Fields, HasRead
<1>4. ASSUME NEW f \in Fields PROVE (Near(asked, f, timer_data[f]))'
  <2>1. Near(asked, f, timer_data[f])
    BY <1>2
  <2> QED BY <1>1, <2>1 DEF Near, Means
<1>5. ASSUME NEW f \in HasRead' PROVE (Near(asked, f, par[f]))'
  <2>1. CASE f = place
    <3>1. par'[f] = timer_data[f] /\ Near(asked, f, timer_data[f])
      BY <1>1, <1>2, <1>3, <2>1
    <3> QED BY <1>1, <3>1 DEF Near, Means
  <2>2. CASE f # place
    <3>1. par'[f] = par[f] /\ f \in HasRead
      BY <1>1, <1>3, <1>5, <2>2
    <3>2. Near(asked, f, par[f])
      BY <1>2, <3>1
    <3> QED BY <1>1, <3>1, <3>2 DEF Near, Means
  <2> QED BY <2>1, <2>2
<1> QED BY <1>4, <1>5 DEF Asks

\* Once they are read, the numbers stay what they are.
LEMMA AsksOn ==
    ASSUME Asks, UNCHANGED <<asked, overtaken, par>>, place \notin Reads \cup {"none", "halted"},
           place' \notin Reads
    PROVE  Asks'
<1>1. place \notin {"picture", "exposure", "delay"} /\ place' \notin {"picture", "exposure", "delay"}
  BY DEF Reads
<1>2. HasRead = Fields /\ HasRead' = Fields
  BY <1>1 DEF HasRead
<1> QED BY <1>2 DEF Asks, Near, Means

LEMMA AsksTask == TypeOK /\ Asks /\ Task => Asks'
<1> SUFFICES ASSUME TypeOK, Asks, Task PROVE Asks'
  OBVIOUS
<1>1. CASE Read
  BY <1>1, AsksRead
<1>2. CASE Begin
  BY <1>2, AsksOn DEF Begin, Go, Reads
<1>3. CASE Open
  <2>1. par["exposure"] \in Nat
    BY Constants DEF TypeOK, Fields
  <2>2. place' \in {"halted", "exposing", "close"}
    BY <1>3, <2>1, DelayType DEF Open
  <2> QED BY <1>3, <2>2, AsksOn DEF Open, Reads
<1>4. CASE Close
  <2>1. par["delay"] \in Nat
    BY Constants DEF TypeOK, Fields
  <2>2. place' \in {"halted", "resting", "open", "end"}
    <3>1. CASE LastDone(par["picture"])
      BY <1>4, <3>1 DEF Close, Go
    <3>2. CASE ~LastDone(par["picture"])
      BY <1>4, <2>1, <3>2, DelayType DEF Close
    <3> QED BY <3>1, <3>2
  <2> QED BY <1>4, <2>2, AsksOn DEF Close, Reads
<1>5. CASE End
  BY <1>5, AsksNobody DEF End
<1> QED BY <1>1, <1>2, <1>3, <1>4, <1>5 DEF Task

LEMMA AsksTick == Asks /\ Tick => Asks'
<1> SUFFICES ASSUME Asks, Tick PROVE Asks'
  OBVIOUS
<1>1. UNCHANGED <<asked, overtaken, par, timer_data>>
  BY DEF Tick
<1>2. CASE UNCHANGED place
  BY <1>1, <1>2, AsksFrame
<1>3. CASE place \in Blocked /\ place' = Woken
  BY <1>1, <1>3, AsksOn DEF Blocked, Reads, Woken
<1> QED BY <1>2, <1>3 DEF Tick, Go

\* A sequence has the numbers of the form that started it, but for a thousandth
\* of a second, if no call comes before the task has read them (timer.c:104-107,
\* 132, 145, json_parser.c:198-209).
THEOREM ShootsWhatIsAsked == Spec => []AskedIsShot
<1>1. Init => Asks
  BY DEF Init, Asks
<1>2. TypeOK /\ Asks /\ [Next]_vars => Asks'
  <2>1. Asks /\ Reset => Asks'
    BY AsksNobody DEF Reset
  <2>2. Asks /\ UNCHANGED vars => Asks'
    BY AsksFrame DEF vars, taskVars, ghostVars
  <2> QED BY <2>1, <2>2, AsksCall, AsksTask, AsksTick
          DEF Next, WatchdogReset, PowerCycle
<1>3. Asks => AskedIsShot
  <2> SUFFICES ASSUME Asks, place \in {"begin", "open", "close", "end"} \cup Blocked, ~overtaken
               PROVE  \A f \in Fields :
                        Means(asked, f) - par[f] \in {0, IF f = "picture" THEN 0 ELSE 1}
    BY DEF AskedIsShot
  <2>1. HasRead = Fields /\ place \notin {"none", "halted"}
    BY DEF HasRead, Blocked
  <2> QED BY <2>1 DEF Asks, Near
<1> QED BY <1>1, <1>2, <1>3, TypesAreCorrect, PTL DEF Spec

\* The page shows the settings as they were typed when they were saved, although
\* the conversion from text may lose a thousandth (timer.c:76, 174-192).
THEOREM ShowsWhatIsSaved == Spec => SavedIsShown
<1> DEFINE A == flash' # flash => \E p \in Forms : \A f \in Fields :
                  p[f] # <<>> /\ Shown(flash')[f] = Number[p[f][1]]
<1>1. Next => A
  <2> SUFFICES ASSUME Next, flash' # flash
               PROVE  \E p \in Forms : \A f \in Fields :
                        p[f] # <<>> /\ Shown(flash')[f] = Number[p[f][1]]
    OBVIOUS
  <2>1. Save /\ update
    BY DEF Next, Call, Task, Start, Stop, Show, Save, Read, Begin, Open, Close, End, Tick,
           WatchdogReset, PowerCycle, Reset
  <2>2. PICK p \in Forms : \E r \in ParsedForms[p] :
          /\ timer_data' = Over(flash, r.stored)
          /\ flash' = IF r.ok THEN timer_data' ELSE flash
    BY <2>1 DEF Save
  <2>3. PICK r \in ParsedForms[p] :
          /\ timer_data' = Over(flash, r.stored)
          /\ flash' = IF r.ok THEN timer_data' ELSE flash
    BY <2>2
  <2>4. r.ok /\ flash' = Over(flash, r.stored)
    BY <2>3
  <2>5. Matches(p, flash')
    BY <2>4, OverMatches
  <2>6. ASSUME NEW f \in Fields PROVE p[f] # <<>> /\ Shown(flash')[f] = Number[p[f][1]]
    <3>1. Right(p, f, flash'[f])
      BY <2>5 DEF Matches
    <3>2. Shown(flash')[f] = IF f = "picture" THEN flash'[f] * 100 ELSE Rounded(flash'[f])
      BY Zenon DEF Shown
    <3> QED BY <3>1, <3>2, Zenon DEF Right
  <2> QED BY <2>6
<1>2. UNCHANGED vars => A
  BY DEF vars
<1>3. Spec => [][A]_vars
  BY <1>1, <1>2, PTL DEF Spec
<1> QED BY <1>3 DEF SavedIsShown
=============================================================================
