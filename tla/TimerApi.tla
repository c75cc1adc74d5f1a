------------------------------ MODULE TimerApi ------------------------------
(***************************************************************************)
(* The intervalometer of AstroTimer (MicroLogiciel/timer.c): the HTTP      *)
(* handler do_handle_timer_api_call, run by one connection task per        *)
(* request, and the timer task that drives the shutter.  The tasks have    *)
(* the same priority on two cores under a preemptive, time-slicing         *)
(* scheduler, so they interleave between any two accesses to what they     *)
(* share: the static settings record, the static reply buffer, the task    *)
(* handle, three binary semaphores, a flash sector and the shutter pin.    *)
(***************************************************************************)
EXTENDS Integers, FiniteSets

CONSTANTS
    Conns,       \* connection tasks that may serve a request at one time
    Tasks,       \* task control blocks that xTaskCreate can return
    NoTask,      \* the NULL handle
    Paths,       \* the calls that clients make, of those in Ops
    Posted,      \* the settings that the bodies of POST requests carry
    Factory,     \* content of the settings sector when it is first flashed
    MaxWord,     \* largest uint32_t
    Hundredths   \* w |-> what "%.2f" prints of (float)w/1000, in hundredths

Word == 0..MaxWord
Fields == {"picture", "exposure", "delay"}
Settings == [Fields -> Word]
Zero == [f \in Fields |-> 0]           \* a record in .bss
Blank == [f \in Fields |-> MaxWord]    \* an erased flash sector

Ops == {"start", "stop", "update", "getSettings", "postSettings"}

ASSUME ConstantsAssumption ==
    /\ NoTask \notin Tasks
    /\ Paths \subseteq Ops
    /\ MaxWord \in Nat \ {0}
    /\ Posted \subseteq Settings
    /\ Factory \in Settings
    /\ Hundredths \in [Word -> Nat]

Sems == {"start", "stop", "update"}

\* The places of do_handle_timer_api_call where another task may come in.
\* "lost" is a connection task that deleted itself by mistake.
Places == {"idle", "take", "check", "refuse", "create", "load", "delete",
           "null", "erase", "program", "format", "give", "giveErr", "sendOk",
           "sendData", "sendErr", "sendNotOk", "close", "arm", "lost"}
          \cup Fields

\* The places of timer_task.  "none" is a free control block, "exit" one that
\* awaits the idle task.  In the -ing places the task holds a lock.
TaskPlaces == {"none", "new", "print", "printing", "open", "opening",
               "exposing", "closing", "resting", "endPrint", "endPrinting",
               "unregister", "exit"}
Locks == {"printf", "radio"}

VARIABLES
    flash,       \* s_TimerSettings.timer_data
    timer_data,  \* the handler's static local, also the timer task's argument
    shown,       \* buffer_timer_data
    sem,         \* the three binary semaphores
    handle,      \* s_TimerTaskHandle
    tpc, loop,   \* per timer task: place, and nbPicture and i
    shutter,     \* level of SHUTTER_PIN
    orphaned,    \* locks whose holder was deleted
    fault,       \* undefined behaviour stopped the chip
    armed,       \* watchdog_reboot was called
    pc, call     \* per connection task: place, and the call it serves

taskVars == <<handle, tpc, loop, shutter, orphaned>>
dataVars == <<flash, timer_data, shown, sem, armed>>
callVars == <<pc, call>>
vars == <<taskVars, dataVars, callVars, fault>>

\* What a call keeps: its path, what its body says, and the argument already
\* loaded for vTaskDelete.
Calls == [op : Ops, body : Posted \cup {Zero}, arg : Tasks \cup {NoTask}]
NoCall == [op |-> "update", body |-> Zero, arg |-> NoTask]
Loops == [n : Word, i : Word]
NoLoop == [n |-> 0, i |-> 0]

Live(t) == tpc[t] \notin {"none", "exit"}

-----------------------------------------------------------------------------
(* Locks.  s_PrintfSemaphore (debug_printf) and the lock of the Wi-Fi       *)
(* driver, under which the pin is written and packets are sent.             *)

Held(t) == {l \in Locks :
              \/ l = "printf" /\ tpc[t] \in {"printing", "endPrinting"}
              \/ l = "radio" /\ tpc[t] \in {"opening", "closing"}}

Free(l) == l \notin orphaned /\ \A t \in Tasks : l \notin Held(t)

\* format_timer_settings: "%d" of a uint32_t, and two decimals of a float.
Signed(w) == IF 2 * w > MaxWord THEN w - (MaxWord + 1) ELSE w
Fmt(s) == [f \in Fields |-> IF f = "picture" THEN Signed(s[f])
                                            ELSE Hundredths[s[f]]]

-----------------------------------------------------------------------------
(* Reset                                                                    *)

Init ==
    /\ flash = Factory /\ timer_data = Zero /\ shown = Zero
    /\ sem = [s \in Sems |-> 1] /\ handle = NoTask
    /\ tpc = [t \in Tasks |-> "none"] /\ loop = [t \in Tasks |-> NoLoop]
    /\ shutter = 0 /\ orphaned = {} /\ fault = FALSE /\ armed = FALSE
    /\ pc = [c \in Conns |-> "idle"] /\ call = [c \in Conns |-> NoCall]

\* Only flash survives.
Reset ==
    /\ flash' = flash /\ timer_data' = Zero /\ shown' = Zero
    /\ sem' = [s \in Sems |-> 1] /\ handle' = NoTask
    /\ tpc' = [t \in Tasks |-> "none"] /\ loop' = [t \in Tasks |-> NoLoop]
    /\ shutter' = 0 /\ orphaned' = {} /\ fault' = FALSE /\ armed' = FALSE
    /\ pc' = [c \in Conns |-> "idle"] /\ call' = [c \in Conns |-> NoCall]

\* watchdog_reboot fires 500 ms after it was armed; the power may go at any
\* time, between erasing and programming too.
WatchdogReset == armed /\ Reset
PowerCycle == Reset

-----------------------------------------------------------------------------
(* The handler                                                              *)

Goto(c, from, to) == pc[c] = from /\ pc' = [pc EXCEPT ![c] = to]

\* A call that ends drops its locals.
Leave(c, from) ==
    /\ Goto(c, from, "idle")
    /\ call' = [call EXCEPT ![c] = NoCall]

SemOf(o) == IF o \in {"start", "stop"} THEN o ELSE "update"
WithBody == {"start", "postSettings"}
Reports == {"update", "getSettings"}

\* Every call first overwrites the static record with the stored settings,
\* whatever it then does and whoever is using that record.
KeepsLastParse == timer_data    \* mutant: the copy is forgotten
Reloaded == flash

Call(c) ==
    /\ Free("radio")
    /\ Goto(c, "idle", "take")
    /\ timer_data' = Reloaded
    /\ \E o \in Paths, b \in Posted :
         call' = [call EXCEPT ![c] =
                    [op |-> o, body |-> IF o \in WithBody THEN b ELSE Zero,
                     arg |-> NoTask]]
    /\ UNCHANGED <<taskVars, flash, shown, sem, armed, fault>>

\* An unknown path: the same copy, then "return false".
CallOther(c) ==
    /\ pc[c] = "idle" /\ Free("radio")
    /\ timer_data' = Reloaded
    /\ UNCHANGED <<taskVars, flash, shown, sem, armed, callVars, fault>>

Granted(o) == CASE o \in {"start", "stop"} -> "check"
                [] o = "postSettings" -> "picture"
                [] OTHER -> "format"

\* xSemaphoreTake(..., 0): no waiting.
Waits(s) == FALSE               \* mutant: portMAX_DELAY
GivesUp(s) == sem[s] = 0

Take(c) ==
    LET s == SemOf(call[c].op) IN
    /\ Free("printf")
    /\ \/ sem[s] = 1 /\ sem' = [sem EXCEPT ![s] = 0]
          /\ Goto(c, "take", Granted(call[c].op))
       \/ GivesUp(s) /\ Goto(c, "take", "refuse") /\ UNCHANGED sem
    /\ UNCHANGED <<taskVars, flash, timer_data, shown, armed, call, fault>>

\* The second operand of the && in start and stop.
PassesBlindly(o) == o = "start" \/ handle # NoTask   \* mutant: only stop looks
Passes(o) == (o = "start") = (handle = NoTask)
SkipsDelete(o) == IF o = "start" THEN "picture" ELSE "null"      \* mutant
AfterCheck(o) == IF o = "start" THEN "picture" ELSE "load"

Check(c) ==
    LET o == call[c].op IN
    /\ Goto(c, "check", IF Passes(o) THEN AfterCheck(o) ELSE "refuse")
    /\ UNCHANGED <<taskVars, dataVars, call, fault>>

AfterGive(c) == CASE pc[c] = "refuse" -> "sendNotOk"
                  [] pc[c] = "giveErr" -> "sendErr"
                  [] pc[c] = "give" /\ call[c].op \in Reports -> "sendData"
                  [] pc[c] = "give" /\ call[c].op \notin Reports -> "sendOk"

\* Every xSemaphoreGive of the handler: also when the take had failed.
Give(c) ==
    /\ pc[c] \in {"give", "giveErr", "refuse"}
    /\ pc[c] = "refuse" \/ call[c].op = "postSettings" => Free("printf")
    /\ Goto(c, pc[c], AfterGive(c))
    /\ sem' = [sem EXCEPT ![SemOf(call[c].op)] = 1]
    /\ UNCHANGED <<taskVars, flash, timer_data, shown, armed, call, fault>>

StoresEarly(c) == IF pc[c] = "picture" THEN "exposure"      \* mutant
                  ELSE IF call[c].op = "start" THEN "create" ELSE "erase"
AfterField(c) == CASE pc[c] = "picture" -> "exposure"
                   [] pc[c] = "exposure" -> "delay"
                   [] pc[c] = "delay" ->
                        IF call[c].op = "start" THEN "create" ELSE "erase"

\* parse_timer, field by field, straight into the shared record.
ParseField(c) ==
    /\ pc[c] \in Fields /\ Free("printf")
    /\ timer_data' = [timer_data EXCEPT ![pc[c]] = call[c].body[pc[c]]]
    /\ Goto(c, pc[c], AfterField(c))
    /\ UNCHANGED <<taskVars, flash, shown, sem, armed, call, fault>>

\* A missing or malformed field.  POST settings returns without the give.
NeverGives(o) == "sendErr"      \* mutant: start returns without it too
AfterError(o) == IF o = "start" THEN "giveErr" ELSE "sendErr"

ParseFail(c) ==
    /\ pc[c] \in Fields /\ Free("printf")
    /\ Goto(c, pc[c], AfterError(call[c].op))
    /\ UNCHANGED <<taskVars, dataVars, call, fault>>

\* xTaskCreate stores the handle before the task can run.  Its result is
\* not looked at when the heap is exhausted.
Create(c) ==
    /\ Goto(c, "create", "give")
    /\ \/ \E t \in Tasks :
            /\ tpc[t] = "none"
            /\ tpc' = [tpc EXCEPT ![t] = "new"]
            /\ handle' = t
       \/ UNCHANGED <<tpc, handle>>
    /\ UNCHANGED <<dataVars, loop, shutter, orphaned, call, fault>>

\* The handle is read again for the argument of vTaskDelete.
Load(c) ==
    /\ Goto(c, "load", "delete")
    /\ call' = [call EXCEPT ![c].arg = handle]
    /\ UNCHANGED <<taskVars, dataVars, fault>>

\* A task deleted inside the driver may or may not have set the pin.
PinAfterKill(t) == CASE tpc[t] = "opening" -> {shutter, 1}
                     [] tpc[t] = "closing" -> {shutter, 0}
                     [] OTHER -> {shutter}

\* vTaskDelete of NULL deletes the caller, of a live task stops it where it
\* is, and of a task that is gone is undefined.
Delete(c) ==
    /\ \/ call[c].arg = NoTask /\ Goto(c, "delete", "lost")
          /\ UNCHANGED <<tpc, loop, shutter, orphaned, fault>>
       \/ \E t \in Tasks :
            /\ call[c].arg = t /\ Live(t) /\ Goto(c, "delete", "null")
            /\ tpc' = [tpc EXCEPT ![t] = "none"]
            /\ loop' = [loop EXCEPT ![t] = NoLoop]
            /\ orphaned' = orphaned \cup Held(t)
            /\ shutter' \in PinAfterKill(t)
            /\ UNCHANGED fault
       \/ \E t \in Tasks :
            /\ call[c].arg = t /\ ~Live(t) /\ Goto(c, "delete", "null")
            /\ fault' \in BOOLEAN
            /\ UNCHANGED <<tpc, loop, shutter, orphaned>>
    /\ call' = [call EXCEPT ![c].arg = NoTask]
    /\ UNCHANGED <<dataVars, handle>>

Null(c) ==
    /\ Goto(c, "null", "give")
    /\ handle' = NoTask
    /\ UNCHANGED <<dataVars, tpc, loop, shutter, orphaned, call, fault>>

\* write_timer_settings.  portENTER_CRITICAL masks one core and takes the lock of
\* the kernel: nobody else enters a critical section, but the other core runs
\* on.  What it runs from flash meets a busy device: undefined.
Writing == \E d \in Conns : pc[d] = "program"

Erase(c) ==
    /\ Free("printf") /\ ~Writing
    /\ Goto(c, "erase", "program")
    /\ flash' = Blank
    /\ fault' \in BOOLEAN
    /\ UNCHANGED <<taskVars, timer_data, shown, sem, armed, call>>

Program(c) ==
    /\ Goto(c, "program", "give")
    /\ flash' = timer_data
    /\ fault' \in BOOLEAN
    /\ UNCHANGED <<taskVars, timer_data, shown, sem, armed, call>>

Format(c) ==
    /\ Free("printf")
    /\ Goto(c, "format", "give")
    /\ shown' = Fmt(timer_data)
    /\ UNCHANGED <<taskVars, flash, timer_data, sem, armed, call, fault>>

\* http_server_send_reply.  Stop and POST settings have work left after it.
LeavesPin(c) == IF pc[c] = "sendOk" /\ call[c].op = "postSettings"
                THEN "arm" ELSE "idle"      \* mutant: stop forgets the pin
AfterSend(c) == IF pc[c] # "sendOk" THEN "idle"
                ELSE CASE call[c].op = "stop" -> "close"
                       [] call[c].op = "postSettings" -> "arm"
                       [] OTHER -> "idle"

Send(c) ==
    /\ pc[c] \in {"sendOk", "sendData", "sendErr", "sendNotOk"}
    /\ Free("radio")
    /\ \/ AfterSend(c) = "idle" /\ Leave(c, pc[c])
       \/ AfterSend(c) # "idle" /\ Goto(c, pc[c], AfterSend(c))
          /\ UNCHANGED call
    /\ UNCHANGED <<taskVars, dataVars, fault>>

Close(c) ==
    /\ Free("radio")
    /\ Leave(c, "close")
    /\ shutter' = 0
    /\ UNCHANGED <<dataVars, handle, tpc, loop, orphaned, fault>>

Arm(c) ==
    /\ Leave(c, "arm")
    /\ armed' = TRUE
    /\ UNCHANGED <<taskVars, flash, timer_data, shown, sem, fault>>

-----------------------------------------------------------------------------
(* The timer task                                                           *)

Become(t, from, to) == tpc[t] = from /\ tpc' = [tpc EXCEPT ![t] = to]

\* The parameters are read through the pointer to the handler's record.
Begin(t) ==
    /\ Become(t, "new", "print")
    /\ loop' = [loop EXCEPT ![t] = [n |-> timer_data["picture"], i |-> 1]]
    /\ UNCHANGED <<handle, shutter, orphaned>>

Acquire(t) ==
    /\ \/ Free("printf") /\ Become(t, "print", "printing")
       \/ Free("radio") /\ Become(t, "open", "opening")
       \/ Free("radio") /\ Become(t, "exposing", "closing")
       \/ Free("printf") /\ Become(t, "endPrint", "endPrinting")
    /\ UNCHANGED <<handle, loop, shutter, orphaned>>

Printed(t) ==
    /\ \/ Become(t, "printing", "open")
       \/ Become(t, "endPrinting", "unregister")
    /\ UNCHANGED <<handle, loop, shutter, orphaned>>

OpenShutter(t) ==
    /\ Become(t, "opening", "exposing")
    /\ shutter' = 1
    /\ UNCHANGED <<handle, loop, orphaned>>

\* The last exposure is not followed by a delay.
OneMore(t) == loop[t].i > loop[t].n     \* mutant: off by one
LastDone(t) == loop[t].i >= loop[t].n

CloseShutter(t) ==
    /\ shutter' = 0
    /\ Become(t, "closing", IF LastDone(t) THEN "endPrint" ELSE "resting")
    /\ UNCHANGED <<handle, loop, orphaned>>

NextExposure(t) ==
    /\ Become(t, "resting", "print")
    /\ loop' = [loop EXCEPT ![t].i = @ + 1]
    /\ UNCHANGED <<handle, shutter, orphaned>>

\* s_TimerTaskHandle = NULL, whichever task it designates by now.
Unregister(t) ==
    /\ Become(t, "unregister", "exit")
    /\ handle' = NoTask
    /\ loop' = [loop EXCEPT ![t] = NoLoop]
    /\ UNCHANGED <<shutter, orphaned>>

\* vTaskDelete(NULL), then the idle task frees the control block.
Reap(t) ==
    /\ Become(t, "exit", "none")
    /\ UNCHANGED <<handle, loop, shutter, orphaned>>

-----------------------------------------------------------------------------
(* The specification                                                        *)

Serve(c) ==
    \/ Take(c) \/ Check(c) \/ Give(c) \/ ParseField(c) \/ ParseFail(c)
    \/ Create(c) \/ Load(c) \/ Delete(c) \/ Null(c)
    \/ Erase(c) \/ Program(c) \/ Format(c)
    \/ Send(c) \/ Close(c) \/ Arm(c)

Accept(c) == ~fault /\ (Call(c) \/ CallOther(c))
Handle(c) == ~fault /\ Serve(c)

Sequence(t) ==
    /\ ~fault
    /\ \/ Begin(t) \/ Acquire(t) \/ Printed(t) \/ OpenShutter(t)
       \/ CloseShutter(t) \/ NextExposure(t) \/ Unregister(t)
    /\ UNCHANGED <<dataVars, callVars, fault>>

Idle(t) == ~fault /\ Reap(t) /\ UNCHANGED <<dataVars, callVars, fault>>

Next ==
    \/ \E c \in Conns : Accept(c) \/ Handle(c)
    \/ \E t \in Tasks : Sequence(t) \/ Idle(t)
    \/ WatchdogReset \/ PowerCycle

Spec == Init /\ [][Next]_vars

\* Tasks of one priority share the cores in turn and queue for the locks in
\* order.  Nothing obliges a client to send a request or its body: a handler
\* that waits for the first field is not required to go on.
Fairness ==
    /\ \A c \in Conns : SF_vars(pc[c] # "picture" /\ Handle(c))
    /\ \A t \in Tasks : SF_vars(Sequence(t))

FairSpec == Spec /\ Fairness
-----------------------------------------------------------------------------
(* Properties of any number of concurrent calls                             *)

\* Types, among them that the exposure counter never leaves uint32_t: the
\* loop of timer_task ends although i runs up to nbPicture.
TypeOK ==
    /\ flash \in Settings /\ timer_data \in Settings
    /\ shown \in [Fields -> Int]
    /\ sem \in [Sems -> {0, 1}]
    /\ handle \in Tasks \cup {NoTask}
    /\ tpc \in [Tasks -> TaskPlaces]
    /\ loop \in [Tasks -> Loops]
    /\ shutter \in {0, 1}
    /\ orphaned \subseteq Locks
    /\ fault \in BOOLEAN /\ armed \in BOOLEAN
    /\ pc \in [Conns -> Places]
    /\ call \in [Conns -> Calls]

\* An empty start or stop semaphore will be given back, since some call is
\* between its take and its give on every path, errors included; or it is the
\* stop semaphore of a handler that deleted itself before its give
\* (timer.c:159), which nobody but a refused stop gives.
HoldsStart(c) ==
    /\ call[c].op = "start"
    /\ pc[c] \in Fields \cup {"check", "refuse", "create", "give", "giveErr"}
HoldsStop(c) ==
    /\ call[c].op = "stop"
    /\ pc[c] \in {"check", "refuse", "load", "delete", "null", "give", "lost"}

EmptySemaphoreHasOwner ==
    /\ sem["start"] = 0 => \E c \in Conns : HoldsStart(c)
    /\ sem["stop"] = 0 => \E c \in Conns : HoldsStop(c)

\* An open shutter has somebody who will close it: a task in its exposure, or
\* a stop call that deleted one and has still to write the pin (timer.c:163).
Exposes(t) == tpc[t] \in {"exposing", "closing"}
WillClose(c) ==
    call[c].op = "stop" /\ pc[c] \in {"null", "give", "sendOk", "close"}

ShutterOwned ==
    shutter = 1 => (\E t \in Tasks : Exposes(t)) \/ \E c \in Conns : WillClose(c)

\* An exposure ends, by its own task or by a stop, however the calls mix;
\* unless the stop deleted the task inside the Wi-Fi driver, whose lock the
\* close needs.
ShutterCloses ==
    shutter = 1 ~> shutter = 0 \/ fault \/ "radio" \in orphaned

\* A call that has got its body is answered: no wait of the handler is
\* circular, and an empty semaphore is never waited for.
CallsFinish ==
    \A c \in Conns :
      pc[c] \notin {"idle", "picture"}
        ~> pc[c] \in {"idle", "picture", "lost"} \/ fault \/ orphaned # {}

-----------------------------------------------------------------------------
(* Properties of calls made one at a time                                   *)

\* At most one sequence is in progress: what "Timer task is already running"
\* (timer.c:150) tells the user.
OneSequence == \A t, u \in Tasks : Live(t) /\ Live(u) => t = u

\* When stop answers OK, no sequence is in progress (timer.c:158-162).
StopStops ==
    \A c \in Conns : pc[c] = "sendOk" /\ call[c].op = "stop"
                      => \A t \in Tasks : ~Live(t)

\* What POST settings stores is what its body said, all three fields of it
\* (timer.c:195-204).
StoresWhatWasPosted ==
    [][\A c \in Conns : Program(c) => flash' = call[c].body]_vars

\* What update and GET settings answer is what flash holds, also when an
\* earlier call stopped in the middle of parsing (timer.c:131-132, 175, 213).
ReportsStored ==
    \A c \in Conns : pc[c] = "sendData" => shown = Fmt(flash)

\* The sequence in progress, as its user sees it: the task of the handle, the
\* exposures it has still to end, and the pin.
Running == handle # NoTask /\ Live(handle)
Mode == IF ~Running THEN "idle"
        ELSE IF tpc[handle] = "new" THEN "starting" ELSE "running"

\* The exposure in progress is counted until it has ended (timer.c:109-122).
ToGo(t) ==
    CASE tpc[t] \in {"print", "printing", "open", "opening", "exposing", "closing"}
           -> IF loop[t].i < loop[t].n THEN loop[t].n - loop[t].i + 1 ELSE 1
      [] tpc[t] = "resting" -> loop[t].n - loop[t].i
      [] OTHER -> 0
Left == IF Running THEN ToGo(handle) ELSE 0

Abstract == INSTANCE Intervalometer
              WITH mode <- Mode, left <- Left, MaxCount <- MaxWord

\* With one call at a time the API and its task are an intervalometer: the
\* shutter opens in a sequence only, as often as the sequence has exposures,
\* and the late pin write of a stop (timer.c:163) meets no later sequence.
IsIntervalometer == Abstract!Spec

-----------------------------------------------------------------------------
(* Statements that the code does not keep                                   *)

\* A stop call ends with an answer: the test at timer.c:158 is there so that
\* vTaskDelete is not called without a task.
CallerSurvives == \A c \in Conns : pc[c] # "lost"

\* "The settings have been updated and the device is restarting"
\* (www/index.html:245): settings survive the restart that follows a POST.
RestartKeepsSettings == [][WatchdogReset => flash # Blank]_vars
=============================================================================
