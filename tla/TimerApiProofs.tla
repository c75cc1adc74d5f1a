--------------------------- MODULE TimerApiProofs ---------------------------
(* Theorems about TimerApi, for any number of connections and of tasks, and  *)
(* that it implements Intervalometer. *)
EXTENDS TimerApi, TLAPS

\* The last test of the loop in timer_task still holds when it goes round.
RestingHasMore ==
    \A t \in Tasks : tpc[t] = "resting" => loop[t].i < loop[t].n

\* Which path of the API may be at which place.
PathOfCall ==
    \A c \in Conns :
      /\ pc[c] = "check" => call[c].op \in {"start", "stop"}
      /\ pc[c] \in {"load", "delete", "null"} => call[c].op = "stop"
      /\ pc[c] \in Fields \cup {"create"} => call[c].op \in WithBody
      /\ pc[c] = "create" => call[c].op = "start"
      /\ pc[c] \in {"erase", "program"} => call[c].op = "postSettings"
      /\ pc[c] = "format" => call[c].op \in Reports

TypeInv == TypeOK /\ RestingHasMore /\ PathOfCall

-----------------------------------------------------------------------------
(* The types                                                                *)

LEMMA ConstantTypes ==
    /\ Zero \in Settings /\ Blank \in Settings
    /\ Zero \in [Fields -> Int]
    /\ Factory \in Settings
    /\ \A b \in Posted \cup {Zero} : b \in Settings
    /\ NoLoop \in Loops
    /\ NoCall \in Calls
BY ConstantsAssumption
   DEF Zero, Blank, Settings, Word, NoLoop, Loops, NoCall, Calls, Ops

LEMMA FmtType == ASSUME NEW s \in Settings PROVE Fmt(s) \in [Fields -> Int]
BY ConstantsAssumption DEF Fmt, Signed, Settings, Word

LEMMA CallTypes ==
    /\ \A o \in Ops, b \in Posted \cup {Zero} :
         [op |-> o, body |-> b, arg |-> NoTask] \in Calls
    /\ \A k \in Calls, a \in Tasks \cup {NoTask} :
         [k EXCEPT !.arg = a] \in Calls /\ [k EXCEPT !.arg = a].op = k.op
BY DEF Calls

LEMMA LoopTypes ==
    /\ \A n, i \in Word : /\ [n |-> n, i |-> i] \in Loops
                          /\ [n |-> n, i |-> i].n = n
                          /\ [n |-> n, i |-> i].i = i
    /\ \A l \in Loops : l.n \in Word /\ l.i \in Word
    /\ \A l \in Loops : l.i < l.n => [l EXCEPT !.i = @ + 1] \in Loops
    /\ 0 \in Word /\ 1 \in Word
BY ConstantsAssumption DEF Loops, Word

LEMMA InitType == Init => TypeInv
<1>. SUFFICES ASSUME Init PROVE TypeInv
  OBVIOUS
<1>1. /\ flash \in Settings /\ timer_data \in Settings /\ shown \in [Fields -> Int]
      /\ loop \in [Tasks -> Loops] /\ call \in [Conns -> Calls]
  BY ConstantTypes DEF Init
<1>2. TypeOK
  BY <1>1 DEF Init, TypeOK, TaskPlaces, Places
<1>3. RestingHasMore /\ PathOfCall
  BY DEF Init, RestingHasMore, PathOfCall, Fields
<1>. QED BY <1>2, <1>3 DEF TypeInv

LEMMA ResetType == TypeOK /\ Reset => TypeInv'
<1>. SUFFICES ASSUME TypeOK, Reset PROVE TypeInv'
  OBVIOUS
<1>1. flash' \in Settings /\ timer_data' \in Settings /\ shown' \in [Fields -> Int]
  BY ConstantTypes DEF Reset, TypeOK
<1>2. TypeOK'
  BY <1>1, ConstantTypes DEF Reset, TypeOK, TaskPlaces, Places
<1>3. RestingHasMore' /\ PathOfCall'
  BY DEF Reset, RestingHasMore, PathOfCall, Fields
<1>. QED BY <1>2, <1>3 DEF TypeInv

LEMMA AcceptType ==
    ASSUME TypeInv, NEW c \in Conns, Accept(c) PROVE TypeInv'
<1>1. CASE Call(c)
  <2>1. call' \in [Conns -> Calls]
    BY <1>1, ConstantsAssumption, ConstantTypes, CallTypes
       DEF Call, TypeInv, TypeOK
  <2>2. pc' = [pc EXCEPT ![c] = "take"] /\ pc[c] = "idle"
    BY <1>1 DEF Call, Goto
  <2>3. \A d \in Conns \ {c} : call'[d] = call[d]
    BY <1>1 DEF Call, TypeInv, TypeOK
  <2>. QED
    BY <1>1, <2>1, <2>2, <2>3 DEF Call, Reloaded, TypeInv, TypeOK,
       RestingHasMore, PathOfCall, taskVars, Places, Fields
<1>2. CASE CallOther(c)
  BY <1>2 DEF CallOther, Reloaded, TypeInv, TypeOK, RestingHasMore,
              PathOfCall, taskVars, callVars
<1>. QED BY <1>1, <1>2 DEF Accept

LEMMA HandleType ==
    ASSUME TypeInv, NEW c \in Conns, Handle(c) PROVE TypeInv'
<1>. USE DEF TypeInv, Goto, Fields, WithBody, Reports
<1>1. CASE Take(c)
  <2>1. call[c].op \in Ops
    BY DEF TypeOK, Calls
  <2>2. PathOfCall'
    BY <1>1, <2>1 DEF Take, Granted, Ops, TypeOK, PathOfCall
  <2>. QED
    BY <1>1, <2>2 DEF Take, TypeOK, RestingHasMore, taskVars, Granted, SemOf,
                      Sems, Places
<1>2. CASE Check(c)
  BY <1>2 DEF Check, Passes, AfterCheck, TypeOK, RestingHasMore, PathOfCall,
              taskVars, dataVars, Places, Fields
<1>3. CASE Give(c)
  BY <1>3 DEF Give, AfterGive, SemOf, Sems, TypeOK, RestingHasMore,
              PathOfCall, taskVars, Places
<1>4. CASE ParseField(c)
  <2>1. call[c].body \in Settings
    BY ConstantTypes DEF TypeOK, Calls
  <2>2. timer_data' \in Settings
    BY <1>4, <2>1 DEF ParseField, TypeOK, Settings
  <2>. QED
    BY <1>4, <2>2 DEF ParseField, AfterField, TypeOK, RestingHasMore,
                      PathOfCall, taskVars, Places, Fields
<1>5. CASE ParseFail(c)
  BY <1>5 DEF ParseFail, AfterError, TypeOK, RestingHasMore, PathOfCall,
              taskVars, dataVars, Places
<1>6. CASE Create(c)
  BY <1>6 DEF Create, TypeOK, RestingHasMore, PathOfCall, dataVars, Places,
              TaskPlaces
<1>7. CASE Load(c)
  <2>1. call' = [call EXCEPT ![c] = [call[c] EXCEPT !.arg = handle]]
    BY <1>7 DEF Load, TypeOK
  <2>2. call' \in [Conns -> Calls] /\ call'[c].op = call[c].op
    BY <2>1, CallTypes DEF TypeOK
  <2>. QED
    BY <1>7, <2>1, <2>2 DEF Load, TypeOK, RestingHasMore, PathOfCall,
                            taskVars, dataVars, Places
<1>8. CASE Delete(c)
  <2>1. call' = [call EXCEPT ![c] = [call[c] EXCEPT !.arg = NoTask]]
    BY <1>8 DEF Delete, TypeOK
  <2>2. call' \in [Conns -> Calls] /\ call'[c].op = call[c].op
    BY <2>1, CallTypes DEF TypeOK
  <2>3. \A d \in Conns \ {c} : call'[d] = call[d]
    BY <2>1 DEF TypeOK
  <2>4. PathOfCall'
    BY <1>8, <2>2, <2>3 DEF Delete, TypeOK, PathOfCall
  <2>5. /\ tpc' \in [Tasks -> TaskPlaces] /\ loop' \in [Tasks -> Loops]
        /\ shutter' \in {0, 1} /\ orphaned' \subseteq Locks
    BY <1>8, ConstantTypes DEF Delete, PinAfterKill, Held, TypeOK, TaskPlaces
  <2>6. RestingHasMore'
    BY <1>8 DEF Delete, TypeOK, RestingHasMore
  <2>. QED
    BY <1>8, <2>2, <2>4, <2>5, <2>6 DEF Delete, TypeOK, dataVars, Places
<1>9. CASE Null(c)
  BY <1>9 DEF Null, TypeOK, RestingHasMore, PathOfCall, dataVars, Places
<1>10. CASE Erase(c)
  BY <1>10, ConstantTypes DEF Erase, TypeOK, RestingHasMore, PathOfCall, taskVars, Places
<1>11. CASE Program(c)
  BY <1>11, ConstantTypes DEF Program, TypeOK, RestingHasMore, PathOfCall, taskVars, Places
<1>12. CASE Format(c)
  BY <1>12, FmtType DEF Format, TypeOK, RestingHasMore, PathOfCall,
                        taskVars, Places
<1>13. CASE Send(c)
  BY <1>13, ConstantTypes DEF Send, AfterSend, Leave, TypeOK, RestingHasMore,
               PathOfCall, taskVars, dataVars, Places
<1>14. CASE Close(c)
  BY <1>14, ConstantTypes DEF Close, Leave, TypeOK, RestingHasMore,
               PathOfCall, dataVars, Places
<1>15. CASE Arm(c)
  BY <1>15, ConstantTypes DEF Arm, Leave, TypeOK, RestingHasMore, PathOfCall,
               taskVars, Places
<1>. QED
  BY <1>1, <1>2, <1>3, <1>4, <1>5, <1>6, <1>7, <1>8, <1>9, <1>10, <1>11,
     <1>12, <1>13, <1>14, <1>15 DEF Handle, Serve

LEMMA SequenceType ==
    ASSUME TypeInv, NEW t \in Tasks, Sequence(t) \/ Idle(t) PROVE TypeInv'
<1>. USE DEF TypeInv, Become
<1>0. UNCHANGED <<dataVars, callVars, fault>>
  BY DEF Sequence, Idle
<1>1. CASE Begin(t)
  <2>1. timer_data["picture"] \in Word
    BY DEF TypeOK, Settings, Fields
  <2>2. loop' \in [Tasks -> Loops]
    BY <1>1, <2>1, LoopTypes DEF Begin, TypeOK
  <2>. QED
    BY <1>0, <1>1, <2>2 DEF Begin, TypeOK, RestingHasMore, PathOfCall,
                            dataVars, callVars, TaskPlaces
<1>2. CASE Acquire(t) \/ Printed(t) \/ OpenShutter(t) \/ Reap(t)
  BY <1>0, <1>2 DEF Acquire, Printed, OpenShutter, Reap, TypeOK,
                    RestingHasMore, PathOfCall, dataVars, callVars, TaskPlaces
<1>3. CASE CloseShutter(t)
  <2>1. loop[t].i \in Int /\ loop[t].n \in Int
    BY LoopTypes DEF TypeOK, Word
  <2>2. RestingHasMore'
    BY <1>3, <2>1 DEF CloseShutter, LastDone, TypeOK, RestingHasMore
  <2>. QED
    BY <1>0, <1>3, <2>2 DEF CloseShutter, TypeOK, PathOfCall, dataVars,
                            callVars, TaskPlaces
<1>4. CASE NextExposure(t)
  <2>1. loop' = [loop EXCEPT ![t] = [loop[t] EXCEPT !.i = @ + 1]]
    BY <1>4 DEF NextExposure, TypeOK
  <2>2. loop' \in [Tasks -> Loops]
    BY <1>4, <2>1, LoopTypes DEF NextExposure, TypeOK, RestingHasMore
  <2>3. RestingHasMore'
    BY <1>4, <2>1 DEF NextExposure, TypeOK, RestingHasMore
  <2>. QED
    BY <1>0, <1>4, <2>2, <2>3 DEF NextExposure, TypeOK, PathOfCall, dataVars,
                                  callVars, TaskPlaces
<1>5. CASE Unregister(t)
  BY <1>0, <1>5, ConstantTypes
     DEF Unregister, TypeOK, RestingHasMore, PathOfCall, dataVars, callVars,
         TaskPlaces
<1>. QED BY <1>1, <1>2, <1>3, <1>4, <1>5 DEF Sequence, Idle

LEMMA TypeInvHolds == Spec => []TypeInv
<1>1. Init => TypeInv
  BY InitType
<1>2. TypeInv /\ [Next]_vars => TypeInv'
  <2>. SUFFICES ASSUME TypeInv, [Next]_vars PROVE TypeInv'
    OBVIOUS
  <2>1. CASE UNCHANGED vars
    BY <2>1 DEF vars, taskVars, dataVars, callVars, TypeInv, TypeOK,
                RestingHasMore, PathOfCall
  <2>2. CASE Next
    BY <2>2, AcceptType, HandleType, SequenceType, ResetType
       DEF Next, WatchdogReset, PowerCycle, TypeInv
  <2>. QED BY <2>1, <2>2
<1>. QED BY <1>1, <1>2, PTL DEF Spec

\* Every reachable state is well typed, and the exposure counter stays in
\* uint32_t, for every number of connections and tasks and every word size.
THEOREM TypeCorrect == Spec => []TypeOK
BY TypeInvHolds, PTL DEF TypeInv
-----------------------------------------------------------------------------
(* The semaphores                                                           *)

\* The effect of one step on the owners: an owner stays one until the
\* semaphore is given, and only the step that makes an owner empties it.
OwnersKept ==
    /\ \A c \in Conns : HoldsStart(c) => HoldsStart(c)' \/ sem'["start"] = 1
    /\ \A c \in Conns : HoldsStop(c) => HoldsStop(c)' \/ sem'["stop"] = 1
    /\ sem'["start"] = 0 => sem["start"] = 0 \/ \E c \in Conns : HoldsStart(c)'
    /\ sem'["stop"] = 0 => sem["stop"] = 0 \/ \E c \in Conns : HoldsStop(c)'

LEMMA HandleOwners ==
    ASSUME TypeInv, NEW c \in Conns, Handle(c) PROVE OwnersKept
<1>. USE DEF TypeInv, TypeOK, OwnersKept, HoldsStart, HoldsStop, Goto
<1>1. CASE Take(c)
  BY <1>1 DEF Take, Granted, SemOf, Sems
<1>2. CASE Check(c) \/ ParseField(c) \/ ParseFail(c)
  BY <1>2 DEF Check, AfterCheck, ParseField, AfterField, ParseFail,
              AfterError, dataVars, Fields
<1>3. CASE Give(c)
  BY <1>3 DEF Give, AfterGive, SemOf, Sems, Fields
<1>4. CASE Create(c) \/ Null(c) \/ Erase(c) \/ Program(c) \/ Format(c)
  BY <1>4 DEF Create, Null, Erase, Program, Format, dataVars, Fields
<1>5. CASE Load(c) \/ Delete(c)
  <2>1. call' \in [Conns -> Calls]
    BY HandleType DEF TypeInv, TypeOK
  <2>2. \A d \in Conns : call'[d].op = call[d].op
    <3>1. PICK a \in Tasks \cup {NoTask} :
            call' = [call EXCEPT ![c] = [call[c] EXCEPT !.arg = a]]
      BY <1>5 DEF Load, Delete
    <3>. QED BY <3>1, CallTypes
  <2>. QED
    BY <1>5, <2>2 DEF Load, Delete, dataVars, Fields
<1>6. CASE Send(c) \/ Close(c) \/ Arm(c)
  BY <1>6 DEF Send, Close, Arm, Leave, dataVars, Fields
<1>. QED
  BY <1>1, <1>2, <1>3, <1>4, <1>5, <1>6 DEF Handle, Serve

LEMMA AcceptOwners ==
    ASSUME TypeInv, NEW c \in Conns, Accept(c) PROVE OwnersKept
BY DEF Accept, Call, CallOther, Goto, TypeInv, TypeOK, OwnersKept, HoldsStart,
       HoldsStop, callVars, Fields

\* A semaphore of start or stop that is empty has an owner that will give it
\* back, or that deleted itself with it, whatever the number of concurrent calls.
THEOREM SemaphoresOwned == Spec => []EmptySemaphoreHasOwner
<1>1. Init => EmptySemaphoreHasOwner
  BY DEF Init, EmptySemaphoreHasOwner, Sems
<1>2. TypeInv /\ EmptySemaphoreHasOwner /\ [Next]_vars
        => EmptySemaphoreHasOwner'
  <2>. SUFFICES ASSUME TypeInv, EmptySemaphoreHasOwner, [Next]_vars
                PROVE  EmptySemaphoreHasOwner'
    OBVIOUS
  <2>1. CASE OwnersKept
    BY <2>1 DEF OwnersKept, EmptySemaphoreHasOwner
  <2>2. CASE Reset
    BY <2>2 DEF Reset, EmptySemaphoreHasOwner, Sems
  <2>3. CASE \E t \in Tasks : Sequence(t) \/ Idle(t)
    BY <2>3 DEF Sequence, Idle, dataVars, callVars, EmptySemaphoreHasOwner,
                HoldsStart, HoldsStop
  <2>4. CASE UNCHANGED vars
    BY <2>4 DEF vars, dataVars, callVars, EmptySemaphoreHasOwner, HoldsStart,
                HoldsStop
  <2>. QED
    BY <2>1, <2>2, <2>3, <2>4, HandleOwners, AcceptOwners
       DEF Next, WatchdogReset, PowerCycle
<1>. QED BY <1>1, <1>2, TypeInvHolds, PTL DEF Spec

-----------------------------------------------------------------------------
(* The shutter                                                              *)

\* The effect of one step on those who will close the shutter.
ClosersKept ==
    /\ \A c \in Conns : WillClose(c) => WillClose(c)' \/ shutter' = 0
    /\ \A t \in Tasks : Exposes(t) => \/ Exposes(t)' \/ shutter' = 0
                                     \/ \E c \in Conns : WillClose(c)'
    /\ shutter' = 1 => \/ shutter = 1
                       \/ \E t \in Tasks : Exposes(t)'
                       \/ \E c \in Conns : WillClose(c)'

LEMMA HandleClosers ==
    ASSUME TypeInv, NEW c \in Conns, Handle(c) PROVE ClosersKept
<1>. USE DEF TypeInv, TypeOK, ClosersKept, WillClose, Exposes, Goto
<1>1. CASE Take(c) \/ Check(c) \/ ParseField(c) \/ ParseFail(c)
  BY <1>1 DEF Take, Check, ParseField, ParseFail, taskVars, Fields
<1>2. CASE Give(c)
  BY <1>2 DEF Give, AfterGive, Reports, taskVars
<1>3. CASE Null(c) \/ Erase(c) \/ Program(c) \/ Format(c)
  BY <1>3 DEF Null, Erase, Program, Format, taskVars
<1>4. CASE Create(c)
  BY <1>4 DEF Create
<1>5. CASE Load(c)
  BY <1>5 DEF Load, taskVars
<1>6. CASE Delete(c)
  <2>1. call' = [call EXCEPT ![c] = [call[c] EXCEPT !.arg = NoTask]]
    BY <1>6 DEF Delete
  <2>2. \A d \in Conns : call'[d].op = call[d].op
    BY <2>1, CallTypes
  <2>3. call[c].op = "stop"
    BY <1>6 DEF Delete, PathOfCall
  <2>. QED
    BY <1>6, <2>2, <2>3 DEF Delete, PinAfterKill
<1>7. CASE Send(c) \/ Arm(c)
  BY <1>7 DEF Send, AfterSend, Arm, Leave, taskVars
<1>8. CASE Close(c)
  BY <1>8 DEF Close
<1>. QED
  BY <1>1, <1>2, <1>3, <1>4, <1>5, <1>6, <1>7, <1>8 DEF Handle, Serve

LEMMA AcceptClosers ==
    ASSUME TypeInv, NEW c \in Conns, Accept(c) PROVE ClosersKept
BY DEF Accept, Call, CallOther, Goto, TypeInv, TypeOK, ClosersKept, WillClose,
       Exposes, callVars, taskVars

LEMMA SequenceClosers ==
    ASSUME TypeInv, NEW t \in Tasks, Sequence(t) \/ Idle(t) PROVE ClosersKept
BY DEF Sequence, Idle, Begin, Acquire, Printed, OpenShutter, CloseShutter,
       NextExposure, Unregister, Reap, Become, TypeInv, TypeOK, ClosersKept,
       WillClose, Exposes, callVars

\* An open shutter always has a task or a stop call that will close it.
THEOREM ShutterIsOwned == Spec => []ShutterOwned
<1>1. Init => ShutterOwned
  BY DEF Init, ShutterOwned
<1>2. TypeInv /\ ShutterOwned /\ [Next]_vars => ShutterOwned'
  <2>. SUFFICES ASSUME TypeInv, ShutterOwned, [Next]_vars PROVE ShutterOwned'
    OBVIOUS
  <2>1. CASE ClosersKept
    BY <2>1 DEF ClosersKept, ShutterOwned, TypeInv, TypeOK
  <2>2. CASE Reset
    BY <2>2 DEF Reset, ShutterOwned
  <2>3. CASE UNCHANGED vars
    BY <2>3 DEF vars, taskVars, callVars, ShutterOwned, WillClose, Exposes
  <2>. QED
    BY <2>1, <2>2, <2>3, HandleClosers, AcceptClosers, SequenceClosers
       DEF Next, WatchdogReset, PowerCycle
<1>. QED BY <1>1, <1>2, TypeInvHolds, PTL DEF Spec

-----------------------------------------------------------------------------
(* Calls made one at a time                                                 *)

OneAtATime == \A c, d \in Conns : c = d

\* OneSequence is not inductive: start relies on the handle still being NULL
\* when it creates, stop on nothing having been created since it deleted.
SerialInv ==
    /\ \A t \in Tasks : Live(t) => handle = t
    /\ \A c \in Conns :
         /\ call[c].op = "start" /\ pc[c] \in Fields \cup {"create"}
              => handle = NoTask
         /\ pc[c] = "delete" => handle \in {call[c].arg, NoTask}
         /\ call[c].op = "stop" /\ pc[c] \in {"null", "give", "sendOk"}
              => \A t \in Tasks : ~Live(t)

LEMMA HandleSerial ==
    ASSUME OneAtATime, TypeInv, SerialInv, NEW c \in Conns, Handle(c)
    PROVE  SerialInv'
<1>. USE ConstantsAssumption
     DEF OneAtATime, TypeInv, TypeOK, SerialInv, Live, Goto
<1>1. CASE Take(c)
  BY <1>1 DEF Take, Granted, taskVars, Fields
<1>2. CASE Check(c)
  BY <1>2 DEF Check, Passes, AfterCheck, taskVars, Fields
<1>3. CASE ParseField(c) \/ ParseFail(c)
  BY <1>3 DEF ParseField, AfterField, ParseFail, AfterError, taskVars, Fields
<1>4. CASE Give(c)
  <2>1. /\ pc'[c] \in {"sendNotOk", "sendErr", "sendData", "sendOk"}
        /\ pc'[c] = "sendOk" => pc[c] = "give"
    BY <1>4 DEF Give, AfterGive
  <2>. QED BY <1>4, <2>1 DEF Give, taskVars, Fields
<1>5. CASE Create(c)
  BY <1>5 DEF Create, Fields, PathOfCall
<1>6. CASE Load(c)
  <2>1. call' = [call EXCEPT ![c] = [call[c] EXCEPT !.arg = handle]]
    BY <1>6 DEF Load
  <2>2. call'[c].arg = handle
    BY <2>1 DEF Calls
  <2>. QED BY <1>6, <2>2 DEF Load, taskVars, Fields
<1>7. CASE Delete(c)
  BY <1>7 DEF Delete, Fields
<1>8. CASE Null(c)
  BY <1>8 DEF Null, Fields, PathOfCall
<1>9. CASE Erase(c) \/ Program(c) \/ Format(c)
  BY <1>9 DEF Erase, Program, Format, taskVars, Fields, Reports, PathOfCall
<1>10. CASE Send(c) \/ Close(c) \/ Arm(c)
  BY <1>10 DEF Send, AfterSend, Close, Arm, Leave, taskVars, Fields
<1>. QED
  BY <1>1, <1>2, <1>3, <1>4, <1>5, <1>6, <1>7, <1>8, <1>9, <1>10
     DEF Handle, Serve

LEMMA AcceptSerial ==
    ASSUME TypeInv, SerialInv, NEW c \in Conns, Accept(c) PROVE SerialInv'
BY DEF Accept, Call, CallOther, Goto, TypeInv, TypeOK, SerialInv, Live,
       taskVars, callVars, Fields

LEMMA SequenceSerial ==
    ASSUME TypeInv, SerialInv, NEW t \in Tasks, Sequence(t) \/ Idle(t)
    PROVE  SerialInv'
BY ConstantsAssumption
   DEF Sequence, Idle, Begin, Acquire, Printed, OpenShutter, CloseShutter,
       NextExposure, Unregister, Reap, Become, TypeInv, TypeOK, SerialInv,
       Live, callVars

LEMMA SerialInvHolds == OneAtATime => (Spec => []SerialInv)
<1>. SUFFICES ASSUME OneAtATime PROVE Spec => []SerialInv
  OBVIOUS
<1>1. Init => SerialInv
  BY DEF Init, SerialInv, Live, Fields
<1>2. TypeInv /\ SerialInv /\ [Next]_vars => SerialInv'
  <2>. SUFFICES ASSUME TypeInv, SerialInv, [Next]_vars PROVE SerialInv'
    OBVIOUS
  <2>1. CASE Reset
    BY <2>1 DEF Reset, SerialInv, Live, Fields
  <2>2. CASE UNCHANGED vars
    BY <2>2 DEF vars, taskVars, callVars, SerialInv, Live
  <2>. QED
    BY <2>1, <2>2, HandleSerial, AcceptSerial, SequenceSerial
       DEF Next, WatchdogReset, PowerCycle
<1>. QED BY <1>1, <1>2, TypeInvHolds, PTL DEF Spec

\* If calls are made one at a time, at most one sequence is ever in progress,
\* however the timer task and the resets interleave with them.
THEOREM SerialOneSequence == OneAtATime => (Spec => []OneSequence)
<1>1. SerialInv => OneSequence
  BY DEF SerialInv, OneSequence
<1>. QED BY <1>1, SerialInvHolds, PTL

\* If calls are made one at a time, a stop that answers OK leaves no sequence.
THEOREM SerialStopStops == OneAtATime => (Spec => []StopStops)
<1>1. SerialInv => StopStops
  BY DEF SerialInv, StopStops
<1>. QED BY <1>1, SerialInvHolds, PTL

-----------------------------------------------------------------------------
(* The data of calls made one at a time                                     *)

\* How far parse_timer has come, and what the static record and the static
\* reply hold at each place.
DataInv ==
    \A c \in Conns :
      /\ pc[c] \in {"take", "format"} => timer_data = flash
      /\ pc[c] = "give" /\ call[c].op \in Reports => shown = Fmt(flash)
      /\ pc[c] = "sendData" => shown = Fmt(flash)
      /\ pc[c] \in {"exposure", "delay"}
           => timer_data["picture"] = call[c].body["picture"]
      /\ pc[c] = "delay" => timer_data["exposure"] = call[c].body["exposure"]
      /\ pc[c] \in {"erase", "program"} => timer_data = call[c].body

LEMMA HandleData ==
    ASSUME OneAtATime, TypeInv, DataInv, NEW c \in Conns, Handle(c)
    PROVE  DataInv'
<1>. USE DEF OneAtATime, TypeInv, TypeOK, DataInv, Goto
<1>1. CASE Take(c)
  BY <1>1 DEF Take, Granted, Ops
<1>2. CASE Check(c)
  BY <1>2 DEF Check, AfterCheck, dataVars
<1>3. CASE ParseField(c)
  <2>1. call[c].body \in Settings
    BY ConstantTypes DEF Calls
  <2>2. CASE pc[c] = "picture"
    BY <1>3, <2>2 DEF ParseField, AfterField, Settings, Fields
  <2>3. CASE pc[c] = "exposure"
    BY <1>3, <2>3 DEF ParseField, AfterField, Settings, Fields
  <2>4. CASE pc[c] = "delay"
    <3>1. \A f \in Fields : timer_data'[f] = call[c].body[f]
      BY <1>3, <2>4 DEF ParseField, Settings, Fields
    <3>2. timer_data' \in Settings
      BY HandleType
    <3>3. timer_data' = call[c].body
      BY <2>1, <3>1, <3>2 DEF Settings
    <3>. QED BY <1>3, <2>4, <3>3 DEF ParseField, AfterField
  <2>. QED BY <1>3, <2>2, <2>3, <2>4 DEF ParseField, Fields
<1>4. CASE ParseFail(c)
  BY <1>4 DEF ParseFail, AfterError, Fields
<1>5. CASE Give(c)
  BY <1>5 DEF Give, AfterGive
<1>6. CASE Create(c) \/ Load(c) \/ Delete(c) \/ Null(c)
  <2>1. pc'[c] \in {"give", "delete", "null", "lost"}
    BY <1>6 DEF Create, Load, Delete, Null
  <2>2. pc'[c] = "give" => call'[c].op \in {"start", "stop"}
    BY <1>6 DEF Create, Load, Delete, Null, PathOfCall
  <2>. QED BY <2>1, <2>2 DEF Reports
<1>7. CASE Erase(c) \/ Program(c)
  BY <1>7 DEF Erase, Program, PathOfCall, Reports
<1>8. CASE Format(c)
  BY <1>8 DEF Format
<1>9. CASE Send(c) \/ Close(c) \/ Arm(c)
  BY <1>9 DEF Send, AfterSend, Close, Arm, Leave
<1>. QED
  BY <1>1, <1>2, <1>3, <1>4, <1>5, <1>6, <1>7, <1>8, <1>9 DEF Handle, Serve

LEMMA DataInvHolds == OneAtATime => (Spec => []DataInv)
<1>. SUFFICES ASSUME OneAtATime PROVE Spec => []DataInv
  OBVIOUS
<1>1. Init => DataInv
  BY DEF Init, DataInv
<1>2. TypeInv /\ DataInv /\ [Next]_vars => DataInv'
  <2>. SUFFICES ASSUME TypeInv, DataInv, [Next]_vars PROVE DataInv'
    OBVIOUS
  <2>1. CASE Reset
    BY <2>1 DEF Reset, DataInv
  <2>2. CASE UNCHANGED vars
    BY <2>2 DEF vars, dataVars, callVars, DataInv
  <2>3. CASE \E c \in Conns : Accept(c)
    BY <2>3 DEF Accept, Call, CallOther, Goto, Reloaded, OneAtATime, TypeInv,
                TypeOK, DataInv, callVars
  <2>4. CASE \E t \in Tasks : Sequence(t) \/ Idle(t)
    BY <2>4 DEF Sequence, Idle, dataVars, callVars, DataInv
  <2>. QED
    BY <2>1, <2>2, <2>3, <2>4, HandleData DEF Next, WatchdogReset, PowerCycle
<1>. QED BY <1>1, <1>2, TypeInvHolds, PTL DEF Spec

\* If calls are made one at a time, update and GET settings answer with what
\* flash holds.
THEOREM SerialReportsStored == OneAtATime => (Spec => []ReportsStored)
<1>1. DataInv => ReportsStored
  BY DEF DataInv, ReportsStored
<1>. QED BY <1>1, DataInvHolds, PTL

\* If calls are made one at a time, a POST stores the three fields it carried.
THEOREM SerialStoresWhatWasPosted ==
    OneAtATime => (Spec => StoresWhatWasPosted)
<1>1. DataInv => \A c \in Conns : Program(c) => flash' = call[c].body
  BY DEF DataInv, Program, Goto
<1>. QED BY <1>1, DataInvHolds, PTL DEF StoresWhatWasPosted

-----------------------------------------------------------------------------
(* TimerApi implements Intervalometer when calls are made one at a time, for *)
(* any number of task control blocks and any word width.                     *)

\* What the mapping needs beyond SerialInv: an exposure in progress has the
\* shutter open, and the late pin write of a stop meets no sequence.
PinInv ==
    /\ \A t \in Tasks : Exposes(t) => shutter = 1
    /\ \A c \in Conns : pc[c] = "close"
         => call[c].op = "stop" /\ \A t \in Tasks : ~Live(t)

LEMMA HandlePin ==
    ASSUME OneAtATime, TypeInv, SerialInv, PinInv, NEW c \in Conns, Handle(c)
    PROVE  PinInv'
<1>. USE DEF OneAtATime, TypeInv, TypeOK, SerialInv, PinInv, Exposes, Live, Goto
<1>1. CASE Take(c) \/ Check(c) \/ ParseField(c) \/ ParseFail(c)
  BY <1>1 DEF Take, Granted, Check, AfterCheck, ParseField, AfterField,
              ParseFail, AfterError, taskVars, dataVars, Fields
<1>2. CASE Give(c)
  BY <1>2 DEF Give, AfterGive, taskVars
<1>3. CASE Create(c) \/ Null(c)
  BY <1>3 DEF Create, Null, dataVars
<1>4. CASE Load(c)
  BY <1>4 DEF Load, taskVars
<1>5. CASE Delete(c)
  <2>1. pc'[c] # "close"
    BY <1>5 DEF Delete
  <2>2. CASE UNCHANGED <<tpc, shutter>>
    BY <2>1, <2>2
  <2>3. CASE ~UNCHANGED <<tpc, shutter>>
    <3>1. PICK t \in Tasks :
            /\ call[c].arg = t /\ Live(t)
            /\ tpc' = [tpc EXCEPT ![t] = "none"]
      BY <1>5, <2>3 DEF Delete
    <3>2. handle = t
      BY <3>1
    <3>3. \A u \in Tasks : ~Live(u)'
      BY <3>1, <3>2
    <3>. QED BY <2>1, <3>3
  <2>. QED BY <2>2, <2>3
<1>6. CASE Erase(c) \/ Program(c) \/ Format(c)
  BY <1>6 DEF Erase, Program, Format, taskVars
<1>7. CASE Send(c)
  BY <1>7 DEF Send, AfterSend, Leave, taskVars
<1>8. CASE Close(c) \/ Arm(c)
  BY <1>8 DEF Close, Arm, Leave, taskVars
<1>. QED
  BY <1>1, <1>2, <1>3, <1>4, <1>5, <1>6, <1>7, <1>8 DEF Handle, Serve

LEMMA AcceptPin ==
    ASSUME TypeInv, PinInv, NEW c \in Conns, Accept(c) PROVE PinInv'
BY DEF Accept, Call, CallOther, Goto, TypeInv, TypeOK, PinInv, Exposes, Live,
       taskVars, callVars

LEMMA SequencePin ==
    ASSUME OneAtATime, TypeInv, SerialInv, PinInv,
           NEW t \in Tasks, Sequence(t) \/ Idle(t)
    PROVE  PinInv'
BY DEF Sequence, Idle, Begin, Acquire, Printed, OpenShutter, CloseShutter,
       NextExposure, Unregister, Reap, Become, OneAtATime, TypeInv, TypeOK,
       SerialInv, PinInv, Exposes, Live, callVars

LEMMA PinInvHolds == OneAtATime => (Spec => []PinInv)
<1>. SUFFICES ASSUME OneAtATime PROVE Spec => []PinInv
  OBVIOUS
<1>1. Init => PinInv
  BY DEF Init, PinInv, Exposes
<1>2. TypeInv /\ SerialInv /\ PinInv /\ [Next]_vars => PinInv'
  <2>. SUFFICES ASSUME TypeInv, SerialInv, PinInv, [Next]_vars PROVE PinInv'
    OBVIOUS
  <2>1. CASE Reset
    BY <2>1 DEF Reset, PinInv, Exposes
  <2>2. CASE UNCHANGED vars
    BY <2>2 DEF vars, taskVars, callVars, PinInv, Exposes, Live
  <2>. QED
    BY <2>1, <2>2, HandlePin, AcceptPin, SequencePin
       DEF Next, WatchdogReset, PowerCycle
<1>. QED BY <1>1, <1>2, TypeInvHolds, SerialInvHolds, PTL DEF Spec

-----------------------------------------------------------------------------
(* The steps of the abstract machine                                        *)

SeqInv == TypeInv /\ SerialInv /\ PinInv /\ ShutterOwned

\* A step that leaves the task, its loop and the pin alone is a stutter.
LEMMA Stutter ==
    ASSUME UNCHANGED <<handle, tpc, loop, shutter>>
    PROVE  UNCHANGED Abstract!vars
BY DEF Abstract!vars, Mode, Left, Running, Live, ToGo

\* Outside of a sequence the abstract machine is idle.
LEMMA NoSequence ==
    ASSUME \A t \in Tasks : ~Live(t), handle \in Tasks \cup {NoTask}
    PROVE  Mode = "idle" /\ Left = 0
BY DEF Mode, Left, Running

\* The task of a sequence is the one that the handle designates.
LEMMA InSequence ==
    ASSUME SerialInv, NEW t \in Tasks, Live(t)
    PROVE  /\ handle = t
           /\ Mode = IF tpc[t] = "new" THEN "starting" ELSE "running"
           /\ Left = ToGo(t)
BY ConstantsAssumption DEF SerialInv, Mode, Left, Running

\* While nobody exposes, the shutter is closed.
LEMMA ClosedShutter ==
    ASSUME OneAtATime, SeqInv,
           \A t \in Tasks : ~Exposes(t), \A c \in Conns : ~WillClose(c)
    PROVE  shutter = 0
BY DEF SeqInv, ShutterOwned, TypeInv, TypeOK

LEMMA SequenceStep ==
    ASSUME OneAtATime, SeqInv, NEW t \in Tasks, Sequence(t)
    PROVE  [Abstract!Next]_(Abstract!vars)
<1>. USE DEF SeqInv, TypeInv, TypeOK
<1>0. /\ Live(t) /\ handle = t /\ Left = ToGo(t)
      /\ Mode = IF tpc[t] = "new" THEN "starting" ELSE "running"
  <2>1. Live(t)
    BY DEF Live, Sequence, Begin, Acquire, Printed, OpenShutter, CloseShutter,
           NextExposure, Unregister, Become
  <2>. QED BY <2>1, InSequence
<1>1. loop[t].i \in Word /\ loop[t].n \in Word /\ t # NoTask
  BY LoopTypes, ConstantsAssumption
<1>2. ~Exposes(t) => shutter = 0
  <2>. SUFFICES ASSUME ~Exposes(t) PROVE shutter = 0
    OBVIOUS
  <2>1. \A u \in Tasks : ~Exposes(u)
    BY <1>0 DEF SerialInv, Exposes, Live
  <2>2. \A c \in Conns : ~WillClose(c)
    BY <1>0 DEF WillClose, SerialInv, PinInv
  <2>. QED BY <2>1, <2>2, ClosedShutter
<1>3. CASE Begin(t)
  <2>1. loop'[t] = [n |-> timer_data["picture"], i |-> 1] /\ tpc'[t] = "print"
    BY <1>3 DEF Begin, Become
  <2>2. timer_data["picture"] \in Word
    BY DEF Settings, Fields
  <2>3. Mode' = "running" /\ Left' = ToGo(t)'
    BY <1>0, <1>1, <1>3, <2>1 DEF Begin, Mode, Left, Running, Live
  <2>4. Left' \in 1..MaxWord
    BY <2>1, <2>2, <2>3, ConstantsAssumption, LoopTypes DEF ToGo, Word
  <2>. QED
    BY <1>0, <1>3, <2>3, <2>4 DEF Begin, Become, Abstract!Next, Abstract!Begin
<1>4. CASE Acquire(t) \/ Printed(t)
  <2>1. Mode' = Mode /\ Left' = Left
    BY <1>0, <1>1, <1>4
       DEF Acquire, Printed, Become, Mode, Left, Running, Live, ToGo
  <2>. QED BY <1>4, <2>1 DEF Acquire, Printed, Abstract!vars
<1>5. CASE OpenShutter(t)
  <2>1. Mode' = Mode /\ Left' = Left /\ Mode = "running"
    BY <1>0, <1>1, <1>5
       DEF OpenShutter, Become, Mode, Left, Running, Live, ToGo
  <2>2. Left > 0
    BY <1>0, <1>1, <1>5 DEF OpenShutter, Become, ToGo, Word
  <2>. QED
    BY <1>2, <1>5, <2>1, <2>2
       DEF OpenShutter, Become, Exposes, Abstract!Next, Abstract!Open
<1>6. CASE CloseShutter(t)
  <2>1. Mode' = Mode /\ Mode = "running" /\ Left' = ToGo(t)'
    BY <1>0, <1>1, <1>6
       DEF CloseShutter, Become, Mode, Left, Running, Live
  <2>2. ToGo(t)' = ToGo(t) - 1
    BY <1>1, <1>6 DEF CloseShutter, Become, ToGo, LastDone, Word
  <2>. QED
    BY <1>0, <1>6, <2>1, <2>2
       DEF CloseShutter, Become, PinInv, Exposes, Abstract!Next, Abstract!Close
<1>7. CASE NextExposure(t)
  <2>1. loop'[t] = [loop[t] EXCEPT !.i = @ + 1] /\ tpc'[t] = "print"
    BY <1>7 DEF NextExposure, Become
  <2>2. loop'[t].i = loop[t].i + 1 /\ loop'[t].n = loop[t].n
    BY <2>1 DEF Loops
  <2>3. ToGo(t)' = ToGo(t)
    BY <1>1, <1>7, <2>1, <2>2
       DEF NextExposure, Become, ToGo, Word, RestingHasMore
  <2>4. Mode' = Mode /\ Left' = ToGo(t)'
    BY <1>0, <1>1, <1>7, <2>1
       DEF NextExposure, Become, Mode, Left, Running, Live
  <2>. QED BY <1>0, <1>7, <2>3, <2>4 DEF NextExposure, Abstract!vars
<1>8. CASE Unregister(t)
  <2>1. Mode' = "idle" /\ Left' = 0
    BY <1>8 DEF Unregister, Mode, Left, Running
  <2>2. Mode = "running" /\ Left = 0
    BY <1>0, <1>8 DEF Unregister, Become, ToGo
  <2>. QED
    BY <1>8, <2>1, <2>2 DEF Unregister, Abstract!Next, Abstract!Finish
<1>. QED BY <1>3, <1>4, <1>5, <1>6, <1>7, <1>8 DEF Sequence

\* The idle task frees a control block that is in no sequence.
LEMMA IdleStep ==
    ASSUME SeqInv, NEW t \in Tasks, Idle(t) PROVE UNCHANGED Abstract!vars
<1>1. ~Live(t) /\ ~Live(t)' /\ UNCHANGED <<handle, loop, shutter>>
  BY DEF Idle, Reap, Become, Live, SeqInv, TypeInv, TypeOK
<1>2. \A u : u # t => tpc'[u] = tpc[u]
  BY DEF Idle, Reap, Become, SeqInv, TypeInv, TypeOK
<1>3. CASE handle = t
  BY <1>1, <1>3 DEF Abstract!vars, Mode, Left, Running
<1>4. CASE handle # t
  BY <1>1, <1>2, <1>4 DEF Abstract!vars, Mode, Left, Running, Live, ToGo
<1>. QED BY <1>3, <1>4

LEMMA HandleStep ==
    ASSUME OneAtATime, SeqInv, NEW c \in Conns, Handle(c)
    PROVE  [Abstract!Next]_(Abstract!vars)
<1>. USE DEF SeqInv, TypeInv, TypeOK, OneAtATime
<1>1. CASE UNCHANGED taskVars
  BY <1>1, Stutter DEF taskVars
<1>2. CASE Create(c) /\ ~UNCHANGED taskVars
  <2>1. PICK t \in Tasks :
          tpc[t] = "none" /\ tpc' = [tpc EXCEPT ![t] = "new"] /\ handle' = t
    BY <1>2 DEF Create, taskVars
  <2>2. handle = NoTask /\ call[c].op = "start"
    BY <1>2 DEF Create, Goto, PathOfCall, SerialInv
  <2>3. Mode = "idle" /\ Left = 0
    BY <2>2 DEF Mode, Left, Running
  <2>4. Mode' = "starting" /\ Left' = 0
    BY <2>1, ConstantsAssumption DEF Mode, Left, Running, Live, ToGo
  <2>5. shutter = 0
    <3>1. \A u \in Tasks : ~Exposes(u)
      BY <2>2, ConstantsAssumption DEF SerialInv, Exposes, Live
    <3>2. \A d \in Conns : ~WillClose(d)
      BY <1>2, <2>2 DEF WillClose
    <3>. QED BY <3>1, <3>2, ClosedShutter
  <2>. QED
    BY <1>2, <2>3, <2>4, <2>5 DEF Create, Abstract!Next, Abstract!Start
<1>3. CASE Delete(c) /\ ~UNCHANGED taskVars
  <2>1. PICK t \in Tasks :
          /\ Live(t) /\ call[c].arg = t /\ tpc' = [tpc EXCEPT ![t] = "none"]
          /\ shutter' \in PinAfterKill(t) /\ UNCHANGED handle
    BY <1>3 DEF Delete, taskVars
  <2>2. handle = t /\ Mode # "idle"
    BY <2>1, InSequence
  <2>3. Mode' = "idle" /\ Left' = 0
    BY <2>1, <2>2 DEF Mode, Left, Running, Live
  <2>4. shutter' \in {0, 1}
    BY <2>1 DEF PinAfterKill
  <2>. QED BY <2>2, <2>3, <2>4 DEF Abstract!Next, Abstract!Stop
<1>4. CASE Null(c)
  <2>1. \A t \in Tasks : ~Live(t)
    BY <1>4 DEF Null, Goto, SerialInv, PathOfCall
  <2>2. Mode' = "idle" /\ Left' = 0
    BY <1>4 DEF Null, Mode, Left, Running
  <2>. QED BY <1>4, <2>1, <2>2, NoSequence DEF Null, Abstract!vars
<1>5. CASE Close(c)
  <2>1. \A t \in Tasks : ~Live(t) /\ ~Live(t)'
    BY <1>5 DEF Close, Leave, Goto, PinInv, Live
  <2>2. /\ Mode = "idle" /\ Left = 0
        /\ Mode' = "idle" /\ Left' = 0
    BY <1>5, <2>1 DEF Close, Mode, Left, Running
  <2>. QED BY <1>5, <2>2 DEF Close, Abstract!Next, Abstract!Release
<1>. QED
  BY <1>1, <1>2, <1>3, <1>4, <1>5
     DEF Handle, Serve, Take, Check, Give, ParseField, ParseFail, Load, Erase,
         Program, Format, Send, Arm

LEMMA ResetStep == ASSUME Reset PROVE Abstract!PowerOff
BY DEF Reset, Abstract!PowerOff, Mode, Left, Running

\* With one call at a time the timer API and its task are an intervalometer:
\* a sequence begins on a closed shutter, opens it as often as it has
\* exposures, and no stop reaches beyond it.
THEOREM SerialIsIntervalometer == OneAtATime => (Spec => IsIntervalometer)
<1>. SUFFICES ASSUME OneAtATime PROVE Spec => IsIntervalometer
  OBVIOUS
<1>1. Init => Abstract!Init
  BY DEF Init, Abstract!Init, Mode, Left, Running
<1>2. SeqInv /\ [Next]_vars => [Abstract!Next]_(Abstract!vars)
  <2>. SUFFICES ASSUME SeqInv, [Next]_vars
                PROVE  [Abstract!Next]_(Abstract!vars)
    OBVIOUS
  <2>1. CASE \E c \in Conns : Accept(c)
    BY <2>1, Stutter DEF Accept, Call, CallOther, taskVars
  <2>2. CASE UNCHANGED vars
    BY <2>2, Stutter DEF vars, taskVars
  <2>3. CASE Reset
    BY <2>3, ResetStep DEF Abstract!Next
  <2>. QED
    BY <2>1, <2>2, <2>3, HandleStep, SequenceStep, IdleStep
       DEF Next, WatchdogReset, PowerCycle
<1>3. TypeInv /\ SerialInv /\ PinInv /\ ShutterOwned => SeqInv
  BY DEF SeqInv
<1>. QED
  BY <1>1, <1>2, <1>3, TypeInvHolds, SerialInvHolds, PinInvHolds,
     ShutterIsOwned, PTL DEF Spec, IsIntervalometer, Abstract!Spec
=============================================================================
