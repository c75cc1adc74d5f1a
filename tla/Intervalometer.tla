--------------------------- MODULE Intervalometer ---------------------------
(* What an intervalometer promises to one user: a sequence takes a number of *)
(* exposures, one after the other, and ends by itself, by a stop or by the   *)
(* loss of power; outside of a sequence the shutter only ever closes.        *)
EXTENDS Integers

CONSTANT MaxCount     \* largest number of exposures

VARIABLES
    mode,       \* "idle", "starting" or "running"
    left,       \* exposures of the sequence that have not ended
    shutter     \* 1 while it is open

vars == <<mode, left, shutter>>

Init == mode = "idle" /\ left = 0 /\ shutter = 0

\* A sequence starts on a closed shutter.
Start ==
    /\ mode = "idle" /\ shutter = 0
    /\ mode' = "starting"
    /\ UNCHANGED <<left, shutter>>

\* It takes one exposure at least.
Begin ==
    /\ mode = "starting"
    /\ mode' = "running"
    /\ left' \in 1..MaxCount
    /\ UNCHANGED shutter

Open ==
    /\ mode = "running" /\ left > 0 /\ shutter = 0
    /\ shutter' = 1
    /\ UNCHANGED <<mode, left>>

Close ==
    /\ mode = "running" /\ shutter = 1
    /\ shutter' = 0
    /\ left' = left - 1
    /\ UNCHANGED mode

Finish ==
    /\ mode = "running" /\ left = 0
    /\ mode' = "idle"
    /\ UNCHANGED <<left, shutter>>

\* A stop ends the sequence at any point, and may leave the shutter as the
\* task that it ended was about to set it.
Stop ==
    /\ mode # "idle"
    /\ mode' = "idle" /\ left' = 0
    /\ shutter' \in {0, 1}

\* The closing of the shutter that follows a stop; nothing runs yet.
Release ==
    /\ mode = "idle"
    /\ shutter' = 0
    /\ UNCHANGED <<mode, left>>

PowerOff == mode' = "idle" /\ left' = 0 /\ shutter' = 0

Next == Start \/ Begin \/ Open \/ Close \/ Finish \/ Stop \/ Release \/ PowerOff

Spec == Init /\ [][Next]_vars
=============================================================================
