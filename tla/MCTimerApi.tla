----------------------------- MODULE MCTimerApi -----------------------------
(* Small instances of TimerApi for TLC. *)
EXTENDS TimerApi, TLC

\* A float is printed with two decimals: milliseconds are rounded in tens.
\* With words this small, in twos.
MCHundredths == [w \in 0..MaxWord |-> (w + 1) \div 2]

MCFactory == [picture |-> 1, exposure |-> 2, delay |-> 1]
Long == [picture |-> MaxWord, exposure |-> 1, delay |-> 0]
None == [picture |-> 0, exposure |-> 1, delay |-> 2]
MCPosted == {Long}
MCPosted2 == {Long, None}

\* One record for all: the control of concurrent calls does not depend on it.
AllLong == Blank
MCOnlyLong == {AllLong}

AllPaths == Ops
Changing == {"start", "stop", "postSettings"}
Shooting == {"start", "stop"}

Symmetry == Permutations(Conns) \cup Permutations(Tasks)
=============================================================================
