-------------------------- MODULE HttpServerProofs --------------------------
(* Theorems about HttpServer, for any number of clients and of slots.       *)
EXTENDS HttpServer, SharedLemmas

Zones == {"files", "timer", "settings"}
Places == {"away", "queued", "held"} \cup Serving \cup Gone

\* The types that the arguments below use.  A zone that is linked, or still to
\* be tried by a request, is ready: it is in the type of the lists.
TypeInv ==
    /\ backlog \in Seq(Clients)
    /\ lpc \in {"accept", "alloc", "take", "spawn", "fail"}
    /\ slots \in Int /\ heap \in Int
    /\ sockets \in SUBSET Clients
    /\ cpc \in [Clients -> Places]
    /\ path \in [Clients -> Targets \cup {<< >>}]
    /\ ready \in SUBSET Zones
    /\ zones \in Seq(ready)
    /\ left \in [Clients -> Seq(ready)]
    /\ replies \in [Clients -> Nat]

\* The listener holds a connection from accept to the creation of its task.
ListenerHolds ==
    IF lpc = "accept" THEN lconn = NoClient
    ELSE lconn \in Clients /\ cpc[lconn] = "held"

\* A target is known from the headers to the end of the connection.
PathIsRouted ==
    \A c \in Clients : path[c] # << >> => cpc[c] \in {"zones", "close", "lost"}

\* An accepted socket stays open from accept to closesocket, or for ever.
SocketPlaces == {"held", "recv", "zones", "close", "lost"}
OpenPlaces ==
    \A c \in Clients : c \in sockets <=> cpc[c] \in SocketPlaces

-----------------------------------------------------------------------------
(* The zones                                                                *)

LEMMA ZoneNames ==
    /\ Len(ZoneOrder) = 3
    /\ \A k \in 1..3 : ZoneOrder[k] \in Zones
    /\ \A z \in Zones : \A o \in Outcomes[z] :
         o[2] \in Nat /\ (o[1] => o[2] = 1)
<1>1. Len(ZoneOrder) = 3 /\ \A k \in 1..3 : ZoneOrder[k] \in Zones
  BY DEF ZoneOrder, Zones
<1>2. ASSUME NEW z \in Zones, NEW o \in Outcomes[z]
      PROVE  o[2] \in Nat /\ (o[1] => o[2] = 1)
  <2>1. o = <<TRUE, 1>> \/ o = <<FALSE, 0>> \/ o = <<FALSE, 1>>
    <3>1. CASE z = "files"
      BY <3>1 DEF Outcomes
    <3>2. CASE z = "timer"
      BY <3>2 DEF Outcomes
    <3>3. CASE z = "settings"
      BY <3>3 DEF Outcomes
    <3> QED BY <3>1, <3>2, <3>3 DEF Zones
  <2>2. CASE o = <<TRUE, 1>>
    <3>1. o[2] = 1 BY <2>2
    <3> QED BY <3>1
  <2>3. CASE o = <<FALSE, 0>>
    <3>1. o[2] = 0 /\ o[1] = FALSE BY <2>3
    <3> QED BY <3>1
  <2>4. CASE o = <<FALSE, 1>>
    <3>1. o[2] = 1 BY <2>4
    <3> QED BY <3>1
  <2> QED BY <2>1, <2>2, <2>3, <2>4
<1> QED BY <1>1, <1>2

LEMMA ReadyCount ==
    ASSUME NEW S \in SUBSET Zones
    PROVE  IsFiniteSet(S) /\ Cardinality(S) \in Nat
<1>1. IsFiniteSet(Zones)
  <2>1. IsFiniteSet({"files"}) BY FS_Singleton
  <2>2. IsFiniteSet({"files"} \cup {"timer"}) BY <2>1, FS_AddElement
  <2>3. IsFiniteSet(({"files"} \cup {"timer"}) \cup {"settings"})
    BY <2>2, FS_AddElement
  <2>4. Zones = ({"files"} \cup {"timer"}) \cup {"settings"} BY DEF Zones
  <2> QED BY <2>3, <2>4
<1> QED BY <1>1, FS_Subset, FS_CardinalityType

LEMMA LongerList ==
    ASSUME NEW S, NEW T, S \subseteq T, NEW s \in Seq(S)
    PROVE  s \in Seq(T)
OBVIOUS

LEMMA TailOfList ==
    ASSUME NEW S, NEW s \in Seq(S), s # << >>
    PROVE  Head(s) \in S /\ Tail(s) \in Seq(S)
OBVIOUS

LEMMA HeadOfList ==
    ASSUME NEW S, NEW s \in Seq(S), NEW x \in S
    PROVE  <<x>> \o s \in Seq(S)
OBVIOUS

-----------------------------------------------------------------------------
(* The types are inductive                                                  *)

LEMMA TypeInit == Init => TypeInv
BY ServerAssumption DEF Init, TypeInv, Places

LEMMA TypeStep == TypeInv /\ [Next]_vars => TypeInv'
<1> SUFFICES ASSUME TypeInv, [Next]_vars PROVE TypeInv'
  OBVIOUS
<1> USE DEF TypeInv, Places
<1>1. CASE FillZone
  <2>1. ready' \in SUBSET Zones
    <3>1. Cardinality(ready) + 1 \in 1..3
      <4>1. Cardinality(ready) \in Nat
        BY ReadyCount
      <4>2. Cardinality(ready) < 3
        BY <1>1, ZoneNames DEF FillZone
      <4> QED BY <4>1, <4>2, SMTT(30)
    <3> QED BY <1>1, <3>1, ZoneNames DEF FillZone
  <2>2. zones' \in Seq(ready') /\ left' \in [Clients -> Seq(ready')]
    BY <1>1, LongerList DEF FillZone, taskVars
  <2> QED BY <1>1, <2>1, <2>2 DEF FillZone, listenVars, poolVars, taskVars
<1>2. CASE LinkZone
  <2>1. zones' \in Seq(ready')
    BY <1>2, HeadOfList DEF LinkZone, Linkable, AtTheHead
  <2> QED BY <1>2, <2>1 DEF LinkZone, listenVars, poolVars, taskVars
<1>3. CASE Accept
  <2>1. Head(backlog) \in Clients /\ backlog' \in Seq(Clients)
    BY <1>3, TailOfList DEF Accept
  <2> QED BY <1>3, <2>1 DEF Accept, Goto, zoneVars
<1>4. CASE Alloc
  BY <1>4 DEF Alloc, taskVars, zoneVars
<1>5. CASE TakeSlot
  BY <1>5 DEF TakeSlot, taskVars, zoneVars
<1>6. CASE Spawn
  <2>1. slots' \in Int /\ heap' \in Int /\ lpc' \in {"accept", "fail"}
    BY <1>6 DEF Spawn, SlotsAfterFail, HeapAfterFail
  <2>2. cpc' \in [Clients -> Places]
    BY <1>6 DEF Spawn, Goto, Serving
  <2> QED BY <1>6, <2>1, <2>2 DEF Spawn, zoneVars
<1>7. CASE Drop
  BY <1>7 DEF Drop, SocketsAfterFail, Goto, zoneVars
<1>8. ASSUME NEW c \in Clients, Connect(c) PROVE TypeInv'
  <2>1. backlog' \in Seq(Clients)
    BY <1>8 DEF Connect
  <2> QED BY <1>8, <2>1 DEF Connect, Goto, poolVars, zoneVars
<1>9. ASSUME NEW c \in Clients, Receive(c) PROVE TypeInv'
  <2>1. cpc' \in [Clients -> Places]
    BY <1>9 DEF Receive, Goto, Serving
  <2>2. replies' \in [Clients -> Nat]
    BY <1>9 DEF Receive, Reply
  <2>3. path' \in [Clients -> Targets \cup {<< >>}]
    BY <1>9 DEF Receive
  <2>4. left' \in [Clients -> Seq(ready)]
    BY <1>9 DEF Receive
  <2> QED BY <1>9, <2>1, <2>2, <2>3, <2>4
          DEF Receive, listenVars, poolVars, zoneVars
<1>10. ASSUME NEW c \in Clients, Try(c) PROVE TypeInv'
  <2>1. Head(left[c]) \in Zones /\ Tail(left[c]) \in Seq(ready)
    BY <1>10, TailOfList DEF Try
  <2>2. left' \in [Clients -> Seq(ready)]
    <3>1. \/ left' = [left EXCEPT ![c] = << >>]
          \/ left' = [left EXCEPT ![c] = Tail(left[c])]
      BY <1>10 DEF Try
    <3>2. << >> \in Seq(ready)
      OBVIOUS
    <3>3. left \in [Clients -> Seq(ready)]
      OBVIOUS
    <3> HIDE DEF TypeInv
    <3> QED BY <2>1, <3>1, <3>2, <3>3
  <2>3. cpc' \in [Clients -> Places]
    BY <1>10 DEF Try, Goto, Serving, Gone
  <2>4. replies' \in [Clients -> Nat]
    <3>1. CASE UNCHANGED replies
      BY <3>1
    <3>2. CASE \E o \in Outcomes[Head(left[c])] : Reply(c, o[2])
      <4>1. PICK o \in Outcomes[Head(left[c])] : Reply(c, o[2])
        BY <3>2
      <4>2. o[2] \in Nat
        BY <2>1, ZoneNames
      <4> QED BY <4>1, <4>2 DEF Reply
    <3> QED BY <1>10, <3>1, <3>2 DEF Try
  <2> QED BY <1>10, <2>2, <2>3, <2>4 DEF Try, listenVars, poolVars, zoneVars
<1>11. ASSUME NEW c \in Clients, NotFound(c) PROVE TypeInv'
  BY <1>11 DEF NotFound, Goto, Reply, Fallback, Serving,
               listenVars, poolVars, zoneVars
<1>12. ASSUME NEW c \in Clients, CloseSocket(c) PROVE TypeInv'
  BY <1>12 DEF CloseSocket, Goto, Serving, listenVars, zoneVars
<1>13. ASSUME NEW c \in Clients, FreeContext(c) PROVE TypeInv'
  BY <1>13 DEF FreeContext, Goto, Serving, listenVars, zoneVars
<1>14. ASSUME NEW c \in Clients, GiveSlot(c) PROVE TypeInv'
  <2>1. \/ cpc' = [cpc EXCEPT ![c] = "away"] /\ slots' = slots + 1
        \/ cpc' = [cpc EXCEPT ![c] = "astray"] /\ slots' = slots
    BY <1>14 DEF GiveSlot, Goto
  <2>2. replies' \in [Clients -> Nat]
    BY <1>14 DEF GiveSlot
  <2>3. cpc' \in [Clients -> Places]
    BY <2>1 DEF Gone
  <2> QED BY <1>14, <2>1, <2>2, <2>3 DEF GiveSlot, listenVars, zoneVars
<1>15. CASE UNCHANGED vars
  BY <1>15 DEF vars, listenVars, poolVars, taskVars, zoneVars
<1> QED
  BY <1>1, <1>2, <1>3, <1>4, <1>5, <1>6, <1>7, <1>8, <1>9, <1>10, <1>11, <1>12,
     <1>13, <1>14, <1>15 DEF Next, Listen, Work

-----------------------------------------------------------------------------
(* The listener, the targets and the sockets                                *)

LinkInv == ListenerHolds /\ PathIsRouted /\ OpenPlaces /\ RoutedIsAnswered

LEMMA LinkInit == Init => LinkInv
BY DEF Init, LinkInv, ListenerHolds, PathIsRouted, OpenPlaces, SocketPlaces, RoutedIsAnswered

\* The tasks of connections and main do not touch what the listener holds.
LEMMA ListenerStep == TypeInv /\ ListenerHolds /\ [Next]_vars => ListenerHolds'
<1> SUFFICES ASSUME TypeInv, ListenerHolds, [Next]_vars PROVE ListenerHolds'
  OBVIOUS
<1> USE DEF ListenerHolds
<1>1. CASE FillZone \/ LinkZone \/ UNCHANGED vars
  BY <1>1 DEF FillZone, LinkZone, vars, listenVars, taskVars
<1>2. CASE Accept
  <2>1. Head(backlog) \in Clients
    BY <1>2, TailOfList DEF Accept, TypeInv
  <2> QED BY <1>2, <2>1 DEF Accept, Goto, TypeInv
<1>3. CASE Alloc \/ TakeSlot
  BY <1>3 DEF Alloc, TakeSlot, taskVars
<1>4. CASE Spawn
  BY <1>4 DEF Spawn, Goto
<1>5. CASE Drop
  BY <1>5 DEF Drop
<1>6. ASSUME NEW c \in Clients, Connect(c) PROVE ListenerHolds'
  BY <1>6 DEF Connect, Goto, TypeInv
<1>7. ASSUME NEW c \in Clients, Work(c) PROVE ListenerHolds'
  <2>1. cpc[c] # "held" /\ \A d \in Clients \ {c} : cpc'[d] = cpc[d]
    <3>1. CASE Receive(c) \/ NotFound(c) \/ CloseSocket(c) \/ FreeContext(c)
                 \/ GiveSlot(c)
      BY <3>1 DEF Receive, NotFound, CloseSocket, FreeContext, GiveSlot, Goto,
                  TypeInv
    <3>2. CASE Try(c)
      BY <3>2 DEF Try, Goto, TypeInv
    <3> QED BY <1>7, <3>1, <3>2 DEF Work
  <2>2. UNCHANGED <<lpc, lconn>>
    BY <1>7 DEF Work, Receive, Try, NotFound, CloseSocket, FreeContext, GiveSlot,
                listenVars
  <2> QED BY <2>1, <2>2
<1> QED BY <1>1, <1>2, <1>3, <1>4, <1>5, <1>6, <1>7 DEF Next, Listen

\* A handler that takes a request has replied, and so has the 404.
LEMMA AnsweredStep ==
    TypeInv /\ ListenerHolds /\ PathIsRouted /\ RoutedIsAnswered /\ [Next]_vars
      => PathIsRouted' /\ RoutedIsAnswered'
<1> SUFFICES ASSUME TypeInv, ListenerHolds, PathIsRouted, RoutedIsAnswered,
                    [Next]_vars
             PROVE  PathIsRouted' /\ RoutedIsAnswered'
  OBVIOUS
<1> USE DEF PathIsRouted, RoutedIsAnswered
<1>1. CASE FillZone \/ LinkZone \/ Alloc \/ TakeSlot \/ UNCHANGED vars
  BY <1>1 DEF FillZone, LinkZone, Alloc, TakeSlot, vars, taskVars
<1>2. CASE Accept
  BY <1>2 DEF Accept, Goto, TypeInv
<1>3. CASE Spawn
  BY <1>3 DEF Spawn, Goto, TypeInv
<1>4. CASE Drop
  BY <1>4 DEF Drop, Goto, TypeInv
<1>5. ASSUME NEW c \in Clients, Connect(c) PROVE PathIsRouted' /\ RoutedIsAnswered'
  BY <1>5 DEF Connect, Goto, TypeInv
<1>6. ASSUME NEW c \in Clients, Receive(c) PROVE PathIsRouted' /\ RoutedIsAnswered'
  BY <1>6 DEF Receive, Goto, Reply, TypeInv
<1>7. ASSUME NEW c \in Clients, Try(c) PROVE PathIsRouted' /\ RoutedIsAnswered'
  <2>1. Head(left[c]) \in Zones
    BY <1>7, TailOfList DEF Try, TypeInv
  <2>2. CASE \E o \in Outcomes[Head(left[c])] :
                /\ Reply(c, o[2])
                /\ cpc' = [cpc EXCEPT ![c] = IF o[1] THEN "close" ELSE "zones"]
    <3>1. PICK o \in Outcomes[Head(left[c])] :
                /\ Reply(c, o[2])
                /\ cpc' = [cpc EXCEPT ![c] = IF o[1] THEN "close" ELSE "zones"]
      BY <2>2
    <3>2. o[2] \in Nat /\ (o[1] => o[2] = 1)
      BY <2>1, ZoneNames
    <3>3. CASE o[1]
      BY <1>7, <3>1, <3>2, <3>3 DEF Try, Reply, TypeInv
    <3>4. CASE ~o[1]
      BY <1>7, <3>1, <3>2, <3>4 DEF Try, Reply, TypeInv
    <3> QED BY <3>3, <3>4
  <2>3. CASE /\ UNCHANGED replies
             /\ \/ UNCHANGED cpc
                \/ cpc' = [cpc EXCEPT ![c] = "lost"]
    BY <1>7, <2>3 DEF Try, TypeInv
  <2> QED BY <1>7, <2>2, <2>3 DEF Try, Goto
<1>8. ASSUME NEW c \in Clients, NotFound(c) PROVE PathIsRouted' /\ RoutedIsAnswered'
  BY <1>8 DEF NotFound, Goto, Reply, Fallback, TypeInv
<1>9. ASSUME NEW c \in Clients, CloseSocket(c) \/ FreeContext(c)
      PROVE  PathIsRouted' /\ RoutedIsAnswered'
  BY <1>9 DEF CloseSocket, FreeContext, Goto, TypeInv
<1>10. ASSUME NEW c \in Clients, GiveSlot(c) PROVE PathIsRouted' /\ RoutedIsAnswered'
  BY <1>10 DEF GiveSlot, Goto, TypeInv
<1> QED
  BY <1>1, <1>2, <1>3, <1>4, <1>5, <1>6, <1>7, <1>8, <1>9, <1>10
     DEF Next, Listen, Work

\* A socket passes from the listener to the task and is closed by either.
LEMMA SocketsStep ==
    TypeInv /\ ListenerHolds /\ OpenPlaces /\ [Next]_vars => OpenPlaces'
<1> SUFFICES ASSUME TypeInv, ListenerHolds, OpenPlaces, [Next]_vars
             PROVE  OpenPlaces'
  OBVIOUS
<1> USE DEF OpenPlaces, SocketPlaces
<1>1. CASE FillZone \/ LinkZone \/ Alloc \/ TakeSlot \/ UNCHANGED vars
  BY <1>1 DEF FillZone, LinkZone, Alloc, TakeSlot, vars, listenVars, poolVars,
              taskVars
<1>2. CASE Accept
  BY <1>2, ServerAssumption DEF Accept, Goto, ListenerHolds, TypeInv
<1>3. CASE Spawn
  BY <1>3 DEF Spawn, Goto, ListenerHolds, TypeInv
<1>4. CASE Drop
  BY <1>4 DEF Drop, SocketsAfterFail, Goto, ListenerHolds, TypeInv
<1>5. ASSUME NEW c \in Clients, Connect(c) PROVE OpenPlaces'
  BY <1>5 DEF Connect, Goto, poolVars, TypeInv
<1>6. ASSUME NEW c \in Clients, Work(c) PROVE OpenPlaces'
  <2>1. CASE Receive(c) \/ NotFound(c)
    BY <2>1 DEF Receive, NotFound, Goto, listenVars, poolVars, TypeInv
  <2>2. CASE Try(c)
    <3>1. \/ UNCHANGED cpc
          \/ cpc' = [cpc EXCEPT ![c] = "close"]
          \/ cpc' = [cpc EXCEPT ![c] = "zones"]
          \/ cpc' = [cpc EXCEPT ![c] = "lost"]
      BY <2>2 DEF Try, Goto
    <3> QED BY <2>2, <3>1 DEF Try, listenVars, poolVars, TypeInv
  <2>3. CASE CloseSocket(c) \/ FreeContext(c)
    BY <2>3 DEF CloseSocket, FreeContext, Goto, listenVars, TypeInv
  <2>4. CASE GiveSlot(c)
    BY <2>4 DEF GiveSlot, Goto, listenVars, TypeInv
  <2> QED BY <1>6, <2>1, <2>2, <2>3, <2>4 DEF Work
<1> QED BY <1>1, <1>2, <1>3, <1>4, <1>5, <1>6 DEF Next, Listen

-----------------------------------------------------------------------------
(* The counts                                                               *)

\* Two sets of connections that differ in one at most.
LEMMA MoveCounts ==
    ASSUME NEW S \in SUBSET Clients, NEW U \in SUBSET Clients, NEW c \in Clients,
           \A d \in Clients \ {c} : d \in U <=> d \in S
    PROVE  /\ Cardinality(S) \in Nat
           /\ (c \in U <=> c \in S) => Cardinality(U) = Cardinality(S)
           /\ c \in U /\ c \notin S => Cardinality(U) = Cardinality(S) + 1
           /\ c \notin U /\ c \in S => Cardinality(U) = Cardinality(S) - 1
<1>1. IsFiniteSet(S) /\ Cardinality(S) \in Nat
  BY ServerAssumption, FS_Subset, FS_CardinalityType
<1>2. (c \in U <=> c \in S) => U = S
  OBVIOUS
<1>3. c \in U /\ c \notin S => U = S \cup {c}
  OBVIOUS
<1>4. c \notin U /\ c \in S => U = S \ {c}
  OBVIOUS
<1>5. c \notin S => Cardinality(S \cup {c}) = Cardinality(S) + 1
  BY <1>1, FS_AddElement
<1>6. c \in S => Cardinality(S \ {c}) = Cardinality(S) - 1
  BY <1>1, FS_RemoveElement
<1> QED BY <1>1, <1>2, <1>3, <1>4, <1>5, <1>6

SlotPlaces == Serving \cup Gone
ContextPlaces == {"recv", "zones", "close", "free", "lost"}

\* Contexts that a task has, runs or not.
ContextHolders == {c \in Clients : cpc[c] \in ContextPlaces}
HeapCounted ==
    heap = Cardinality(ContextHolders)
             + (IF lpc \in {"take", "spawn"} THEN 1 ELSE 0)

LEMMA HolderCounts ==
    ASSUME TypeInv, NEW c \in Clients, NEW to, cpc' = [cpc EXCEPT ![c] = to]
    PROVE  /\ Cardinality(Holders) \in Nat /\ Cardinality(ContextHolders) \in Nat
           /\ (to \in SlotPlaces <=> cpc[c] \in SlotPlaces)
                => Cardinality(Holders') = Cardinality(Holders)
           /\ to \in SlotPlaces /\ cpc[c] \notin SlotPlaces
                => Cardinality(Holders') = Cardinality(Holders) + 1
           /\ to \notin SlotPlaces /\ cpc[c] \in SlotPlaces
                => Cardinality(Holders') = Cardinality(Holders) - 1
           /\ (to \in ContextPlaces <=> cpc[c] \in ContextPlaces)
                => Cardinality(ContextHolders') = Cardinality(ContextHolders)
           /\ to \in ContextPlaces /\ cpc[c] \notin ContextPlaces
                => Cardinality(ContextHolders') = Cardinality(ContextHolders) + 1
           /\ to \notin ContextPlaces /\ cpc[c] \in ContextPlaces
                => Cardinality(ContextHolders') = Cardinality(ContextHolders) - 1
<1>1. cpc \in [Clients -> Places]
  BY DEF TypeInv
<1>2. /\ Holders \in SUBSET Clients /\ Holders' \in SUBSET Clients
      /\ c \in Holders <=> cpc[c] \in SlotPlaces
      /\ c \in Holders' <=> to \in SlotPlaces
      /\ \A d \in Clients \ {c} : d \in Holders' <=> d \in Holders
  BY <1>1 DEF Holders, SlotPlaces
<1>3. /\ ContextHolders \in SUBSET Clients /\ ContextHolders' \in SUBSET Clients
      /\ c \in ContextHolders <=> cpc[c] \in ContextPlaces
      /\ c \in ContextHolders' <=> to \in ContextPlaces
      /\ \A d \in Clients \ {c} : d \in ContextHolders' <=> d \in ContextHolders
  BY <1>1 DEF ContextHolders, ContextPlaces
<1>4. /\ Cardinality(Holders) \in Nat
      /\ (c \in Holders' <=> c \in Holders)
           => Cardinality(Holders') = Cardinality(Holders)
      /\ c \in Holders' /\ c \notin Holders
           => Cardinality(Holders') = Cardinality(Holders) + 1
      /\ c \notin Holders' /\ c \in Holders
           => Cardinality(Holders') = Cardinality(Holders) - 1
  BY <1>2, MoveCounts
<1>5. /\ Cardinality(ContextHolders) \in Nat
      /\ (c \in ContextHolders' <=> c \in ContextHolders)
           => Cardinality(ContextHolders') = Cardinality(ContextHolders)
      /\ c \in ContextHolders' /\ c \notin ContextHolders
           => Cardinality(ContextHolders') = Cardinality(ContextHolders) + 1
      /\ c \notin ContextHolders' /\ c \in ContextHolders
           => Cardinality(ContextHolders') = Cardinality(ContextHolders) - 1
  BY <1>3, MoveCounts
<1> QED BY <1>2, <1>3, <1>4, <1>5

CountInv == SlotsAccounted /\ HeapCounted

LEMMA CountInit == Init => CountInv
<1> SUFFICES ASSUME Init PROVE CountInv
  OBVIOUS
<1>1. Holders = {} /\ ContextHolders = {}
  BY DEF Init, Holders, ContextHolders, ContextPlaces, Serving, Gone
<1>2. Cardinality(Holders) = 0 /\ Cardinality(ContextHolders) = 0
  BY <1>1, FS_EmptySet
<1>3. slots = MaxThreads /\ heap = 0 /\ lpc = "accept" /\ MaxThreads \in Nat
  BY ServerAssumption DEF Init
<1> QED BY <1>2, <1>3 DEF CountInv, SlotsAccounted, HeapCounted

LEMMA CountStep ==
    TypeInv /\ ListenerHolds /\ CountInv /\ [Next]_vars => CountInv'
<1> SUFFICES ASSUME TypeInv, ListenerHolds, CountInv, [Next]_vars PROVE CountInv'
  OBVIOUS
<1> USE DEF CountInv, SlotsAccounted, HeapCounted
<1>1. slots \in Int /\ heap \in Int /\ MaxThreads \in Nat
  BY ServerAssumption DEF TypeInv
<1>2. UNCHANGED cpc => UNCHANGED <<Holders, ContextHolders>>
  BY DEF Holders, ContextHolders
<1>3. IsFiniteSet(Holders) /\ IsFiniteSet(ContextHolders)
  BY ServerAssumption, FS_Subset DEF Holders, ContextHolders
<1>4. Cardinality(Holders) \in Nat /\ Cardinality(ContextHolders) \in Nat
  BY <1>3, FS_CardinalityType
<1> DEFINE Place == {"away", "queued", "held", "recv", "zones", "close", "free",
                     "give", "lost", "astray"}
<1>5. /\ \A p \in Place : p \in SlotPlaces <=> p \notin {"away", "queued", "held"}
      /\ \A p \in Place : p \in ContextPlaces
                             <=> p \in {"recv", "zones", "close", "free", "lost"}
  BY DEF SlotPlaces, ContextPlaces, Serving, Gone
<1>6. CASE FillZone \/ LinkZone \/ UNCHANGED vars
  BY <1>2, <1>6 DEF FillZone, LinkZone, vars, listenVars, poolVars, taskVars
<1>7. CASE Alloc
  BY <1>1, <1>2, <1>4, <1>7 DEF Alloc, taskVars
<1>8. CASE TakeSlot
  BY <1>1, <1>2, <1>4, <1>8 DEF TakeSlot, taskVars
<1>9. CASE Accept
  <2>1. Head(backlog) \in Clients
    BY <1>9, TailOfList DEF Accept, TypeInv
  <2>2. /\ cpc' = [cpc EXCEPT ![Head(backlog)] = "held"]
        /\ cpc[Head(backlog)] = "queued"
    BY <1>9 DEF Accept, Goto
  <2>3. /\ Cardinality(Holders') = Cardinality(Holders)
        /\ Cardinality(ContextHolders') = Cardinality(ContextHolders)
    BY <1>5, <2>1, <2>2, HolderCounts
  <2> QED BY <1>9, <2>3 DEF Accept
<1>10. CASE Spawn
  <2>1. CASE lpc' = "accept"
    <3>1. /\ lconn \in Clients /\ cpc[lconn] = "held"
          /\ cpc' = [cpc EXCEPT ![lconn] = "recv"]
          /\ UNCHANGED <<slots, heap>>
      BY <1>10, <2>1 DEF Spawn, Goto, ListenerHolds
    <3>2. /\ Cardinality(Holders') = Cardinality(Holders) + 1
          /\ Cardinality(ContextHolders') = Cardinality(ContextHolders) + 1
      BY <1>5, <3>1, HolderCounts
    <3> QED BY <1>1, <1>4, <1>10, <2>1, <3>1, <3>2 DEF Spawn
  <2>2. CASE lpc' = "fail"
    BY <1>1, <1>2, <1>4, <1>10, <2>2 DEF Spawn, SlotsAfterFail, HeapAfterFail
  <2> QED BY <1>10, <2>1, <2>2 DEF Spawn
<1>11. CASE Drop
  <2>1. /\ lconn \in Clients /\ cpc[lconn] = "held"
        /\ cpc' = [cpc EXCEPT ![lconn] = "away"]
    BY <1>11 DEF Drop, Goto, ListenerHolds
  <2>2. /\ Cardinality(Holders') = Cardinality(Holders)
        /\ Cardinality(ContextHolders') = Cardinality(ContextHolders)
    BY <1>5, <2>1, HolderCounts
  <2> QED BY <1>11, <2>2 DEF Drop
<1>12. ASSUME NEW c \in Clients, Connect(c) PROVE CountInv'
  <2>1. cpc[c] = "away" /\ cpc' = [cpc EXCEPT ![c] = "queued"]
    BY <1>12 DEF Connect, Goto
  <2>2. /\ Cardinality(Holders') = Cardinality(Holders)
        /\ Cardinality(ContextHolders') = Cardinality(ContextHolders)
    BY <1>5, <2>1, HolderCounts
  <2> QED BY <1>12, <2>2 DEF Connect, poolVars
\* A request keeps its slot and its context up to vPortFree.
<1>13. ASSUME NEW c \in Clients,
              Receive(c) \/ Try(c) \/ NotFound(c) \/ CloseSocket(c)
       PROVE  CountInv'
  <2>1. UNCHANGED <<slots, heap, lpc>>
    BY <1>13 DEF Receive, Try, NotFound, CloseSocket, listenVars, poolVars
  <2>2. \/ UNCHANGED cpc
        \/ /\ cpc[c] \in {"recv", "zones", "close"}
           /\ \E to \in {"zones", "close", "free", "lost"} :
                cpc' = [cpc EXCEPT ![c] = to]
    <3>1. CASE Receive(c) \/ NotFound(c) \/ CloseSocket(c)
      BY <3>1 DEF Receive, NotFound, CloseSocket, Goto
    <3>2. CASE Try(c)
      BY <3>2 DEF Try, Goto
    <3> QED BY <1>13, <3>1, <3>2
  <2>3. /\ Cardinality(Holders') = Cardinality(Holders)
        /\ Cardinality(ContextHolders') = Cardinality(ContextHolders)
    <3>1. CASE UNCHANGED cpc
      BY <1>2, <3>1
    <3>2. ASSUME cpc[c] \in {"recv", "zones", "close"},
                 NEW to \in {"zones", "close", "free", "lost"},
                 cpc' = [cpc EXCEPT ![c] = to]
          PROVE  /\ Cardinality(Holders') = Cardinality(Holders)
                 /\ Cardinality(ContextHolders') = Cardinality(ContextHolders)
      BY <1>5, <3>2, HolderCounts
    <3> QED BY <2>2, <3>1, <3>2
  <2> QED BY <2>1, <2>3
<1>14. ASSUME NEW c \in Clients, FreeContext(c) PROVE CountInv'
  <2>1. cpc[c] = "free" /\ cpc' = [cpc EXCEPT ![c] = "give"]
    BY <1>14 DEF FreeContext, Goto
  <2>2. /\ Cardinality(Holders') = Cardinality(Holders)
        /\ Cardinality(ContextHolders') = Cardinality(ContextHolders) - 1
    BY <1>5, <2>1, HolderCounts
  <2> QED BY <1>1, <1>4, <1>14, <2>2 DEF FreeContext, listenVars
<1>15. ASSUME NEW c \in Clients, GiveSlot(c) PROVE CountInv'
  <2>1. CASE cpc' = [cpc EXCEPT ![c] = "away"] /\ slots' = slots + 1
    <3>1. /\ Cardinality(Holders') = Cardinality(Holders) - 1
          /\ Cardinality(ContextHolders') = Cardinality(ContextHolders)
      BY <1>5, <1>15, <2>1, HolderCounts DEF GiveSlot, Goto
    <3> QED BY <1>1, <1>4, <1>15, <2>1, <3>1 DEF GiveSlot, listenVars
  <2>2. CASE cpc' = [cpc EXCEPT ![c] = "astray"] /\ slots' = slots
    <3>1. /\ Cardinality(Holders') = Cardinality(Holders)
          /\ Cardinality(ContextHolders') = Cardinality(ContextHolders)
      BY <1>5, <1>15, <2>2, HolderCounts DEF GiveSlot, Goto
    <3> QED BY <1>15, <2>2, <3>1 DEF GiveSlot, listenVars
  <2> QED BY <1>15, <2>1, <2>2 DEF GiveSlot, Goto
<1> QED
  BY <1>6, <1>7, <1>8, <1>9, <1>10, <1>11, <1>12, <1>13, <1>14, <1>15
     DEF Next, Listen, Work

-----------------------------------------------------------------------------
(* The bounds of the type invariant                                         *)

LEMMA EndsTail ==
    ASSUME NEW S, NEW s \in Seq(S), NEW t \in Seq(S), EndsWith(s, t), s # << >>
    PROVE  EndsWith(Tail(s), t)
<1>1. /\ Len(s) \in Nat \ {0} /\ Len(t) \in Nat /\ Len(Tail(s)) = Len(s) - 1
      /\ \A k \in 1..(Len(s) - 1) : Tail(s)[k] = s[k + 1]
  OBVIOUS
<1>2. ASSUME NEW k \in 1..(Len(s) - 1)
      PROVE  Tail(s)[k] = t[Len(t) - (Len(s) - 1) + k]
  <2>1. k + 1 \in 1..Len(s) /\ Len(t) - Len(s) + (k + 1) = Len(t) - (Len(s) - 1) + k
    BY <1>1
  <2> QED BY <1>1, <2>1 DEF EndsWith
<1> QED BY <1>1, <1>2 DEF EndsWith

LEMMA EndsLonger ==
    ASSUME NEW S, NEW s \in Seq(S), NEW t \in Seq(S), NEW x \in S, EndsWith(s, t)
    PROVE  EndsWith(s, <<x>> \o t)
<1> DEFINE u == <<x>> \o t
<1>1. /\ Len(s) \in Nat /\ Len(t) \in Nat /\ Len(u) = Len(t) + 1
      /\ \A k \in 1..Len(t) : u[k + 1] = t[k]
  OBVIOUS
<1> HIDE DEF u
<1>2. ASSUME NEW k \in 1..Len(s) PROVE s[k] = u[Len(u) - Len(s) + k]
  <2>1. Len(t) - Len(s) + k \in 1..Len(t)
        /\ Len(u) - Len(s) + k = (Len(t) - Len(s) + k) + 1
    BY <1>1 DEF EndsWith
  <2> QED BY <1>1, <2>1 DEF EndsWith
<1> QED BY <1>1, <1>2 DEF EndsWith, u

BoundInv ==
    /\ Len(backlog) <= 2 * MaxThreads /\ slots >= 0
    /\ clobbered \subseteq Clients /\ fault \in BOOLEAN
    /\ \A c \in Clients : EndsWith(left[c], zones)

LEMMA BoundInit == Init => BoundInv
<1> SUFFICES ASSUME Init PROVE BoundInv
  OBVIOUS
<1>1. MaxThreads \in Nat /\ 0 <= 2 * MaxThreads /\ MaxThreads >= 0
  BY ServerAssumption
<1>2. Len(<< >>) = 0 /\ EndsWith(<< >>, << >>)
  BY DEF EndsWith
<1>3. Len(backlog) <= 2 * MaxThreads /\ slots >= 0
  BY <1>1, <1>2 DEF Init
<1>4. \A c \in Clients : EndsWith(left[c], zones)
  BY <1>2 DEF Init
<1> QED BY <1>3, <1>4 DEF Init, BoundInv

\* A request walks along the list that it found; main only adds to its head.
LEMMA LeftStep ==
    ASSUME TypeInv, BoundInv, [Next]_vars, NEW c \in Clients
    PROVE  EndsWith(left'[c], zones')
<1>1. left \in [Clients -> Seq(ready)] /\ left[c] \in Seq(Zones) /\ zones \in Seq(Zones)
  BY LongerList DEF TypeInv
<1>2. EndsWith(left[c], zones) /\ EndsWith(<< >>, zones) /\ EndsWith(zones, zones)
  BY <1>1, SMTT(30) DEF BoundInv, EndsWith
<1>3. CASE LinkZone
  <2>1. PICK x \in Zones : zones' = <<x>> \o zones
    <3>1. Len(zones) + 1 \in 1..3
      BY <1>1, <1>3, ZoneNames DEF LinkZone
    <3> QED BY <1>3, <3>1, ZoneNames DEF LinkZone, AtTheHead
  <2>2. left' = left
    BY <1>3 DEF LinkZone, taskVars
  <2> QED BY <1>1, <1>2, <2>1, <2>2, EndsLonger
<1>4. CASE UNCHANGED <<left, zones>>
  BY <1>2, <1>4
<1>5. ASSUME NEW d \in Clients, Receive(d) \/ Try(d)
      PROVE  EndsWith(left'[c], zones')
  <2>1. zones' = zones
    BY <1>5 DEF Receive, Try, zoneVars
  <2>2. \/ left'[c] = left[c] \/ left'[c] = zones \/ left'[c] = << >>
        \/ left[c] # << >> /\ left'[c] = Tail(left[c])
    BY <1>1, <1>5 DEF Receive, Try
  <2> QED BY <1>1, <1>2, <2>1, <2>2, EndsTail
<1>6. CASE FillZone \/ Listen \/ UNCHANGED vars
  <2>1. UNCHANGED <<left, zones>>
    BY <1>6 DEF FillZone, Listen, Accept, Alloc, TakeSlot, Spawn, Drop, vars,
                taskVars, zoneVars
  <2> QED BY <1>4, <2>1
<1>7. ASSUME NEW d \in Clients,
             Connect(d) \/ NotFound(d) \/ CloseSocket(d) \/ FreeContext(d) \/ GiveSlot(d)
      PROVE  EndsWith(left'[c], zones')
  <2>1. UNCHANGED <<left, zones>>
    BY <1>7 DEF Connect, NotFound, CloseSocket, FreeContext, GiveSlot, zoneVars
  <2> QED BY <1>4, <2>1
<1> QED BY <1>3, <1>5, <1>6, <1>7 DEF Next, Work

LEMMA BoundStep == TypeInv /\ BoundInv /\ [Next]_vars => BoundInv'
<1> SUFFICES ASSUME TypeInv, BoundInv, [Next]_vars PROVE BoundInv'
  OBVIOUS
<1>1. Len(backlog') <= 2 * MaxThreads
  <2>1. backlog \in Seq(Clients) /\ Len(backlog) \in Nat /\ MaxThreads \in Nat
        /\ Len(backlog) <= 2 * MaxThreads
    BY ServerAssumption DEF TypeInv, BoundInv
  <2>2. CASE Accept
    BY <2>1, <2>2 DEF Accept
  <2>3. ASSUME NEW c \in Clients, Connect(c) PROVE Len(backlog') <= 2 * MaxThreads
    <3>1. Len(backlog') = Len(backlog) + 1 /\ Len(backlog) < 2 * MaxThreads
      BY <2>1, <2>3 DEF Connect
    <3> QED BY <2>1, <3>1
  <2>4. CASE ~Accept /\ ~(\E c \in Clients : Connect(c))
    <3>1. backlog' = backlog
      BY <2>4 DEF Next, FillZone, LinkZone, Listen, Alloc, TakeSlot, Spawn, Drop, Work,
                  Receive, Try, NotFound, CloseSocket, FreeContext, GiveSlot,
                  vars, listenVars
    <3> QED BY <2>1, <3>1
  <2> QED BY <2>2, <2>3, <2>4
<1>2. slots' >= 0
  <2>1. slots' = slots \/ slots' = slots + 1 \/ (slots' = slots - 1 /\ slots > 0)
    BY DEF Next, FillZone, LinkZone, Listen, Accept, Alloc, TakeSlot, FreeSlot, Spawn,
           SlotsAfterFail, Drop, Work, Connect, Receive, Try, NotFound, CloseSocket,
           FreeContext, GiveSlot, vars, poolVars
  <2>2. slots \in Int /\ slots >= 0
    BY DEF TypeInv, BoundInv
  <2> QED BY <2>1, <2>2
<1>3. clobbered' \subseteq Clients
  BY DEF BoundInv, Next, FillZone, LinkZone, Listen, Accept, Alloc, TakeSlot, Spawn, Drop,
         Work, Connect, Receive, Try, NotFound, CloseSocket, FreeContext, GiveSlot,
         vars, poolVars
<1>4. fault' \in BOOLEAN
  BY DEF BoundInv, Next, FillZone, LinkZone, Listen, Accept, Alloc, TakeSlot, Spawn, Drop,
         Work, Connect, Receive, Try, NotFound, CloseSocket, FreeContext, GiveSlot, vars
<1> QED BY <1>1, <1>2, <1>3, <1>4, LeftStep DEF BoundInv

-----------------------------------------------------------------------------
(* The theorems                                                             *)

IInv == TypeInv /\ LinkInv /\ CountInv /\ BoundInv

LEMMA IInvHolds == Spec => []IInv
<1>1. Init => IInv
  BY TypeInit, LinkInit, CountInit, BoundInit DEF IInv
<1>2. IInv /\ [Next]_vars => IInv'
  BY TypeStep, ListenerStep, AnsweredStep, SocketsStep, CountStep, BoundStep
     DEF IInv, LinkInv
<1> QED BY <1>1, <1>2, PTL DEF Spec

\* The semaphore stays within its slots, the heap within one context more than
\* there are slots, the backlog within what listen() was given, and a request
\* walks along an end of the list of zones (httpserver.c:302-330, 341-358, 262-279).
THEOREM TypesAreCorrect == Spec => []TypeOK
<1>1. ASSUME IInv PROVE TypeOK
  <2>1. MaxThreads \in Nat /\ slots \in Int /\ slots >= 0 /\ heap \in Int
    BY <1>1, ServerAssumption DEF IInv, TypeInv, BoundInv
  <2>2. ContextHolders \subseteq Holders /\ IsFiniteSet(Holders)
    BY ServerAssumption, FS_Subset DEF ContextHolders, ContextPlaces, Holders, Serving, Gone
  <2>3. /\ Cardinality(Holders) \in Nat /\ Cardinality(ContextHolders) \in Nat
        /\ Cardinality(ContextHolders) <= Cardinality(Holders)
    BY <2>2, FS_Subset, FS_CardinalityType
  <2>4. slots \in 0..MaxThreads /\ heap \in 0..(MaxThreads + 1)
    BY <1>1, <2>1, <2>3 DEF IInv, CountInv, SlotsAccounted, HeapCounted
  <2>5. lconn \in Clients \cup {NoClient}
    BY <1>1 DEF IInv, LinkInv, ListenerHolds
  <2>6. ready \subseteq Range(ZoneOrder) /\ Range(zones) \subseteq Range(ZoneOrder)
    <3>1. Zones \subseteq Range(ZoneOrder)
      <4>1. "files" = ZoneOrder[1] /\ "timer" = ZoneOrder[2] /\ "settings" = ZoneOrder[3]
            /\ 1 \in DOMAIN ZoneOrder /\ 2 \in DOMAIN ZoneOrder /\ 3 \in DOMAIN ZoneOrder
        BY DEF ZoneOrder
      <4> QED BY <4>1 DEF Zones, Range
    <3>2. Range(zones) \subseteq ready /\ ready \subseteq Zones
      BY <1>1 DEF IInv, TypeInv, Range
    <3> QED BY <3>1, <3>2
  <2>7. \A c \in Clients : IsSuffix(left[c], zones)
    BY <1>1, SuffixIs DEF IInv, TypeInv, BoundInv
  <2> QED BY <1>1, <2>4, <2>5, <2>6, <2>7 DEF IInv, TypeInv, BoundInv, TypeOK, Places
<1> QED BY <1>1, IInvHolds, PTL

\* Every slot of the semaphore is free, with the listener or a task that runs,
\* or gone with a task (httpserver.c:310-314, 292, timer.c:159), for any number
\* of slots and of clients.
THEOREM SlotsAreAccounted == Spec => []SlotsAccounted
<1>1. IInv => SlotsAccounted
  BY DEF IInv, CountInv
<1> QED BY <1>1, IInvHolds, PTL

\* The contexts of the heap are those that the listener or a running task will
\* free (httpserver.c:305-312, 291), and those leaked by tasks that deleted
\* themselves (timer.c:159), each of which took a slot with it.
THEOREM ContextsAreAccounted == Spec => []ContextsAccounted
<1>1. ASSUME IInv PROVE ContextsAccounted
  <2>1. /\ ContextHolders = Freeing \cup Leaked /\ Freeing \cap Leaked = {}
        /\ Leaked \subseteq Holders
    BY DEF ContextHolders, ContextPlaces, Freeing, Leaked, Holders, Gone
  <2>2. IsFiniteSet(Freeing) /\ IsFiniteSet(Leaked) /\ IsFiniteSet(Holders)
    BY ServerAssumption, FS_Subset DEF Freeing, Leaked, Holders
  <2>3. Cardinality(ContextHolders) = Cardinality(Freeing) + Cardinality(Leaked)
    <3>1. /\ Cardinality(Freeing \cup Leaked)
               = Cardinality(Freeing) + Cardinality(Leaked) - Cardinality(Freeing \cap Leaked)
          /\ Cardinality(Freeing) \in Nat /\ Cardinality(Leaked) \in Nat
      BY <2>2, FS_Union, FS_CardinalityType
    <3>2. Cardinality(Freeing \cap Leaked) = 0
      BY <2>1, FS_EmptySet
    <3> QED BY <2>1, <3>1, <3>2
  <2>4. /\ Cardinality(Leaked) <= Cardinality(Holders)
        /\ Cardinality(Freeing) \in Nat /\ Cardinality(Leaked) \in Nat
        /\ Cardinality(Holders) \in Nat
    BY <2>1, <2>2, FS_Subset, FS_CardinalityType
  <2>5. slots \in Int /\ heap \in Int /\ MaxThreads \in Nat
    BY <1>1, ServerAssumption DEF IInv, TypeInv
  <2>6. SlotsAccounted /\ HeapCounted
    BY <1>1 DEF IInv, CountInv
  <2> QED BY <2>3, <2>4, <2>5, <2>6 DEF SlotsAccounted, HeapCounted, ContextsAccounted
<1> QED BY <1>1, IInvHolds, PTL

\* The open sockets are those that the listener or a running task will close
\* (httpserver.c:302-320, 290), and those of tasks that deleted themselves
\* (timer.c:159): whatever fails, no other one leaks.
THEOREM SocketsAreAccounted == Spec => []SocketsAccounted
<1>1. ASSUME IInv PROVE SocketsAccounted
  <2>1. sockets \subseteq Clients /\ OpenPlaces
    BY <1>1 DEF IInv, TypeInv, LinkInv
  <2> QED BY <2>1 DEF OpenPlaces, SocketPlaces, SocketsAccounted, Closing, Leaked
<1> QED BY <1>1, IInvHolds, PTL

\* A request that was routed is answered before its socket is closed
\* (httpserver.c:266-290).
THEOREM RoutedRequestsAreAnswered == Spec => []RoutedIsAnswered
<1>1. IInv => RoutedIsAnswered
  BY DEF IInv, LinkInv
<1> QED BY <1>1, IInvHolds, PTL

\* A zone that a request finds in the list has its fields (httpserver.c:370-378).
THEOREM VisibleZonesAreReady == Spec => []VisibleZonesReady
<1>1. TypeInv => VisibleZonesReady
  BY DEF TypeInv, VisibleZonesReady
<1>2. IInv => VisibleZonesReady
  BY <1>1 DEF IInv
<1> QED BY <1>2, IInvHolds, PTL
=============================================================================
