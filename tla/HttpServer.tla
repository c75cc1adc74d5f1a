----------------------------- MODULE HttpServer -----------------------------
(***************************************************************************)
(* The HTTP server of AstroTimer (MicroLogiciel/httpserver.c): a listener  *)
(* task that accepts a connection, allocates its context and starts a task *)
(* for it under a counting semaphore; the connection task that receives a  *)
(* request, offers it to the zones and hands everything back; and main,    *)
(* which adds the zones while the listener already runs (main.c:100-106).  *)
(* What a handler does inside is the business of the modules of the        *)
(* handlers: here it is one step with one of its possible outcomes.        *)
(***************************************************************************)
EXTENDS Integers, FiniteSets, Sequences, SequencesExt

CONSTANTS
    Clients,      \* TCP connections that may be open at one time
    NoClient,
    MaxThreads,   \* max_thread_count: 4 in main.c
    Targets       \* request paths, as the sequences of their segments

ASSUME ServerAssumption ==
    /\ IsFiniteSet(Clients) /\ NoClient \notin Clients
    /\ MaxThreads \in Nat \ {0}
    /\ Targets \subseteq Seq(STRING)

\* The zones of main.c in the order they are added, and their prefixes.
ZoneOrder == <<"files", "timer", "settings">>
Prefix == [files |-> << >>, timer |-> <<"api", "timer">>,
           settings |-> <<"api", "settings">>]

\* What a handler can do with a request: take it or leave it, with how many
\* replies sent.  do_handle_timer_api_call refuses with a reply.
Outcomes == [files    |-> {<<TRUE, 1>>, <<FALSE, 0>>},
             timer    |-> {<<TRUE, 1>>, <<FALSE, 1>>, <<FALSE, 0>>},
             settings |-> {<<TRUE, 1>>}]

VARIABLES
    backlog,    \* connections that wait for accept
    lpc,        \* the listener: accept, alloc, take, spawn or fail
    lconn,      \* the connection it holds
    slots,      \* the counting semaphore
    heap,       \* contexts allocated and not freed
    sockets,    \* accepted sockets not yet closed
    cpc,        \* per connection: where it is
    path, left, \* per connection task: its target, the zones still to be tried
    replies,    \* per connection: replies sent
    clobbered,  \* freed contexts whose memory has another owner already
    zones,      \* the list from first_zone, newest first
    ready,      \* zones whose fields are filled in
    fault       \* undefined behaviour stopped the chip

listenVars == <<backlog, lpc, lconn>>
poolVars == <<slots, heap, sockets, clobbered>>
taskVars == <<cpc, path, left, replies>>
zoneVars == <<zones, ready>>
vars == <<listenVars, poolVars, taskVars, zoneVars, fault>>

\* Places of a connection that hold a slot; "lost" is a task that deleted
\* itself in the stop handler, "astray" one whose give went elsewhere.
Serving == {"recv", "zones", "close", "free", "give"}
Gone == {"lost", "astray"}

Init ==
    /\ backlog = << >> /\ lpc = "accept" /\ lconn = NoClient
    /\ slots = MaxThreads /\ heap = 0 /\ sockets = {} /\ clobbered = {}
    /\ cpc = [c \in Clients |-> "away"]
    /\ path = [c \in Clients |-> << >>] /\ left = [c \in Clients |-> << >>]
    /\ replies = [c \in Clients |-> 0]
    /\ zones = << >> /\ ready = {} /\ fault = FALSE

Goto(c, from, to) == cpc[c] = from /\ cpc' = [cpc EXCEPT ![c] = to]

-----------------------------------------------------------------------------
(* main: http_server_add_zone.  The structure is filled before it is linked.*)

FillZone ==
    /\ Cardinality(ready) < Len(ZoneOrder) /\ Cardinality(ready) <= Len(zones)
    /\ ready' = ready \cup {ZoneOrder[Cardinality(ready) + 1]}
    /\ UNCHANGED <<listenVars, poolVars, taskVars, zones, fault>>

LinksFirst(z) == TRUE           \* mutant: first_zone is set before the fields
Linkable(z) == z \in ready
AtTheEnd(z) == Append(zones, z) \* mutant: walks to the last zone
AtTheHead(z) == <<z>> \o zones

LinkZone ==
    /\ Len(zones) < Len(ZoneOrder)
    /\ LET z == ZoneOrder[Len(zones) + 1] IN
         Linkable(z) /\ zones' = AtTheHead(z)
    /\ UNCHANGED <<listenVars, poolVars, taskVars, ready, fault>>

-----------------------------------------------------------------------------
(* The listener: http_server_thread                                         *)

\* A client connects; listen() lets twice max_thread_count wait.
Connect(c) ==
    /\ Len(backlog) < 2 * MaxThreads
    /\ Goto(c, "away", "queued")
    /\ backlog' = Append(backlog, c)
    /\ replies' = [replies EXCEPT ![c] = 0]
    /\ UNCHANGED <<lpc, lconn, poolVars, path, left, zoneVars, fault>>

Accept ==
    /\ lpc = "accept" /\ backlog # << >>
    /\ lconn' = Head(backlog) /\ backlog' = Tail(backlog) /\ lpc' = "alloc"
    /\ Goto(Head(backlog), "queued", "held")
    /\ sockets' = sockets \cup {Head(backlog)}
    /\ UNCHANGED <<slots, heap, clobbered, path, left, replies, zoneVars, fault>>

Alloc ==
    /\ lpc = "alloc"
    /\ \/ lpc' = "take" /\ heap' = heap + 1
       \/ lpc' = "fail" /\ UNCHANGED heap
    /\ UNCHANGED <<backlog, lconn, slots, sockets, clobbered, taskVars,
                   zoneVars, fault>>

SpareSlot == slots > 1          \* mutant: created with one slot too few
FreeSlot == slots > 0

\* xSemaphoreTake(..., portMAX_DELAY)
TakeSlot ==
    /\ lpc = "take" /\ FreeSlot
    /\ slots' = slots - 1 /\ lpc' = "spawn"
    /\ UNCHANGED <<backlog, lconn, heap, sockets, clobbered, taskVars,
                   zoneVars, fault>>

KeepsSlot == slots              \* mutant: the failed task keeps its slot
SlotsAfterFail == slots + 1
KeepsContext == heap            \* mutant: the failed task keeps its context
HeapAfterFail == heap - 1

\* xTaskCreate.  The stack it allocates may be cut from a context that a
\* connection task has just freed and is about to read once more.
Spawn ==
    /\ lpc = "spawn"
    /\ \/ /\ lpc' = "accept" /\ lconn' = NoClient
          /\ Goto(lconn, "held", "recv")
          /\ \E d \in SUBSET {c \in Clients : cpc[c] = "give"} :
               clobbered' = clobbered \cup d
          /\ UNCHANGED <<slots, heap>>
       \/ /\ lpc' = "fail"
          /\ slots' = SlotsAfterFail /\ heap' = HeapAfterFail
          /\ UNCHANGED <<lconn, cpc, clobbered>>
    /\ UNCHANGED <<backlog, sockets, path, left, replies, zoneVars, fault>>

KeepsSocket == sockets          \* mutant: the socket is not closed
SocketsAfterFail == sockets \ {lconn}

Drop ==
    /\ lpc = "fail"
    /\ lpc' = "accept" /\ lconn' = NoClient
    /\ sockets' = SocketsAfterFail
    /\ Goto(lconn, "held", "away")
    /\ UNCHANGED <<backlog, slots, heap, clobbered, path, left, replies, zoneVars,
                   fault>>

-----------------------------------------------------------------------------
(* A connection task: parse_and_handle_http_request, do_handle_connection   *)

Reply(c, n) == replies' = [replies EXCEPT ![c] = @ + n]

\* An invalid first line, or a stream that ends inside the headers: no
\* reply.  The name of another host: a redirection.  Else the zones, from
\* the head that the list has now.
Receive(c) ==
    /\ \/ Goto(c, "recv", "close") /\ UNCHANGED <<path, left, replies>>
       \/ Goto(c, "recv", "close") /\ Reply(c, 1) /\ UNCHANGED <<path, left>>
       \/ /\ Goto(c, "recv", "zones") /\ UNCHANGED replies
          /\ \E p \in Targets : path' = [path EXCEPT ![c] = p]
          /\ left' = [left EXCEPT ![c] = zones]
    /\ UNCHANGED <<listenVars, poolVars, zoneVars, fault>>

\* Prefix of whole segments: strncasecmp, then '/' or the end of the path.
Offered(c, z) == IsPrefix(Prefix[z], path[c])

\* One zone of the list.  A handler that declines passes the request on,
\* also when it has sent a reply.
Try(c) ==
    LET z == Head(left[c]) IN
    /\ cpc[c] = "zones" /\ left[c] # << >>
    /\ fault' \in (IF z \in ready THEN {FALSE} ELSE BOOLEAN)
    /\ \/ /\ ~Offered(c, z) /\ UNCHANGED <<cpc, replies>>
          /\ left' = [left EXCEPT ![c] = Tail(@)]
       \/ /\ Offered(c, z)
          /\ \E o \in Outcomes[z] :
               /\ Reply(c, o[2])
               /\ cpc' = [cpc EXCEPT ![c] = IF o[1] THEN "close" ELSE "zones"]
               /\ left' = [left EXCEPT ![c] = IF o[1] THEN << >> ELSE Tail(@)]
       \/ /\ Offered(c, z) /\ z = "timer"    \* the stop handler deletes itself
          /\ Goto(c, "zones", "lost")
          /\ left' = [left EXCEPT ![c] = << >>] /\ UNCHANGED replies
    /\ UNCHANGED <<listenVars, poolVars, zoneVars, path>>

Silent(c) == 0                  \* mutant: no reply when no zone answers
Fallback(c) == 1

\* "404 Not Found"
NotFound(c) ==
    /\ left[c] = << >> /\ Goto(c, "zones", "close")
    /\ Reply(c, Fallback(c))
    /\ UNCHANGED <<listenVars, poolVars, zoneVars, path, left, fault>>

CloseSocket(c) ==
    /\ Goto(c, "close", "free")
    /\ sockets' = sockets \ {c}
    /\ path' = [path EXCEPT ![c] = << >>]
    /\ UNCHANGED <<listenVars, slots, heap, clobbered, left, replies,
                   zoneVars, fault>>

FreeContext(c) ==
    /\ Goto(c, "free", "give")
    /\ heap' = heap - 1
    /\ UNCHANGED <<listenVars, slots, sockets, clobbered, path, left, replies,
                   zoneVars, fault>>

\* The semaphore is found through the context that was just freed.
GiveSlot(c) ==
    /\ clobbered' = clobbered \ {c}
    /\ \/ Goto(c, "give", "away") /\ slots' = slots + 1 /\ UNCHANGED fault
       \/ /\ c \in clobbered /\ UNCHANGED slots
          /\ Goto(c, "give", "astray") /\ fault' \in BOOLEAN
    /\ replies' = [replies EXCEPT ![c] = 0]
    /\ UNCHANGED <<listenVars, heap, sockets, path, left, zoneVars>>

-----------------------------------------------------------------------------
(* The specification                                                        *)

Listen == Accept \/ Alloc \/ TakeSlot \/ Spawn \/ Drop
Work(c) == Receive(c) \/ Try(c) \/ NotFound(c) \/ CloseSocket(c)
             \/ FreeContext(c) \/ GiveSlot(c)

Next ==
    /\ ~fault
    /\ \/ FillZone \/ LinkZone \/ Listen
       \/ \E c \in Clients : Connect(c) \/ Work(c)

Spec == Init /\ [][Next]_vars

\* The tasks share the processor in turn, and each client that was accepted
\* ends its request or closes: recv() has no timeout of its own.
FairSpec ==
    /\ Spec
    /\ WF_vars(~fault /\ Listen)
    /\ \A c \in Clients : WF_vars(~fault /\ Work(c))

-----------------------------------------------------------------------------
(* Properties                                                               *)

\* Connections that hold a slot, whose task will run vPortFree or closesocket,
\* or that have leaked: nobody runs any more for a task that deleted itself.
Holders == {c \in Clients : cpc[c] \in Serving \cup Gone}
Freeing == {c \in Clients : cpc[c] \in {"recv", "zones", "close", "free"}}
Closing == {c \in Clients : cpc[c] \in {"held", "recv", "zones", "close"}}
Leaked == {c \in Clients : cpc[c] = "lost"}

TypeOK ==
    /\ backlog \in Seq(Clients) /\ Len(backlog) <= 2 * MaxThreads
    /\ lpc \in {"accept", "alloc", "take", "spawn", "fail"}
    /\ lconn \in Clients \cup {NoClient}
    /\ slots \in 0..MaxThreads /\ heap \in 0..(MaxThreads + 1)
    /\ sockets \subseteq Clients /\ clobbered \subseteq Clients
    /\ cpc \in [Clients -> {"away", "queued", "held"} \cup Serving \cup Gone]
    /\ path \in [Clients -> Targets \cup {<< >>}]
    /\ \A c \in Clients : IsSuffix(left[c], zones) \/ left[c] = << >>
    /\ ready \subseteq Range(ZoneOrder) /\ Range(zones) \subseteq Range(ZoneOrder)
    /\ fault \in BOOLEAN

\* Every slot of the semaphore is free, or with the listener, or with one
\* connection task that runs, or gone with one that deleted itself or gave
\* through memory that was no longer its own; a failed xTaskCreate and every
\* other way a request ends give it back (httpserver.c:310-314, 292).
SlotsAccounted ==
    slots + Cardinality(Holders) + (IF lpc = "spawn" THEN 1 ELSE 0) = MaxThreads

\* A context that was allocated will be freed by the listener, which still has
\* to create its task, or by that task (httpserver.c:305-312, 291); the only
\* ones that nobody frees are those of tasks that deleted themselves in the
\* stop handler (timer.c:159).  Each leak takes a slot with it, so there are
\* never more than MaxThreads of them.
ContextsAccounted ==
    /\ heap = Cardinality(Freeing) + (IF lpc \in {"take", "spawn"} THEN 1 ELSE 0)
                + Cardinality(Leaked)
    /\ slots + Cardinality(Leaked) <= MaxThreads

\* The open sockets are those that the listener or a task has yet to close
\* (httpserver.c:319, 290) and those that leaked with a task that deleted
\* itself (timer.c:159): no failure path leaves another one open, and none is
\* closed early.
SocketsAccounted == sockets = Closing \cup Leaked

\* main adds zones while requests are already routed: whatever a request
\* finds in the list has its fields (httpserver.c:372-377 and 266-267).
VisibleZonesReady ==
    \A c \in Clients : \A k \in DOMAIN left[c] : left[c][k] \in ready

\* A request that was routed is answered before its socket is closed: by a
\* handler, or by the 404 after the last zone.
RoutedIsAnswered ==
    \A c \in Clients : cpc[c] = "close" /\ path[c] # << >> => replies[c] > 0

\* A connection in the backlog is served to its end, unless the slots are all
\* gone or the chip has stopped.
BacklogServed ==
    \A c \in Clients :
      cpc[c] = "queued" ~> \/ cpc[c] \in {"away"} \cup Gone
                          \/ fault
                          \/ Cardinality({d \in Clients : cpc[d] \in Gone})
                                = MaxThreads
=============================================================================
