----------------------------- MODULE DhcpServer -----------------------------
(***************************************************************************)
(* The DHCP server of AstroTimer (MicroLogiciel/dhcpserver/dhcpserver.c):  *)
(* a pool of addresses, each with the MAC of its holder and a 16-bit       *)
(* expiry, changed by the DISCOVER and REQUEST messages that lwIP's thread *)
(* hands to dhcp_server_process one at a time.  The network may lose a     *)
(* message or deliver it twice; clients follow RFC 2131 and are external.  *)
(***************************************************************************)
EXTENDS Integers, FiniteSets, Sequences

CONSTANTS
    Macs,        \* clients
    NoMac,       \* the six zero bytes of a free entry
    PoolSize,    \* DHCPS_MAX_IP
    Half,        \* 2^31: half the range of cyw43_hal_ticks_ms
    Quantum,     \* 2^16: the low bits that the expiry does not keep
    Lease,       \* DEFAULT_LEASE_TIME_S * 1000
    BaseIP,      \* DHCPS_BASE_IP: the last byte of the first address
    Others,      \* options that clients send before the requested address
    Remembered,  \* slots that a client may ask for without an offer
    Horizon      \* a bound of the runs: the time at which the clock stops

Slots == 0..(PoolSize - 1)
NoSlot == PoolSize          \* also an address outside of the pool
Wrap == 2 * Half

ASSUME DhcpAssumption ==
    /\ NoMac \notin Macs
    /\ PoolSize \in Nat \ {0} /\ Half \in Nat /\ Quantum \in Nat \ {0}
    /\ Lease \in Nat \ {0} /\ Lease + Quantum < Half
    /\ Wrap % Quantum = 0
    /\ BaseIP \in 1..(256 - PoolSize - 1)
    /\ Remembered \subseteq Slots \cup {NoSlot}
    /\ Horizon \in 0..Wrap      \* Wrap is never reached

VARIABLES
    mac, expiry,  \* lease[]: the holder and the 16 bits of the expiry
    now,          \* cyw43_hal_ticks_ms(), which wraps
    state,        \* per client: init, selecting, requesting or bound
    addr,         \* per client: the slot it was offered, asked for or has
    ttl,          \* per client: how long it may still use its address
    up, down      \* per client: the message on its way to and from the server

serverVars == <<mac, expiry>>
clientVars == <<state, addr, ttl>>
vars == <<serverVars, clientVars, now, up, down>>

Msg(t, s) == [type |-> t, slot |-> s]
NoMsg == Msg("none", NoSlot)

Init ==
    /\ mac = [s \in Slots |-> NoMac] /\ expiry = [s \in Slots |-> 0]
    /\ now = 0
    /\ state = [c \in Macs |-> "init"] /\ addr = [c \in Macs |-> NoSlot]
    /\ ttl = [c \in Macs |-> 0]
    /\ up = [c \in Macs |-> NoMsg] /\ down = [c \in Macs |-> NoMsg]

-----------------------------------------------------------------------------
(* Options: code, length and data, byte by byte.  A network is one byte here. *)

MsgType == 53
RequestedIP == 50
End == 255
Network == 10
Option(code, data) == <<code, Len(data)>> \o data

\* What a client may write for a slot, and for no address of the pool: nothing,
\* an address on one side of it, on the other, or of another network.
Written(s) ==
    IF s # NoSlot THEN {Option(RequestedIP, <<Network, BaseIP + s>>)}
    ELSE {<<>>} \cup {Option(RequestedIP, a) :
            a \in {<<Network, BaseIP + PoolSize>>, <<Network, BaseIP - 1>>,
                  <<Network + 1, BaseIP>>}}
Encoded(s) == {Option(MsgType, <<3>>) \o o \o w \o <<End>> : o \in Others, w \in Written(s)}

\* Options that come before: each starts at one of some places, which another
\* one follows, and is not the one looked for.
WellFormed(o) ==
    \E starts \in SUBSET (1..(Len(o) + 1)) :
      /\ {1, Len(o) + 1} \subseteq starts
      /\ \A n \in starts \ {Len(o) + 1} :
           /\ n < Len(o) /\ o[n] \notin {RequestedIP, End}
           /\ n + 2 + o[n + 1] \in starts

ASSUME OptionsAssumption == \A o \in Others : o \in Seq(Nat) /\ WellFormed(o)

\* opt_find: where the option is, or 0.
NextByte(opts, n) == n + 1           \* mutant: data is read as options
NextOption(opts, n) == n + 2 + opts[n + 1]
Find(opts, code) ==
    LET from[n \in Nat] ==
          IF n >= Len(opts) \/ opts[n] = End THEN 0
          ELSE IF opts[n] = code THEN n ELSE from[NextOption(opts, n)]
    IN from[1]

\* The slot that a request is for: the address has to be of this network and,
\* less BaseIP in 8 bits, in the pool.
Requested(opts) ==
    LET n == Find(opts, RequestedIP)
        yi == (opts[n + 3] - BaseIP) % 256
    IN IF n = 0 \/ opts[n + 2] # Network \/ yi \notin Slots THEN NoSlot ELSE yi

Understood == [s \in Slots \cup {NoSlot} |-> {Requested(o) : o \in Encoded(s)}]

-----------------------------------------------------------------------------
(* The server                                                               *)

\* The stored bits are those above Quantum; what was cut is read back as ones.
Overflows(t) == t \div Quantum        \* mutant: wider than lease[].expiry
Stored(t) == (t % Wrap) \div Quantum
ReadShort(e) == e * Quantum          \* mutant: without | 0xffff
ReadBack(e) == e * Quantum + (Quantum - 1)

\* (int32_t)(expiry - now) < 0
Expired(s) == (ReadBack(expiry[s]) - now) % Wrap >= Half

First(S) == CHOOSE s \in S : \A r \in S : s <= r

\* The message was taken from the network, or a copy of it is still there.
Consumed(c) == up' \in {up, [up EXCEPT ![c] = NoMsg]}

\* mutant: no "MAC match, use this IP address"
Unmatched(c) == {}
Own(c) == {s \in Slots : mac[s] = c}

\* The scan stops at the entry of this MAC.  Of the entries before it, the
\* first that is free or expired is the candidate, and loses its holder.
OnDiscover(c) ==
    LET own == Own(c)
        scanned == {s \in Slots : \A o \in own : s < o}
        usable == {s \in scanned : mac[s] = NoMac \/ Expired(s)}
        offer == IF own # {} THEN First(own) ELSE First(usable)
    IN /\ up[c].type = "discover"
       /\ IF own \cup usable = {} THEN UNCHANGED down
          ELSE down' = [down EXCEPT ![c] = Msg("offer", offer)]
       /\ mac' = [s \in Slots |-> IF /\ s \in usable /\ s = First(usable)
                                     /\ Expired(s)
                                  THEN NoMac ELSE mac[s]]
       /\ Consumed(c)
       /\ UNCHANGED <<expiry, clientVars, now>>

Anyone(c, s) == TRUE                          \* mutant: no "IP already in use"
Newcomer(c, s) == mac[s] = NoMac              \* mutant: no "MAC match"
MayHave(c, s) == mac[s] \in {c, NoMac}

\* A request without option 50, of another network or out of the pool gets no
\* answer, nor does one for a slot of someone else.
OnRequest(c) ==
    /\ up[c].type = "request"
    /\ \E s \in Understood[up[c].slot] :
       IF s \in Slots /\ MayHave(c, s)
       THEN /\ mac' = [mac EXCEPT ![s] = c]
            /\ expiry' = [expiry EXCEPT ![s] = Stored(now + Lease)]
            /\ down' = [down EXCEPT ![c] = Msg("ack", s)]
       ELSE UNCHANGED <<serverVars, down>>
    /\ Consumed(c)
    /\ UNCHANGED <<clientVars, now>>

-----------------------------------------------------------------------------
(* The clients and the network                                              *)

Become(c, st, s) ==
    /\ state' = [state EXCEPT ![c] = st]
    /\ addr' = [addr EXCEPT ![c] = s]

Discover(c) ==
    /\ state[c] # "bound"
    /\ Become(c, "selecting", NoSlot)
    /\ up' = [up EXCEPT ![c] = Msg("discover", NoSlot)]
    /\ UNCHANGED <<serverVars, ttl, now, down>>

TakeOffer(c) ==
    /\ state[c] = "selecting" /\ down[c].type = "offer"
    /\ Become(c, "requesting", down[c].slot)
    /\ up' = [up EXCEPT ![c] = Msg("request", down[c].slot)]
    /\ down' = [down EXCEPT ![c] = NoMsg]
    /\ UNCHANGED <<serverVars, ttl, now>>

\* A client that comes back asks for an address it remembers; what it had
\* is over for it.
Return(c) ==
    \E s \in Remembered :
      /\ Become(c, "requesting", s)
      /\ ttl' = [ttl EXCEPT ![c] = 0]
      /\ up' = [up EXCEPT ![c] = Msg("request", s)]
      /\ UNCHANGED <<serverVars, now, down>>

\* Renewing: the address is in the header and not in option 50.
Renew(c) ==
    /\ state[c] = "bound"
    /\ up' = [up EXCEPT ![c] = Msg("request", NoSlot)]
    /\ UNCHANGED <<serverVars, clientVars, now, down>>

Bind(c) ==
    /\ state[c] = "requesting" /\ down[c] = Msg("ack", addr[c])
    /\ state' = [state EXCEPT ![c] = "bound"]
    /\ ttl' = [ttl EXCEPT ![c] = Lease]
    /\ down' = [down EXCEPT ![c] = NoMsg]
    /\ UNCHANGED <<serverVars, addr, now, up>>

Lose(c) ==
    /\ \/ up[c] # NoMsg /\ up' = [up EXCEPT ![c] = NoMsg] /\ UNCHANGED down
       \/ down[c] # NoMsg /\ down' = [down EXCEPT ![c] = NoMsg] /\ UNCHANGED up
    /\ UNCHANGED <<serverVars, clientVars, now>>

\* No message is so late that the clock moves while it travels.
Tick ==
    /\ now # Horizon
    /\ now' = (now + 1) % Wrap
    /\ ttl' = [c \in Macs |-> IF ttl[c] > 0 THEN ttl[c] - 1 ELSE 0]
    /\ state' = [c \in Macs |-> IF state[c] = "bound" /\ ttl[c] = 1
                                THEN "init" ELSE state[c]]
    /\ addr' = [c \in Macs |-> IF state[c] = "bound" /\ ttl[c] = 1
                               THEN NoSlot ELSE addr[c]]
    /\ up' = [c \in Macs |-> NoMsg] /\ down' = [c \in Macs |-> NoMsg]
    /\ UNCHANGED serverVars

\* dhcp_server_init after a restart.  The access point goes with the server, so
\* that the clients start again, with what they remember.
Restart ==
    /\ mac' = [s \in Slots |-> NoMac] /\ expiry' = [s \in Slots |-> 0]
    /\ now' = 0
    /\ state' = [c \in Macs |-> "init"] /\ addr' = [c \in Macs |-> NoSlot]
    /\ ttl' = [c \in Macs |-> 0]
    /\ up' = [c \in Macs |-> NoMsg] /\ down' = [c \in Macs |-> NoMsg]

-----------------------------------------------------------------------------
(* The specification                                                        *)

Process(c) == OnDiscover(c) \/ OnRequest(c)

Next ==
    \/ Tick \/ Restart
    \/ \E c \in Macs : \/ Process(c) \/ Discover(c) \/ TakeOffer(c)
                       \/ Return(c) \/ Renew(c) \/ Bind(c) \/ Lose(c)

Spec == Init /\ [][Next]_vars

\* A client that has no address keeps asking, and what is sent again and
\* again arrives some time.  An exchange takes milliseconds and a lease 24
\* hours, so the clock stands still for as many exchanges as it takes, and
\* restarts come to an end.
FairSpec ==
    /\ Spec
    /\ <>[][FALSE]_now /\ <>[][~Restart]_vars
    /\ \A c \in Macs : /\ WF_vars(Discover(c)) /\ SF_vars(OnDiscover(c))
                       /\ SF_vars(TakeOffer(c)) /\ SF_vars(OnRequest(c))
                       /\ SF_vars(Bind(c))

-----------------------------------------------------------------------------
(* Properties                                                               *)

TypeOK ==
    /\ mac \in [Slots -> Macs \cup {NoMac}]
    /\ expiry \in [Slots -> 0..(Wrap \div Quantum - 1)]
    /\ now \in 0..(Wrap - 1)
    /\ state \in [Macs -> {"init", "selecting", "requesting", "bound"}]
    /\ addr \in [Macs -> Slots \cup {NoSlot}]
    /\ ttl \in [Macs -> 0..Lease]
    /\ {up, down} \subseteq
         [Macs -> [type : {"none", "discover", "offer", "request", "ack"},
                   slot : Slots \cup {NoSlot}]]

\* No address is in use by two clients at one time, whatever is lost, sent
\* twice or asked for out of turn, and across the wrap of the clock.
UniqueAddresses ==
    \A c, d \in Macs : state[c] = "bound" /\ state[d] = "bound" /\ addr[c] = addr[d]
                       => c = d

\* The server honours a lease to its end: while a client may use its address
\* the entry names it and is not expired (dhcpserver.c:227-231, 259-269),
\* although the expiry keeps only 16 bits.
LeaseHonoured ==
    \A c \in Macs : state[c] = "bound" => mac[addr[c]] = c /\ ~Expired(addr[c])

\* An ACK is for the address that was asked for, wherever the option is and
\* whatever is in the others (dhcpserver.c:150-158, 244-258).
AckIsAsked ==
    [][\A c \in Macs : down'[c] # down[c] /\ down'[c].type = "ack"
          => down'[c].slot = up[c].slot]_vars

\* A client fills one entry of the pool (dhcpserver.c:217-221), so that there
\* is one for everybody, as long as clients ask only for what was offered.
OneEntryEach == \A s, r \in Slots : mac[s] = mac[r] /\ mac[s] # NoMac => s = r

\* With an address for each, a client that looks for one gets one, although
\* two may be offered the same and no NACK tells the one that lost.
\* (Lost offers and ACKs are asked for again, dhcpserver.c:217-221, 259-260.)
EventuallyBound == \A c \in Macs : state[c] # "bound" ~> state[c] = "bound"
=============================================================================
