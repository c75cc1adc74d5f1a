-------------------------- MODULE DhcpServerProofs --------------------------
(* Theorems about DhcpServer, for any number of clients and of addresses.   *)
EXTENDS DhcpServer, SharedLemmas

-----------------------------------------------------------------------------
(* Arithmetic of a clock that wraps                                         *)

LEMMA Constants ==
    /\ Half \in Nat /\ Quantum \in Nat \ {0} /\ Lease \in Nat \ {0}
    /\ Lease + Quantum < Half
    /\ Wrap \in Nat \ {0} /\ Wrap = 2 * Half
    /\ Slots \in SUBSET Nat /\ NoSlot \notin Slots
    /\ NoMac \notin Macs
BY DhcpAssumption DEF Wrap, Slots, NoSlot

LEMMA WrapRemainder ==
    ASSUME NEW a \in Int
    PROVE  /\ a % Wrap \in 0..(Wrap - 1)
           /\ \E q \in Int : a = Wrap * q + (a % Wrap)
<1>1. /\ a % Wrap \in 0..(Wrap - 1) /\ a \div Wrap \in Int
      /\ a = Wrap * (a \div Wrap) + (a % Wrap)
  BY Constants, Remainder
<1> QED BY <1>1

\* What is read back of an expiry is less than Quantum after it.
LEMMA ReadBackLate ==
    ASSUME NEW t \in Int
    PROVE  \E k \in 0..(Quantum - 1) : ReadBack(Stored(t)) = (t % Wrap) + k
<1> DEFINE u == t % Wrap
<1>1. u \in Int
  BY Constants, Remainder
<1> HIDE DEF u
<1>2. /\ u % Quantum \in 0..(Quantum - 1) /\ u \div Quantum \in Int
      /\ u = Quantum * (u \div Quantum) + (u % Quantum)
  BY <1>1, Constants, Remainder
<1>3. (u \div Quantum) * Quantum = Quantum * (u \div Quantum)
  BY <1>2, Constants
<1>4. (u \div Quantum) * Quantum + (Quantum - 1)
        = u + (Quantum - 1 - (u % Quantum))
  BY <1>1, <1>2, <1>3, Constants
<1>5. Quantum - 1 - (u % Quantum) \in 0..(Quantum - 1)
  BY <1>2, Constants
<1>6. ReadBack(Stored(t)) = (u \div Quantum) * Quantum + (Quantum - 1)
  BY DEF ReadBack, Stored, u
<1>7. ReadBack(Stored(t)) = u + (Quantum - 1 - (u % Quantum))
  BY <1>4, <1>6
<1> QED BY <1>5, <1>7 DEF u

LEMMA LeaseFromNow ==
    ASSUME NEW n \in Int, NEW k \in 0..(Quantum - 1), NEW m \in Int, NEW j \in Int,
           n + Lease = Wrap * j + m
    PROVE  ((m + k) - n) % Wrap \in Lease..(Half - 1)
<1>1. (m + k) - n = Wrap * (-j) + (Lease + k)
  BY Constants
<1>2. Lease + k \in 0..(Wrap - 1) /\ -j \in Int
  BY Constants
<1>3. (Wrap * (-j) + (Lease + k)) % Wrap = Lease + k
  BY <1>2, Constants, UniqueRemainder
<1>4. Lease + k \in Lease..(Half - 1)
  BY Constants
<1> QED BY <1>1, <1>3, <1>4

\* A new lease has at least its time to go, and is not expired.
LEMMA FreshLease ==
    ASSUME NEW n \in Int
    PROVE  /\ ReadBack(Stored(n + Lease)) \in Int
           /\ (ReadBack(Stored(n + Lease)) - n) % Wrap \in Lease..(Half - 1)
<1>1. n + Lease \in Int
  BY Constants
<1>2. PICK m \in Int, j \in Int :
        m = (n + Lease) % Wrap /\ n + Lease = Wrap * j + m
  <2>1. /\ (n + Lease) % Wrap \in 0..(Wrap - 1)
        /\ \E q \in Int : n + Lease = Wrap * q + ((n + Lease) % Wrap)
    BY <1>1, WrapRemainder
  <2>2. (n + Lease) % Wrap \in Int
    BY <2>1, Constants
  <2> QED BY <2>1, <2>2
<1>3. PICK k \in 0..(Quantum - 1) : ReadBack(Stored(n + Lease)) = m + k
  BY <1>1, <1>2, ReadBackLate
<1>4. m + k \in Int
  BY Constants
<1>5. ((m + k) - n) % Wrap \in Lease..(Half - 1)
  BY <1>2, LeaseFromNow
<1> QED BY <1>3, <1>4, <1>5

\* One tick takes one off what an entry has to go.
LEMMA OneTickLess ==
    ASSUME NEW x \in Int, NEW n \in Int, (x - n) % Wrap > 0
    PROVE  (x - ((n + 1) % Wrap)) % Wrap = ((x - n) % Wrap) - 1
<1> DEFINE m == (n + 1) % Wrap
           r == (x - n) % Wrap
<1>1. PICK j \in Int : m \in Int /\ n + 1 = Wrap * j + m
  <2>1. n + 1 \in Int
    OBVIOUS
  <2>2. m \in 0..(Wrap - 1) /\ \E q \in Int : n + 1 = Wrap * q + m
    BY <2>1, WrapRemainder
  <2> HIDE DEF m
  <2> QED BY <2>2, Constants
<1>2. PICK i \in Int : r \in 0..(Wrap - 1) /\ x - n = Wrap * i + r
  <2>1. x - n \in Int
    OBVIOUS
  <2>2. r \in 0..(Wrap - 1) /\ \E q \in Int : x - n = Wrap * q + r
    BY <2>1, WrapRemainder
  <2> HIDE DEF r
  <2> QED BY <2>2
<1>3. r > 0
  OBVIOUS
<1> HIDE DEF m, r
<1>4. x - m = Wrap * (i + j) + (r - 1)
  BY <1>1, <1>2, Constants
<1>5. r - 1 \in 0..(Wrap - 1) /\ i + j \in Int
  BY <1>1, <1>2, <1>3, Constants
<1>6. (Wrap * (i + j) + (r - 1)) % Wrap = r - 1
  BY <1>5, Constants, UniqueRemainder
<1> QED BY <1>4, <1>6 DEF m, r

-----------------------------------------------------------------------------
(* Leases                                                                   *)

\* How long the entry of a slot has to go.
ToGo(s) == (ReadBack(expiry[s]) - now) % Wrap

TypeInv ==
    /\ mac \in [Slots -> Macs \cup {NoMac}]
    /\ expiry \in [Slots -> Int]
    /\ now \in Int
    /\ ttl \in [Macs -> 0..Lease]
    /\ DOMAIN state = Macs /\ DOMAIN addr = Macs /\ DOMAIN down = Macs
    /\ \A c \in Macs : state[c] = "bound" => ttl[c] > 0

\* A client that uses an address has an entry that outlives its use.
BoundIsHeld ==
    \A c \in Macs : state[c] = "bound" =>
      /\ addr[c] \in Slots /\ mac[addr[c]] = c
      /\ ToGo(addr[c]) \in ttl[c]..(Half - 1)

\* So has one whose ACK is on its way.
AckIsHeld ==
    \A c \in Macs : down[c].type = "ack" =>
      /\ down[c].slot \in Slots /\ mac[down[c].slot] = c
      /\ ToGo(down[c].slot) \in Lease..(Half - 1)

LeaseInv == TypeInv /\ BoundIsHeld /\ AckIsHeld

LEMMA ReadBackInt == ASSUME NEW e \in Int PROVE ReadBack(e) \in Int
BY Constants DEF ReadBack

LEMMA StoredInt == ASSUME NEW t \in Int PROVE Stored(t) \in Int
<1>1. t % Wrap \in Int
  BY Constants, Remainder
<1>2. (t % Wrap) \div Quantum \in Int
  BY <1>1, Constants, Remainder
<1> QED BY <1>2 DEF Stored

LEMMA HeldIsNotExpired ==
    ASSUME NEW s \in Slots, ToGo(s) \in 0..(Half - 1)
    PROVE  ~Expired(s)
<1>1. Expired(s) <=> ToGo(s) >= Half
  BY DEF Expired, ToGo
<1>2. ToGo(s) < Half /\ ToGo(s) \in Int
  BY Constants
<1> QED BY <1>1, <1>2, Constants

LEMMA LeaseInit == Init => LeaseInv
<1> SUFFICES ASSUME Init PROVE LeaseInv
  OBVIOUS
<1>1. TypeInv
  BY Constants DEF Init, TypeInv, NoMsg, Msg
<1>2. BoundIsHeld /\ AckIsHeld
  BY DEF Init, BoundIsHeld, AckIsHeld, NoMsg, Msg
<1> QED BY <1>1, <1>2 DEF LeaseInv

\* What leaves the table and the clock alone and sends no ACK.
LEMMA ClientStep ==
    ASSUME LeaseInv, TypeInv', UNCHANGED <<serverVars, now>>,
           \A c \in Macs : \/ down'[c] = down[c]
                           \/ down'[c].type # "ack",
           \A c \in Macs : state'[c] = "bound" =>
                \/ state[c] = "bound" /\ UNCHANGED <<addr[c], ttl[c]>>
                \/ down[c] = Msg("ack", addr'[c]) /\ ttl'[c] = Lease
    PROVE  LeaseInv'
<1>1. \A s \in Slots : UNCHANGED <<mac[s], ToGo(s)>>
  BY DEF serverVars, ToGo
<1>2. BoundIsHeld'
  <2> SUFFICES ASSUME NEW c \in Macs, state'[c] = "bound"
               PROVE  /\ addr'[c] \in Slots /\ mac'[addr'[c]] = c
                      /\ ToGo(addr[c])' \in ttl'[c]..(Half - 1)
    BY DEF BoundIsHeld
  <2>1. CASE state[c] = "bound" /\ UNCHANGED <<addr[c], ttl[c]>>
    BY <1>1, <2>1 DEF LeaseInv, BoundIsHeld
  <2>2. CASE down[c] = Msg("ack", addr'[c]) /\ ttl'[c] = Lease
    <3>1. down[c].type = "ack" /\ down[c].slot = addr'[c]
      BY <2>2 DEF Msg
    <3>2. /\ addr'[c] \in Slots /\ mac[addr'[c]] = c
          /\ ToGo(addr'[c]) \in Lease..(Half - 1)
      BY <3>1 DEF LeaseInv, AckIsHeld
    <3>3. ToGo(addr[c])' = ToGo(addr'[c])
      BY DEF ToGo, serverVars
    <3> QED BY <1>1, <2>2, <3>2, <3>3
  <2> QED BY <2>1, <2>2
<1>3. AckIsHeld'
  <2> SUFFICES ASSUME NEW c \in Macs, down'[c].type = "ack"
               PROVE  /\ down'[c].slot \in Slots /\ mac'[down'[c].slot] = c
                      /\ ToGo(down[c].slot)' \in Lease..(Half - 1)
    BY DEF AckIsHeld
  <2>1. down'[c] = down[c]
    OBVIOUS
  <2> QED BY <1>1, <2>1 DEF LeaseInv, AckIsHeld
<1> QED BY <1>2, <1>3 DEF LeaseInv

LEMMA TypeStep == TypeInv /\ [Next]_vars => TypeInv'
<1> SUFFICES ASSUME TypeInv, [Next]_vars PROVE TypeInv'
  OBVIOUS
<1> USE DEF TypeInv
<1>1. CASE Tick
  <2>1. now' \in Int
    BY <1>1, Constants, Remainder DEF Tick
  <2>2. ttl' \in [Macs -> 0..Lease]
    BY <1>1, Constants DEF Tick
  <2> QED BY <1>1, <2>1, <2>2 DEF Tick, NoMsg, Msg, serverVars
<1>2. CASE Restart
  BY <1>2, Constants DEF Restart, NoMsg, Msg
<1>3. ASSUME NEW c \in Macs, OnDiscover(c) PROVE TypeInv'
  BY <1>3 DEF OnDiscover, clientVars
<1>4. ASSUME NEW c \in Macs, OnRequest(c) PROVE TypeInv'
  <2>1. CASE UNCHANGED <<serverVars, down>>
    BY <1>4, <2>1 DEF OnRequest, serverVars, clientVars
  <2>2. CASE \E s \in Slots :
               /\ mac' = [mac EXCEPT ![s] = c]
               /\ expiry' = [expiry EXCEPT ![s] = Stored(now + Lease)]
               /\ down' = [down EXCEPT ![c] = Msg("ack", s)]
    <3>1. Stored(now + Lease) \in Int
      BY Constants, StoredInt
    <3> QED BY <1>4, <2>2, <3>1 DEF OnRequest, clientVars, Msg
  <2> QED BY <1>4, <2>1, <2>2 DEF OnRequest
<1>5. ASSUME NEW c \in Macs,
             Discover(c) \/ TakeOffer(c) \/ Return(c) \/ Renew(c) \/ Bind(c) \/ Lose(c)
      PROVE  TypeInv'
  <2>1. CASE Discover(c)
    BY <2>1 DEF Discover, Become, serverVars
  <2>2. CASE TakeOffer(c)
    BY <2>2 DEF TakeOffer, Become, serverVars, NoMsg, Msg
  <2>3. CASE Return(c)
    BY <2>3, Constants DEF Return, Become, serverVars
  <2>4. CASE Renew(c)
    BY <2>4 DEF Renew, serverVars, clientVars
  <2>5. CASE Bind(c)
    BY <2>5, Constants DEF Bind, serverVars, NoMsg, Msg
  <2>6. CASE Lose(c)
    BY <2>6 DEF Lose, serverVars, clientVars, NoMsg, Msg
  <2> QED BY <1>5, <2>1, <2>2, <2>3, <2>4, <2>5, <2>6
<1>6. CASE UNCHANGED vars
  BY <1>6 DEF vars, serverVars, clientVars
<1> QED BY <1>1, <1>2, <1>3, <1>4, <1>5, <1>6 DEF Next, Process

\* An entry that is not expired keeps its holder in the scan of a DISCOVER.
LEMMA DiscoverStep ==
    ASSUME LeaseInv, TypeInv', NEW c \in Macs, OnDiscover(c)
    PROVE  LeaseInv'
<1>1. /\ UNCHANGED <<expiry, now, state, addr, ttl>>
      /\ \A s \in Slots : ~Expired(s) => mac'[s] = mac[s]
  BY DEF OnDiscover, clientVars
<1>2. \A s \in Slots : UNCHANGED ToGo(s)
  BY <1>1 DEF ToGo
<1>3. BoundIsHeld'
  <2> SUFFICES ASSUME NEW d \in Macs, state'[d] = "bound"
               PROVE  /\ addr'[d] \in Slots /\ mac'[addr'[d]] = d
                      /\ ToGo(addr[d])' \in ttl'[d]..(Half - 1)
    BY DEF BoundIsHeld
  <2>1. addr[d] \in Slots /\ mac[addr[d]] = d /\ ToGo(addr[d]) \in ttl[d]..(Half - 1)
    BY <1>1 DEF LeaseInv, BoundIsHeld
  <2>2. ToGo(addr[d]) \in 0..(Half - 1)
    BY <2>1, Constants DEF LeaseInv, TypeInv
  <2>3. ~Expired(addr[d])
    BY <2>1, <2>2, HeldIsNotExpired
  <2> QED BY <1>1, <1>2, <2>1, <2>3
<1>4. AckIsHeld'
  <2> SUFFICES ASSUME NEW d \in Macs, down'[d].type = "ack"
               PROVE  /\ down'[d].slot \in Slots /\ mac'[down'[d].slot] = d
                      /\ ToGo(down[d].slot)' \in Lease..(Half - 1)
    BY DEF AckIsHeld
  <2>1. down'[d] = down[d]
    <3>1. UNCHANGED down \/ \E s : down' = [down EXCEPT ![c] = Msg("offer", s)]
      BY DEF OnDiscover
    <3> QED BY <3>1 DEF LeaseInv, TypeInv, Msg
  <2>2. /\ down[d].slot \in Slots /\ mac[down[d].slot] = d
        /\ ToGo(down[d].slot) \in Lease..(Half - 1)
    BY <2>1 DEF LeaseInv, AckIsHeld
  <2>3. ToGo(down[d].slot) \in 0..(Half - 1)
    BY <2>2, Constants
  <2>4. ~Expired(down[d].slot)
    BY <2>2, <2>3, HeldIsNotExpired
  <2> QED BY <1>1, <1>2, <2>1, <2>2, <2>4
<1> QED BY <1>3, <1>4 DEF LeaseInv

\* A request is granted on an entry of nobody else, and starts it anew.
LEMMA RequestStep ==
    ASSUME LeaseInv, TypeInv', NEW c \in Macs, OnRequest(c)
    PROVE  LeaseInv'
<1>1. UNCHANGED <<now, state, addr, ttl>>
  BY DEF OnRequest, clientVars
<1>2. CASE UNCHANGED <<serverVars, down>>
  BY <1>1, <1>2, ClientStep
<1>3. CASE \E s \in Slots :
             /\ mac[s] \in {c, NoMac}
             /\ mac' = [mac EXCEPT ![s] = c]
             /\ expiry' = [expiry EXCEPT ![s] = Stored(now + Lease)]
             /\ down' = [down EXCEPT ![c] = Msg("ack", s)]
  <2>1. PICK s \in Slots :
             /\ mac[s] \in {c, NoMac}
             /\ mac' = [mac EXCEPT ![s] = c]
             /\ expiry' = [expiry EXCEPT ![s] = Stored(now + Lease)]
             /\ down' = [down EXCEPT ![c] = Msg("ack", s)]
    BY <1>3
  <2>2. mac'[s] = c /\ ToGo(s)' \in Lease..(Half - 1)
    <3>1. mac'[s] = c /\ expiry'[s] = Stored(now + Lease)
      BY <2>1 DEF LeaseInv, TypeInv
    <3>2. (ReadBack(Stored(now + Lease)) - now) % Wrap \in Lease..(Half - 1)
      BY FreshLease DEF LeaseInv, TypeInv
    <3> QED BY <1>1, <3>1, <3>2 DEF ToGo
  <2>3. \A r \in Slots \ {s} : mac'[r] = mac[r] /\ ToGo(r)' = ToGo(r)
    BY <1>1, <2>1 DEF LeaseInv, TypeInv, ToGo
  <2>4. BoundIsHeld'
    <3> SUFFICES ASSUME NEW d \in Macs, state'[d] = "bound"
                 PROVE  /\ addr'[d] \in Slots /\ mac'[addr'[d]] = d
                        /\ ToGo(addr[d])' \in ttl'[d]..(Half - 1)
      BY DEF BoundIsHeld
    <3>1. /\ addr[d] \in Slots /\ mac[addr[d]] = d
          /\ ToGo(addr[d]) \in ttl[d]..(Half - 1) /\ ttl[d] \in 0..Lease
      BY <1>1 DEF LeaseInv, BoundIsHeld, TypeInv
    <3>2. CASE addr[d] = s
      <4>1. c = d
        BY <2>1, <3>1, <3>2, Constants
      <4> QED BY <1>1, <2>2, <3>1, <3>2, <4>1, Constants
    <3>3. CASE addr[d] # s
      BY <1>1, <2>3, <3>1, <3>3
    <3> QED BY <3>2, <3>3
  <2>5. AckIsHeld'
    <3> SUFFICES ASSUME NEW d \in Macs, down'[d].type = "ack"
                 PROVE  /\ down'[d].slot \in Slots /\ mac'[down'[d].slot] = d
                        /\ ToGo(down[d].slot)' \in Lease..(Half - 1)
      BY DEF AckIsHeld
    <3>1. CASE d = c
      <4>1. down'[d].slot = s
        BY <2>1, <3>1 DEF LeaseInv, TypeInv, Msg
      <4> QED BY <2>2, <3>1, <4>1
    <3>2. CASE d # c
      <4>1. down'[d] = down[d]
        BY <2>1, <3>2 DEF LeaseInv, TypeInv
      <4>2. /\ down[d].slot \in Slots /\ mac[down[d].slot] = d
            /\ ToGo(down[d].slot) \in Lease..(Half - 1)
        BY <4>1 DEF LeaseInv, AckIsHeld
      <4>3. down[d].slot # s
        BY <2>1, <3>2, <4>2, Constants
      <4> QED BY <2>3, <4>1, <4>2, <4>3
    <3> QED BY <3>1, <3>2
  <2> QED BY <2>4, <2>5 DEF LeaseInv
<1> QED BY <1>2, <1>3 DEF OnRequest, MayHave

\* A tick takes one off both, what an entry has to go and what a client has.
LEMMA TickStep == LeaseInv /\ TypeInv' /\ Tick => LeaseInv'
<1> SUFFICES ASSUME LeaseInv, TypeInv', Tick PROVE LeaseInv'
  OBVIOUS
<1>1. BoundIsHeld'
  <2> SUFFICES ASSUME NEW c \in Macs, state'[c] = "bound"
               PROVE  /\ addr'[c] \in Slots /\ mac'[addr'[c]] = c
                      /\ ToGo(addr[c])' \in ttl'[c]..(Half - 1)
    BY DEF BoundIsHeld
  <2>1. state[c] = "bound" /\ ttl[c] # 1 /\ addr'[c] = addr[c]
    BY DEF Tick
  <2>2. /\ addr[c] \in Slots /\ mac[addr[c]] = c /\ ttl[c] \in 0..Lease
        /\ ToGo(addr[c]) \in ttl[c]..(Half - 1)
    BY <2>1 DEF LeaseInv, BoundIsHeld, TypeInv
  <2>3. ttl'[c] = IF ttl[c] > 0 THEN ttl[c] - 1 ELSE 0
    BY DEF Tick
  <2>4. UNCHANGED <<mac, expiry>> /\ now' = (now + 1) % Wrap
    BY DEF Tick, serverVars
  <2>5. CASE ToGo(addr[c]) > 0
    <3>1. ToGo(addr[c])' = ToGo(addr[c]) - 1
      <4>1. ReadBack(expiry[addr[c]]) \in Int /\ now \in Int
        BY <2>2, ReadBackInt DEF LeaseInv, TypeInv
      <4>2. (ReadBack(expiry[addr[c]]) - now) % Wrap > 0
        BY <2>5 DEF ToGo
      <4>3. (ReadBack(expiry[addr[c]]) - ((now + 1) % Wrap)) % Wrap
              = ((ReadBack(expiry[addr[c]]) - now) % Wrap) - 1
        BY <4>1, <4>2, OneTickLess
      <4> QED BY <2>1, <2>4, <4>3 DEF ToGo
    <3> QED BY <2>1, <2>2, <2>3, <2>4, <2>5, <3>1, Constants
  <2>6. CASE ToGo(addr[c]) = 0
    <3>1. ttl[c] > 0
      BY <2>1 DEF LeaseInv, TypeInv
    <3> QED BY <2>2, <2>6, <3>1, Constants
  <2> QED BY <2>2, <2>5, <2>6, Constants
<1>2. AckIsHeld'
  BY DEF Tick, AckIsHeld, NoMsg, Msg
<1> QED BY <1>1, <1>2 DEF LeaseInv

LEMMA LeaseStep == LeaseInv /\ [Next]_vars => LeaseInv'
<1> SUFFICES ASSUME LeaseInv, [Next]_vars PROVE LeaseInv'
  OBVIOUS
<1>1. TypeInv'
  BY TypeStep DEF LeaseInv
<1>2. CASE Tick
  BY <1>1, <1>2, TickStep
<1>3. CASE Restart
  BY <1>1, <1>3 DEF Restart, LeaseInv, BoundIsHeld, AckIsHeld, NoMsg, Msg
<1>4. ASSUME NEW c \in Macs, Process(c) PROVE LeaseInv'
  BY <1>1, <1>4, DiscoverStep, RequestStep DEF Process
<1>5. ASSUME NEW c \in Macs, Discover(c) \/ TakeOffer(c) \/ Return(c) \/ Renew(c)
      PROVE  LeaseInv'
  <2> USE DEF LeaseInv, TypeInv
  <2>1. UNCHANGED <<serverVars, now>>
    BY <1>5 DEF Discover, TakeOffer, Return, Renew
  <2>2. \A d \in Macs : down'[d] = down[d] \/ down'[d].type # "ack"
    BY <1>5 DEF Discover, TakeOffer, Return, Renew, NoMsg, Msg
  <2>3. \A d \in Macs : state'[d] = "bound" =>
           state[d] = "bound" /\ UNCHANGED <<addr[d], ttl[d]>>
    BY <1>5 DEF Discover, TakeOffer, Return, Renew, Become, clientVars
  <2> HIDE DEF LeaseInv, TypeInv
  <2> QED BY <1>1, <2>1, <2>2, <2>3, ClientStep
<1>6. ASSUME NEW c \in Macs, Bind(c) \/ Lose(c) PROVE LeaseInv'
  <2> USE DEF LeaseInv, TypeInv
  <2>1. UNCHANGED <<serverVars, now>>
    BY <1>6 DEF Bind, Lose
  <2>2. \A d \in Macs : down'[d] = down[d] \/ down'[d].type # "ack"
    BY <1>6 DEF Bind, Lose, NoMsg, Msg
  <2>3. \A d \in Macs : state'[d] = "bound" =>
           \/ state[d] = "bound" /\ UNCHANGED <<addr[d], ttl[d]>>
           \/ down[d] = Msg("ack", addr'[d]) /\ ttl'[d] = Lease
    BY <1>6 DEF Bind, Lose, clientVars
  <2> HIDE DEF LeaseInv, TypeInv
  <2> QED BY <1>1, <2>1, <2>2, <2>3, ClientStep
<1>7. CASE UNCHANGED vars
  BY <1>7 DEF vars, serverVars, clientVars, LeaseInv, TypeInv, BoundIsHeld,
              AckIsHeld, ToGo
<1> QED BY <1>2, <1>3, <1>4, <1>5, <1>6, <1>7 DEF Next

LEMMA LeaseInvHolds == Spec => []LeaseInv
BY LeaseInit, LeaseStep, PTL DEF Spec

-----------------------------------------------------------------------------
(* Options: the search goes from one to the next, over any that come before *)

\* One place of the walk of opt_find, with what f says of those further on.
At(f, opts, code, n) ==
    IF n >= Len(opts) \/ opts[n] = End THEN 0
    ELSE IF opts[n] = code THEN n ELSE f[NextOption(opts, n)]
Walk(f, opts, code) == f = [n \in Nat |-> At(f, opts, code, n)]

LEMMA WalkGoesOn ==
    ASSUME NEW opts \in Seq(Nat), NEW n \in Nat, n < Len(opts)
    PROVE  NextOption(opts, n) \in Nat /\ NextOption(opts, n) > n
<1>1. n + 1 \in 1..Len(opts)
  OBVIOUS
<1>2. opts[n + 1] \in Nat
  BY <1>1
<1> QED BY <1>2 DEF NextOption

AgreeBehind(f, g, m) == \A i \in Nat : i > m => g[i] = f[i]

LEMMA AtLooksForward ==
    ASSUME NEW opts \in Seq(Nat), NEW code, NEW n \in Nat, NEW m \in Nat, n >= m,
           NEW f, NEW g, AgreeBehind(f, g, m)
    PROVE  At(g, opts, code, n) = At(f, opts, code, n)
<1>1. CASE n < Len(opts)
  <2>1. NextOption(opts, n) \in Nat /\ NextOption(opts, n) > m
    BY <1>1, WalkGoesOn
  <2>2. g[NextOption(opts, n)] = f[NextOption(opts, n)]
    BY <2>1 DEF AgreeBehind
  <2> QED BY <2>2 DEF At
<1>2. CASE n >= Len(opts)
  BY <1>2 DEF At
<1>3. Len(opts) \in Nat
  OBVIOUS
<1> QED BY <1>1, <1>2, <1>3

LEMMA AtType ==
    ASSUME NEW opts \in Seq(Nat), NEW code, NEW f \in [Nat -> Nat], NEW n \in Nat
    PROVE  At(f, opts, code, n) \in Nat
<1>1. CASE n < Len(opts)
  <2>1. f[NextOption(opts, n)] \in Nat
    BY <1>1, WalkGoesOn
  <2> QED BY <2>1 DEF At
<1>2. CASE n >= Len(opts)
  BY <1>2 DEF At
<1>3. Len(opts) \in Nat
  OBVIOUS
<1> QED BY <1>1, <1>2, <1>3

\* f is right about the last k bytes, and about what lies behind them.
RightFor(f, opts, code, k) ==
    \A n \in Nat : n + k >= Len(opts) => f[n] = At(f, opts, code, n)

LEMMA RightForOneMore ==
    ASSUME NEW opts \in Seq(Nat), NEW code, NEW k \in Nat, NEW f \in [Nat -> Nat],
           RightFor(f, opts, code, k)
    PROVE  \E g \in [Nat -> Nat] : RightFor(g, opts, code, k + 1)
<1>1. Len(opts) \in Nat
  OBVIOUS
<1>2. CASE k >= Len(opts)
  <2>1. RightFor(f, opts, code, k + 1)
    BY <1>1, <1>2 DEF RightFor
  <2> QED BY <2>1
<1>3. CASE k < Len(opts)
  <2>1. PICK m \in Nat : m + (k + 1) = Len(opts)
    <3>1. Len(opts) - (k + 1) \in Nat
      BY <1>1, <1>3
    <3>2. (Len(opts) - (k + 1)) + (k + 1) = Len(opts)
      BY <1>1
    <3> QED BY <3>1, <3>2
  <2>2. PICK g \in [Nat -> Nat] : /\ g[m] = At(f, opts, code, m)
                                  /\ \A n \in Nat : n # m => g[n] = f[n]
    <3> DEFINE h == [f EXCEPT ![m] = At(f, opts, code, m)]
    <3>1. At(f, opts, code, m) \in Nat
      BY <2>1, AtType
    <3>2. /\ h \in [Nat -> Nat] /\ h[m] = At(f, opts, code, m)
          /\ \A n \in Nat : n # m => h[n] = f[n]
      BY <2>1, <3>1
    <3> QED BY <3>2
  <2>3. AgreeBehind(f, g, m)
    BY <2>1, <2>2 DEF AgreeBehind
  <2>4. ASSUME NEW n \in Nat, n + (k + 1) >= Len(opts)
        PROVE  g[n] = At(g, opts, code, n)
    <3>1. n >= m
      BY <1>1, <2>1, <2>4
    <3>2. At(g, opts, code, n) = At(f, opts, code, n)
      BY <2>1, <2>3, <2>4, <3>1, AtLooksForward
    <3>3. n # m => n + k >= Len(opts)
      BY <1>1, <2>1, <2>4, SMTT(30)
    <3> QED BY <2>1, <2>2, <2>4, <3>2, <3>3 DEF RightFor
  <2>5. RightFor(g, opts, code, k + 1)
    BY <2>4 DEF RightFor
  <2> QED BY <2>2, <2>5
<1>4. k >= Len(opts) \/ k < Len(opts)
  BY <1>1
<1> QED BY <1>2, <1>3, <1>4

\* The walk is defined for any bytes, since it goes forward only: from the end
\* of the options back to their beginning.
LEMMA WalkExists ==
    ASSUME NEW opts \in Seq(Nat), NEW code
    PROVE  \E f : Walk(f, opts, code)
<1> DEFINE T == {k \in Nat : \E f \in [Nat -> Nat] : RightFor(f, opts, code, k)}
<1>1. Len(opts) \in Nat
  OBVIOUS
<1>2. 0 \in T
  <2>1. [n \in Nat |-> 0] \in [Nat -> Nat]
    OBVIOUS
  <2>2. RightFor([n \in Nat |-> 0], opts, code, 0)
    BY <1>1 DEF RightFor, At
  <2> QED BY <2>1, <2>2
<1>3. ASSUME NEW k \in Nat, k \in T PROVE k + 1 \in T
  <2>1. PICK f \in [Nat -> Nat] : RightFor(f, opts, code, k)
    BY <1>3
  <2>2. PICK g \in [Nat -> Nat] : RightFor(g, opts, code, k + 1)
    BY <1>3, <2>1, RightForOneMore
  <2>3. k + 1 \in Nat
    BY <1>3
  <2>4. \E h \in [Nat -> Nat] : RightFor(h, opts, code, k + 1)
    BY <2>2, Zenon
  <2> QED BY <2>3, <2>4
<1>4. Len(opts) \in T
  <2> HIDE DEF T
  <2> QED BY <1>1, <1>2, <1>3, Induction
<1>5. PICK f \in [Nat -> Nat] : RightFor(f, opts, code, Len(opts))
  BY <1>4
<1>6. \A n \in Nat : f[n] = At(f, opts, code, n)
  BY <1>1, <1>5 DEF RightFor
<1>7. f = [n \in Nat |-> At(f, opts, code, n)]
  BY <1>5, <1>6
<1> QED BY <1>7 DEF Walk

LEMMA FindWalks ==
    ASSUME NEW opts \in Seq(Nat), NEW code
    PROVE  \E f : Walk(f, opts, code) /\ Find(opts, code) = f[1]
<1>1. Walk(CHOOSE f : Walk(f, opts, code), opts, code)
  BY WalkExists
<1> QED BY <1>1 DEF Walk, Find, At

\* The options of a request: its type, o, what the client writes, and the end.
Request(o, w) == Option(MsgType, <<3>>) \o o \o w \o <<End>>

LEMMA Triple ==
    ASSUME NEW s \in Seq(Nat), NEW a, NEW b, NEW c,
           Len(s) = 3, s[1] = a, s[2] = b, s[3] = c
    PROVE  s = <<a, b, c>>
OBVIOUS

LEMMA TypeOption == Option(MsgType, <<3>>) = <<53, 1, 3>>
<1> DEFINE s == <<53, 1>> \o <<3>>
<1>1. s \in Seq(Nat) /\ Len(s) = 3
  OBVIOUS
<1>2. s[1] = 53 /\ s[2] = 1 /\ s[3] = 3
  OBVIOUS
<1>3. Option(MsgType, <<3>>) = s
  <2>1. Len(<<3>>) = 1
    OBVIOUS
  <2> QED BY <2>1, Zenon DEF Option, MsgType
<1> HIDE DEF s
<1> QED BY <1>1, <1>2, <1>3, Triple

LEMMA Layout ==
    ASSUME NEW o \in Seq(Nat), NEW w \in Seq(Nat)
    PROVE  /\ Request(o, w) \in Seq(Nat)
           /\ Len(o) \in Nat /\ Len(w) \in Nat
           /\ Len(Request(o, w)) = Len(o) + Len(w) + 4
           /\ Request(o, w)[1] = MsgType /\ Request(o, w)[2] = 1
           /\ \A n \in 1..Len(o) : Request(o, w)[n + 3] = o[n]
           /\ \A n \in 1..Len(w) : Request(o, w)[n + (Len(o) + 3)] = w[n]
           /\ Request(o, w)[Len(o) + Len(w) + 4] = End
<1> DEFINE m == <<53, 1, 3>> \o o \o w \o <<255>>
<1>1. Request(o, w) = m
  BY TypeOption DEF Request, End
<1>2. m \in Seq(Nat)
  OBVIOUS
<1>3. Len(m) = Len(o) + Len(w) + 4 /\ Len(o) \in Nat /\ Len(w) \in Nat
  OBVIOUS
<1>4. m[1] = 53 /\ m[2] = 1
  OBVIOUS
<1>5. ASSUME NEW n \in 1..Len(o) PROVE m[n + 3] = o[n]
  OBVIOUS
<1>6. ASSUME NEW n \in 1..Len(w) PROVE m[n + (Len(o) + 3)] = w[n]
  OBVIOUS
<1>7. m[Len(o) + Len(w) + 4] = 255
  OBVIOUS
<1> HIDE DEF m
<1> QED BY <1>1, <1>2, <1>3, <1>4, <1>5, <1>6, <1>7 DEF MsgType, End

\* The walk passes over the options that come before.
LEMMA PassesOver ==
    ASSUME NEW o \in Seq(Nat), WellFormed(o), NEW w \in Seq(Nat), Len(w) \in {0, 4},
           NEW f, Walk(f, Request(o, w), RequestedIP)
    PROVE  f[1] = f[Len(o) + 4]
<1> DEFINE opts == Request(o, w)
<1>1. PICK starts \in SUBSET (1..(Len(o) + 1)) :
        /\ {1, Len(o) + 1} \subseteq starts
        /\ \A n \in starts \ {Len(o) + 1} :
             /\ n < Len(o) /\ o[n] \notin {RequestedIP, End}
             /\ n + 2 + o[n + 1] \in starts
  BY DEF WellFormed
<1>2. Len(o) \in Nat /\ Len(w) \in Nat /\ Len(opts) = Len(o) + Len(w) + 4
  BY Layout
<1>3. ASSUME NEW n \in starts \ {Len(o) + 1}
      PROVE  /\ n + 2 + o[n + 1] \in starts
             /\ f[n + 3] = f[(n + 2 + o[n + 1]) + 3]
             /\ n + 2 + o[n + 1] > n
  <2>1. n \in 1..Len(o) /\ n + 1 \in 1..Len(o)
    BY <1>1, <1>2, <1>3
  <2>2. o[n + 1] \in Nat /\ n + 2 + o[n + 1] \in starts
    BY <1>1, <1>3, <2>1
  <2>3. opts[n + 3] = o[n] /\ opts[(n + 1) + 3] = o[n + 1]
    BY <2>1, Layout
  <2>4. opts[n + 3] \notin {RequestedIP, End} /\ n + 3 < Len(opts) /\ n + 3 \in Nat
    BY <1>1, <1>2, <1>3, <2>1, <2>3
  <2>5. f[n + 3] = f[NextOption(opts, n + 3)]
    <3>1. f[n + 3] = At(f, opts, RequestedIP, n + 3)
      BY <2>4 DEF Walk
    <3> HIDE DEF opts
    <3> QED BY <1>2, <2>4, <3>1 DEF At
  <2>6. NextOption(opts, n + 3) = (n + 2 + o[n + 1]) + 3
    <3>1. (n + 3) + 1 = (n + 1) + 3
      BY <2>1
    <3>2. NextOption(opts, n + 3) = (n + 3) + 2 + o[n + 1]
      BY <2>3, <3>1 DEF NextOption
    <3> QED BY <2>1, <2>2, <3>2
  <2> QED BY <2>1, <2>2, <2>5, <2>6
<1>4. \A n \in starts : f[n + 3] = f[Len(o) + 4]
  <2> DEFINE U == {d \in 0..Len(o) : /\ (Len(o) + 1) - d \in starts
                                     /\ f[((Len(o) + 1) - d) + 3] # f[Len(o) + 4]}
  <2>1. U = {}
    <3> SUFFICES ASSUME U # {} PROVE FALSE
      OBVIOUS
    <3>1. U \in SUBSET Nat
      BY <1>2
    <3>2. PICK d \in U : \A e \in U : d <= e
      <4> HIDE DEF U
      <4> QED BY <3>1, Least
    <3>3. PICK n : n = (Len(o) + 1) - d
      OBVIOUS
    <3>4. d \in 0..Len(o) /\ n \in starts /\ f[n + 3] # f[Len(o) + 4]
      BY <3>3
    <3>5. n # Len(o) + 1
      <4>1. (Len(o) + 1) + 3 = Len(o) + 4
        BY <1>2
      <4> QED BY <3>4, <4>1, Zenon
    <3>6. /\ n + 2 + o[n + 1] \in starts
          /\ f[n + 3] = f[(n + 2 + o[n + 1]) + 3]
          /\ n + 2 + o[n + 1] > n
      BY <1>3, <3>4, <3>5
    <3>7. PICK k : k = n + 2 + o[n + 1]
      OBVIOUS
    <3>8. k \in 1..(Len(o) + 1) /\ k > n /\ f[k + 3] # f[Len(o) + 4] /\ k \in starts
      BY <1>1, <3>4, <3>6, <3>7
    <3>9. (Len(o) + 1) - k \in 0..Len(o) /\ (Len(o) + 1) - ((Len(o) + 1) - k) = k
      BY <1>2, <3>8
    <3>10. (Len(o) + 1) - k \in U
      BY <3>8, <3>9
    <3>11. (Len(o) + 1) - k < d
      BY <1>2, <3>3, <3>4, <3>8
    <3> HIDE DEF U
    <3>12. d \in Nat
      BY <3>4
    <3> QED BY <3>2, <3>9, <3>10, <3>11, <3>12, <1>2
  <2>2. ASSUME NEW n \in starts PROVE f[n + 3] = f[Len(o) + 4]
    <3>1. (Len(o) + 1) - n \in 0..Len(o) /\ (Len(o) + 1) - ((Len(o) + 1) - n) = n
      BY <1>1, <1>2, <2>2
    <3> QED BY <2>1, <2>2, <3>1
  <2> QED BY <2>2
<1>5. f[1] = f[4]
  <2>1. opts[1] = MsgType /\ opts[1 + 1] = 1
    <3>1. 1 + 1 = 2
      OBVIOUS
    <3>2. Request(o, w)[1] = MsgType /\ Request(o, w)[2] = 1
      BY Layout, Zenon
    <3> QED BY <3>1, <3>2
  <2>2. f[1] = At(f, opts, RequestedIP, 1)
    BY DEF Walk
  <2> HIDE DEF opts
  <2>3. f[1] = f[NextOption(opts, 1)]
    BY <1>2, <2>1, <2>2 DEF At, RequestedIP, End, MsgType
  <2>4. NextOption(opts, 1) = 4
    BY <2>1 DEF NextOption
  <2> QED BY <2>3, <2>4
<1>6. f[1 + 3] = f[Len(o) + 4]
  BY <1>1, <1>4
<1> QED BY <1>5, <1>6

LEMMA WalkAt ==
    ASSUME NEW f, NEW opts, NEW code, Walk(f, opts, code), NEW n \in Nat
    PROVE  f[n] = At(f, opts, code, n)
BY DEF Walk

\* Without option 50 the walk comes to the end; else to the option.
LEMMA FindNone ==
    ASSUME NEW o \in Seq(Nat), WellFormed(o)
    PROVE  Find(Request(o, <<>>), RequestedIP) = 0
<1> DEFINE opts == Request(o, <<>>)
<1>1. <<>> \in Seq(Nat) /\ Len(<<>>) = 0
  OBVIOUS
<1>2. opts \in Seq(Nat) /\ Len(o) \in Nat /\ Len(opts) = Len(o) + 4
  <2>1. opts \in Seq(Nat) /\ Len(o) \in Nat /\ Len(opts) = Len(o) + Len(<<>>) + 4
    BY <1>1, Layout, Zenon
  <2> HIDE DEF opts
  <2> QED BY <1>1, <2>1
<1>3. PICK f : Walk(f, opts, RequestedIP) /\ Find(opts, RequestedIP) = f[1]
  <2> HIDE DEF opts
  <2> QED BY <1>2, FindWalks
<1>4. f[1] = f[Len(o) + 4]
  BY <1>1, <1>3, PassesOver
<1> HIDE DEF opts
<1>5. f[Len(o) + 4] = At(f, opts, RequestedIP, Len(o) + 4)
  BY <1>2, <1>3, WalkAt
<1>6. Find(opts, RequestedIP) = 0
  BY <1>2, <1>3, <1>4, <1>5 DEF At
<1> QED BY <1>6 DEF opts

Address(a, b) == Option(RequestedIP, <<a, b>>)

LEMMA AddressBytes ==
    ASSUME NEW a \in Nat, NEW b \in Nat
    PROVE  /\ Address(a, b) \in Seq(Nat) /\ Len(Address(a, b)) = 4
           /\ Address(a, b)[1] = RequestedIP
           /\ Address(a, b)[3] = a /\ Address(a, b)[4] = b
<1> DEFINE s == <<50, 2>> \o <<a, b>>
<1>1. s \in Seq(Nat) /\ Len(s) = 4
  OBVIOUS
<1>2. s[1] = 50 /\ s[3] = a /\ s[4] = b
  OBVIOUS
<1>3. Address(a, b) = s
  <2>1. Len(<<a, b>>) = 2
    OBVIOUS
  <2> QED BY <2>1, Zenon DEF Option, RequestedIP, Address
<1> HIDE DEF s
<1> QED BY <1>1, <1>2, <1>3 DEF RequestedIP

LEMMA RequestedAddress ==
    ASSUME NEW o \in Seq(Nat), WellFormed(o), NEW a \in Nat, NEW b \in Nat
    PROVE  Requested(Request(o, Address(a, b)))
             = IF a # Network \/ (b - BaseIP) % 256 \notin Slots THEN NoSlot
               ELSE (b - BaseIP) % 256
<1> DEFINE opts == Request(o, Address(a, b))
           k == Len(o) + 4
<1>1. Address(a, b) \in Seq(Nat) /\ Len(Address(a, b)) = 4
  BY AddressBytes
<1>2. opts \in Seq(Nat) /\ Len(o) \in Nat /\ Len(opts) = Len(o) + 8
  <2>1. /\ opts \in Seq(Nat) /\ Len(o) \in Nat
        /\ Len(opts) = Len(o) + Len(Address(a, b)) + 4
    BY <1>1, Layout, Zenon
  <2> HIDE DEF opts
  <2> QED BY <1>1, <2>1
<1>3. opts[k] = RequestedIP /\ opts[k + 2] = a /\ opts[k + 3] = b
  <2>1. \A n \in 1..4 : opts[n + (Len(o) + 3)] = Address(a, b)[n]
    <3>1. \A n \in 1..Len(Address(a, b)) : opts[n + (Len(o) + 3)] = Address(a, b)[n]
      BY <1>1, Layout, Zenon
    <3> HIDE DEF opts
    <3> QED BY <1>1, <3>1
  <2>2. k = 1 + (Len(o) + 3) /\ k + 2 = 3 + (Len(o) + 3) /\ k + 3 = 4 + (Len(o) + 3)
    BY <1>2
  <2>3. /\ opts[1 + (Len(o) + 3)] = RequestedIP
        /\ opts[3 + (Len(o) + 3)] = a /\ opts[4 + (Len(o) + 3)] = b
    <3> HIDE DEF opts
    <3>1. 1 \in 1..4 /\ 3 \in 1..4 /\ 4 \in 1..4
      OBVIOUS
    <3>2. /\ opts[1 + (Len(o) + 3)] = Address(a, b)[1]
          /\ opts[3 + (Len(o) + 3)] = Address(a, b)[3]
          /\ opts[4 + (Len(o) + 3)] = Address(a, b)[4]
      BY <2>1, <3>1, Zenon
    <3> QED BY <3>2, AddressBytes, Zenon
  <2> HIDE DEF opts, k
  <2> QED BY <2>2, <2>3
<1>4. PICK f : Walk(f, opts, RequestedIP) /\ Find(opts, RequestedIP) = f[1]
  <2> HIDE DEF opts
  <2> QED BY <1>2, FindWalks
<1>5. f[1] = f[k]
  BY <1>1, <1>4, PassesOver
<1> HIDE DEF opts
<1>6. f[k] = k
  <2>1. f[k] = At(f, opts, RequestedIP, k)
    BY <1>2, <1>4, WalkAt
  <2> QED BY <1>2, <1>3, <2>1 DEF At, RequestedIP, End
<1>7. Find(opts, RequestedIP) = k /\ k # 0
  BY <1>2, <1>4, <1>5, <1>6
<1> HIDE DEF k
<1>8. Requested(opts) = IF a # Network \/ (b - BaseIP) % 256 \notin Slots THEN NoSlot
                        ELSE (b - BaseIP) % 256
  BY <1>3, <1>7, Zenon DEF Requested
<1> QED BY <1>8 DEF opts

LEMMA ByteConstants ==
    /\ PoolSize \in Nat \ {0} /\ BaseIP \in Nat \ {0} /\ PoolSize + BaseIP < 256
    /\ Slots = 0..(PoolSize - 1) /\ NoSlot = PoolSize
BY DhcpAssumption DEF Slots, NoSlot

\* A request is for the slot that the client means, whatever the options before
\* the address are.
LEMMA UnderstoodAsMeant ==
    ASSUME NEW s \in Slots \cup {NoSlot}
    PROVE  Understood[s] \subseteq {s}
<1> SUFFICES ASSUME NEW o \in Others, NEW w \in Written(s)
             PROVE  Requested(Request(o, w)) = s
  <2>1. Understood[s] = {Requested(e) : e \in Encoded(s)}
    BY DEF Understood
  <2>2. Encoded(s) = {Request(o, w) : o \in Others, w \in Written(s)}
    BY DEF Encoded, Request
  <2> QED BY <2>1, <2>2
<1>1. o \in Seq(Nat) /\ WellFormed(o)
  BY OptionsAssumption, Zenon
<1> USE ByteConstants
<1>2. ASSUME NEW a \in Nat, NEW b \in Nat, w = Address(a, b)
      PROVE  Requested(Request(o, w))
               = IF a # Network \/ (b - BaseIP) % 256 \notin Slots THEN NoSlot
                 ELSE (b - BaseIP) % 256
  BY <1>1, <1>2, RequestedAddress
<1>3. CASE s # NoSlot
  <2>1. w = Address(Network, BaseIP + s) /\ s \in Nat /\ s \in 0..255
    BY <1>3 DEF Written, Address
  <2>2. (BaseIP + s - BaseIP) % 256 = s
    BY <2>1
  <2> QED BY <1>2, <1>3, <2>1, <2>2 DEF Network
<1>4. CASE s = NoSlot
  <2>1. CASE w = <<>>
    BY <1>1, <1>4, <2>1, FindNone DEF Requested
  <2>2. CASE w = Address(Network, BaseIP + PoolSize)
    <3>1. (BaseIP + PoolSize - BaseIP) % 256 = PoolSize
      OBVIOUS
    <3> QED BY <1>2, <1>4, <2>2, <3>1 DEF Network
  <2>3. CASE w = Address(Network, BaseIP - 1)
    <3>1. (BaseIP - 1 - BaseIP) % 256 = 255
      OBVIOUS
    <3> QED BY <1>2, <1>4, <2>3, <3>1 DEF Network
  <2>4. CASE w = Address(Network + 1, BaseIP)
    BY <1>2, <1>4, <2>4 DEF Network
  <2> QED BY <1>4, <2>1, <2>2, <2>3, <2>4 DEF Written, Address
<1> QED BY <1>3, <1>4

-----------------------------------------------------------------------------
(* Types                                                                    *)

Message == [type : {"none", "discover", "offer", "request", "ack"},
            slot : Slots \cup {NoSlot}]

LEMMA MessageTypes ==
    /\ NoMsg \in Message /\ \A s \in Slots \cup {NoSlot} : Msg("discover", s) \in Message
    /\ \A s \in Slots \cup {NoSlot} : Msg("offer", s) \in Message
    /\ \A s \in Slots \cup {NoSlot} : Msg("request", s) \in Message
    /\ \A s \in Slots : Msg("ack", s) \in Message
BY DEF Message, Msg, NoMsg

Expiries == 0..(Wrap \div Quantum - 1)

\* The expiry keeps its 16 bits: the clock wraps at a multiple of Quantum.
LEMMA StoredFits == ASSUME NEW t \in Int PROVE Stored(t) \in Expiries
<1> DEFINE u == t % Wrap
           q == Wrap \div Quantum
<1>1. u \in 0..(Wrap - 1)
  BY Constants, Remainder
<1>2. q \in Int /\ Wrap = Quantum * q
  <2>1. /\ Wrap % Quantum \in 0..(Quantum - 1) /\ Wrap \div Quantum \in Int
        /\ Wrap = Quantum * (Wrap \div Quantum) + (Wrap % Quantum)
    <3>1. Wrap \in Int
      BY Constants
    <3> QED BY <3>1, Constants, Remainder, Zenon
  <2>2. Wrap % Quantum = 0
    BY DhcpAssumption
  <2>3. Quantum * (Wrap \div Quantum) + 0 = Quantum * (Wrap \div Quantum)
    BY <2>1, Constants
  <2> QED BY <2>1, <2>2, <2>3
<1>3. /\ u % Quantum \in 0..(Quantum - 1) /\ u \div Quantum \in Int
      /\ u = Quantum * (u \div Quantum) + (u % Quantum)
  <2> HIDE DEF u
  <2>1. u \in Int
    BY <1>1, Constants
  <2> QED BY <2>1, Constants, Remainder
<1> DEFINE d == u \div Quantum
<1> HIDE DEF u, q
<1>4. d \in Int /\ Quantum * d >= u - (Quantum - 1) /\ Quantum * d <= u
  BY <1>1, <1>3, Constants
<1>5. Quantum * (d + 1) > 0 /\ Quantum * (d - q) < 0
  <2>1. Quantum * (d + 1) = Quantum * d + Quantum /\ Quantum * (d - q) = Quantum * d - Wrap
    BY <1>2, <1>4, Constants
  <2> HIDE DEF d
  <2> QED BY <1>1, <1>4, <2>1, Constants
<1> HIDE DEF d
<1>6. d + 1 > 0 /\ d - q < 0
  <2>1. \A n \in Int : Quantum * n > 0 => n > 0
    BY Constants
  <2>2. \A n \in Int : Quantum * n < 0 => n < 0
    BY Constants
  <2> QED BY <1>2, <1>4, <1>5, <2>1, <2>2
<1>7. d \in 0..(q - 1)
  BY <1>2, <1>4, <1>6
<1> QED BY <1>7 DEF u, q, d, Stored, Expiries

LEMMA FirstIsIn == ASSUME NEW S \in SUBSET Slots, S # {} PROVE First(S) \in S
<1>1. \E s \in S : \A r \in S : s <= r
  BY Constants, Least
<1> QED BY <1>1 DEF First

\* What a client is offered: its own entry or the candidate.
Offered(c, s) == /\ down' = [down EXCEPT ![c] = Msg("offer", s)]
                 /\ Own(c) # {} => s \in Own(c)

LEMMA OfferIsUsable ==
    ASSUME NEW c \in Macs, OnDiscover(c)
    PROVE  UNCHANGED down \/ \E s \in Slots : Offered(c, s)
<1> DEFINE scanned == {s \in Slots : \A o \in Own(c) : s < o}
           usable == {s \in scanned : mac[s] = NoMac \/ Expired(s)}
           offer == IF Own(c) # {} THEN First(Own(c)) ELSE First(usable)
<1>1. IF Own(c) \cup usable = {} THEN UNCHANGED down
      ELSE down' = [down EXCEPT ![c] = Msg("offer", offer)]
  BY DEF OnDiscover
<1>2. Own(c) \in SUBSET Slots /\ usable \in SUBSET Slots
  BY DEF Own
<1> HIDE DEF usable
<1>3. Own(c) # {} => First(Own(c)) \in Own(c)
  BY <1>2, FirstIsIn
<1>4. usable # {} => First(usable) \in usable
  BY <1>2, FirstIsIn
<1> HIDE DEF offer
<1>5. CASE Own(c) \cup usable = {}
  BY <1>1, <1>5
<1>6. CASE Own(c) \cup usable # {}
  <2>1. offer \in Slots /\ (Own(c) # {} => offer \in Own(c))
    BY <1>2, <1>3, <1>4, <1>6 DEF offer
  <2>2. Offered(c, offer)
    BY <1>1, <1>6, <2>1 DEF Offered
  <2> QED BY <2>1, <2>2, Zenon
<1> QED BY <1>5, <1>6

LEMMA TypeOKIs ==
    TypeOK <=> /\ mac \in [Slots -> Macs \cup {NoMac}]
               /\ expiry \in [Slots -> Expiries]
               /\ now \in 0..(Wrap - 1)
               /\ state \in [Macs -> {"init", "selecting", "requesting", "bound"}]
               /\ addr \in [Macs -> Slots \cup {NoSlot}]
               /\ ttl \in [Macs -> 0..Lease]
               /\ up \in [Macs -> Message] /\ down \in [Macs -> Message]
BY Zenon DEF TypeOK, Message, Expiries

LEMMA ZeroExpiry == 0 \in Expiries
<1>1. 0 % Wrap = 0 /\ 0 \div Quantum = 0
  BY Constants
<1> QED BY <1>1, StoredFits DEF Stored

LEMMA TypesInit == Init => TypeOK
<1> SUFFICES ASSUME Init PROVE TypeOK
  OBVIOUS
<1> QED BY ZeroExpiry, TypeOKIs, MessageTypes, Constants DEF Init

LEMMA TypesStep == TypeOK /\ [Next]_vars => TypeOK'
<1> SUFFICES ASSUME TypeOK, [Next]_vars PROVE TypeOK'
  OBVIOUS
<1> USE TypeOKIs, MessageTypes
<1>0. /\ TypeOK' <=> /\ mac' \in [Slots -> Macs \cup {NoMac}]
                     /\ expiry' \in [Slots -> Expiries]
                     /\ now' \in 0..(Wrap - 1)
                     /\ state' \in [Macs -> {"init", "selecting", "requesting", "bound"}]
                     /\ addr' \in [Macs -> Slots \cup {NoSlot}]
                     /\ ttl' \in [Macs -> 0..Lease]
                     /\ up' \in [Macs -> Message] /\ down' \in [Macs -> Message]
  BY Zenon DEF TypeOK, Message, Expiries
<1> USE <1>0
<1>1. CASE Tick
  <2>1. now' \in 0..(Wrap - 1)
    <3>1. now + 1 \in Int
      BY Constants
    <3> QED BY <1>1, <3>1, Constants, Remainder DEF Tick
  <2>2. ttl' \in [Macs -> 0..Lease]
    BY <1>1, Constants DEF Tick
  <2> QED BY <1>1, <2>1, <2>2 DEF Tick, serverVars
<1>2. CASE Restart
  BY <1>2, ZeroExpiry, Constants DEF Restart
<1>3. ASSUME NEW c \in Macs, OnDiscover(c) PROVE TypeOK'
  <2>1. UNCHANGED down \/ \E s \in Slots : Offered(c, s)
    BY <1>3, OfferIsUsable, Zenon
  <2>2. down' \in [Macs -> Message]
    <3>1. ASSUME NEW s \in Slots, Offered(c, s) PROVE down' \in [Macs -> Message]
      BY <3>1 DEF Offered
    <3>2. CASE UNCHANGED down
      BY <3>2
    <3> QED BY <2>1, <3>1, <3>2, Zenon
  <2>3. mac' \in [Slots -> Macs \cup {NoMac}]
    BY <1>3 DEF OnDiscover
  <2> QED BY <1>3, <2>2, <2>3 DEF OnDiscover, Consumed, clientVars
<1>4. ASSUME NEW c \in Macs, OnRequest(c) PROVE TypeOK'
  <2>1. UNCHANGED <<now, state, addr, ttl>> /\ up' \in [Macs -> Message]
    BY <1>4 DEF OnRequest, Consumed, clientVars
  <2>2. CASE UNCHANGED <<serverVars, down>>
    BY <2>1, <2>2 DEF serverVars
  <2>3. CASE \E s \in Slots :
               /\ mac' = [mac EXCEPT ![s] = c]
               /\ expiry' = [expiry EXCEPT ![s] = Stored(now + Lease)]
               /\ down' = [down EXCEPT ![c] = Msg("ack", s)]
    <3>1. now + Lease \in Int
      BY Constants
    <3>2. Stored(now + Lease) \in Expiries
      BY <3>1, StoredFits
    <3> QED BY <2>1, <2>3, <3>2
  <2> QED BY <1>4, <2>2, <2>3 DEF OnRequest
<1>5. ASSUME NEW c \in Macs, Discover(c) PROVE TypeOK'
  BY <1>5 DEF Discover, Become, serverVars
<1>6. ASSUME NEW c \in Macs, TakeOffer(c) PROVE TypeOK'
  <2>1. down[c].slot \in Slots \cup {NoSlot}
    BY DEF Message
  <2> QED BY <1>6, <2>1 DEF TakeOffer, Become, serverVars
<1>7. ASSUME NEW c \in Macs, Return(c) PROVE TypeOK'
  BY <1>7, DhcpAssumption DEF Return, Become, serverVars
<1>8. ASSUME NEW c \in Macs, Renew(c) PROVE TypeOK'
  BY <1>8 DEF Renew, serverVars, clientVars
<1>9. ASSUME NEW c \in Macs, Bind(c) PROVE TypeOK'
  BY <1>9, Constants DEF Bind, serverVars
<1>10. ASSUME NEW c \in Macs, Lose(c) PROVE TypeOK'
  BY <1>10 DEF Lose, serverVars, clientVars
<1>11. CASE UNCHANGED vars
  BY <1>11 DEF vars, serverVars, clientVars
<1> QED BY <1>1, <1>2, <1>3, <1>4, <1>5, <1>6, <1>7, <1>8, <1>9, <1>10, <1>11
        DEF Next, Process

-----------------------------------------------------------------------------
(* The theorems                                                             *)

\* Types, the 16 bits of an expiry among them (dhcpserver.c:259-269), for any
\* clock and any number of clients and of addresses.
THEOREM TypesAreCorrect == Spec => []TypeOK
BY TypesInit, TypesStep, PTL DEF Spec

\* The server honours a lease to its end: the entry of a client that uses its
\* address names it and is not expired (dhcpserver.c:227-231, 259-269), whatever
\* the width of the clock and what the expiry loses of it.
THEOREM LeasesAreHonoured == Spec => []LeaseHonoured
<1>1. LeaseInv => LeaseHonoured
  <2> SUFFICES ASSUME LeaseInv, NEW c \in Macs, state[c] = "bound"
               PROVE  mac[addr[c]] = c /\ ~Expired(addr[c])
    BY DEF LeaseHonoured
  <2>1. /\ addr[c] \in Slots /\ mac[addr[c]] = c /\ ttl[c] \in 0..Lease
        /\ ToGo(addr[c]) \in ttl[c]..(Half - 1)
    BY DEF LeaseInv, BoundIsHeld, TypeInv
  <2>2. ToGo(addr[c]) \in 0..(Half - 1)
    BY <2>1, Constants
  <2> QED BY <2>1, <2>2, HeldIsNotExpired
<1> QED BY <1>1, LeaseInvHolds, PTL

\* No address is in use by two clients at one time, since its entry names one
\* (dhcpserver.c:215-233, 259-269).
THEOREM AddressesAreUnique == Spec => []UniqueAddresses
<1>1. LeaseInv => UniqueAddresses
  BY DEF LeaseInv, BoundIsHeld, UniqueAddresses
<1> QED BY <1>1, LeaseInvHolds, PTL

\* An ACK is for the address that was asked for, wherever the option is and
\* whatever is in the others (dhcpserver.c:150-158, 244-258).
THEOREM AcksAreAsked == Spec => AckIsAsked
<1>1. TypeOK /\ [Next]_vars =>
        [\A c \in Macs : down'[c] # down[c] /\ down'[c].type = "ack"
            => down'[c].slot = up[c].slot]_vars
  <2> SUFFICES ASSUME TypeOK, Next, NEW c \in Macs,
                      down'[c] # down[c], down'[c].type = "ack"
               PROVE  down'[c].slot = up[c].slot
    OBVIOUS
  <2> USE TypeOKIs
  <2>1. ~Tick /\ ~Restart
    BY DEF Tick, Restart, NoMsg, Msg
  <2>2. ASSUME NEW d \in Macs, OnDiscover(d) PROVE FALSE
    BY <2>2 DEF OnDiscover, Msg
  <2>3. ASSUME NEW d \in Macs,
               Discover(d) \/ TakeOffer(d) \/ Return(d) \/ Renew(d) \/ Bind(d) \/ Lose(d)
        PROVE  FALSE
    BY <2>3 DEF Discover, TakeOffer, Return, Renew, Bind, Lose, NoMsg, Msg
  <2>4. PICK d \in Macs : OnRequest(d)
    BY <2>1, <2>2, <2>3 DEF Next, Process
  <2>5. PICK s \in Understood[up[d].slot] \cap Slots : down' = [down EXCEPT ![d] = Msg("ack", s)]
    BY <2>4 DEF OnRequest
  <2>6. d = c /\ down'[c].slot = s
    BY <2>5 DEF Msg
  <2>7. up[d].slot \in Slots \cup {NoSlot}
    BY DEF Message
  <2> QED BY <2>5, <2>6, <2>7, UnderstoodAsMeant
<1> QED BY <1>1, TypesAreCorrect, PTL DEF Spec, AckIsAsked

-----------------------------------------------------------------------------
(* One entry each, for clients that ask only for what they were offered      *)

\* What is on its way is about the one entry that a client has, if any.
OneOf(c) ==
    /\ up[c].type = "request" /\ up[c].slot \in Slots => Own(c) \subseteq {up[c].slot}
    /\ down[c].type = "offer" => /\ Own(c) \subseteq {down[c].slot}
                                 /\ up[c].type # "request"
    /\ state[c] \in {"requesting", "bound"} =>
         up[c].type # "discover" /\ down[c].type # "offer"
OneInv == OneEntryEach /\ \A c \in Macs : OneOf(c)

LEMMA OneDiscover ==
    ASSUME TypeOK, OneInv, NEW c \in Macs, OnDiscover(c)
    PROVE  OneInv'
<1> USE TypeOKIs
<1>1. /\ UNCHANGED state /\ up[c].type = "discover"
      /\ \A s \in Slots : mac'[s] \in {mac[s], NoMac}
      /\ \A d \in Macs : d # c => up'[d] = up[d]
      /\ up'[c] \in {up[c], NoMsg}
  BY DEF OnDiscover, Consumed, clientVars
<1>2. \A d \in Macs : Own(d)' \subseteq Own(d)
  BY <1>1, Constants DEF Own
<1>3. OneEntryEach'
  BY <1>1, Constants DEF OneInv, OneOf, OneEntryEach
<1>4. \A d \in Macs : d # c => down'[d] = down[d]
  BY DEF OnDiscover
<1>5. down'[c].type = "offer" => Own(c) \subseteq {down'[c].slot}
  <2>1. UNCHANGED down \/ \E s \in Slots : Offered(c, s)
    BY OfferIsUsable, Zenon
  <2>2. ASSUME NEW s \in Slots, Offered(c, s)
        PROVE  Own(c) \subseteq {down'[c].slot}
    <3>1. \A r, t \in Own(c) : r = t
      BY Constants DEF OneInv, OneOf, OneEntryEach, Own
    <3>2. down'[c].slot = s /\ (Own(c) # {} => s \in Own(c))
      BY <2>2 DEF Offered, Msg
    <3> QED BY <3>1, <3>2
  <2>3. CASE UNCHANGED down
    BY <2>3 DEF OneInv, OneOf
  <2> QED BY <2>1, <2>2, <2>3, Zenon
<1>6. ASSUME NEW d \in Macs
      PROVE  OneOf(d)'
  <2>1. CASE d = c
    <3>1. state'[c] \notin {"requesting", "bound"} /\ up'[c].type # "request"
      BY <1>1 DEF OneInv, OneOf, NoMsg, Msg
    <3>2. down'[c].type = "offer" => Own(c)' \subseteq {down'[c].slot}
      BY <1>2, <1>5
    <3> QED BY <2>1, <3>1, <3>2 DEF OneOf
  <2>2. CASE d # c
    BY <1>1, <1>2, <1>4, <1>6, <2>2 DEF OneInv, OneOf
  <2> QED BY <2>1, <2>2
<1> QED BY <1>3, <1>6 DEF OneInv, OneOf

LEMMA OneRequest ==
    ASSUME TypeOK, OneInv, NEW c \in Macs, OnRequest(c)
    PROVE  OneInv'
<1> USE TypeOKIs
<1>1. /\ UNCHANGED state /\ up[c].type = "request"
      /\ \A d \in Macs : d # c => up'[d] = up[d]
      /\ up'[c] \in {up[c], NoMsg}
  BY DEF OnRequest, Consumed, clientVars
<1>2. CASE UNCHANGED <<serverVars, down>>
  <2>1. \A d \in Macs : Own(d)' = Own(d)
    BY <1>2 DEF Own, serverVars
  <2>2. OneEntryEach'
    BY <1>2 DEF OneInv, OneOf, OneEntryEach, serverVars
  <2>3. ASSUME NEW d \in Macs
        PROVE  OneOf(d)'
    BY <1>1, <1>2, <2>1, <2>3 DEF OneInv, OneOf, NoMsg, Msg
  <2> QED BY <2>2, <2>3 DEF OneInv, OneOf
<1>3. CASE \E s \in Understood[up[c].slot] \cap Slots :
             /\ MayHave(c, s)
             /\ mac' = [mac EXCEPT ![s] = c]
             /\ down' = [down EXCEPT ![c] = Msg("ack", s)]
  <2>1. PICK s \in Understood[up[c].slot] \cap Slots :
             /\ MayHave(c, s)
             /\ mac' = [mac EXCEPT ![s] = c]
             /\ down' = [down EXCEPT ![c] = Msg("ack", s)]
    BY <1>3
  <2>2. up[c].slot = s /\ s \in Slots
    <3>1. up[c].slot \in Slots \cup {NoSlot}
      BY DEF Message
    <3> QED BY <2>1, <3>1, UnderstoodAsMeant
  <2>3. Own(c) \subseteq {s}
    BY <1>1, <2>2 DEF OneInv, OneOf
  <2>4. Own(c)' \subseteq {s} /\ \A d \in Macs : d # c => Own(d)' = Own(d)
    <3>1. mac'[s] = c /\ \A r \in Slots : r # s => mac'[r] = mac[r]
      BY <2>1, <2>2
    <3>2. mac[s] \in {c, NoMac}
      BY <2>1 DEF MayHave
    <3> QED BY <2>2, <2>3, <3>1, <3>2, Constants DEF Own
  <2>5. OneEntryEach'
    <3>1. mac'[s] = c /\ \A r \in Slots : r # s => mac'[r] = mac[r] /\ mac[r] # c
      BY <2>1, <2>2, <2>3 DEF Own
    <3> QED BY <2>2, <3>1 DEF OneInv, OneOf, OneEntryEach
  <2>6. ASSUME NEW d \in Macs
        PROVE  OneOf(d)'
    <3>1. CASE d = c
      <4>1. down'[c].type = "ack"
        BY <2>1 DEF Msg
      <4> QED BY <1>1, <2>2, <2>4, <3>1, <4>1 DEF OneOf, NoMsg, Msg
    <3>2. CASE d # c
      <4>1. down'[d] = down[d]
        BY <2>1, <3>2
      <4> QED BY <1>1, <2>4, <2>6, <3>2, <4>1 DEF OneInv, OneOf
    <3> QED BY <3>1, <3>2
  <2> QED BY <2>5, <2>6 DEF OneInv, OneOf
<1> QED BY <1>2, <1>3 DEF OnRequest

\* What leaves the table alone: the entries stay, and the messages follow them.
LEMMA OneStep == Remembered = {} /\ TypeOK /\ OneInv /\ [Next]_vars => OneInv'
<1> SUFFICES ASSUME Remembered = {}, TypeOK, OneInv, [Next]_vars PROVE OneInv'
  OBVIOUS
<1> USE TypeOKIs
<1>1. CASE Tick
  BY <1>1, Constants DEF Tick, serverVars, OneInv, OneOf, OneEntryEach, Own, NoMsg, Msg
<1>2. CASE Restart
  BY <1>2, Constants DEF Restart, OneInv, OneOf, OneEntryEach, Own, NoMsg, Msg
<1>3. ASSUME NEW c \in Macs, Process(c) PROVE OneInv'
  BY <1>3, OneDiscover, OneRequest DEF Process
<1>4. ASSUME NEW c \in Macs,
             Discover(c) \/ TakeOffer(c) \/ Renew(c) \/ Bind(c) \/ Lose(c)
      PROVE  OneInv'
  <2>1. UNCHANGED mac
    BY <1>4 DEF Discover, TakeOffer, Renew, Bind, Lose, serverVars
  <2>2. OneEntryEach' /\ \A d \in Macs : Own(d)' = Own(d)
    BY <2>1 DEF OneInv, OneOf, OneEntryEach, Own
  <2>3. \A d \in Macs : d # c => UNCHANGED <<state[d], up[d], down[d]>>
    BY <1>4 DEF Discover, TakeOffer, Renew, Bind, Lose, Become, clientVars
  <2>4. \/ state'[c] = "selecting" /\ up'[c] = Msg("discover", NoSlot) /\ down'[c] = down[c]
        \/ /\ state'[c] = "requesting" /\ down[c].type = "offer"
           /\ up'[c] = Msg("request", down[c].slot) /\ down'[c] = NoMsg
        \/ /\ state[c] = "bound" /\ UNCHANGED <<state[c], down[c]>>
           /\ up'[c] = Msg("request", NoSlot)
        \/ /\ state[c] = "requesting" /\ state'[c] = "bound"
           /\ up'[c] = up[c] /\ down'[c] = NoMsg
        \/ /\ state'[c] = state[c]
           /\ up'[c] \in {up[c], NoMsg} /\ down'[c] \in {down[c], NoMsg}
    BY <1>4 DEF Discover, TakeOffer, Renew, Bind, Lose, Become, clientVars
  <2>5. ASSUME NEW d \in Macs
        PROVE  OneOf(d)'
    <3>1. CASE d = c
      BY <2>2, <2>4, <3>1, Constants DEF OneInv, OneOf, NoMsg, Msg
    <3>2. CASE d # c
      BY <2>2, <2>3, <2>5, <3>2 DEF OneInv, OneOf
    <3> QED BY <3>1, <3>2
  <2> QED BY <2>2, <2>5 DEF OneInv, OneOf
<1>5. ~\E c \in Macs : Return(c)
  BY DEF Return
<1>6. CASE UNCHANGED vars
  BY <1>6 DEF vars, serverVars, clientVars, OneInv, OneOf, OneEntryEach, Own
<1> QED BY <1>1, <1>2, <1>3, <1>4, <1>5, <1>6 DEF Next

\* A client that asks only for what it was offered fills one entry of the pool
\* (dhcpserver.c:217-221), for any loss, repetition, expiry and restart.
THEOREM OneEntryIsEnough == Remembered = {} => (Spec => []OneEntryEach)
<1>1. Init => OneInv
  BY Constants DEF Init, OneInv, OneOf, OneEntryEach, Own, NoMsg, Msg
<1>2. OneInv => OneEntryEach
  BY DEF OneInv, OneOf
<1>3. Remembered = {} => (TypeOK /\ OneInv /\ [Next]_vars => OneInv')
  BY OneStep
<1>4. CASE Remembered = {}
  <2>1. TypeOK /\ OneInv /\ [Next]_vars => OneInv'
    BY <1>3, <1>4
  <2> QED BY <1>1, <1>2, <2>1, TypesAreCorrect, PTL DEF Spec
<1> QED BY <1>4
=============================================================================
