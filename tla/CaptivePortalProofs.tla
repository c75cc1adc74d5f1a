------------------------ MODULE CaptivePortalProofs ------------------------
(* Theorems about CaptivePortal, for any names, settings and files: no second *)
(* redirect, the addresses that a browser acts on, the files that it is served *)
EXTENDS CaptivePortal, SharedLemmas

-----------------------------------------------------------------------------
(* Addresses: the pass over the labels, as a recursion over their number     *)

Matching == [match : BOOLEAN, loose : BOOLEAN, next : Nat]

\* What the pass has found after each number of labels.
Pass(f, n, names, ignore) ==
    f = [i \in Nat |-> IF i = 0 THEN Unmatched
                       ELSE Component(f[i - 1], i, n[i], names, ignore)]

LEMMA HostComponent ==
    ASSUME NEW s \in Matching, NEW l, NEW names, NEW ignore \in BOOLEAN, Ours(l, names)
    PROVE  Component(s, 1, l, names, ignore) = [match |-> TRUE, loose |-> ignore, next |-> s.next]
<1>1. Component(s, 1, l, names, ignore) = [s EXCEPT !.match = TRUE, !.loose = ignore]
  BY DEF Component
<1> QED BY <1>1 DEF Matching

LEMMA NoHostComponent ==
    ASSUME NEW s \in Matching, NEW l, NEW names, NEW ignore \in BOOLEAN, ~Ours(l, names)
    PROVE  Component(s, 1, l, names, ignore) = [match |-> FALSE, loose |-> s.loose, next |-> s.next]
<1>1. Component(s, 1, l, names, ignore) = [s EXCEPT !.match = FALSE]
  BY DEF Component
<1> QED BY <1>1 DEF Matching

LEMMA DomainComponent ==
    ASSUME NEW s \in Matching, NEW i \in Nat, i > 1, NEW l, NEW names, NEW ignore \in BOOLEAN,
           Follows(s, l, names.domain)
    PROVE  Component(s, i, l, names, ignore) = [match |-> TRUE, loose |-> s.loose, next |-> s.next + 1]
<1>1. Component(s, i, l, names, ignore) = [s EXCEPT !.match = TRUE, !.next = @ + 1]
  BY DEF Component
<1> QED BY <1>1 DEF Matching

LEMMA OtherComponent ==
    ASSUME NEW s \in Matching, NEW i \in Nat, i > 1, NEW l, NEW names, NEW ignore \in BOOLEAN,
           ~Follows(s, l, names.domain)
    PROVE  Component(s, i, l, names, ignore) = [match |-> FALSE, loose |-> s.loose, next |-> s.next]
<1>1. Component(s, i, l, names, ignore) = [s EXCEPT !.match = FALSE]
  BY DEF Component
<1> QED BY <1>1 DEF Matching

LEMMA ComponentType ==
    ASSUME NEW s \in Matching, NEW i \in Nat \ {0}, NEW l, NEW names, NEW ignore \in BOOLEAN
    PROVE  Component(s, i, l, names, ignore) \in Matching
<1>1. CASE i = 1 /\ Ours(l, names)
  <2>1. Component(s, i, l, names, ignore) = [match |-> TRUE, loose |-> ignore, next |-> s.next]
    BY <1>1, HostComponent, Zenon
  <2> QED BY <2>1 DEF Matching
<1>2. CASE i = 1 /\ ~Ours(l, names)
  <2>1. Component(s, i, l, names, ignore) = [match |-> FALSE, loose |-> s.loose, next |-> s.next]
    BY <1>2, NoHostComponent, Zenon
  <2> QED BY <2>1 DEF Matching
<1>3. CASE i > 1 /\ Follows(s, l, names.domain)
  <2>1. Component(s, i, l, names, ignore) = [match |-> TRUE, loose |-> s.loose, next |-> s.next + 1]
    BY <1>3, DomainComponent, Zenon
  <2> QED BY <2>1 DEF Matching
<1>4. CASE i > 1 /\ ~Follows(s, l, names.domain)
  <2>1. Component(s, i, l, names, ignore) = [match |-> FALSE, loose |-> s.loose, next |-> s.next]
    BY <1>4, OtherComponent, ZenonT(30)
  <2> QED BY <2>1 DEF Matching
<1> QED BY <1>1, <1>2, <1>3, <1>4

LEMMA PassExists ==
    ASSUME NEW n, NEW names, NEW ignore \in BOOLEAN
    PROVE  \E f \in [Nat -> Matching] : Pass(f, n, names, ignore)
<1> DEFINE step == [k \in Nat |-> [s \in Matching |->
                      Component(s, k + 1, n[k + 1], names, ignore)]]
<1>1. step \in [Nat -> [Matching -> Matching]]
  BY ComponentType
<1>2. Unmatched \in Matching
  BY DEF Unmatched, Matching
<1>3. \A k \in Nat, s \in Matching :
        step[k][s] = Component(s, k + 1, n[k + 1], names, ignore)
  OBVIOUS
<1> HIDE DEF step
<1>4. PICK f \in [Nat -> Matching] : RunsBy(f, Unmatched, step)
  BY <1>1, <1>2, Recursion, Zenon
<1>5. ASSUME NEW i \in Nat
      PROVE  f[i] = IF i = 0 THEN Unmatched
                    ELSE Component(f[i - 1], i, n[i], names, ignore)
  <2>1. CASE i # 0
    <3>1. i - 1 \in Nat /\ (i - 1) + 1 = i
      BY <1>5, <2>1
    <3>2. f[i] = step[i - 1][f[i - 1]] /\ f[i - 1] \in Matching
      BY <1>4, <3>1 DEF RunsBy
    <3> QED BY <1>3, <2>1, <3>1, <3>2
  <2> QED BY <1>4, <2>1 DEF RunsBy
<1>6. Pass(f, n, names, ignore)
  BY <1>4, <1>5 DEF Pass
<1> QED BY <1>6

LEMMA AddressPasses ==
    ASSUME NEW n, NEW names, NEW ignore \in BOOLEAN
    PROVE  \E f \in [Nat -> Matching] :
             /\ Pass(f, n, names, ignore)
             /\ Address(n, names, ignore)
                  = IF f[Len(n)].match \/ f[Len(n)].loose THEN "primary" ELSE "secondary"
<1> DEFINE g == CHOOSE f : Pass(f, n, names, ignore)
<1>1. Pass(g, n, names, ignore)
  BY PassExists
<1>2. Address(n, names, ignore)
        = IF g[Len(n)].match \/ g[Len(n)].loose THEN "primary" ELSE "secondary"
  BY DEF Address, Pass
<1> HIDE DEF g
<1>3. g \in [Nat -> Matching]
  <2>1. PICK f \in [Nat -> Matching] : Pass(f, n, names, ignore)
    BY PassExists
  <2> DEFINE T == {k \in Nat : g[k] = f[k]}
  <2>2. 0 \in T
    BY <1>1, <2>1 DEF Pass
  <2>3. ASSUME NEW k \in Nat, k \in T PROVE k + 1 \in T
    <3>1. k + 1 \in Nat /\ k + 1 # 0 /\ (k + 1) - 1 = k
      BY <2>3
    <3> QED BY <1>1, <2>1, <2>3, <3>1 DEF Pass
  <2>4. \A k \in Nat : k \in T
    <3> HIDE DEF T
    <3> QED BY <2>2, <2>3, Induction
  <2>5. g = [k \in Nat |-> g[k]]
    BY <1>1 DEF Pass
  <2> QED BY <2>1, <2>4, <2>5
<1> QED BY <1>1, <1>2, <1>3

\* The labels up to the i-th are the host name and the first of the domain.
Matches(n, names, i) ==
    /\ Ours(n[1], names)
    /\ \A j \in 2..i : j - 1 <= Len(names.domain) /\ n[j] = names.domain[j - 1]

LEMMA PassIs ==
    ASSUME NEW n, NEW names, NEW ignore \in BOOLEAN, Len(names.domain) \in Nat,
           NEW f \in [Nat -> Matching], Pass(f, n, names, ignore),
           NEW k \in Nat
    PROVE  /\ f[k + 1].match <=> Matches(n, names, k + 1)
           /\ f[k + 1].match => f[k + 1].next = k + 1
           /\ f[k + 1].loose <=> Ours(n[1], names) /\ ignore
<1> DEFINE T == {i \in Nat : /\ f[i + 1].match <=> Matches(n, names, i + 1)
                             /\ f[i + 1].match => f[i + 1].next = i + 1
                             /\ f[i + 1].loose <=> Ours(n[1], names) /\ ignore}
<1>1. 0 \in T
  <2>1. /\ f[0] = Unmatched /\ f[1] = Component(f[0], 1, n[1], names, ignore)
    BY DEF Pass
  <2> Unmatched \in Matching
    BY DEF Unmatched, Matching
  <2>2. 2..1 = {} /\ 0 + 1 = 1 /\ ~(1 > 1)
    OBVIOUS
  <2>3. Matches(n, names, 1) <=> Ours(n[1], names)
    BY <2>2 DEF Matches
  <2>4. CASE Ours(n[1], names)
    <3>1. f[1] = [match |-> TRUE, loose |-> ignore, next |-> Unmatched.next]
      BY <2>1, <2>4, HostComponent, Zenon
    <3> QED BY <2>2, <2>3, <2>4, <3>1 DEF Unmatched
  <2>5. CASE ~Ours(n[1], names)
    <3>1. f[1] = [match |-> FALSE, loose |-> Unmatched.loose, next |-> Unmatched.next]
      BY <2>1, <2>5, NoHostComponent, Zenon
    <3> QED BY <2>2, <2>3, <2>5, <3>1 DEF Unmatched
  <2> QED BY <2>4, <2>5
<1>2. ASSUME NEW i \in Nat, i \in T PROVE i + 1 \in T
  <2> DEFINE m == i + 1
  <2>1. m \in Nat /\ m + 1 \in Nat /\ m + 1 > 1 /\ (m + 1) - 1 = m
    BY <1>2
  <2>2. f[m + 1] = Component(f[m], m + 1, n[m + 1], names, ignore) /\ f[m] \in Matching
    BY <2>1 DEF Pass
  <2>3. /\ f[m].match <=> Matches(n, names, m)
        /\ f[m].match => f[m].next = m
        /\ f[m].loose <=> Ours(n[1], names) /\ ignore
    BY <1>2
  <2> HIDE DEF m
  <2>4. Matches(n, names, m + 1) <=>
           Matches(n, names, m) /\ m <= Len(names.domain) /\ n[m + 1] = names.domain[m]
    <3>1. \A j : j \in 2..(m + 1) <=> j \in 2..m \/ j = m + 1
      BY <2>1, <1>2 DEF m
    <3> QED BY <2>1, <3>1 DEF Matches
  <2>5. Follows(f[m], n[m + 1], names.domain) <=> Matches(n, names, m + 1)
    BY <2>3, <2>4 DEF Follows
  <2>6. CASE Follows(f[m], n[m + 1], names.domain)
    <3>1. f[m + 1] = [match |-> TRUE, loose |-> f[m].loose, next |-> f[m].next + 1]
      BY <2>1, <2>2, <2>6, DomainComponent, ZenonT(30)
    <3>2. f[m + 1].match /\ f[m + 1].next = m + 1 /\ f[m + 1].loose = f[m].loose
      BY <2>2, <2>3, <2>6, <3>1, SMTT(30) DEF Follows, Matching
    <3> QED BY <2>1, <2>3, <2>5, <2>6, <3>2 DEF m
  <2>7. CASE ~Follows(f[m], n[m + 1], names.domain)
    <3>1. f[m + 1] = [match |-> FALSE, loose |-> f[m].loose, next |-> f[m].next]
      <4>1. \A s \in Matching, j \in Nat : \A l : j > 1 /\ ~Follows(s, l, names.domain) =>
              Component(s, j, l, names, ignore)
                = [match |-> FALSE, loose |-> s.loose, next |-> s.next]
        BY OtherComponent, Zenon
      <4>2. f[m + 1] = Component(f[m], m + 1, n[m + 1], names, ignore) /\ f[m] \in Matching
            /\ m + 1 \in Nat /\ m + 1 > 1
        BY <2>1, <2>2, <2>3
      <4> QED BY <2>7, <4>1, <4>2, Zenon
    <3>2. ~f[m + 1].match /\ f[m + 1].loose = f[m].loose
      BY <2>2, <3>1, SMTT(30) DEF Matching
    <3> QED BY <2>1, <2>3, <2>5, <2>7, <3>2 DEF m
  <2> QED BY <2>6, <2>7
<1>3. k \in T
  <2> HIDE DEF T
  <2> QED BY <1>1, <1>2, Induction
<1> QED BY <1>3

\* dnsserver.c:95-134 answers with the primary address the names that the page
\* promises, for any names.
LEMMA AddressIsMeant ==
    ASSUME NEW S, NEW n \in Seq(S), NEW D, NEW names, names.domain \in Seq(D),
           NEW ignore \in BOOLEAN
    PROVE  Address(n, names, ignore) = "primary" <=> IsOurs(n, names, ignore)
<1>1. PICK f \in [Nat -> Matching] :
             /\ Pass(f, n, names, ignore)
             /\ Address(n, names, ignore)
                  = IF f[Len(n)].match \/ f[Len(n)].loose THEN "primary" ELSE "secondary"
  BY AddressPasses
<1>2. Len(n) \in Nat /\ Len(names.domain) \in Nat
  OBVIOUS
<1>3. CASE Len(n) = 0
  BY <1>1, <1>2, <1>3 DEF Pass, Unmatched, IsOurs
<1>4. CASE Len(n) > 0
  <2>1. PICK k \in Nat : Len(n) = k + 1
    <3>1. Len(n) - 1 \in Nat /\ Len(n) = (Len(n) - 1) + 1
      BY <1>2, <1>4
    <3> QED BY <3>1
  <2>2. /\ f[k + 1].match <=> Matches(n, names, k + 1)
        /\ f[k + 1].loose <=> Ours(n[1], names) /\ ignore
    BY <1>1, <1>2, PassIs
  <2>3. Matches(n, names, k + 1)
          <=> Ours(n[1], names) /\ IsPrefix(Tail(n), names.domain)
    <3> DEFINE t == Tail(n)
               d == names.domain
    <3>1. t \in Seq(S) /\ Len(t) = k /\ \A j \in 1..k : t[j] = n[j + 1]
      BY <2>1
    <3>0. d \in Seq(D)
      OBVIOUS
    <3> HIDE DEF t, d
    <3>2. IsPrefix(t, d) <=> k <= Len(d) /\ \A j \in 1..k : t[j] = d[j]
      <4>1. IsPrefix(t, d) <=> BeginsWith(d, t)
        BY <3>0, <3>1, PrefixIs, Zenon
      <4> QED BY <3>1, <4>1 DEF BeginsWith
    <3>3. Matches(n, names, k + 1) <=>
            Ours(n[1], names) /\ \A j \in 1..k : j <= Len(d) /\ n[j + 1] = d[j]
      <4>1. ASSUME Matches(n, names, k + 1), NEW j \in 1..k
            PROVE  j <= Len(d) /\ n[j + 1] = d[j]
        <5>1. j + 1 \in 2..(k + 1) /\ (j + 1) - 1 = j
          BY <2>1
        <5>2. \A i \in 2..(k + 1) : i - 1 <= Len(d) /\ n[i] = d[i - 1]
          BY <4>1 DEF Matches, d
        <5> QED BY <5>1, <5>2
      <4>2. ASSUME \A j \in 1..k : j <= Len(d) /\ n[j + 1] = d[j], NEW j \in 2..(k + 1)
            PROVE  j - 1 <= Len(d) /\ n[j] = d[j - 1]
        <5>1. j - 1 \in 1..k /\ (j - 1) + 1 = j
          BY <2>1
        <5> QED BY <4>2, <5>1
      <4> QED BY <4>1, <4>2 DEF Matches, d
    <3>4. (\A j \in 1..k : j <= Len(d)) <=> k <= Len(d)
      BY <1>2, <2>1
    <3> QED BY <3>1, <3>2, <3>3, <3>4 DEF t, d
  <2> QED BY <1>1, <1>4, <2>1, <2>2, <2>3 DEF IsOurs
<1> QED BY <1>2, <1>3, <1>4

-----------------------------------------------------------------------------
(* Redirects                                                                *)

\* Of a browser that was redirected since the settings changed: it has the full
\* name, and what is being sent is no other redirect if that name is kept.
RedirectInv ==
    /\ pc = "idle" => hops = 0 /\ reply = NoReply
    /\ hops \in 0..2
    /\ moved \/ /\ reply.code = 302 => reply.location = FullName(flash)
                /\ hops > 0 => name = FullName(flash)
                /\ NameFits => hops < 2 /\ (hops > 0 => reply.code # 302)

LEMMA RedirectStep == RedirectInv /\ [Next]_vars => RedirectInv'
<1> SUFFICES ASSUME RedirectInv, [Next]_vars PROVE RedirectInv'
  OBVIOUS
<1> USE DEF RedirectInv, NoReply
<1>1. CASE Ask
  BY <1>1 DEF Ask, settings, NameFits
<1>2. ASSUME NEW kind \in QueryKinds, Query(kind) PROVE RedirectInv'
  BY <1>2 DEF Query, settings, NameFits
<1>3. CASE Request
  <2>1. /\ pc' = "receive" /\ UNCHANGED <<flash, name, hops, moved>>
        /\ reply' = IF HostMatches(Kept(name), flash) THEN Answer(path)
                    ELSE Redirect(flash)
    BY <1>3 DEF Request, Goto, settings, request
  <2>2. Answer(path).code # 302
    BY DEF Answer
  <2>3. Redirect(flash).location = FullName(flash)
    BY DEF Redirect
  <2>4. NameFits /\ name = FullName(flash) => HostMatches(Kept(name), flash)
    BY DEF NameFits, Kept, HostMatches
  <2> QED BY <2>1, <2>2, <2>3, <2>4 DEF NameFits
<1>4. CASE Send \/ SendFail
  BY <1>4 DEF Send, SendFail, settings, request, NameFits
<1>5. CASE Received
  BY <1>5 DEF Received, settings, NameFits
<1>6. CASE Leave
  BY <1>6 DEF Leave, Forget, settings, NameFits
<1>7. CASE Store
  BY <1>7 DEF Store
<1>8. CASE Arm
  BY <1>8 DEF Arm, request, NameFits
<1>9. CASE Restart
  BY <1>9 DEF Restart, Forget
<1>10. CASE UNCHANGED vars
  BY <1>10 DEF vars, settings, request, NameFits
<1> QED BY <1>1, <1>2, <1>3, <1>4, <1>5, <1>6, <1>7, <1>8, <1>9, <1>10
        DEF Next, Serve, Watchdog

\* A redirect leads to a name that the HTTP server takes for its own: there is
\* never a second one, unless the settings change in between or the name is too
\* long for the Host header that the server keeps (httpserver.c:231, 248-263).
THEOREM RedirectsOnce == Spec => []OneRedirect
<1>1. Init => RedirectInv
  BY DEF Init, RedirectInv, NoReply, NameFits
<1>2. RedirectInv => OneRedirect
  BY DEF RedirectInv, OneRedirect
<1> QED BY <1>1, <1>2, RedirectStep, PTL DEF Spec

-----------------------------------------------------------------------------
(* What a browser acts on                                                   *)

NamesInv ==
    /\ flash \in Configs /\ boot \in Configs /\ name \in Seq(Labels)
    /\ reply.location \in Seq(Labels)

LEMMA ConfigTypes ==
    ASSUME NEW c \in Configs
    PROVE  c.domain \in Seq(Labels) /\ c.ignore \in BOOLEAN /\ FullName(c) \in Seq(Labels)
<1>1. c.host \in Labels /\ c.domain \in Seq(Labels) /\ c.ignore \in BOOLEAN
  BY PortalAssumption
<1>2. <<c.host>> \in Seq(Labels)
  BY <1>1
<1> QED BY <1>1, <1>2 DEF FullName

LEMMA NamesStep == NamesInv /\ [Next]_vars => NamesInv'
<1> SUFFICES ASSUME NamesInv, [Next]_vars PROVE NamesInv'
  OBVIOUS
<1> USE DEF NamesInv, NoReply
<1>1. CASE Ask
  <2>1. <<Literal>> \in Seq(Labels)
    BY PortalAssumption
  <2> QED BY <1>1, <2>1, PortalAssumption DEF Ask, settings
<1>2. ASSUME NEW kind \in QueryKinds, Query(kind) PROVE NamesInv'
  BY <1>2 DEF Query, settings
<1>3. CASE Request
  <2>1. FullName(flash) \in Seq(Labels)
    BY ConfigTypes
  <2>2. Answer(path).location = <<>> /\ Redirect(flash).location = FullName(flash)
    BY DEF Answer, Redirect
  <2>3. reply'.location \in Seq(Labels)
    <3>1. reply' = Answer(path) \/ reply' = Redirect(flash)
      BY <1>3 DEF Request
    <3>2. <<>> \in Seq(Labels)
      OBVIOUS
    <3> QED BY <2>1, <2>2, <3>1, <3>2, Zenon
  <2> QED BY <1>3, <2>3 DEF Request, settings, request
<1>4. CASE Send \/ SendFail
  BY <1>4 DEF Send, SendFail, settings, request
<1>5. CASE Received
  <2>1. NoReply.location = <<>>
    OBVIOUS
  <2>2. /\ UNCHANGED <<flash, boot>>
        /\ name' \in {name, reply.location} /\ reply' \in {reply, NoReply}
    BY <1>5 DEF Received, settings
  <2>3. reply'.location \in Seq(Labels)
    <3>1. NoReply.location \in Seq(Labels)
      BY <2>1
    <3> QED BY <2>2, <3>1
  <2> QED BY <2>2, <2>3
<1>6. CASE Leave
  BY <1>6 DEF Leave, Forget, settings
<1>7. CASE Store
  BY <1>7 DEF Store
<1>8. CASE Arm
  BY <1>8 DEF Arm, request
<1>9. CASE Restart
  BY <1>9 DEF Restart, Forget
<1>10. CASE UNCHANGED vars
  BY <1>10 DEF vars, settings, request
<1> QED BY <1>1, <1>2, <1>3, <1>4, <1>5, <1>6, <1>7, <1>8, <1>9, <1>10
        DEF Next, Serve, Watchdog

LEMMA MeantStep == NamesInv /\ AnswerIsMeant /\ [Next]_vars => AnswerIsMeant'
<1> SUFFICES ASSUME NamesInv, AnswerIsMeant, [Next]_vars PROVE AnswerIsMeant'
  OBVIOUS
<1> USE DEF AnswerIsMeant
<1>1. CASE Ask
  BY <1>1 DEF Ask
<1>2. ASSUME NEW kind \in QueryKinds, Query(kind) PROVE AnswerIsMeant'
  <2>1. CASE ~Accepted(kind)
    BY <1>2, <2>1 DEF Query
  <2>2. CASE Accepted(kind)
    <3>1. addr' = Address(name, flash, boot.ignore) /\ UNCHANGED <<name, flash, boot>>
      BY <1>2, <2>2 DEF Query, settings
    <3>2. Address(name, flash, boot.ignore) = "primary" <=> IsOurs(name, flash, boot.ignore)
      BY ConfigTypes, AddressIsMeant DEF NamesInv
    <3> QED BY <3>1, <3>2
  <2> QED BY <2>1, <2>2
<1>3. CASE Request \/ Send \/ SendFail \/ Received
  BY <1>3 DEF Request, Goto, Send, SendFail, Received
<1>4. CASE Leave
  BY <1>4 DEF Leave, Forget
<1>5. CASE Store \/ Restart
  BY <1>5 DEF Store, Restart
<1>6. CASE Arm
  BY <1>6 DEF Arm, request
<1>7. CASE UNCHANGED vars
  BY <1>7 DEF vars, settings, request
<1> QED BY <1>1, <1>2, <1>3, <1>4, <1>5, <1>6, <1>7 DEF Next, Serve, Watchdog

\* The address that a browser acts on is the one that the page and the comment
\* on the secondary address promise for that name (www/index.html:225-227,
\* server_settings.h:13-18, dnsserver.c:95-134), for any names and settings.
THEOREM AnswersAreMeant == Spec => []AnswerIsMeant
<1>1. Init => NamesInv /\ AnswerIsMeant
  BY DEF Init, NamesInv, NoReply, AnswerIsMeant
<1> QED BY <1>1, NamesStep, MeantStep, PTL DEF Spec

-----------------------------------------------------------------------------
(* The file builder, one write and one file at a time                       *)

\* r is m with v at a.
Puts(r, m, a, v) ==
    /\ DOMAIN r = DOMAIN m \cup {a} /\ r[a] = v
    /\ \A x \in DOMAIN m : x # a => r[x] = m[x]

LEMMA PutIs == ASSUME NEW m, NEW a, NEW v PROVE Puts(Put(m, a, v), m, a, v)
BY DEF Put, Puts

\* r is m with the bytes of f from data on.
Copies(r, m, data, f, gone) ==
    /\ DOMAIN r = DOMAIN m \cup data..(data + f.size - 1)
    /\ \A x \in DOMAIN m : r[x] = m[x]
    /\ \A k \in 0..(f.size - 1) : r[data + k] = Byte(f, k, gone)

LEMMA CopiedIs ==
    ASSUME NEW m, NEW f \in Tree, NEW data \in Nat, NEW gone,
           \A x \in DOMAIN m : x \notin data..(data + f.size - 1)
    PROVE  Copies(Copied(m, data, f, gone), m, data, f, gone)
<1>1. f.size \in Nat
  BY TreeAssumption
<1>2. \A k \in 0..(f.size - 1) : data + k \in data..(data + f.size - 1) /\ (data + k) - data = k
  BY <1>1
<1> QED BY <1>2 DEF Copied, Copies

LEMMA AddTypeIs ==
    ASSUME NEW b, NEW ct
    PROVE  LET r == AddType(b, ct) IN
           /\ r.entries = b.entries /\ r.base = b.base /\ r.dataOff = b.dataOff
           /\ r.nameOff = b.nameOff + Bytes(<<ct[2]>>)
           /\ r.mem = Put(b.mem, b.nameOff, <<ct[2]>>)
           /\ r.types = Put(b.types, ct[1], b.nameOff)
BY DEF AddType

LEMMA ExtsDiffer ==
    /\ Len(ContentTypes) = 7
    /\ \A i, j \in 1..7 : ContentTypes[i][1] = ContentTypes[j][1] => i = j
    /\ ContentTypes[3] = <<".html", "text/html">>
BY DEF ContentTypes

-----------------------------------------------------------------------------
(* Its recursions: the sums, the content types, the files                   *)

\* g adds num up over s, to the k-th.
Adds(g, s, num, k) ==
    g[0] = 0 /\ \A n \in 0..(k - 1) : g[n + 1] = g[n] + num[s[n + 1]]

LEMMA AddsExists ==
    ASSUME NEW s, NEW num, NEW k \in Nat
    PROVE  \E g : Adds(g, s, num, k)
<1> DEFINE T == {i \in Nat : \E g : Adds(g, s, num, i)}
<1>1. 0 \in T
  <2>1. Adds([n \in {0} |-> 0], s, num, 0)
    BY DEF Adds
  <2> QED BY <2>1
<1>2. ASSUME NEW i \in Nat, i \in T PROVE i + 1 \in T
  <2>1. PICK g : Adds(g, s, num, i)
    BY <1>2
  <2> DEFINE h == [n \in 0..(i + 1) |-> IF n = i + 1 THEN g[i] + num[s[i + 1]] ELSE g[n]]
  <2>2. h[i + 1] = g[i] + num[s[i + 1]] /\ \A n \in 0..i : h[n] = g[n]
    BY <1>2
  <2> HIDE DEF h
  <2>3. ASSUME NEW n \in 0..i PROVE h[n + 1] = h[n] + num[s[n + 1]]
    <3>1. CASE n = i
      BY <1>2, <2>2, <3>1
    <3>2. CASE n # i
      <4>1. n \in 0..(i - 1) /\ n + 1 \in 0..i /\ h[n] = g[n]
        BY <1>2, <2>2, <2>3, <3>2
      <4> QED BY <2>1, <2>2, <4>1 DEF Adds
    <3> QED BY <3>1, <3>2
  <2>4. h[0] = 0
    BY <1>2, <2>1, <2>2 DEF Adds
  <2>5. i + 1 \in Nat /\ (i + 1) - 1 = i
    BY <1>2
  <2>6. Adds(h, s, num, i + 1)
    BY <2>3, <2>4, <2>5 DEF Adds
  <2> QED BY <2>5, <2>6
<1>3. k \in T
  <2> HIDE DEF T
  <2> QED BY <1>1, <1>2, Induction
<1> QED BY <1>3

\* g writes the content types, to the k-th.
Types(g, files, k) ==
    g[0] = Empty(files) /\ \A n \in 0..(k - 1) : g[n + 1] = AddType(g[n], ContentTypes[n + 1])

LEMMA TypesExists ==
    ASSUME NEW files, NEW k \in Nat
    PROVE  \E g : Types(g, files, k)
<1> DEFINE T == {i \in Nat : \E g : Types(g, files, i)}
<1>1. 0 \in T
  <2>1. Types([n \in {0} |-> Empty(files)], files, 0)
    BY DEF Types
  <2> QED BY <2>1
<1>2. ASSUME NEW i \in Nat, i \in T PROVE i + 1 \in T
  <2>1. PICK g : Types(g, files, i)
    BY <1>2
  <2> DEFINE h == [n \in 0..(i + 1) |-> IF n = i + 1 THEN AddType(g[i], ContentTypes[i + 1]) ELSE g[n]]
  <2>2. h[i + 1] = AddType(g[i], ContentTypes[i + 1]) /\ \A n \in 0..i : h[n] = g[n]
    BY <1>2
  <2> HIDE DEF h
  <2>3. ASSUME NEW n \in 0..i PROVE h[n + 1] = AddType(h[n], ContentTypes[n + 1])
    <3>1. CASE n = i
      BY <1>2, <2>2, <3>1
    <3>2. CASE n # i
      <4>1. n \in 0..(i - 1) /\ n + 1 \in 0..i /\ h[n] = g[n]
        BY <1>2, <2>2, <2>3, <3>2
      <4> QED BY <2>1, <2>2, <4>1 DEF Types
    <3> QED BY <3>1, <3>2
  <2>4. h[0] = Empty(files)
    BY <1>2, <2>1, <2>2 DEF Types
  <2>5. i + 1 \in Nat /\ (i + 1) - 1 = i
    BY <1>2
  <2>6. Types(h, files, i + 1)
    BY <2>3, <2>4, <2>5 DEF Types
  <2> QED BY <2>5, <2>6
<1>3. k \in T
  <2> HIDE DEF T
  <2> QED BY <1>1, <1>2, Induction
<1> QED BY <1>3

\* g writes the files over b, to the k-th.
Fills(g, b, files, gone, k) ==
    g[0] = b /\ \A n \in 0..(k - 1) : g[n + 1] = AddFile(g[n], files[n + 1], gone)

LEMMA FillsExists ==
    ASSUME NEW b, NEW files, NEW gone, NEW k \in Nat
    PROVE  \E g : Fills(g, b, files, gone, k)
<1> DEFINE T == {i \in Nat : \E g : Fills(g, b, files, gone, i)}
<1>1. 0 \in T
  <2>1. Fills([n \in {0} |-> b], b, files, gone, 0)
    BY DEF Fills
  <2> QED BY <2>1
<1>2. ASSUME NEW i \in Nat, i \in T PROVE i + 1 \in T
  <2>1. PICK g : Fills(g, b, files, gone, i)
    BY <1>2
  <2> DEFINE h == [n \in 0..(i + 1) |-> IF n = i + 1 THEN AddFile(g[i], files[i + 1], gone) ELSE g[n]]
  <2>2. h[i + 1] = AddFile(g[i], files[i + 1], gone) /\ \A n \in 0..i : h[n] = g[n]
    BY <1>2
  <2> HIDE DEF h
  <2>3. ASSUME NEW n \in 0..i PROVE h[n + 1] = AddFile(h[n], files[n + 1], gone)
    <3>1. CASE n = i
      BY <1>2, <2>2, <3>1
    <3>2. CASE n # i
      <4>1. n \in 0..(i - 1) /\ n + 1 \in 0..i /\ h[n] = g[n]
        BY <1>2, <2>2, <2>3, <3>2
      <4> QED BY <2>1, <2>2, <4>1 DEF Fills
    <3> QED BY <3>1, <3>2
  <2>4. h[0] = b
    BY <1>2, <2>1, <2>2 DEF Fills
  <2>5. i + 1 \in Nat /\ (i + 1) - 1 = i
    BY <1>2
  <2>6. Fills(h, b, files, gone, i + 1)
    BY <2>3, <2>4, <2>5 DEF Fills
  <2> QED BY <2>5, <2>6
<1>3. k \in T
  <2> HIDE DEF T
  <2> QED BY <1>1, <1>2, Induction
<1> QED BY <1>3

LEMMA SumAdds ==
    ASSUME NEW s, NEW num, Len(s) \in Nat
    PROVE  \E g : Adds(g, s, num, Len(s)) /\ Sum(s, num) = g[Len(s)]
<1> DEFINE N == Len(s)
           Is(g) == g = [n \in 0..N |-> IF n = 0 THEN 0 ELSE g[n - 1] + num[s[n]]]
           c == CHOOSE g : Is(g)
<1>1. PICK h : Adds(h, s, num, N)
  BY AddsExists
<1> DEFINE g == [n \in 0..N |-> h[n]]
<1>2. ASSUME NEW n \in 0..N
      PROVE  g[n] = IF n = 0 THEN 0 ELSE g[n - 1] + num[s[n]]
  <2>1. CASE n = 0
    BY <1>1, <1>2, <2>1 DEF Adds
  <2>2. CASE n # 0
    <3>1. n - 1 \in 0..(N - 1) /\ n - 1 \in 0..N /\ (n - 1) + 1 = n
      BY <1>2, <2>2
    <3>2. h[n] = h[n - 1] + num[s[n]]
      BY <1>1, <3>1 DEF Adds
    <3> QED BY <1>2, <2>2, <3>1, <3>2
  <2> QED BY <2>1, <2>2
<1>3. g = [n \in 0..N |-> g[n]]
  OBVIOUS
<1> HIDE DEF g
<1>4. Is(g)
  BY <1>2, <1>3, Zenon
<1>5. Is(c)
  BY <1>4, Zenon
<1>6. \A n \in 0..N : c[n] = IF n = 0 THEN 0 ELSE c[n - 1] + num[s[n]]
  BY <1>5, Zenon
<1> HIDE DEF c
<1>7. Adds(c, s, num, N)
  <2>1. 0 \in 0..N /\ c[0] = 0
    BY <1>6
  <2>2. ASSUME NEW n \in 0..(N - 1) PROVE c[n + 1] = c[n] + num[s[n + 1]]
    <3>1. n + 1 \in 0..N /\ n + 1 # 0 /\ (n + 1) - 1 = n
      BY <2>2
    <3> QED BY <1>6, <3>1
  <2> QED BY <2>1, <2>2 DEF Adds
<1>8. Sum(s, num) = c[Len(s)]
  BY Zenon DEF Sum, c
<1> QED BY <1>7, <1>8

LEMMA SumIs ==
    ASSUME NEW S, NEW s \in Seq(S), NEW num, \A x \in S : num[x] \in Nat
    PROVE  Sum(s, num) \in Nat
<1>1. Len(s) \in Nat
  OBVIOUS
<1>2. PICK g : Adds(g, s, num, Len(s)) /\ Sum(s, num) = g[Len(s)]
  BY <1>1, SumAdds
<1> DEFINE T == {k \in Nat : k <= Len(s) => g[k] \in Nat}
<1>3. 0 \in T
  BY <1>2 DEF Adds
<1>4. ASSUME NEW k \in Nat, k \in T PROVE k + 1 \in T
  <2>1. CASE k + 1 <= Len(s)
    <3>1. k \in 0..(Len(s) - 1) /\ k + 1 \in 1..Len(s)
      BY <1>1, <1>4, <2>1
    <3>2. g[k + 1] = g[k] + num[s[k + 1]] /\ num[s[k + 1]] \in Nat /\ g[k] \in Nat
      BY <1>1, <1>2, <1>4, <3>1 DEF Adds
    <3> QED BY <3>2
  <2> QED BY <1>4, <2>1
<1>5. Len(s) \in T
  <2> HIDE DEF T
  <2> QED BY <1>1, <1>3, <1>4, Induction
<1> QED BY <1>2, <1>5

-----------------------------------------------------------------------------
(* What they are for the builder, and where the names and paths lie         *)

TypeCount == Len(ContentTypes)

\* The recursions over the content types and over the files.
LEMMA TypesAre ==
    ASSUME NEW files, TypeCount \in Nat
    PROVE  \E g : Types(g, files, TypeCount) /\ g = CHOOSE t : t = [n \in 0..TypeCount |-> IF n = 0 THEN Empty(files) ELSE AddType(t[n - 1], ContentTypes[n])]
<1> DEFINE N == TypeCount
           Is(g) == g = [n \in 0..N |-> IF n = 0 THEN Empty(files) ELSE AddType(g[n - 1], ContentTypes[n])]
           c == CHOOSE g : Is(g)
<1>1. PICK h : Types(h, files, N)
  BY TypesExists
<1> DEFINE g == [n \in 0..N |-> h[n]]
<1>2. ASSUME NEW n \in 0..N
      PROVE  g[n] = IF n = 0 THEN Empty(files) ELSE AddType(g[n - 1], ContentTypes[n])
  <2>1. CASE n = 0
    BY <1>1, <1>2, <2>1 DEF Types
  <2>2. CASE n # 0
    <3>1. n - 1 \in 0..(N - 1) /\ n - 1 \in 0..N /\ (n - 1) + 1 = n
      BY <1>2, <2>2
    <3>2. h[n] = AddType(h[n - 1], ContentTypes[n])
      BY <1>1, <3>1 DEF Types
    <3> QED BY <1>2, <2>2, <3>1, <3>2
  <2> QED BY <2>1, <2>2
<1>3. g = [n \in 0..N |-> g[n]]
  OBVIOUS
<1> HIDE DEF g
<1>4. Is(g)
  BY <1>2, <1>3, Zenon
<1>5. Is(c)
  BY <1>4, Zenon
<1>6. \A n \in 0..N : c[n] = IF n = 0 THEN Empty(files) ELSE AddType(c[n - 1], ContentTypes[n])
  BY <1>5, Zenon
<1> HIDE DEF c
<1>7. Types(c, files, N)
  <2>1. 0 \in 0..N /\ c[0] = Empty(files)
    BY <1>6
  <2>2. ASSUME NEW n \in 0..(N - 1) PROVE c[n + 1] = AddType(c[n], ContentTypes[n + 1])
    <3>1. n + 1 \in 0..N /\ n + 1 # 0 /\ (n + 1) - 1 = n
      BY <2>2
    <3> QED BY <1>6, <3>1
  <2> QED BY <2>1, <2>2 DEF Types
<1>8. c = CHOOSE t : t = [n \in 0..TypeCount |-> IF n = 0 THEN Empty(files) ELSE AddType(t[n - 1], ContentTypes[n])]
  BY Zenon DEF c
<1> QED BY <1>7, <1>8

LEMMA FillsAre ==
    ASSUME NEW b, NEW files, NEW gone, Len(files) \in Nat
    PROVE  \E g : Fills(g, b, files, gone, Len(files)) /\ g = CHOOSE t : t = [n \in 0..Len(files) |-> IF n = 0 THEN b ELSE AddFile(t[n - 1], files[n], gone)]
<1> DEFINE N == Len(files)
           Is(g) == g = [n \in 0..N |-> IF n = 0 THEN b ELSE AddFile(g[n - 1], files[n], gone)]
           c == CHOOSE g : Is(g)
<1>1. PICK h : Fills(h, b, files, gone, N)
  BY FillsExists
<1> DEFINE g == [n \in 0..N |-> h[n]]
<1>2. ASSUME NEW n \in 0..N
      PROVE  g[n] = IF n = 0 THEN b ELSE AddFile(g[n - 1], files[n], gone)
  <2>1. CASE n = 0
    BY <1>1, <1>2, <2>1 DEF Fills
  <2>2. CASE n # 0
    <3>1. n - 1 \in 0..(N - 1) /\ n - 1 \in 0..N /\ (n - 1) + 1 = n
      BY <1>2, <2>2
    <3>2. h[n] = AddFile(h[n - 1], files[n], gone)
      BY <1>1, <3>1 DEF Fills
    <3> QED BY <1>2, <2>2, <3>1, <3>2
  <2> QED BY <2>1, <2>2
<1>3. g = [n \in 0..N |-> g[n]]
  OBVIOUS
<1> HIDE DEF g
<1>4. Is(g)
  BY <1>2, <1>3, Zenon
<1>5. Is(c)
  BY <1>4, Zenon
<1>6. \A n \in 0..N : c[n] = IF n = 0 THEN b ELSE AddFile(c[n - 1], files[n], gone)
  BY <1>5, Zenon
<1> HIDE DEF c
<1>7. Fills(c, b, files, gone, N)
  <2>1. 0 \in 0..N /\ c[0] = b
    BY <1>6
  <2>2. ASSUME NEW n \in 0..(N - 1) PROVE c[n + 1] = AddFile(c[n], files[n + 1], gone)
    <3>1. n + 1 \in 0..N /\ n + 1 # 0 /\ (n + 1) - 1 = n
      BY <2>2
    <3> QED BY <1>6, <3>1
  <2> QED BY <2>1, <2>2 DEF Fills
<1>8. c = CHOOSE t : t = [n \in 0..Len(files) |-> IF n = 0 THEN b ELSE AddFile(t[n - 1], files[n], gone)]
  BY Zenon DEF c
<1> QED BY <1>7, <1>8

LEMMA BuildIs ==
    ASSUME NEW files, NEW gone, Len(files) \in Nat
    PROVE  \E t, g : /\ Types(t, files, TypeCount) /\ Fills(g, t[TypeCount], files, gone, Len(files))
                     /\ Build(files, gone) = g[Len(files)]
<1>1. TypeCount \in Nat
  BY DEF TypeCount, ContentTypes
<1>2. PICK t : /\ Types(t, files, TypeCount)
               /\ t = CHOOSE f : f = [n \in 0..TypeCount |-> IF n = 0 THEN Empty(files) ELSE AddType(f[n - 1], ContentTypes[n])]
  BY <1>1, TypesAre, Zenon
<1> DEFINE b == t[TypeCount]
<1>3. PICK g : /\ Fills(g, b, files, gone, Len(files))
               /\ g = CHOOSE f : f = [n \in 0..Len(files) |-> IF n = 0 THEN b ELSE AddFile(f[n - 1], files[n], gone)]
  BY FillsAre, Zenon
<1>4. Build(files, gone) = g[Len(files)]
  <2> DEFINE typed == CHOOSE f : f = [n \in 0..Len(ContentTypes) |->
                        IF n = 0 THEN Empty(files) ELSE AddType(f[n - 1], ContentTypes[n])]
             fill(y) == CHOOSE f : f = [n \in 0..Len(files) |->
                          IF n = 0 THEN y ELSE AddFile(f[n - 1], files[n], gone)]
  <2>1. Build(files, gone) = fill(typed[Len(ContentTypes)])[Len(files)]
    BY Zenon DEF Build
  <2>2. typed = t
    BY <1>2, Zenon DEF TypeCount
  <2>3. fill(b) = g
    BY <1>3, Zenon
  <2> HIDE DEF typed, fill
  <2> QED BY <2>1, <2>2, <2>3, Zenon DEF TypeCount
<1> QED BY <1>2, <1>3, <1>4

LEMMA BytesIs ==
    ASSUME NEW p \in Seq(DOMAIN Chars), p # <<>>
    PROVE  Bytes(p) \in Nat /\ Bytes(p) > 0
<1>1. Sum(p, Chars) \in Nat
  BY SumIs, TreeAssumption
<1>2. Len(p) \in Nat /\ Len(p) > 0
  OBVIOUS
<1> QED BY <1>1, <1>2 DEF Bytes

LEMMA TypeNames ==
    ASSUME NEW n \in 1..TypeCount
    PROVE  LET ct == ContentTypes[n] IN Bytes(<<ct[2]>>) \in Nat /\ Bytes(<<ct[2]>>) > 0
<1> DEFINE ct == ContentTypes[n]
<1>1. ct \in Range(ContentTypes)
  BY DEF Range, ContentTypes, TypeCount
<1>2. ct[2] \in DOMAIN Chars
  BY <1>1, TreeAssumption
<1> HIDE DEF ct
<1>3. <<ct[2]>> \in Seq(DOMAIN Chars) /\ <<ct[2]>> # <<>>
  BY <1>2
<1> QED BY <1>3, BytesIs DEF ct

LEMMA PathIsText ==
    ASSUME NEW f \in Tree
    PROVE  /\ PathInArchive(f) \in Seq(DOMAIN Chars)
           /\ Bytes(PathInArchive(f)) \in Nat /\ Bytes(PathInArchive(f)) > 0
<1>1. f.dir \in Seq(DOMAIN Chars) /\ f.name \in DOMAIN Chars /\ "" \in DOMAIN Chars
  BY TreeAssumption
<1>2. PathInArchive(f) \in Seq(DOMAIN Chars) /\ PathInArchive(f) # <<>>
  <2>1. \E x \in DOMAIN Chars : PathInArchive(f) = Append(f.dir, x)
    BY <1>1, Zenon DEF PathInArchive
  <2>2. \A S : \A s \in Seq(S), x \in S : Append(s, x) \in Seq(S) /\ Append(s, x) # <<>>
    <3> SUFFICES ASSUME NEW S, NEW s \in Seq(S), NEW x \in S
                 PROVE  Append(s, x) \in Seq(S) /\ Append(s, x) # <<>>
      OBVIOUS
    <3>1. Append(s, x) \in Seq(S) /\ Len(s) \in Nat /\ Len(Append(s, x)) = Len(s) + 1
      OBVIOUS
    <3> QED BY <3>1
  <2> QED BY <1>1, <2>1, <2>2, Zenon
<1> QED BY <1>2, BytesIs

\* Different files have different paths.
LEMMA PathsDiffer ==
    ASSUME NEW f \in Tree, NEW g \in Tree, PathInArchive(f) = PathInArchive(g)
    PROVE  f = g
<1> DEFINE Final(h) == IF h.name = "index.html" THEN "" ELSE h.name
<1>1. /\ f.dir \in Seq(DOMAIN Chars) /\ g.dir \in Seq(DOMAIN Chars)
      /\ Final(f) \in DOMAIN Chars /\ Final(g) \in DOMAIN Chars
  BY TreeAssumption
<1>2. Final(f) = Final(g) => f.name = g.name
  BY TreeAssumption
<1>3. Append(f.dir, Final(f)) = Append(g.dir, Final(g))
  BY DEF PathInArchive
<1> HIDE DEF Final
<1>4. \A S : \A s, t \in Seq(S), x, y \in S : Append(s, x) = Append(t, y) => s = t /\ x = y
  <2> TAKE S
  <2> SUFFICES ASSUME NEW s \in Seq(S), NEW t \in Seq(S), NEW x \in S, NEW y \in S,
                      Append(s, x) = Append(t, y)
               PROVE  s = t /\ x = y
    OBVIOUS
  <2>1. Len(s) = Len(t)
    <3>1. Len(Append(s, x)) = Len(s) + 1 /\ Len(Append(t, y)) = Len(t) + 1
      OBVIOUS
    <3> QED BY <3>1
  <2>2. x = y
    <3>1. Append(s, x)[Len(s) + 1] = x /\ Append(t, y)[Len(t) + 1] = y
      OBVIOUS
    <3> QED BY <2>1, <3>1
  <2>3. \A k \in 1..Len(s) : s[k] = t[k]
    <3>1. (\A k \in 1..Len(s) : Append(s, x)[k] = s[k]) /\ (\A k \in 1..Len(t) : Append(t, y)[k] = t[k])
      OBVIOUS
    <3> QED BY <2>1, <3>1
  <2> QED BY <2>1, <2>2, <2>3
<1>5. f.dir = g.dir /\ f.name = g.name
  BY <1>1, <1>2, <1>3, <1>4
<1> QED BY <1>5, TreeAssumption

-----------------------------------------------------------------------------
(* The layout of the image                                                  *)

\* After n content types: each has its offset, below nameOff.
TypesLaid(b, n) ==
    /\ b.entries = <<>> /\ b.dataOff = 0 /\ b.nameOff \in Nat
    /\ DOMAIN b.mem \subseteq 0..(b.nameOff - 1)
    /\ DOMAIN b.types = {ContentTypes[i][1] : i \in 1..n}
    /\ \A i \in 1..n : /\ b.types[ContentTypes[i][1]] \in DOMAIN b.mem
                       /\ b.mem[b.types[ContentTypes[i][1]]] = <<ContentTypes[i][2]>>

LEMMA TypesLaidStep ==
    ASSUME NEW b, NEW n \in Nat, n + 1 <= TypeCount, TypesLaid(b, n)
    PROVE  TypesLaid(AddType(b, ContentTypes[n + 1]), n + 1)
<1> DEFINE ct == ContentTypes[n + 1]
           r == AddType(b, ct)
           size == Bytes(<<ct[2]>>)
<1>0. TypeCount = 7
  BY ExtsDiffer DEF TypeCount
<1>1. size \in Nat /\ size > 0
  <2>1. n + 1 \in 1..TypeCount
    BY <1>0
  <2> QED BY <2>1, TypeNames
<1>2. /\ r.entries = b.entries /\ r.base = b.base /\ r.dataOff = b.dataOff
      /\ r.nameOff = b.nameOff + size
      /\ r.mem = Put(b.mem, b.nameOff, <<ct[2]>>)
      /\ r.types = Put(b.types, ct[1], b.nameOff)
  BY AddTypeIs
<1>3. \A i \in 1..(n + 1) : ContentTypes[i][1] = ct[1] => i = n + 1
  BY <1>0, ExtsDiffer
<1> HIDE DEF r, size
<1>4. b.nameOff \in Nat /\ b.nameOff \notin DOMAIN b.mem
  BY DEF TypesLaid
<1>5. /\ DOMAIN r.mem = DOMAIN b.mem \cup {b.nameOff} /\ r.mem[b.nameOff] = <<ct[2]>>
      /\ \A x \in DOMAIN b.mem : r.mem[x] = b.mem[x]
  <2>1. \A x \in DOMAIN b.mem : x # b.nameOff
    BY <1>4
  <2>2. Puts(r.mem, b.mem, b.nameOff, <<ct[2]>>)
    BY <1>2, PutIs, Zenon
  <2> QED BY <2>1, <2>2, Zenon DEF Puts
<1>6. /\ DOMAIN r.types = DOMAIN b.types \cup {ct[1]} /\ r.types[ct[1]] = b.nameOff
      /\ \A x \in DOMAIN b.types : x # ct[1] => r.types[x] = b.types[x]
  <2>1. Puts(r.types, b.types, ct[1], b.nameOff)
    BY <1>2, PutIs, Zenon
  <2> QED BY <2>1, Zenon DEF Puts
<1>7. r.entries = <<>> /\ r.dataOff = 0 /\ r.nameOff \in Nat
  BY <1>1, <1>2 DEF TypesLaid
<1>8. DOMAIN r.mem \subseteq 0..(r.nameOff - 1)
  BY <1>1, <1>2, <1>4, <1>5 DEF TypesLaid
<1>9. DOMAIN r.types = {ContentTypes[i][1] : i \in 1..(n + 1)}
  <2>1. 1..(n + 1) = 1..n \cup {n + 1}
    OBVIOUS
  <2> QED BY <1>6, <2>1 DEF TypesLaid
<1>10. ASSUME NEW i \in 1..(n + 1)
       PROVE  /\ r.types[ContentTypes[i][1]] \in DOMAIN r.mem
              /\ r.mem[r.types[ContentTypes[i][1]]] = <<ContentTypes[i][2]>>
  <2>1. CASE i = n + 1
    BY <1>5, <1>6, <2>1
  <2>2. CASE i # n + 1
    <3>1. i \in 1..n
      BY <2>2
    <3>2. ContentTypes[i][1] \in DOMAIN b.types /\ ContentTypes[i][1] # ct[1]
      BY <1>3, <2>2, <3>1 DEF TypesLaid
    <3> HIDE DEF ct
    <3>3. r.types[ContentTypes[i][1]] = b.types[ContentTypes[i][1]]
      BY <1>6, <3>2
    <3>4. /\ b.types[ContentTypes[i][1]] \in DOMAIN b.mem
          /\ b.mem[b.types[ContentTypes[i][1]]] = <<ContentTypes[i][2]>>
      BY <3>1 DEF TypesLaid
    <3> QED BY <1>5, <3>3, <3>4, Zenon
  <2> QED BY <2>1, <2>2
<1> QED BY <1>7, <1>8, <1>9, <1>10 DEF TypesLaid, r

LEMMA TypesAreLaid ==
    ASSUME NEW files, NEW t, Types(t, files, TypeCount)
    PROVE  TypesLaid(t[TypeCount], TypeCount) /\ t[TypeCount].base = NameBlockSize(files)
<1> DEFINE T == {n \in Nat : n <= TypeCount => /\ TypesLaid(t[n], n)
                                          /\ t[n].base = NameBlockSize(files)}
<1>0. TypeCount \in Nat
  BY ExtsDiffer DEF TypeCount
<1>1. 0 \in T
  <2>1. t[0] = Empty(files)
    BY DEF Types
  <2>2. 1..0 = {} /\ DOMAIN <<>> = {}
    OBVIOUS
  <2>3. /\ t[0].entries = <<>> /\ t[0].dataOff = 0 /\ t[0].nameOff = 0
        /\ t[0].mem = <<>> /\ t[0].types = <<>> /\ t[0].base = NameBlockSize(files)
    BY <2>1 DEF Empty
  <2>4. TypesLaid(t[0], 0)
    BY <2>2, <2>3 DEF TypesLaid
  <2> QED BY <2>3, <2>4
<1>2. ASSUME NEW n \in Nat, n \in T PROVE n + 1 \in T
  <2>1. CASE n + 1 <= TypeCount
    <3>1. n \in 0..(TypeCount - 1) /\ TypesLaid(t[n], n) /\ t[n].base = NameBlockSize(files)
      BY <1>0, <1>2, <2>1
    <3>2. t[n + 1] = AddType(t[n], ContentTypes[n + 1])
      BY <3>1 DEF Types
    <3>3. TypesLaid(t[n + 1], n + 1)
      BY <2>1, <3>1, <3>2, TypesLaidStep
    <3>4. t[n + 1].base = t[n].base
      BY <3>2 DEF AddType
    <3> QED BY <3>1, <3>3, <3>4
  <2> QED BY <1>2, <2>1
<1>3. TypeCount \in T
  <2> HIDE DEF T
  <2> QED BY <1>0, <1>1, <1>2, Induction
<1> QED BY <1>0, <1>3

\* What the i-th entry of b says of f.
Entered(b, i, f, gone) ==
    LET e == b.entries[i] IN
    /\ e.size = f.size /\ e.type = TypeOf(b.types, f.ext)
    /\ e.name \in DOMAIN b.mem /\ b.mem[e.name] = PathInArchive(f)
    /\ e.data \in Nat
    /\ \A k \in 0..(f.size - 1) : /\ b.base + e.data + k \in DOMAIN b.mem
                                  /\ b.mem[b.base + e.data + k] = Byte(f, k, gone)

\* After n files.
Laid(b, n, files, gone) ==
    /\ b.base \in Nat /\ b.nameOff \in Nat /\ b.dataOff \in Nat
    /\ DOMAIN b.entries = 1..n /\ b.entries \in Seq(Range(b.entries))
    /\ DOMAIN b.mem \subseteq 0..(b.nameOff - 1) \cup b.base..(b.base + b.dataOff - 1)
    /\ DOMAIN b.types = {ContentTypes[i][1] : i \in 1..TypeCount}
    /\ \A i \in 1..TypeCount : /\ b.types[ContentTypes[i][1]] \in DOMAIN b.mem
                          /\ b.mem[b.types[ContentTypes[i][1]]] = <<ContentTypes[i][2]>>
    /\ \A i \in 1..n : Entered(b, i, files[i], gone)

\* r is s, of length n, followed by x.
Appends(r, s, n, x) ==
    /\ DOMAIN r = 1..(n + 1) /\ r \in Seq(Range(r)) /\ r[n + 1] = x
    /\ \A i \in 1..n : r[i] = s[i]

LEMMA AppendIs ==
    ASSUME NEW s, NEW n \in Nat, DOMAIN s = 1..n, s \in Seq(Range(s)), NEW x
    PROVE  Appends(Append(s, x), s, n, x)
<1> DEFINE S == Range(s) \cup {x}
           r == Append(s, x)
<1>1. s \in Seq(S) /\ x \in S /\ Len(s) = n
  OBVIOUS
<1>2. r \in Seq(S) /\ Len(r) = n + 1 /\ DOMAIN r = 1..(n + 1) /\ r[n + 1] = x
      /\ \A i \in 1..n : r[i] = s[i]
  <2> HIDE DEF S
  <2> QED BY <1>1
<1> HIDE DEF r, S
<1>3. r \in Seq(Range(r))
  BY <1>2 DEF Range
<1> QED BY <1>2, <1>3 DEF r, Appends

LEMMA LaidStep ==
    ASSUME NEW b, NEW n \in Nat, NEW files, NEW gone, Laid(b, n, files, gone),
           NEW f \in Tree, f = files[n + 1], b.nameOff < b.base
    PROVE  Laid(AddFile(b, f, gone), n + 1, files, gone)
<1> DEFINE r == AddFile(b, f, gone)
           size == Bytes(PathInArchive(f))
           data == b.base + b.dataOff
           m == Copied(b.mem, data, f, gone)
           e == [size |-> f.size, name |-> b.nameOff, type |-> TypeOf(b.types, f.ext),
                 data |-> b.dataOff]
<1>1. size \in Nat /\ size > 0 /\ f.size \in Nat
  BY PathIsText, TreeAssumption
<1>2. /\ r.types = b.types /\ r.base = b.base /\ r.dataOff = b.dataOff + f.size
      /\ r.nameOff = b.nameOff + size
      /\ r.entries = Append(b.entries, e)
      /\ r.mem = Put(m, b.nameOff, PathInArchive(f))
  BY DEF AddFile
<1>3. b.base \in Nat /\ b.nameOff \in Nat /\ b.dataOff \in Nat /\ data \in Nat
      /\ DOMAIN b.mem \subseteq 0..(b.nameOff - 1) \cup b.base..(b.base + b.dataOff - 1)
  BY DEF Laid
<1>4. /\ e.size = f.size /\ e.name = b.nameOff /\ e.type = TypeOf(b.types, f.ext)
      /\ e.data = b.dataOff
  OBVIOUS
<1> HIDE DEF r, size, m, e
<1>5. Copies(m, b.mem, data, f, gone)
  <2>1. \A x \in DOMAIN b.mem : x \notin data..(data + f.size - 1)
    BY <1>1, <1>3
  <2> HIDE DEF data
  <2> QED BY <1>3, <2>1, CopiedIs DEF m
<1>6. /\ DOMAIN m = DOMAIN b.mem \cup data..(data + f.size - 1)
      /\ \A x \in DOMAIN b.mem : m[x] = b.mem[x]
      /\ \A k \in 0..(f.size - 1) : m[data + k] = Byte(f, k, gone)
  BY <1>5, Zenon DEF Copies
<1>7. b.nameOff \notin DOMAIN m
  BY <1>1, <1>3, <1>6
<1>8. Puts(r.mem, m, b.nameOff, PathInArchive(f))
  BY <1>2, PutIs, Zenon
<1>9. /\ DOMAIN r.mem = DOMAIN m \cup {b.nameOff} /\ r.mem[b.nameOff] = PathInArchive(f)
      /\ \A x \in DOMAIN m : r.mem[x] = m[x]
  <2>1. \A x \in DOMAIN m : x # b.nameOff
    BY <1>7
  <2> QED BY <1>8, <2>1, Zenon DEF Puts
<1>10. \A x \in DOMAIN b.mem : x \in DOMAIN r.mem /\ r.mem[x] = b.mem[x]
  BY <1>6, <1>9
<1>11. r.base \in Nat /\ r.nameOff \in Nat /\ r.dataOff \in Nat
  BY <1>1, <1>2, <1>3, SMTT(30)
<1>12. /\ DOMAIN r.entries = 1..(n + 1) /\ r.entries \in Seq(Range(r.entries))
       /\ r.entries[n + 1] = e
       /\ \A i \in 1..n : r.entries[i] = b.entries[i]
  <2>1. DOMAIN b.entries = 1..n /\ b.entries \in Seq(Range(b.entries))
    BY DEF Laid
  <2>2. Appends(r.entries, b.entries, n, e)
    BY <1>2, <2>1, AppendIs, Zenon
  <2> QED BY <2>2, Zenon DEF Appends
<1>13. DOMAIN r.mem \subseteq 0..(r.nameOff - 1) \cup r.base..(r.base + r.dataOff - 1)
  <2> SUFFICES ASSUME NEW x \in DOMAIN r.mem
               PROVE  x \in 0..(r.nameOff - 1) \/ x \in r.base..(r.base + r.dataOff - 1)
    OBVIOUS
  <2>1. x \in DOMAIN b.mem \/ x \in data..(data + f.size - 1) \/ x = b.nameOff
    BY <1>6, <1>9
  <2>2. CASE x \in DOMAIN b.mem
    <3>1. x \in 0..(b.nameOff - 1) \/ x \in b.base..(b.base + b.dataOff - 1)
      BY <1>3, <2>2
    <3>2. r.nameOff = b.nameOff + size /\ r.base = b.base /\ r.dataOff = b.dataOff + f.size
      BY <1>2
    <3> HIDE DEF data
    <3> QED BY <1>1, <1>3, <3>1, <3>2
  <2>3. CASE x \in data..(data + f.size - 1)
    <3>1. r.base = b.base /\ r.dataOff = b.dataOff + f.size
      BY <1>2
    <3> QED BY <1>1, <1>3, <2>3, <3>1
  <2>4. CASE x = b.nameOff
    BY <1>1, <1>2, <1>3, <2>4
  <2> QED BY <2>1, <2>2, <2>3, <2>4
<1>14. /\ DOMAIN r.types = {ContentTypes[i][1] : i \in 1..TypeCount}
       /\ \A i \in 1..TypeCount : /\ r.types[ContentTypes[i][1]] \in DOMAIN r.mem
                             /\ r.mem[r.types[ContentTypes[i][1]]] = <<ContentTypes[i][2]>>
  BY <1>2, <1>10, Zenon DEF Laid
<1>15. ASSUME NEW i \in 1..(n + 1) PROVE Entered(r, i, files[i], gone)
  <2>1. CASE i = n + 1
    <3>1. \A k \in 0..(f.size - 1) : /\ data + k \in DOMAIN r.mem
                                     /\ r.mem[data + k] = Byte(f, k, gone)
      <4>1. \A k \in 0..(f.size - 1) : data + k \in data..(data + f.size - 1)
        BY <1>1, <1>3
      <4> HIDE DEF data
      <4> QED BY <1>6, <1>9, <4>1
    <3>2. r.entries[i] = e /\ files[i] = f
      BY <1>12, <2>1
    <3> QED BY <1>2, <1>3, <1>4, <1>9, <3>1, <3>2 DEF Entered
  <2>2. CASE i # n + 1
    <3>1. i \in 1..n
      BY <2>2
    <3>2. Entered(b, i, files[i], gone)
      BY <3>1 DEF Laid
    <3>3. r.entries[i] = b.entries[i]
      BY <1>12, <3>1
    <3> QED BY <1>2, <1>10, <3>2, <3>3 DEF Entered
  <2> QED BY <2>1, <2>2
<1> QED BY <1>11, <1>12, <1>13, <1>14, <1>15 DEF Laid, r

\* Offsets that grow at each step grow from any of them to the last.
LEMMA Growing ==
    ASSUME NEW N \in Nat, NEW off \in [0..N -> Nat],
           \A k \in 0..(N - 1) : off[k] < off[k + 1],
           NEW n \in 0..(N - 1)
    PROVE  off[n] < off[N]
<1> DEFINE T == {k \in Nat : n + 1 + k <= N => off[n] < off[n + 1 + k]}
<1>1. 0 \in T
  OBVIOUS
<1>2. ASSUME NEW k \in Nat, k \in T PROVE k + 1 \in T
  <2>1. CASE n + 1 + (k + 1) <= N
    <3> DEFINE m == n + 1 + k
    <3>1. m \in 0..(N - 1) /\ m + 1 \in 0..N /\ m \in 0..N /\ n \in 0..N /\ m + 1 = n + 1 + (k + 1)
      BY <1>2, <2>1
    <3>2. off[n] < off[m]
      BY <1>2, <3>1
    <3>3. off[m] < off[m + 1] /\ off[n] \in Nat /\ off[m] \in Nat /\ off[m + 1] \in Nat
      BY <3>1
    <3>4. off[n] < off[m + 1]
      <4> HIDE DEF m
      <4> QED BY <3>2, <3>3
    <3> QED BY <1>2, <3>1, <3>4
  <2> QED BY <1>2, <2>1
<1>3. N - 1 - n \in Nat /\ n + 1 + (N - 1 - n) = N
  OBVIOUS
<1>4. N - 1 - n \in T
  <2> HIDE DEF T
  <2> QED BY <1>1, <1>2, <1>3, Induction
<1> QED BY <1>3, <1>4

\* The builder has checked that the names end where the data begins, and each
\* path takes room: the name of every file is written before the data.
LEMMA NamesGrow ==
    ASSUME NEW files, Len(files) \in Nat, \A i \in 1..Len(files) : files[i] \in Tree,
           NEW b, b.nameOff \in Nat, NEW gone, NEW g, Fills(g, b, files, gone, Len(files))
    PROVE  /\ g[Len(files)].nameOff \in Nat
           /\ \A n \in 0..(Len(files) - 1) : g[n].nameOff < g[Len(files)].nameOff
<1> DEFINE N == Len(files)
           off == [k \in 0..N |-> g[k].nameOff]
           U == {k \in Nat : k <= N => g[k].nameOff \in Nat}
<1>1. ASSUME NEW k \in 0..(N - 1)
      PROVE  \E size \in Nat : size > 0 /\ g[k + 1].nameOff = g[k].nameOff + size
  <2>1. g[k + 1] = AddFile(g[k], files[k + 1], gone)
    BY <1>1 DEF Fills
  <2>2. files[k + 1] \in Tree
    BY <1>1
  <2>3. g[k + 1].nameOff = g[k].nameOff + Bytes(PathInArchive(files[k + 1]))
    BY <2>1 DEF AddFile
  <2> QED BY <2>2, <2>3, PathIsText
<1>2. \A k \in 0..N : g[k].nameOff \in Nat
  <2>1. 0 \in U
    BY DEF Fills
  <2>2. ASSUME NEW k \in Nat, k \in U PROVE k + 1 \in U
    <3>1. CASE k + 1 <= N
      <4>1. k \in 0..(N - 1) /\ g[k].nameOff \in Nat
        BY <2>2, <3>1
      <4> QED BY <1>1, <4>1
    <3> QED BY <2>2, <3>1
  <2>3. \A k \in Nat : k \in U
    <3> HIDE DEF U
    <3> QED BY <2>1, <2>2, Induction
  <2> QED BY <2>3
<1>3. off \in [0..N -> Nat]
  BY <1>2
<1>4. \A k \in 0..(N - 1) : off[k] < off[k + 1]
  <2> TAKE k \in 0..(N - 1)
  <2>1. k \in 0..N /\ k + 1 \in 0..N
    OBVIOUS
  <2>2. off[k] = g[k].nameOff /\ off[k + 1] = g[k + 1].nameOff /\ g[k].nameOff \in Nat
    BY <1>2, <2>1
  <2> QED BY <1>1, <2>2
<1>5. \A n \in 0..(N - 1) : off[n] < off[N]
  <2> HIDE DEF off, N
  <2> QED BY <1>3, <1>4, Growing DEF N
<1>6. N \in 0..N /\ \A n \in 0..(N - 1) : n \in 0..N
  OBVIOUS
<1> QED BY <1>2, <1>5, <1>6

LEMMA BuildLays ==
    ASSUME NEW files, Len(files) \in Nat, \A i \in 1..Len(files) : files[i] \in Tree,
           NEW gone, Consistent(files, Build(files, gone))
    PROVE  Laid(Build(files, gone), Len(files), files, gone)
<1> DEFINE N == Len(files)
<1>1. PICK t, g : /\ Types(t, files, TypeCount) /\ Fills(g, t[TypeCount], files, gone, N)
                  /\ Build(files, gone) = g[N]
  BY BuildIs, Zenon
<1>2. TypesLaid(t[TypeCount], TypeCount) /\ t[TypeCount].base = NameBlockSize(files)
  BY <1>1, TypesAreLaid
<1> DEFINE b == t[TypeCount]
<1>3. g[N].nameOff = g[N].base
  BY <1>1 DEF Consistent
<1>4. \A k \in 0..N : g[k].base = b.base
  <2> DEFINE T == {k \in Nat : k <= N => g[k].base = b.base}
  <2>1. 0 \in T
    BY <1>1 DEF Fills
  <2>2. ASSUME NEW k \in Nat, k \in T PROVE k + 1 \in T
    <3>1. CASE k + 1 <= N
      <4>1. k \in 0..(N - 1) /\ g[k].base = b.base
        BY <2>2, <3>1
      <4>2. g[k + 1] = AddFile(g[k], files[k + 1], gone)
        BY <1>1, <4>1 DEF Fills
      <4> QED BY <2>2, <4>1, <4>2 DEF AddFile
    <3> QED BY <2>2, <3>1
  <2>3. \A k \in Nat : k \in T
    <3> HIDE DEF T
    <3> QED BY <2>1, <2>2, Induction
  <2> QED BY <2>3
<1>5. b.nameOff \in Nat /\ g[0] = b
  BY <1>1, <1>2 DEF TypesLaid, Fills
<1>6. g[N].nameOff \in Nat /\ \A k \in 0..(N - 1) : g[k].nameOff < g[N].nameOff
  <2> HIDE DEF b
  <2> QED BY <1>1, <1>5, NamesGrow DEF b
<1>7. b.base \in Nat /\ \A k \in 0..(N - 1) : g[k].nameOff < g[k].base
  <2>1. N \in 0..N /\ \A k \in 0..(N - 1) : k \in 0..N
    OBVIOUS
  <2> QED BY <1>3, <1>4, <1>6, <2>1
<1>8. Laid(g[0], 0, files, gone)
  <2>1. 1..0 = {} /\ <<>> \in Seq(Range(<<>>)) /\ DOMAIN <<>> = {}
    OBVIOUS
  <2>2. /\ b.entries = <<>> /\ b.dataOff = 0 /\ b.nameOff \in Nat
        /\ DOMAIN b.mem \subseteq 0..(b.nameOff - 1)
        /\ DOMAIN b.types = {ContentTypes[i][1] : i \in 1..TypeCount}
        /\ \A i \in 1..TypeCount : /\ b.types[ContentTypes[i][1]] \in DOMAIN b.mem
                              /\ b.mem[b.types[ContentTypes[i][1]]] = <<ContentTypes[i][2]>>
    BY <1>2, Zenon DEF TypesLaid
  <2>3. DOMAIN b.mem \subseteq 0..(b.nameOff - 1) \cup b.base..(b.base + b.dataOff - 1)
    BY <2>2
  <2>4. DOMAIN b.entries = 1..0 /\ b.entries \in Seq(Range(b.entries)) /\ b.dataOff \in Nat
    BY <2>1, <2>2
  <2>5. \A i \in 1..0 : Entered(b, i, files[i], gone)
    BY <2>1
  <2> HIDE DEF b
  <2>6. Laid(b, 0, files, gone)
    BY <1>7, <2>2, <2>3, <2>4, <2>5, Zenon DEF Laid
  <2> QED BY <1>5, <2>6, Zenon
<1> DEFINE T == {k \in Nat : k <= N => Laid(g[k], k, files, gone)}
<1>9. 0 \in T
  BY <1>8
<1>10. ASSUME NEW k \in Nat, k \in T PROVE k + 1 \in T
  <2>1. CASE k + 1 <= N
    <3>1. k \in 0..(N - 1) /\ Laid(g[k], k, files, gone) /\ files[k + 1] \in Tree
      BY <1>10, <2>1
    <3>2. g[k + 1] = AddFile(g[k], files[k + 1], gone)
      BY <1>1, <3>1 DEF Fills
    <3> QED BY <1>7, <1>10, <3>1, <3>2, LaidStep
  <2> QED BY <1>10, <2>1
<1>11. N \in T
  <2> HIDE DEF T
  <2> QED BY <1>9, <1>10, Induction
<1> QED BY <1>1, <1>11

-----------------------------------------------------------------------------
(* What the reader finds in it                                              *)

\* The builder lists each file once.
LEMMA ListingIs ==
    ASSUME NEW files \in Listings
    PROVE  /\ Len(files) \in Nat /\ \A i \in 1..Len(files) : files[i] \in Tree
           /\ \A i, j \in 1..Len(files) : files[i] = files[j] => i = j
           /\ \A f \in Tree : \E i \in 1..Len(files) : files[i] = f
<1> DEFINE n == Cardinality(Tree)
<1>1. n \in Nat /\ IsFiniteSet(Tree)
  BY TreeAssumption, FS_CardinalityType
<1>2. files \in [1..n -> Tree] /\ \A i, j \in 1..n : i # j => files[i] # files[j]
  BY DEF Listings, SetToSeqs
<1>3. IsFiniteSet(1..n) /\ Cardinality(1..n) = n
  BY <1>1, FS_Interval
<1>4. Len(files) = n
  BY <1>1, <1>2
<1>5. files \in Injection(1..n, Tree)
  BY <1>2 DEF Injection, IsInjective
<1>6. files \in Surjection(1..n, Tree)
  BY <1>1, <1>3, <1>5, FS_Injection
<1> QED BY <1>1, <1>2, <1>4, <1>6 DEF Surjection

\* The content type of a file is found by its extension.
LEMMA TypeIsMeant ==
    ASSUME NEW b, NEW n \in Nat, NEW files, NEW missing, Laid(b, n, files, missing),
           NEW f \in Tree
    PROVE  b.mem[TypeOf(b.types, f.ext)][1] = MeantType(f)
<1>1. DOMAIN b.types = {ContentTypes[i][1] : i \in 1..TypeCount}
  BY DEF Laid
<1>2. ASSUME NEW i \in 1..TypeCount
      PROVE  b.mem[b.types[ContentTypes[i][1]]][1] = ContentTypes[i][2]
  BY <1>2 DEF Laid
<1>3. Range(ContentTypes) = {ContentTypes[i] : i \in 1..TypeCount}
  BY DEF Range, ContentTypes, TypeCount
<1>4. CASE \E i \in 1..TypeCount : ContentTypes[i][1] = f.ext
  <2>1. PICK i \in 1..TypeCount : ContentTypes[i][1] = f.ext
    BY <1>4
  <2>2. TypeOf(b.types, f.ext) = b.types[f.ext]
    BY <1>1, <2>1 DEF TypeOf
  <2>3. MeantType(f) = ContentTypes[i][2]
    <3>1. \A ct \in Range(ContentTypes) : ct[1] = f.ext => ct = ContentTypes[i]
      BY <1>3, <2>1, ExtsDiffer DEF TypeCount
    <3>2. ContentTypes[i] \in Range(ContentTypes) /\ ContentTypes[i][1] = f.ext
      BY <1>3, <2>1
    <3>3. (CHOOSE ct \in Range(ContentTypes) : ct[1] = f.ext) = ContentTypes[i]
      BY <3>1, <3>2
    <3> QED BY <3>2, <3>3, Zenon DEF MeantType
  <2> QED BY <1>2, <2>1, <2>2, <2>3
<1>5. CASE ~\E i \in 1..TypeCount : ContentTypes[i][1] = f.ext
  <2>1. TypeOf(b.types, f.ext) = b.types[".html"]
    BY <1>1, <1>5 DEF TypeOf
  <2>2. MeantType(f) = "text/html"
    BY <1>3, <1>5 DEF MeantType
  <2>3. 3 \in 1..TypeCount /\ ContentTypes[3][1] = ".html" /\ ContentTypes[3][2] = "text/html"
    BY ExtsDiffer DEF TypeCount
  <2>4. b.mem[b.types[".html"]][1] = "text/html"
    BY <1>2, <2>3
  <2> QED BY <2>1, <2>2, <2>4
<1> QED BY <1>4, <1>5

\* What the reader finds under the path of a file is that file.
IsFound(r, f, missing) ==
    /\ r.found /\ r.type = MeantType(f)
    /\ r.content = [k \in 1..f.size |-> Byte(f, k - 1, missing)]

LEMMA RetrievedIs ==
    ASSUME NEW files \in Listings, NEW missing, Consistent(files, Build(files, missing)),
           NEW f \in Tree
    PROVE  IsFound(Retrieve(Build(files, missing), PathInArchive(f)), f, missing)
<1> DEFINE b == Build(files, missing)
           N == Len(files)
           named == {i \in DOMAIN b.entries : NameAt(b, b.entries[i]) = PathInArchive(f)}
<1>1. /\ N \in Nat /\ \A i \in 1..N : files[i] \in Tree
      /\ \A i, j \in 1..N : files[i] = files[j] => i = j
      /\ \E i \in 1..N : files[i] = f
  BY ListingIs
<1>2. Laid(b, N, files, missing)
  BY <1>1, BuildLays
<1> HIDE DEF b
<1>3. b.base \in Nat /\ DOMAIN b.entries = 1..N /\ \A i \in 1..N : Entered(b, i, files[i], missing)
  BY <1>2 DEF Laid
<1>4. PICK i \in 1..N : files[i] = f
  BY <1>1
<1>5. \A j \in 1..N : NameAt(b, b.entries[j]) = PathInArchive(files[j])
  BY <1>3 DEF Entered, NameAt
<1>6. named = {i}
  <2>1. ASSUME NEW j \in 1..N, PathInArchive(files[j]) = PathInArchive(f) PROVE j = i
    BY <1>1, <1>4, <2>1, PathsDiffer
  <2> QED BY <1>3, <1>4, <1>5, <2>1
<1>7. (CHOOSE j \in named : \A l \in named : j <= l) = i
  BY <1>4, <1>6
<1> DEFINE e == b.entries[i]
<1>8. Retrieve(b, PathInArchive(f))
        = [found |-> TRUE, type |-> b.mem[e.type][1],
           content |-> [k \in 1..e.size |-> b.mem[b.base + e.data + k - 1]]]
  <2> DEFINE c == CHOOSE j \in named : \A l \in named : j <= l
  <2>1. named # {} /\ c = i
    BY <1>6, <1>7
  <2>2. Retrieve(b, PathInArchive(f))
          = IF named = {} THEN [found |-> FALSE]
            ELSE [found |-> TRUE, type |-> b.mem[b.entries[c].type][1],
                  content |-> [k \in 1..b.entries[c].size |->
                                 b.mem[b.base + b.entries[c].data + k - 1]]]
    BY DEF Retrieve
  <2> HIDE DEF c, named
  <2> QED BY <2>1, <2>2
<1>9. /\ e.size = f.size /\ e.type = TypeOf(b.types, f.ext) /\ e.data \in Nat
      /\ \A k \in 0..(f.size - 1) : b.mem[b.base + e.data + k] = Byte(f, k, missing)
  BY <1>3, <1>4 DEF Entered
<1>10. b.mem[e.type][1] = MeantType(f)
  <2>1. b.mem[TypeOf(b.types, f.ext)][1] = MeantType(f)
    BY <1>1, <1>2, TypeIsMeant
  <2> QED BY <1>9, <2>1
<1>11. ASSUME NEW k \in 1..f.size
       PROVE  b.mem[b.base + e.data + k - 1] = Byte(f, k - 1, missing)
  <2>1. f.size \in Nat
    BY TreeAssumption
  <2>2. k - 1 \in 0..(f.size - 1) /\ b.base + e.data + k - 1 = b.base + e.data + (k - 1)
    BY <1>3, <1>9, <2>1
  <2> QED BY <1>9, <2>2
<1>12. [k \in 1..e.size |-> b.mem[b.base + e.data + k - 1]]
         = [k \in 1..f.size |-> Byte(f, k - 1, missing)]
  BY <1>9, <1>11
<1> QED BY <1>8, <1>10, <1>12 DEF IsFound, b

\* Nothing else is found.
LEMMA OnlyFiles ==
    ASSUME NEW files \in Listings, NEW missing, Consistent(files, Build(files, missing)),
           NEW p, Retrieve(Build(files, missing), p).found
    PROVE  \E f \in Tree : p = PathInArchive(f)
<1> DEFINE b == Build(files, missing)
           N == Len(files)
           named == {i \in DOMAIN b.entries : NameAt(b, b.entries[i]) = p}
<1>1. N \in Nat /\ \A i \in 1..N : files[i] \in Tree
  BY ListingIs
<1>2. Laid(b, N, files, missing)
  BY <1>1, BuildLays
<1> HIDE DEF b
<1>3. DOMAIN b.entries = 1..N /\ \A i \in 1..N : Entered(b, i, files[i], missing)
  BY <1>2 DEF Laid
<1>4. PICK i \in 1..N : NameAt(b, b.entries[i]) = p
  <2>1. named = {} => Retrieve(b, p) = [found |-> FALSE]
    BY DEF Retrieve
  <2>2. named # {}
    <3> HIDE DEF named
    <3> QED BY <2>1 DEF b
  <2> QED BY <1>3, <2>2
<1> QED BY <1>1, <1>3, <1>4 DEF Entered, NameAt

-----------------------------------------------------------------------------
(* What is served                                                           *)

\* Every path of the image leads to what was packed under it.
Packed ==
    \A p : LET r == Retrieve(image, p) IN
      /\ r.found => \E f \in Tree : p = PathInArchive(f)
      /\ \A f \in Tree : p = PathInArchive(f) => IsFound(r, f, unread)

\* What has arrived is how the reply begins.
Arrived ==
    /\ reply.data \in Seq(Range(reply.data)) /\ got \in Seq(Range(reply.data))
    /\ BeginsWith(reply.data, got)

\* A final answer to the path of a file is that file.
Meaning ==
    reply.code \in {200, 404} =>
      \A f \in Tree : path = PathInArchive(f) => reply.code = 200 /\ reply.data = Meant(f)

\* A reply exists from the moment it is sent, and the browser has it all at the end.
ServedInv ==
    /\ Packed /\ Arrived /\ Meaning
    /\ IF pc \in {"receive", "broken", "done"} THEN reply.code \in {200, 302, 404}
       ELSE reply = NoReply /\ got = <<>>
    /\ pc = "done" => reply.code \in {200, 404} /\ Len(got) = Len(reply.data)

LEMMA OwnRange == ASSUME NEW T, NEW u \in Seq(T) PROVE u \in Seq(Range(u))
<1>1. Len(u) \in Nat /\ DOMAIN u = 1..Len(u) /\ u = [i \in 1..Len(u) |-> u[i]]
  OBVIOUS
<1>2. \A i \in 1..Len(u) : u[i] \in Range(u)
  BY <1>1 DEF Range
<1> QED BY <1>1, <1>2

LEMMA SameMeaning ==
    ASSUME Meaning, UNCHANGED <<path, unread, reply>>
    PROVE  Meaning'
<1>1. \A f \in Tree : Meant(f)' = Meant(f)
  BY DEF Meant
<1> QED BY <1>1 DEF Meaning

\* a answers a request for p.
IsAnswer(a, p) ==
    /\ a.code \in {200, 404} /\ a.data \in Seq(Range(a.data))
    /\ \A f \in Tree : p = PathInArchive(f) => a.code = 200 /\ a.data = Meant(f)

LEMMA AnswerIs ==
    ASSUME Packed, NEW p
    PROVE  IsAnswer(Answer(p), p)
<1> DEFINE r == Retrieve(image, p)
           a == Answer(p)
<1>1. a = IF r.found
          THEN [code |-> 200, location |-> <<>>,
                data |-> Header(r.type, Len(r.content)) \o r.content]
          ELSE [code |-> 404, location |-> <<>>, data |-> << <<"404", 0>> >>]
  BY DEF Answer
<1>2. /\ r.found => \E f \in Tree : p = PathInArchive(f)
      /\ \A f \in Tree : p = PathInArchive(f) => IsFound(r, f, unread)
  BY DEF Packed
<1> HIDE DEF r, a
<1>3. ASSUME NEW f \in Tree, p = PathInArchive(f)
      PROVE  a.code = 200 /\ a.data = Meant(f) /\ Meant(f) \in Seq(Range(Meant(f)))
  <2> DEFINE content == [k \in 1..f.size |-> Byte(f, k - 1, unread)]
             header == Header(MeantType(f), f.size)
             S == Range(content) \cup Range(header)
  <2>1. f.size \in Nat
    BY TreeAssumption
  <2>2. Len(content) = f.size /\ content \in Seq(S) /\ header \in Seq(S)
    <3>1. /\ DOMAIN content = 1..f.size /\ content = [k \in 1..f.size |-> content[k]]
          /\ \A k \in 1..f.size : content[k] \in S
      BY DEF Range
    <3>2. Len(header) = 1 /\ header = <<header[1]>> /\ header[1] \in S
      BY DEF Range, Header
    <3> HIDE DEF content, header, S
    <3>3. content \in [1..f.size -> S]
      BY <3>1
    <3>4. content \in Seq(S) /\ Len(content) = f.size
      BY <2>1, <3>3
    <3>5. header \in Seq(S)
      <4>1. \A x \in S : <<x>> \in Seq(S)
        OBVIOUS
      <4> QED BY <3>2, <4>1, Zenon
    <3> QED BY <3>4, <3>5
  <2>3. r.found /\ r.type = MeantType(f) /\ r.content = content
    BY <1>2, <1>3 DEF IsFound
  <2>4. a.code = 200 /\ a.data = header \o content
    <3> HIDE DEF content
    <3> QED BY <1>1, <2>2, <2>3
  <2>5. Meant(f) = header \o content
    BY DEF Meant
  <2>6. \A T : \A s, t \in Seq(T) : s \o t \in Seq(Range(s \o t))
    <3> SUFFICES ASSUME NEW T, NEW s \in Seq(T), NEW t \in Seq(T)
                 PROVE  s \o t \in Seq(Range(s \o t))
      OBVIOUS
    <3>1. s \o t \in Seq(T)
      OBVIOUS
    <3> QED BY <3>1, OwnRange
  <2> HIDE DEF content, header, S
  <2>7. header \o content \in Seq(Range(header \o content))
    BY <2>2, <2>6, Zenon
  <2> QED BY <2>4, <2>5, <2>7, Zenon
<1>4. CASE r.found
  <2>1. PICK f \in Tree : p = PathInArchive(f)
    BY <1>2, <1>4
  <2>2. a.code = 200 /\ a.data = Meant(f) /\ Meant(f) \in Seq(Range(Meant(f)))
    BY <1>3, <2>1
  <2>3. a.code \in {200, 404} /\ a.data \in Seq(Range(a.data))
    BY <2>2
  <2>4. \A g \in Tree : p = PathInArchive(g) => a.code = 200 /\ a.data = Meant(g)
    BY <1>3
  <2> QED BY <2>3, <2>4, Zenon DEF IsAnswer, a
<1>5. CASE ~r.found
  <2>1. a.code = 404 /\ a.data = << <<"404", 0>> >>
    BY <1>1, <1>5
  <2>2. << <<"404", 0>> >> \in Seq(Range(<< <<"404", 0>> >>))
    BY DEF Range
  <2>3. \A f \in Tree : p # PathInArchive(f)
    BY <1>2, <1>5 DEF IsFound
  <2>4. a.code \in {200, 404} /\ a.data \in Seq(Range(a.data))
    BY <2>1, <2>2
  <2> QED BY <2>3, <2>4, Zenon DEF IsAnswer, a
<1> QED BY <1>4, <1>5

LEMMA ServedInit == Init => ServedInv
<1> SUFFICES ASSUME Init PROVE ServedInv
  OBVIOUS
<1>1. PICK files \in Listings : image = Build(files, unread) /\ Consistent(files, image)
  BY DEF Init
<1>2. Packed
  <2> SUFFICES ASSUME NEW p
               PROVE  /\ Retrieve(image, p).found => \E f \in Tree : p = PathInArchive(f)
                      /\ \A f \in Tree : p = PathInArchive(f) => IsFound(Retrieve(image, p), f, unread)
    BY DEF Packed
  <2>1. Retrieve(image, p).found => \E f \in Tree : p = PathInArchive(f)
    BY <1>1, OnlyFiles
  <2>2. ASSUME NEW f \in Tree, p = PathInArchive(f)
        PROVE  IsFound(Retrieve(image, p), f, unread)
    BY <1>1, <2>2, RetrievedIs
  <2> QED BY <2>1, <2>2
<1>3. reply = NoReply /\ got = <<>> /\ pc = "idle"
  BY DEF Init
<1>4. Arrived
  <2>1. <<>> \in Seq(Range(<<>>)) /\ BeginsWith(<<>>, <<>>)
    BY DEF BeginsWith
  <2> QED BY <1>3, <2>1 DEF Arrived, NoReply
<1> QED BY <1>2, <1>3, <1>4 DEF ServedInv, Meaning, NoReply

LEMMA ServedStep == ServedInv /\ [Next]_vars => ServedInv'
<1> SUFFICES ASSUME ServedInv, [Next]_vars PROVE ServedInv'
  OBVIOUS
<1> USE DEF ServedInv
<1>1. Packed'
  <2>1. UNCHANGED <<image, unread>>
    BY DEF Next, Serve, Ask, Query, Request, Send, SendFail, Received, Leave, Store, Arm,
           Watchdog, Restart, web, vars
  <2>2. Packed
    OBVIOUS
  <2> QED BY <2>1, <2>2 DEF Packed
<1>2. NoReply.data = <<>> /\ NoReply.code = 0
      /\ <<>> \in Seq(Range(<<>>)) /\ BeginsWith(<<>>, <<>>)
  BY DEF NoReply, BeginsWith
<1>3. CASE reply' = NoReply /\ got' = <<>> /\ pc' \notin {"receive", "broken", "done"}
  <2>1. Arrived'
    <3>1. reply'.data = <<>> /\ got' = <<>>
      BY <1>2, <1>3
    <3> QED BY <1>2, <3>1, ZenonT(30) DEF Arrived
  <2>2. Meaning'
    BY <1>2, <1>3 DEF Meaning
  <2>3. (IF pc \in {"receive", "broken", "done"} THEN reply.code \in {200, 302, 404}
        ELSE reply = NoReply /\ got = <<>>)'
    BY <1>3
  <2> QED BY <1>1, <1>3, <2>1, <2>2, <2>3
<1>4. CASE UNCHANGED <<pc, path, unread, reply, got>>
  <2>1. Arrived' /\ (Meaning')
    BY <1>4, SameMeaning DEF Arrived
  <2> QED BY <1>1, <1>4, <2>1
<1>5. CASE Ask
  BY <1>3, <1>5 DEF Ask
<1>6. ASSUME NEW kind \in QueryKinds, Query(kind) PROVE ServedInv'
  <2>1. pc' \in {"again", "nowhere", "connect"} /\ UNCHANGED <<reply, got>>
        /\ pc \in {"resolve", "again"}
    BY <1>6 DEF Query
  <2> QED BY <1>3, <2>1
<1>7. CASE Request
  <2>1. /\ pc = "connect" /\ pc' = "receive" /\ UNCHANGED <<path, unread, got>>
        /\ reply' = Answer(path) \/ reply' = Redirect(flash)
    BY <1>7 DEF Request, Goto, request, web
  <2>2. got' = <<>>
    BY <2>1
  <2>3. reply'.data \in Seq(Range(reply'.data)) /\ Meaning' /\ reply'.code \in {200, 302, 404}
    <3>1. CASE reply' = Answer(path)
      <4> DEFINE a == Answer(path)
      <4>1. /\ a.code \in {200, 404} /\ a.data \in Seq(Range(a.data))
            /\ \A f \in Tree : path = PathInArchive(f) => a.code = 200 /\ a.data = Meant(f)
        BY AnswerIs DEF IsAnswer
      <4>2. \A f \in Tree : Meant(f)' = Meant(f)
        BY <2>1 DEF Meant
      <4> HIDE DEF a
      <4> QED BY <2>1, <3>1, <4>1, <4>2 DEF Meaning, a
    <3>2. CASE reply' = Redirect(flash)
      <4>1. Redirect(flash).code = 302 /\ Redirect(flash).data = << <<"302", 0>> >>
        BY DEF Redirect
      <4>2. << <<"302", 0>> >> \in Seq(Range(<< <<"302", 0>> >>))
        BY DEF Range
      <4> QED BY <3>2, <4>1, <4>2 DEF Meaning
    <3> QED BY <2>1, <3>1, <3>2
  <2>4. Arrived'
    BY <2>2, <2>3 DEF Arrived, BeginsWith
  <2> QED BY <1>1, <2>1, <2>3, <2>4
<1>8. CASE Send
  <2>1. PICK k \in 1..(Len(reply.data) - Len(got)) : got' = got \o Chunk(k)
    BY <1>8 DEF Send
  <2>2. pc = "receive" /\ UNCHANGED <<pc, path, unread, reply>>
    BY <1>8 DEF Send, request, web
  <2>3. Arrived'
    <3> DEFINE d == reply.data
               S == Range(d)
    <3>1. d \in Seq(S) /\ got \in Seq(S) /\ Len(got) \in Nat /\ Len(d) \in Nat
          /\ Len(got) <= Len(d) /\ \A j \in 1..Len(got) : got[j] = d[j]
      BY DEF Arrived, BeginsWith
    <3> DEFINE c == SubSeq(d, Len(got) + 1, Len(got) + k)
    <3> HIDE DEF S, d
    <3>2. c \in Seq(S) /\ Len(c) = k /\ \A j \in 1..k : c[j] = d[Len(got) + j]
      BY <2>1, <3>1 DEF d
    <3> HIDE DEF c
    <3>3. got \o c \in Seq(S) /\ IsConcat(got \o c, got, c)
      BY <3>1, <3>2, ConcatIs
    <3>4. BeginsWith(d, got \o c)
      <4> DEFINE u == got \o c
      <4>1. /\ Len(u) = Len(got) + k /\ \A j \in 1..Len(got) : u[j] = got[j]
            /\ \A j \in 1..k : u[Len(got) + j] = c[j]
        BY <3>2, <3>3 DEF IsConcat
      <4> HIDE DEF u
      <4>2. Len(got) + k <= Len(d)
        BY <2>1, <3>1 DEF d
      <4>3. ASSUME NEW j \in 1..Len(u) PROVE u[j] = d[j]
        <5>1. CASE j <= Len(got)
          BY <3>1, <4>1, <4>3, <5>1
        <5>2. CASE j > Len(got)
          <6>1. j - Len(got) \in 1..k /\ Len(got) + (j - Len(got)) = j
            BY <2>1, <3>1, <4>1, <4>3, <5>2
          <6>2. u[Len(got) + (j - Len(got))] = c[j - Len(got)]
                /\ c[j - Len(got)] = d[Len(got) + (j - Len(got))]
            BY <3>2, <4>1, <6>1
          <6> QED BY <6>1, <6>2
        <5> QED BY <3>1, <4>3, <5>1, <5>2
      <4> QED BY <4>1, <4>2, <4>3 DEF BeginsWith, u
    <3> QED BY <2>1, <2>2, <3>1, <3>3, <3>4 DEF Arrived, Chunk, c, d, S
  <2>4. Meaning'
    BY <2>2, SameMeaning
  <2> QED BY <1>1, <2>2, <2>3, <2>4
<1>9. CASE SendFail
  <2>1. pc = "receive" /\ pc' = "broken" /\ UNCHANGED <<path, unread, reply, got>>
    BY <1>9 DEF SendFail, request, web
  <2>2. Arrived' /\ (Meaning')
    BY <2>1, SameMeaning DEF Arrived
  <2> QED BY <1>1, <2>1, <2>2
<1>10. CASE Received
  <2>1. CASE reply.code = 302
    BY <1>3, <1>10, <2>1 DEF Received
  <2>2. CASE reply.code # 302
    <3>1. /\ pc = "receive" /\ pc' = "done" /\ Len(got) >= Len(reply.data)
          /\ UNCHANGED <<path, unread, reply, got>>
      BY <1>10, <2>2 DEF Received, web
    <3>2. Len(got) = Len(reply.data)
      <4>1. Len(got) \in Nat /\ Len(reply.data) \in Nat /\ Len(got) <= Len(reply.data)
        BY DEF Arrived, BeginsWith
      <4> QED BY <3>1, <4>1
    <3>3. Arrived' /\ (Meaning')
      BY <3>1, SameMeaning DEF Arrived
    <3> QED BY <1>1, <2>2, <3>1, <3>2, <3>3
  <2> QED BY <2>1, <2>2
<1>11. CASE Leave \/ Restart
  BY <1>3, <1>11 DEF Leave, Restart, Forget
<1>12. CASE Store \/ Arm \/ UNCHANGED vars
  BY <1>4, <1>12 DEF Store, Arm, vars, web, request
<1> QED BY <1>5, <1>6, <1>7, <1>8, <1>9, <1>10, <1>11, <1>12 DEF Next, Serve, Watchdog

\* A file that exists is found under its path, and what arrives of it is the
\* beginning of its header and bytes, all of them if the connection lasts, for
\* any files and every order in which the builder lists them
\* (SimpleFSBuilder.cpp:96-164, main.c:30-63, httpserver.c:137-170).
THEOREM FilesAreServed == Spec => []ServedIsPacked
<1>1. ASSUME ServedInv PROVE ServedIsPacked
  <2> SUFFICES ASSUME NEW f \in Tree, path = PathInArchive(f), reply.code \in {200, 404}
               PROVE  /\ reply.code = 200 /\ IsPrefix(got, Meant(f))
                      /\ pc = "done" => got = Meant(f)
    BY <1>1 DEF ServedInv, ServedIsPacked
  <2>1. reply.code = 200 /\ reply.data = Meant(f)
    BY <1>1 DEF ServedInv, Meaning
  <2> DEFINE d == reply.data
             S == Range(d)
  <2>2. d \in Seq(S) /\ got \in Seq(S) /\ BeginsWith(d, got)
    BY <1>1 DEF ServedInv, Arrived
  <2> HIDE DEF S
  <2>3. IsPrefix(got, d)
    BY <2>2, PrefixIs
  <2>4. CASE pc = "done"
    <3>1. Len(got) = Len(d) /\ \A j \in 1..Len(got) : got[j] = d[j]
      BY <1>1, <2>2, <2>4 DEF ServedInv, BeginsWith
    <3>2. got = d
      <4> HIDE DEF d
      <4> QED BY <2>2, <3>1
    <3> QED BY <2>1, <2>3, <3>2
  <2> QED BY <2>1, <2>3, <2>4
<1> QED BY <1>1, ServedInit, ServedStep, PTL DEF Spec
=============================================================================
