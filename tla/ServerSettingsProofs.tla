------------------------ MODULE ServerSettingsProofs ------------------------
(* Theorems about ServerSettings, for any number of connections and any      *)
(* forms: erased text comes out of a write in one way only, what is typed    *)
(* goes to its own field, and what fits is accepted.                         *)
EXTENDS ServerSettings, SharedLemmas

-----------------------------------------------------------------------------
(* The keys                                                                 *)

AllKeys == {"ssid", "has_password", "password", "hostname", "use_domain", "domain",
            "ipaddr", "netmask", "use_second_ip", "ipaddr2", "dns_ignores_network_suffix"}

NameWords == {"has_", "use_", "2"} \cup AllKeys

LEMMA NameWordsAre == \A w \in NameWords : w \notin Marks
BY Zenon DEF NameWords, AllKeys, Marks, Q, Colon, EndMarks, StartMarks

LEMMA NamesAre ==
    ASSUME NEW k \in AllKeys
    PROVE  /\ Spelled(k) \in Seq(NameWords) /\ Len(Spelled(k)) \in {1, 2}
           /\ k = "has_password" => Spelled(k) = <<"has_", "password">>
           /\ k = "use_domain" => Spelled(k) = <<"use_", "domain">>
           /\ k = "ipaddr2" => Spelled(k) = <<"ipaddr", "2">>
           /\ k \notin {"has_password", "use_domain", "ipaddr2"} => Spelled(k) = <<k>>
<1>1. /\ k = "has_password" => Spelled(k) = <<"has_", "password">>
      /\ k = "use_domain" => Spelled(k) = <<"use_", "domain">>
      /\ k = "ipaddr2" => Spelled(k) = <<"ipaddr", "2">>
      /\ k \notin {"has_password", "use_domain", "ipaddr2"} => Spelled(k) = <<k>>
  BY Zenon DEF Spelled
<1>2. {k, "has_", "password", "use_", "domain", "ipaddr", "2"} \subseteq NameWords
  BY Zenon DEF NameWords, AllKeys
<1>3. ASSUME NEW x \in NameWords, NEW y \in NameWords
      PROVE  <<x>> \in Seq(NameWords) /\ <<x, y>> \in Seq(NameWords)
             /\ Len(<<x>>) = 1 /\ Len(<<x, y>>) = 2
  OBVIOUS
<1>4. Spelled(k) \in Seq(NameWords) /\ (Len(Spelled(k)) = 1 \/ Len(Spelled(k)) = 2)
  <2>1. PICK x \in NameWords, y \in NameWords : Spelled(k) = <<x>> \/ Spelled(k) = <<x, y>>
    BY <1>1, <1>2, Zenon
  <2> QED BY <1>3, <2>1, Zenon
<1> QED BY <1>1, <1>4, Zenon

LEMMA NameIs ==
    ASSUME NEW k \in AllKeys
    PROVE  IsName(Spelled(k))
<1>1. Spelled(k) \in Seq(NameWords) /\ Len(Spelled(k)) \in {1, 2}
  BY NamesAre
<1>2. \A j \in 1..Len(Spelled(k)) : Spelled(k)[j] \in NameWords
  BY <1>1
<1>3. \A j \in 1..Len(Spelled(k)) : Spelled(k)[j] \notin Marks
  BY <1>2, NameWordsAre
<1> QED BY <1>1, <1>3 DEF IsName

LEMMA NamesDiffer ==
    ASSUME NEW k \in AllKeys, NEW g \in AllKeys, k # g
    PROVE  ~Same(Spelled(k), Spelled(g))
<1> DEFINE Two == {"has_password", "use_domain", "ipaddr2"}
<1>1. CASE k \in Two /\ g \in Two
  BY <1>1, NamesAre DEF Same
<1>2. CASE k \notin Two /\ g \notin Two
  <2>1. Spelled(k) = <<k>> /\ Spelled(g) = <<g>>
    BY <1>2, NamesAre
  <2> QED BY <2>1 DEF Same
<1>3. \A x \in Two : x \in AllKeys => Len(Spelled(x)) = 2
  BY NamesAre
<1>4. \A x \in AllKeys : x \notin Two => Len(Spelled(x)) = 1
  BY NamesAre
<1>5. CASE k \in Two /\ g \notin Two
  BY <1>3, <1>4, <1>5 DEF Same
<1>6. CASE k \notin Two /\ g \in Two
  BY <1>3, <1>4, <1>6 DEF Same
<1> QED BY <1>1, <1>2, <1>5, <1>6

-----------------------------------------------------------------------------
(* The keys that a run follows, in an order                                 *)

\* r has the kept ones of the first n keys.
Picks(r, order, n) ==
    /\ r \in Seq(Kept)
    /\ \A m \in 1..n : order[m] \in Kept => \E j \in 1..Len(r) : r[j] = order[m]
    /\ \A j \in 1..Len(r) : \E m \in 1..n : order[m] = r[j]
    /\ \A m, j \in 1..Len(r) : r[m] = r[j] => m = j
Distinct(order) == \A m, n \in 1..Len(order) : order[m] = order[n] => m = n

LEMMA PicksNext ==
    ASSUME NEW order, Len(order) \in Nat, Distinct(order), NEW n \in Nat, n + 1 <= Len(order),
           NEW r, Picks(r, order, n)
    PROVE  Picks(IF order[n + 1] \in Kept THEN Append(r, order[n + 1]) ELSE r, order, n + 1)
<1>1. /\ r \in Seq(Kept) /\ Len(r) \in Nat
      /\ \A m \in 1..n : order[m] \in Kept => \E j \in 1..Len(r) : r[j] = order[m]
      /\ \A j \in 1..Len(r) : \E m \in 1..n : order[m] = r[j]
      /\ \A m, j \in 1..Len(r) : r[m] = r[j] => m = j
  BY DEF Picks
<1>2. \A m \in 1..(n + 1) : m = n + 1 \/ m \in 1..n
  OBVIOUS
<1>3. \A m \in 1..n : m \in 1..(n + 1)
  OBVIOUS
<1>4. CASE order[n + 1] \notin Kept
  BY <1>1, <1>2, <1>3, <1>4, Zenon DEF Picks
<1>5. CASE order[n + 1] \in Kept
  <2> DEFINE o == order[n + 1]
             s == Append(r, o)
             N == Len(r)
  <2>1. /\ s \in Seq(Kept) /\ Len(s) = N + 1 /\ s[N + 1] = o
        /\ \A j \in 1..N : s[j] = r[j]
    BY <1>1, <1>5
  <2>2. \A j \in 1..Len(s) : j = N + 1 \/ j \in 1..N
    BY <1>1, <2>1
  <2>3. \A j \in 1..N : j \in 1..Len(s)
    BY <1>1, <2>1
  <2>4. N + 1 \in 1..Len(s) /\ n + 1 \in 1..(n + 1)
    BY <1>1, <2>1
  <2>5. \A j \in 1..N : r[j] # o
    <3> SUFFICES ASSUME NEW j \in 1..N, r[j] = o PROVE FALSE
      OBVIOUS
    <3>1. PICK m \in 1..n : order[m] = r[j]
      BY <1>1
    <3>2. m \in 1..Len(order) /\ n + 1 \in 1..Len(order) /\ m # n + 1
      BY <3>1
    <3> QED BY <3>1, <3>2 DEF Distinct
  <2> HIDE DEF s, N, o
  <2>6. \A m \in 1..(n + 1) : order[m] \in Kept => \E j \in 1..Len(s) : s[j] = order[m]
    <3> SUFFICES ASSUME NEW m \in 1..(n + 1), order[m] \in Kept
                 PROVE  \E j \in 1..Len(s) : s[j] = order[m]
      OBVIOUS
    <3>1. CASE m = n + 1
      BY <2>1, <2>4, <3>1 DEF o
    <3>2. CASE m \in 1..n
      <4>1. PICK j \in 1..N : r[j] = order[m]
        BY <1>1, <3>2 DEF N
      <4> QED BY <2>1, <2>3, <4>1
    <3> QED BY <1>2, <3>1, <3>2
  <2>7. \A j \in 1..Len(s) : \E m \in 1..(n + 1) : order[m] = s[j]
    <3> SUFFICES ASSUME NEW j \in 1..Len(s) PROVE \E m \in 1..(n + 1) : order[m] = s[j]
      OBVIOUS
    <3>1. CASE j = N + 1
      BY <2>1, <2>4, <3>1 DEF o
    <3>2. CASE j \in 1..N
      <4>1. PICK m \in 1..n : order[m] = r[j]
        BY <1>1, <3>2 DEF N
      <4> QED BY <1>3, <2>1, <3>2, <4>1
    <3> QED BY <2>2, <3>1, <3>2
  <2>8. \A m, j \in 1..Len(s) : s[m] = s[j] => m = j
    <3> SUFFICES ASSUME NEW m \in 1..Len(s), NEW j \in 1..Len(s), s[m] = s[j] PROVE m = j
      OBVIOUS
    <3>1. CASE m \in 1..N /\ j \in 1..N
      <4>1. r[m] = r[j]
        BY <2>1, <3>1
      <4> QED BY <1>1, <3>1, <4>1 DEF N
    <3>2. CASE m = N + 1 /\ j \in 1..N
      <4>1. r[j] = o
        BY <2>1, <3>2
      <4> QED BY <2>5, <3>2, <4>1
    <3>3. CASE j = N + 1 /\ m \in 1..N
      <4>1. r[m] = o
        BY <2>1, <3>3
      <4> QED BY <2>5, <3>3, <4>1
    <3> QED BY <2>2, <3>1, <3>2, <3>3
  <2>9. Picks(s, order, n + 1)
    BY <2>1, <2>6, <2>7, <2>8 DEF Picks
  <2> QED BY <1>5, <2>9 DEF s, o
<1> QED BY <1>4, <1>5

LEMMA OnlyIs ==
    ASSUME NEW order, Len(order) \in Nat, Distinct(order)
    PROVE  Picks(Only(order), order, Len(order))
<1> DEFINE N == Len(order)
           next(k, x) == IF order[k + 1] \in Kept THEN Append(x, order[k + 1]) ELSE x
           Grown(u) == u = [n \in 0..N |->
                              IF n = 0 THEN <<>>
                              ELSE IF order[n] \in Kept THEN Append(u[n - 1], order[n])
                                   ELSE u[n - 1]]
           step == [k \in Nat |-> [x \in Seq(Kept) |-> IF k < N THEN next(k, x) ELSE x]]
<1>1. \A k \in Nat, x \in Seq(Kept) : next(k, x) \in Seq(Kept)
  OBVIOUS
<1> HIDE DEF next
<1>2. step \in [Nat -> [Seq(Kept) -> Seq(Kept)]]
  BY <1>1
<1>3. \A k \in Nat, x \in Seq(Kept) : k < N => step[k][x] = next(k, x)
  OBVIOUS
<1> HIDE DEF step
<1>4. <<>> \in Seq(Kept)
  OBVIOUS
<1>5. PICK h \in [Nat -> Seq(Kept)] : RunsBy(h, <<>>, step)
  BY <1>2, <1>4, Recursion, Zenon
<1> DEFINE g == [n \in 0..N |-> h[n]]
<1>6. ASSUME NEW n \in 0..N, n # 0
      PROVE  g[n] = IF order[n] \in Kept THEN Append(g[n - 1], order[n]) ELSE g[n - 1]
  <2> N \in Nat /\ n \in 0..N /\ n # 0
    BY <1>6
  <2>1. n - 1 \in Nat /\ n - 1 < N /\ (n - 1) + 1 = n /\ n - 1 \in 0..N
    BY SMTT(30)
  <2>2. h[(n - 1) + 1] = step[n - 1][h[n - 1]] /\ h[n - 1] \in Seq(Kept)
    BY <1>5, <2>1, Zenon DEF RunsBy
  <2>3. h[n] = next(n - 1, h[n - 1])
    BY <1>3, <2>1, <2>2, Zenon
  <2>4. h[n] = g[n] /\ h[n - 1] = g[n - 1]
    BY <2>1
  <2> HIDE DEF g
  <2> QED BY <2>1, <2>3, <2>4, Zenon DEF next
<1>7. g[0] = <<>> /\ g = [n \in 0..N |-> g[n]]
  <2>1. 0 \in 0..N
    OBVIOUS
  <2>2. h[0] = <<>>
    BY <1>5, Zenon DEF RunsBy
  <2> QED BY <2>1, <2>2
<1> HIDE DEF g
<1>8. Grown(g)
  BY <1>6, <1>7, Zenon
<1>9. Only(order) = (CHOOSE u : Grown(u))[N]
  BY Zenon DEF Only
<1>10. PICK u : Grown(u) /\ u = CHOOSE v : Grown(v)
  <2> HIDE DEF Grown
  <2> QED BY <1>8, Zenon
<1>11. /\ \A n \in 0..N : n # 0 =>
             u[n] = IF order[n] \in Kept THEN Append(u[n - 1], order[n]) ELSE u[n - 1]
       /\ 0 \in 0..N => u[0] = <<>>
  BY <1>10, Zenon
<1> HIDE DEF Grown
<1> DEFINE T == {n \in Nat : n <= N => Picks(u[n], order, n)}
<1>12. 0 \in T
  <2>1. u[0] = <<>>
    BY <1>11
  <2>2. Picks(<<>>, order, 0)
    BY <1>4 DEF Picks
  <2> QED BY <2>1, <2>2
<1>13. ASSUME NEW n \in Nat, n \in T PROVE n + 1 \in T
  <2> SUFFICES ASSUME n + 1 <= N PROVE Picks(u[n + 1], order, n + 1)
    BY <1>13
  <2>1. n + 1 \in 0..N /\ n + 1 # 0 /\ (n + 1) - 1 = n /\ n <= N
    BY SMTT(30)
  <2>2. Picks(u[n], order, n)
    BY <1>13, <2>1
  <2>3. u[n + 1] = IF order[n + 1] \in Kept THEN Append(u[n], order[n + 1]) ELSE u[n]
    BY <1>11, <2>1
  <2> QED BY <2>2, <2>3, PicksNext, Zenon
<1>14. N \in T
  <2> HIDE DEF T
  <2> QED BY <1>12, <1>13, Induction
<1> QED BY <1>9, <1>10, <1>14

LEMMA ParseOrderIs ==
    /\ Len(ParseOrder) = 11 /\ Distinct(ParseOrder)
    /\ \A n \in 1..11 : ParseOrder[n] \in AllKeys
    /\ ToSet(ParseOrder) \subseteq AllKeys
<1>1. Len(ParseOrder) = 11 /\ DOMAIN ParseOrder = 1..11
  BY DEF ParseOrder
<1>2. \A n \in 1..11 : ParseOrder[n] \in AllKeys
  BY DEF ParseOrder, AllKeys
<1>3. Distinct(ParseOrder)
  BY DEF ParseOrder, Distinct
<1> QED BY <1>1, <1>2, <1>3 DEF ToSet

LEMMA FormOrderIs ==
    /\ Len(FormOrder) = 11 /\ Distinct(FormOrder)
    /\ \A k \in AllKeys : \E n \in 1..11 : FormOrder[n] = k
<1>1. Len(FormOrder) = 11
  BY DEF FormOrder
<1>2. Distinct(FormOrder)
  BY DEF FormOrder, Distinct
<1>3. \A k \in AllKeys : \E n \in 1..11 : FormOrder[n] = k
  BY DEF FormOrder, AllKeys
<1> QED BY <1>1, <1>2, <1>3

LEMMA KeptIs == Kept \subseteq AllKeys
BY SettingsAssumption, ParseOrderIs

LEMMA KeysAre == Keys \in Seq(Kept) /\ Len(Keys) \in Nat
<1>1. Picks(Keys, ParseOrder, Len(ParseOrder))
  <2>1. Len(ParseOrder) \in Nat
    BY ParseOrderIs
  <2> QED BY <2>1, ParseOrderIs, OnlyIs, Zenon DEF Keys
<1> QED BY <1>1 DEF Picks

\* The keys of a text: all that are kept, once each.
LEMMA FormKeysAre ==
    /\ Only(FormOrder) \in Seq(Kept)
    /\ \A k \in Kept : \E n \in 1..Len(Only(FormOrder)) : Only(FormOrder)[n] = k
    /\ \A m, n \in 1..Len(Only(FormOrder)) : Only(FormOrder)[m] = Only(FormOrder)[n] => m = n
<1>1. Picks(Only(FormOrder), FormOrder, 11)
  <2>1. Len(FormOrder) \in Nat /\ Len(FormOrder) = 11
    BY FormOrderIs
  <2>2. Picks(Only(FormOrder), FormOrder, Len(FormOrder))
    BY <2>1, FormOrderIs, OnlyIs, Zenon
  <2> QED BY <2>1, <2>2, Zenon
<1>2. \A k \in Kept : \E m \in 1..11 : FormOrder[m] = k
  BY KeptIs, FormOrderIs
<1> DEFINE r == Only(FormOrder)
<1> HIDE DEF r
<1>3. /\ r \in Seq(Kept)
      /\ \A m \in 1..11 : FormOrder[m] \in Kept => \E j \in 1..Len(r) : r[j] = FormOrder[m]
      /\ \A m, j \in 1..Len(r) : r[m] = r[j] => m = j
  BY <1>1, Zenon DEF Picks, r
<1>4. \A k \in Kept : \E n \in 1..Len(r) : r[n] = k
  BY <1>2, <1>3, Zenon
<1> QED BY <1>3, <1>4, Zenon DEF r

-----------------------------------------------------------------------------
(* What is typed                                                            *)

Words == Marks \cup NameWords \cup {"true", "false"} \cup Hosts \cup UNION {ToSet(v) : v \in Values}

\* Nobody types the name of a key and nothing else as a text: the search would
\* stop there.
Unnamed == \A b \in Posted : \A f \in Fields, k \in Kept : b[f] # Spelled(k)

LEMMA DataWords ==
    ASSUME NEW v \in Data
    PROVE  v \in Seq(Words) /\ \A j \in 1..Len(v) : v[j] # Q
<1>1. CASE v \in Values
  <2>1. v \in Seq(ToSet(v)) /\ Q \notin ToSet(v)
    BY <1>1, SettingsAssumption
  <2>2. \A x \in ToSet(v) : x \in Words
    BY <1>1, Zenon DEF Words
  <2>3. \A j \in 1..Len(v) : v[j] \in ToSet(v)
    BY <2>1
  <2> HIDE DEF ToSet, Words
  <2>4. v \in Seq(Words)
    BY <2>1, <2>2
  <2> QED BY <2>1, <2>3, <2>4
<1>2. CASE v = None
  BY <1>2 DEF None
<1>3. CASE v = Ones
  <2>1. Broadcast \in Hosts /\ Q \notin Hosts
    BY JsonAssumption
  <2>2. Broadcast \in Words
    BY <2>1, Zenon DEF Words
  <2> QED BY <1>3, <2>1, <2>2 DEF Ones
<1> QED BY <1>1, <1>2, <1>3 DEF Data

Printed(b) == [k \in Kept |-> IF k \in Flags THEN Bool(b[k]) ELSE Quote(b[k])]

LEMMA PrintedIs ==
    ASSUME NEW b \in Posted, NEW k \in Kept
    PROVE  /\ k \in Flags => Printed(b)[k] = Bool(b[k])
           /\ k \notin Flags => k \in Fields /\ Printed(b)[k] = Quote(b[k])
                                /\ b[k] \in Data /\ b[k] \in Seq(Words)
                                /\ \A j \in 1..Len(b[k]) : b[k][j] # Q
           /\ Printed(b)[k] \in Seq(Words)
<1>1. Printed(b)[k] = IF k \in Flags THEN Bool(b[k]) ELSE Quote(b[k])
  BY Zenon DEF Printed
<1>2. CASE k \in Flags
  <2>1. Bool(b[k]) = <<"true">> \/ Bool(b[k]) = <<"false">>
    BY Zenon DEF Bool
  <2>2. "true" \in Words /\ "false" \in Words
    BY Zenon DEF Words
  <2>3. <<"true">> \in Seq(Words) /\ <<"false">> \in Seq(Words)
    BY <2>2
  <2> QED BY <1>1, <1>2, <2>1, <2>3, Zenon
<1>3. CASE k \notin Flags
  <2>1. k \in Fields
    BY <1>3 DEF Fields
  <2>2. b[k] \in Data
    BY <2>1, SettingsAssumption
  <2>3. b[k] \in Seq(Words) /\ \A j \in 1..Len(b[k]) : b[k][j] # Q
    BY <2>2, DataWords
  <2>4. Q \in Words
    BY MarksDiffer, Zenon DEF Words
  <2>5. Quote(b[k]) \in Seq(Words)
    BY <2>3, <2>4, QuoteIs
  <2> QED BY <1>1, <1>3, <2>1, <2>2, <2>3, <2>5, Zenon
<1> QED BY <1>2, <1>3

LEMMA FormIs ==
    ASSUME NEW b \in Posted
    PROVE  Text(b) = Stringify(Only(FormOrder), Printed(b))
           /\ IsForm(Only(FormOrder), Printed(b), Words)
<1> DEFINE keys == Only(FormOrder)
<1>1. Text(b) = Stringify(keys, Printed(b))
  BY Zenon DEF Text, Printed
<1>2. Marks \subseteq Words /\ NameWords \subseteq Words
  BY Zenon DEF Words
<1>3. Len(keys) \in Nat /\ \A n \in 1..Len(keys) : keys[n] \in Kept
  BY FormKeysAre
<1> HIDE DEF keys
<1>4. ASSUME NEW n \in 1..Len(keys)
      PROVE  Spelled(keys[n]) \in Seq(Words) /\ Printed(b)[keys[n]] \in Seq(Words)
  <2>1. keys[n] \in Kept /\ keys[n] \in AllKeys
    BY <1>3, <1>4, KeptIs
  <2>2. Spelled(keys[n]) \in Seq(NameWords)
    BY <2>1, NamesAre
  <2>3. Spelled(keys[n]) \in Seq(Words)
    BY <1>2, <2>2
  <2> QED BY <2>1, <2>3, PrintedIs
<1> QED BY <1>1, <1>2, <1>3, <1>4 DEF IsForm, keys

\* A printed value is not the name of a key.
LEMMA PrintedDiffers ==
    ASSUME Unnamed, NEW b \in Posted, NEW g \in Kept, NEW k \in Kept
    PROVE  IsValue(Printed(b)[g]) /\ Differs(Printed(b)[g], Spelled(k))
<1> DEFINE v == Printed(b)[g]
           u == Spelled(k)
<1>1. CASE g \in Flags
  <2>1. v = <<"true">> \/ v = <<"false">>
    BY <1>1, PrintedIs, Zenon DEF Bool
  <2>2. "true" \notin Marks /\ "false" \notin Marks
    BY Zenon DEF Marks, Q, Colon, EndMarks, StartMarks
  <2>3. Len(v) = 1 /\ v[1] \notin Marks
    BY <2>1, <2>2
  <2> HIDE DEF v
  <2>4. \A w : ~Quotes(v, w)
    BY <2>3 DEF Quotes
  <2> QED BY <2>3, <2>4 DEF IsValue, Differs, v
<1>2. CASE g \notin Flags
  <2> DEFINE w == b[g]
  <2>1. /\ g \in Fields /\ v = Quote(w) /\ w \in Seq(Words)
        /\ \A j \in 1..Len(w) : w[j] # Q
    BY <1>2, PrintedIs
  <2>2. Q \in Words
    BY MarksDiffer, Zenon DEF Words
  <2>3. w # u
    BY <2>1 DEF Unnamed
  <2>4. k \in AllKeys
    BY KeptIs
  <2>5. u \in Seq(NameWords)
    BY <2>4, NamesAre
  <2> HIDE DEF v, w, u
  <2>6. /\ v \in Seq(Words) /\ Len(v) = Len(w) + 2 /\ v[1] = Q /\ v[Len(w) + 2] = Q
        /\ \A j \in 1..Len(w) : v[j + 1] = w[j]
    BY <2>1, <2>2, QuoteIs, Zenon
  <2>7. Len(w) \in Nat
    BY <2>1
  <2>8. Quotes(v, w)
    BY <2>1, <2>6, <2>7 DEF Quotes
  <2>9. ASSUME NEW x, Quotes(v, x), Same(u, x) PROVE FALSE
    <3>1. Len(x) \in Nat /\ Len(v) = Len(x) + 2 /\ \A j \in 1..Len(x) : v[j + 1] = x[j]
      BY <2>9 DEF Quotes
    <3>2. Len(u) = Len(x) /\ \A j \in 1..Len(u) : u[j] = x[j]
      BY <2>9 DEF Same
    <3>3. \A a, c, d \in Nat : d = a + 2 /\ d = c + 2 => a = c
      OBVIOUS
    <3>4. Len(v) \in Nat
      BY <2>6
    <3>5. Len(w) = Len(x)
      BY <2>6, <2>7, <3>1, <3>3, <3>4, Zenon
    <3>6. Len(u) = Len(w) /\ \A j \in 1..Len(u) : u[j] = w[j]
      BY <2>6, <3>1, <3>2, <3>5
    <3>7. u = w
      BY <2>1, <2>5, <3>6
    <3> QED BY <2>3, <3>7
  <2> QED BY <2>8, <2>9 DEF IsValue, Differs, v, u
<1> QED BY <1>1, <1>2

LEMMA FormKey ==
    ASSUME Unnamed, NEW b \in Posted, NEW n \in 1..Len(Only(FormOrder))
    PROVE  IsKey(Spelled(Only(FormOrder)[n]), n, Only(FormOrder), Printed(b))
<1> DEFINE keys == Only(FormOrder)
<1>1. /\ Len(keys) \in Nat /\ \A m \in 1..Len(keys) : keys[m] \in Kept
      /\ \A m, j \in 1..Len(keys) : keys[m] = keys[j] => m = j
  BY FormKeysAre
<1> HIDE DEF keys
<1>2. n \in 1..Len(keys)
  BY DEF keys
<1>3. \A m \in 1..Len(keys) : IsName(Spelled(keys[m]))
  BY <1>1, KeptIs, NameIs
<1>4. ASSUME NEW m \in 1..(n - 1)
      PROVE  /\ IsName(Spelled(keys[m])) /\ ~Same(Spelled(keys[n]), Spelled(keys[m]))
             /\ IsValue(Printed(b)[keys[m]]) /\ Differs(Printed(b)[keys[m]], Spelled(keys[n]))
  <2>1. m \in 1..Len(keys) /\ m # n
    BY <1>1, <1>2, <1>4
  <2>2. keys[m] \in Kept /\ keys[n] \in Kept /\ keys[m] # keys[n]
    BY <1>1, <1>2, <2>1
  <2>3. keys[m] \in AllKeys /\ keys[n] \in AllKeys
    BY <2>2, KeptIs
  <2>4. ~Same(Spelled(keys[n]), Spelled(keys[m]))
    BY <2>2, <2>3, NamesDiffer
  <2>5. IsValue(Printed(b)[keys[m]]) /\ Differs(Printed(b)[keys[m]], Spelled(keys[n]))
    BY <2>2, PrintedDiffers
  <2> QED BY <1>3, <2>1, <2>4, <2>5
<1> QED BY <1>2, <1>3, <1>4 DEF IsKey, keys

\* What the getter of a key finds in the text of a form.
LEMMA FieldCut ==
    ASSUME Unnamed, NEW b \in Posted, NEW k \in Kept, k \notin Flags, NEW size
    PROVE  IsCut(ExtractValue(Text(b), k, size), Quote(b[k]), size)
<1> DEFINE keys == Only(FormOrder)
<1>1. PICK n \in 1..Len(keys) : keys[n] = k
  BY FormKeysAre
<1>2. /\ Printed(b)[keys[n]] = Quote(b[k]) /\ b[k] \in Seq(Words)
  BY <1>1, PrintedIs
<1>3. Q \in Words
  BY MarksDiffer, Zenon DEF Words
<1>4. Quote(b[k]) \in Seq(Words) /\ Len(Quote(b[k])) > 0 /\ Quote(b[k])[1] # Space
  BY <1>2, <1>3, QuoteOpens, Zenon
<1>5. IsForm(keys, Printed(b), Words) /\ Text(b) = Stringify(keys, Printed(b))
  BY FormIs
<1>6. IsKey(Spelled(keys[n]), n, keys, Printed(b))
  BY <1>1, FormKey
<1> HIDE DEF keys
<1>7. IsCut(ExtractValue(Stringify(keys, Printed(b)), keys[n], size), Quote(b[k]), size)
  BY <1>1, <1>2, <1>4, <1>5, <1>6, KeyValue, Zenon
<1> QED BY <1>1, <1>5, <1>7, Zenon

LEMMA FieldWhole ==
    ASSUME Unnamed, NEW b \in Posted, NEW k \in Kept, k \notin Flags, NoEnd(b[k]), NEW size
    PROVE  ExtractValue(Text(b), k, size) = Sized(Quote(b[k]), size)
<1>1. b[k] \in Seq(Words) /\ Q \in Words
  BY PrintedIs, MarksDiffer, Zenon DEF Words
<1>2. NoEnd(Quote(b[k])) /\ Quote(b[k]) \in Seq(Words)
  BY <1>1, QuoteEnds, QuoteIs, Zenon
<1>3. IsCut(ExtractValue(Text(b), k, size), Quote(b[k]), size)
  BY FieldCut, Zenon
<1> QED BY <1>2, <1>3, WholeIs, Zenon

LEMMA FlagWhole ==
    ASSUME Unnamed, NEW b \in Posted, NEW k \in Kept, k \in Flags, NEW size
    PROVE  ExtractValue(Text(b), k, size) = Sized(Bool(b[k]), size)
<1> DEFINE keys == Only(FormOrder)
           v == Bool(b[k])
<1>1. PICK n \in 1..Len(keys) : keys[n] = k
  BY FormKeysAre
<1>2. Printed(b)[keys[n]] = v /\ v \in Seq(Words)
  <2>1. Printed(b)[k] = v /\ Printed(b)[k] \in Seq(Words)
    BY PrintedIs
  <2> QED BY <1>1, <2>1
<1>3. PICK x \in {"true", "false"} : v = <<x>>
  BY Zenon DEF Bool
<1>4. x # Space /\ x \notin EndMarks
  BY Zenon DEF Space, EndMarks
<1> HIDE DEF v
<1>5. Len(v) = 1 /\ v[1] = x
  BY <1>3
<1>6. Len(v) > 0 /\ v[1] # Space /\ NoEnd(v)
  BY <1>4, <1>5 DEF NoEnd
<1>7. IsForm(keys, Printed(b), Words) /\ Text(b) = Stringify(keys, Printed(b))
  BY FormIs
<1>8. IsKey(Spelled(keys[n]), n, keys, Printed(b))
  BY <1>1, FormKey
<1> HIDE DEF keys
<1>9. IsCut(ExtractValue(Stringify(keys, Printed(b)), keys[n], size), v, size)
  BY <1>1, <1>2, <1>6, <1>7, <1>8, KeyValue, Zenon
<1>10. IsCut(ExtractValue(Text(b), k, size), v, size)
  BY <1>1, <1>7, <1>9, Zenon
<1> QED BY <1>2, <1>6, <1>10, WholeIs, Zenon DEF v

\* No text that an uninitialised buffer holds is an address.
NoStray == \A s \in Garbage : ~(Len(s) = 1 /\ s[1] \in Hosts)

\* What a getter stores is what is typed in its field.
LEMMA StoredIsTyped ==
    ASSUME Unnamed, NEW b \in Posted, NEW k \in Kept, NEW r \in Parsed[b][k],
           r.stored # <<>>, k \in Addresses => NoStray
    PROVE  k \in Fields /\ r.stored[1] = b[k]
<1>1. r \in Outcomes(Text(b), k)
  BY DEF Parsed
<1>2. Refused.stored = <<>>
  BY DEF Refused, Outcome
<1>3. \A x : Ok(x).stored = <<x>> /\ \A o : Outcome(o, x).stored = x
  BY DEF Ok, Outcome
<1>4. k \notin Flags
  <2> SUFFICES ASSUME k \in Flags PROVE FALSE
    OBVIOUS
  <2>1. r \in GetBoolean(Text(b), k)
    BY <1>1 DEF Outcomes, Flags, Addresses
  <2>2. r = Outcome(TRUE, <<>>) \/ r = Refused
    BY <2>1, Zenon DEF GetBoolean
  <2> QED BY <1>2, <1>3, <2>2
<1>5. /\ k \in Fields /\ b[k] \in Seq(Words) /\ Q \in Words
      /\ \A j \in 1..Len(b[k]) : b[k][j] # Q
  BY <1>4, PrintedIs, MarksDiffer, Zenon DEF Words
<1>6. \A size : IsCut(ExtractValue(Text(b), k, size), Quote(b[k]), size)
  BY <1>4, FieldCut, Zenon
<1>7. /\ \A g \in GetString(Text(b), k) : GotText(g, b[k])
      /\ \A g \in GetIPAddress(Text(b), k) : GotAddress(g, b[k])
  BY <1>5, <1>6, TextsAre, Zenon
<1>8. \A x : <<x>>[1] = x
  OBVIOUS
<1>9. CASE k \in Addresses
  <2>1. GotAddress(r, b[k])
    BY <1>1, <1>4, <1>7, <1>9 DEF Outcomes
  <2>2. PICK s \in {b[k]} \cup Garbage :
          Len(s) = 1 /\ s[1] \in Hosts /\ r = Outcome(s[1] # Broadcast, <<s>>)
    BY <1>2, <2>1, Zenon DEF GotAddress
  <2>3. s = b[k]
    BY <1>9, <2>2, Zenon DEF NoStray
  <2>4. r.stored = <<s>>
    BY <1>3, <2>2, Zenon
  <2> QED BY <1>5, <1>8, <2>3, <2>4, Zenon
<1>10. CASE k \notin Addresses
  <2>1. GotText(r, b[k])
    BY <1>1, <1>4, <1>7, <1>10 DEF Outcomes
  <2>2. r = Ok(b[k])
    BY <1>2, <2>1, Zenon DEF GotText
  <2> QED BY <1>3, <1>5, <1>8, <2>2, Zenon
<1> QED BY <1>9, <1>10

\* A form that fits is accepted, key by key.
LEMMA FitsIsOk ==
    ASSUME Unnamed, NEW b \in Posted, Fits(b), NEW k \in Kept, NEW r \in Parsed[b][k]
    PROVE  r.ok
<1>1. r \in Outcomes(Text(b), k)
  BY DEF Parsed
<1>2. CASE k \in Flags
  <2>1. r \in GetBoolean(Text(b), k)
    BY <1>1, <1>2 DEF Outcomes, Flags, Addresses
  <2>2. \A size : ExtractValue(Text(b), k, size) = Sized(Bool(b[k]), size)
    BY <1>2, FlagWhole, Zenon
  <2>3. r = Outcome(TRUE, <<>>)
    BY <2>1, <2>2, FlagIsTaken, Zenon
  <2> QED BY <2>3 DEF Outcome
<1>3. CASE k \notin Flags
  <2>1. k \in Fields /\ b[k] \in Seq(Words) /\ Q \in Words
    BY <1>3, PrintedIs, MarksDiffer, Zenon DEF Words
  <2>2. /\ CharsOf(b[k]) <= IF k \in Addresses THEN 14 ELSE 29
        /\ \A j \in DOMAIN b[k] : b[k][j] \notin EndMarks
        /\ k \in Addresses => b[k] \in {<<h>> : h \in Hosts} /\ b[k] # Ones
    BY <2>1, Zenon DEF Fits, EndMarks
  <2>3. NoEnd(b[k])
    <3>1. DOMAIN b[k] = 1..Len(b[k])
      BY <2>1
    <3> QED BY <2>2, <3>1, Zenon DEF NoEnd
  <2>4. \A size : ExtractValue(Text(b), k, size) = Sized(Quote(b[k]), size)
    BY <1>3, <2>3, FieldWhole, Zenon
  <2>5. /\ CharsOf(b[k]) <= 29 => \A g \in GetString(Text(b), k) : g.ok
        /\ CharsOf(b[k]) <= 14 /\ Len(b[k]) = 1 /\ b[k][1] \in Hosts /\ b[k][1] # Broadcast
             => \A g \in GetIPAddress(Text(b), k) : g.ok
    BY <2>1, <2>4, FitsIsTaken, Zenon
  <2>6. CASE k \in Addresses
    <3>1. Len(b[k]) = 1 /\ b[k][1] \in Hosts /\ b[k][1] # Broadcast
      BY <2>2, <2>6 DEF Ones
    <3>2. r \in GetIPAddress(Text(b), k)
      BY <1>1, <1>3, <2>6 DEF Outcomes
    <3> QED BY <2>2, <2>5, <2>6, <3>1, <3>2
  <2>7. CASE k \notin Addresses
    <3>1. r \in GetString(Text(b), k)
      BY <1>1, <1>3, <2>7 DEF Outcomes
    <3> QED BY <2>2, <2>5, <2>7, <3>1
  <2> QED BY <2>6, <2>7
<1> QED BY <1>2, <1>3

-----------------------------------------------------------------------------
(* The places of the connections                                            *)

Places == {"idle", "parse", "erase", "program", "sendOk", "arm", "sendData", "sendErr"}

Shape ==
    /\ pc \in [Conns -> Places] /\ at \in [Conns -> 1..(Len(Keys) + 1)]
    /\ body \in [Conns -> Posted \cup {NoBody}]
    /\ \A c \in Conns : pc[c] = "parse" => body[c] \in Posted

LEMMA ShapeInit == Init => Shape
<1>1. 1 \in 1..(Len(Keys) + 1)
  BY KeysAre
<1> QED BY <1>1 DEF Init, Shape, Places

LEMMA ShapeReset == Reset => Shape'
<1>1. 1 \in 1..(Len(Keys) + 1)
  BY KeysAre
<1> QED BY <1>1 DEF Reset, Shape, Places

LEMMA ShapeWork ==
    ASSUME Shape, NEW c \in Conns, Work(c)
    PROVE  Shape'
<1>1. 1 \in 1..(Len(Keys) + 1) /\ Len(Keys) \in Nat
  BY KeysAre
<1>2. CASE Post(c)
  BY <1>2 DEF Post, Goto, Shape, Places
<1>3. CASE ParseKey(c)
  <2>1. /\ pc[c] = "parse" /\ at[c] <= Len(Keys) /\ UNCHANGED body
        /\ \/ at' = [at EXCEPT ![c] = @ + 1] /\ UNCHANGED pc
           \/ Goto(c, "parse", "sendErr") /\ UNCHANGED at
    BY <1>3 DEF ParseKey
  <2>2. at[c] + 1 \in 1..(Len(Keys) + 1)
    BY <1>1, <2>1 DEF Shape
  <2> QED BY <2>1, <2>2 DEF Goto, Shape, Places
<1>4. CASE Conclude(c)
  BY <1>4 DEF Conclude, Goto, Shape, Places, Flag
<1>5. CASE Erase(c) \/ Program(c) \/ SendOk(c) \/ Get(c)
  BY <1>5 DEF Erase, Program, SendOk, Get, Goto, Shape, Places
<1>6. CASE Arm(c) \/ SendRest(c)
  BY <1>1, <1>6 DEF Arm, SendRest, Leave, Goto, Shape, Places
<1> QED BY <1>2, <1>3, <1>4, <1>5, <1>6 DEF Work, Step

LEMMA ShapeHolds == Spec => []Shape
<1>1. Shape /\ [Next]_vars => Shape'
  <2>1. Shape /\ UNCHANGED vars => Shape'
    BY DEF Shape, vars
  <2> QED BY <2>1, ShapeReset, ShapeWork DEF Next, WatchdogReset, PowerCycle
<1> QED BY <1>1, ShapeInit, PTL DEF Spec

LEMMA KeyAt ==
    ASSUME Shape, NEW c \in Conns, at[c] <= Len(Keys)
    PROVE  Keys[at[c]] \in Kept
<1>1. at[c] \in 1..Len(Keys) /\ Keys \in Seq(Kept)
  BY KeysAre DEF Shape
<1> QED BY <1>1

\* A form that can be stored is not refused, whatever the words in it, if none
\* of its texts is the name of a key (json_parser.c:36-58, 212-259).
THEOREM RefusesForCause == Unnamed => (Spec => RefusedForCause)
<1> SUFFICES ASSUME Unnamed PROVE Spec => RefusedForCause
  OBVIOUS
<1> DEFINE A == \A c \in Conns : pc[c] = "parse" /\ pc'[c] = "sendErr" => ~Fits(body[c])
<1>1. Shape /\ Next => A
  <2> SUFFICES ASSUME Shape, Next, NEW c \in Conns, pc[c] = "parse", pc'[c] = "sendErr",
                      Fits(body[c])
               PROVE  FALSE
    OBVIOUS
  <2>1. ~Reset
    BY DEF Reset
  <2>2. PICK d \in Conns : Work(d)
    BY <2>1 DEF Next, WatchdogReset, PowerCycle
  <2>3. d = c
    <3> SUFFICES ASSUME d # c PROVE FALSE
      OBVIOUS
    <3>1. pc'[c] = pc[c]
      BY <2>2 DEF Work, Step, Post, ParseKey, Conclude, Erase, Program, SendOk, Arm, Get,
                  SendRest, Leave, Goto, Shape
    <3> QED BY <3>1
  <2>4. ParseKey(c)
    BY <2>2, <2>3 DEF Work, Step, Post, Conclude, Erase, Program, SendOk, Arm, Get,
                      SendRest, Leave, Goto, Shape, Flag
  <2>5. at[c] <= Len(Keys) /\ \E r \in Parsed[body[c]][Keys[at[c]]] : ~r.ok
    BY <2>4 DEF ParseKey
  <2>6. body[c] \in Posted /\ Keys[at[c]] \in Kept
    BY <2>5, KeyAt DEF Shape
  <2> QED BY <2>5, <2>6, FitsIsOk
<1>2. Shape /\ [Next]_vars => [A]_vars
  BY <1>1
<1>3. Spec => [][A]_vars
  BY <1>2, ShapeHolds, PTL DEF Spec
<1> QED BY <1>3 DEF RefusedForCause

-----------------------------------------------------------------------------
(* What is in the records                                                   *)

Own(f) == {p[f] : p \in Posted} \cup {Factory[f], Ones, None}
IsOwn(x) == x \in Settings /\ \A f \in Fields : x[f] \in Own(f)
Owned == IsOwn(flash) /\ IsOwn(settings) /\ IsOwn(running)

LEMMA OwnType ==
    IsOwn(Factory) /\ IsOwn(Zero) /\ IsOwn(Blank)
BY SettingsAssumption DEF IsOwn, Own, Zero, Blank, Settings, Data

\* A key is parsed into its own field.
LEMMA ParseOwn ==
    ASSUME Unnamed, NoStray, Shape, Owned, NEW c \in Conns, ParseKey(c)
    PROVE  IsOwn(settings')
<1> DEFINE k == Keys[at[c]]
<1>1. PICK r \in Parsed[body[c]][k] :
        settings' = IF r.stored = <<>> THEN settings
                    ELSE [settings EXCEPT ![k] = r.stored[1]]
  BY DEF ParseKey
<1>2. body[c] \in Posted /\ k \in Kept
  BY KeyAt DEF ParseKey, Shape
<1> HIDE DEF k
<1>3. CASE r.stored = <<>>
  BY <1>1, <1>3 DEF Owned
<1>4. CASE r.stored # <<>>
  <2>1. k \in Fields /\ r.stored[1] = body[c][k]
    BY <1>1, <1>2, <1>4, StoredIsTyped
  <2>2. body[c][k] \in Data /\ body[c][k] \in Own(k)
    BY <1>2, <2>1, SettingsAssumption DEF Own
  <2>3. settings \in [Fields -> Data] /\ \A f \in Fields : settings[f] \in Own(f)
    BY DEF Owned, IsOwn, Settings
  <2>4. settings' = [settings EXCEPT ![k] = body[c][k]]
    BY <1>1, <1>4, <2>1
  <2> HIDE DEF Own
  <2> QED BY <2>1, <2>2, <2>3, <2>4 DEF IsOwn, Settings
<1> QED BY <1>3, <1>4

LEMMA OwnedWork ==
    ASSUME Unnamed, NoStray, Shape, Owned, NEW c \in Conns, Work(c)
    PROVE  Owned'
<1>1. CASE Post(c) \/ Erase(c) \/ Program(c) \/ SendOk(c) \/ Arm(c) \/ Get(c) \/ SendRest(c)
  BY <1>1, OwnType DEF Post, Erase, Program, Written, SendOk, Arm, Get, SendRest, Owned
<1>2. CASE ParseKey(c)
  BY <1>2, ParseOwn DEF ParseKey, Owned
<1>3. CASE Conclude(c)
  <2>1. settings' = [f \in Fields |-> IF f \in DOMAIN Switched /\ ~Flag(c, Switched[f])
                                      THEN None ELSE settings[f]]
    BY <1>3 DEF Conclude
  <2>2. settings \in [Fields -> Data] /\ \A f \in Fields : settings[f] \in Own(f)
    BY DEF Owned, IsOwn, Settings
  <2>3. None \in Data /\ \A f \in Fields : None \in Own(f)
    BY DEF Data, Own
  <2> HIDE DEF Own, Data
  <2>4. IsOwn(settings')
    BY <2>1, <2>2, <2>3, Zenon DEF IsOwn, Settings
  <2> QED BY <1>3, <2>4 DEF Conclude, Owned
<1> QED BY <1>1, <1>2, <1>3 DEF Work, Step

LEMMA OwnedHolds == Unnamed /\ NoStray => (Spec => []Owned)
<1> SUFFICES ASSUME Unnamed, NoStray PROVE Spec => []Owned
  OBVIOUS
<1>1. Init => Owned
  BY OwnType DEF Init, Owned
<1>2. Shape /\ Owned /\ [Next]_vars => Owned'
  <2>1. Owned /\ Reset => Owned'
    BY OwnType DEF Reset, Owned
  <2>2. Owned /\ UNCHANGED vars => Owned'
    BY DEF Owned, vars
  <2> QED BY <2>1, <2>2, OwnedWork DEF Next, WatchdogReset, PowerCycle
<1> QED BY <1>1, <1>2, ShapeHolds, PTL DEF Spec

\* The records have their types, and the connections their places
\* (server_settings.h:9-28, server_settings.c:171-205).
THEOREM TypesAreCorrect == Unnamed /\ NoStray => (Spec => []TypeOK)
<1> SUFFICES ASSUME Unnamed, NoStray PROVE Spec => []TypeOK
  OBVIOUS
<1> DEFINE Flagged == shown \in BOOLEAN /\ armed \in BOOLEAN /\ fault \in BOOLEAN
<1>1. Spec => []Flagged
  <2>1. Init => Flagged
    BY DEF Init
  <2>2. Flagged /\ [Next]_vars => Flagged'
    BY DEF Next, WatchdogReset, PowerCycle, Reset, Work, Step, Post, ParseKey, Conclude,
           Erase, Program, SendOk, Arm, Get, SendRest, vars, Armed, Readable
  <2> QED BY <2>1, <2>2, PTL DEF Spec
<1>2. Flagged /\ Shape /\ Owned => TypeOK
  BY DEF Shape, Owned, IsOwn, TypeOK, Places
<1> QED BY <1>1, <1>2, ShapeHolds, OwnedHolds, PTL

\* However the calls mix, what is stored in a field is what somebody typed in
\* that field or what it came with, if no text that is typed is the name of a
\* key (server_settings.c:50-108, json_parser.c:36-58).
THEOREM StoresWhereTyped == Unnamed /\ NoStray => (Spec => StoredWhereTyped)
<1> SUFFICES ASSUME Unnamed, NoStray PROVE Spec => StoredWhereTyped
  OBVIOUS
<1> DEFINE A == \A c \in Conns : Program(c) =>
                  \A f \in Plain : flash'[f] \in {p[f] : p \in Posted}
                                                  \cup {Factory[f], Ones, None}
<1>1. Owned => A
  BY DEF Owned, IsOwn, Own, Program, Written, Plain
<1> QED BY <1>1, OwnedHolds, PTL DEF StoredWhereTyped

-----------------------------------------------------------------------------
(* The erased sector                                                        *)

Texts == Fields \ Addresses

LEMMA ZeroIsReadable == Readable(Zero)
BY DEF Readable, Zero, None, Ones

\* A key stores what was typed, which nobody types as erased flash.
LEMMA ParseReadable ==
    ASSUME Unnamed, Shape, Readable(settings), NEW c \in Conns, ParseKey(c)
    PROVE  Readable(settings')
<1> DEFINE k == Keys[at[c]]
<1>1. PICK r \in Parsed[body[c]][k] :
        settings' = IF r.stored = <<>> THEN settings
                    ELSE [settings EXCEPT ![k] = r.stored[1]]
  BY DEF ParseKey
<1>2. body[c] \in Posted /\ k \in Kept
  BY KeyAt DEF ParseKey, Shape
<1> HIDE DEF k
<1> SUFFICES ASSUME NEW f \in Texts PROVE settings'[f] # Ones
  BY DEF Readable, Texts
<1>3. CASE settings'[f] = settings[f]
  BY <1>3 DEF Readable, Texts
<1>4. CASE settings'[f] # settings[f]
  <2>1. f = k /\ r.stored # <<>> /\ settings'[f] = r.stored[1]
    BY <1>1, <1>4
  <2>2. k \notin Addresses
    BY <2>1 DEF Texts
  <2>3. r.stored[1] = body[c][k]
    BY <1>1, <1>2, <2>1, <2>2, StoredIsTyped
  <2>4. body[c][k] # Ones
    BY <1>2, <2>1, SettingsAssumption DEF Readable, Texts
  <2> QED BY <2>1, <2>3, <2>4
<1> QED BY <1>3, <1>4

LEMMA ConcludeReadable ==
    ASSUME Readable(settings), NEW c \in Conns, Conclude(c)
    PROVE  Readable(settings')
<1>1. settings' = [f \in Fields |-> IF f \in DOMAIN Switched /\ ~Flag(c, Switched[f])
                                     THEN None ELSE settings[f]]
  BY DEF Conclude
<1>2. None # Ones
  BY DEF None, Ones
<1>3. \A f \in Fields : settings'[f] = None \/ settings'[f] = settings[f]
  BY <1>1, Zenon
<1> QED BY <1>2, <1>3 DEF Readable

\* A write goes on until its own Program.
LEMMA WriteGoesOn ==
    ASSUME Shape, Writing, NEW c \in Conns, Work(c), ~Program(c)
    PROVE  Writing'
<1>1. PICK d \in Conns : pc[d] = "program"
  BY DEF Writing
<1>2. pc'[d] = "program"
  BY <1>1 DEF Work, Step, Post, ParseKey, Conclude, Erase, SendOk, Arm, Get, SendRest,
              Leave, Goto, Shape
<1> QED BY <1>2 DEF Writing

\* Outside of the window between erase and program, no handler spoils a record.
LEMMA WorkKeepsSound ==
    ASSUME Unnamed, Shape, Sound, NEW c \in Conns, Work(c), Post(c) \/ Get(c) => ~Writing
    PROVE  Sound'
<1>1. /\ Writing \/ Readable(flash)
      /\ Readable(settings) /\ Readable(running) /\ shown
  BY DEF Sound
<1>2. CASE Post(c) \/ Get(c)
  <2>1. Readable(flash)
    BY <1>1, <1>2
  <2>2. UNCHANGED <<flash, running>> /\ settings' \in {settings, flash}
    BY <1>2 DEF Post, Get
  <2>3. shown'
    BY <1>1, <1>2, <2>1, Zenon DEF Post, Get
  <2>4. Readable(flash)' /\ Readable(settings)' /\ Readable(running)'
    BY <1>1, <2>1, <2>2 DEF Readable
  <2> QED BY <2>3, <2>4, Zenon DEF Sound
<1>3. CASE ParseKey(c) \/ Conclude(c)
  <2>1. UNCHANGED <<flash, shown, running>>
    BY <1>3 DEF ParseKey, Conclude
  <2>2. Readable(settings')
    BY <1>1, <1>3, ParseReadable, ConcludeReadable
  <2>3. ~Program(c)
    BY <1>3 DEF ParseKey, Conclude, Program, Goto
  <2>4. Writing => Writing'
    BY <2>3, WriteGoesOn
  <2> QED BY <1>1, <2>1, <2>2, <2>4 DEF Sound, Readable
<1>4. CASE Erase(c)
  <2>1. Writing'
    BY <1>4 DEF Erase, Goto, Shape, Writing
  <2>2. UNCHANGED <<settings, shown, running>>
    BY <1>4 DEF Erase
  <2> QED BY <1>1, <2>1, <2>2 DEF Sound, Readable
<1>5. CASE Program(c)
  <2>1. flash' = settings /\ UNCHANGED <<settings, shown, running>>
    BY <1>5 DEF Program, Written
  <2> QED BY <1>1, <2>1 DEF Sound, Readable
<1>6. CASE SendOk(c) \/ Arm(c) \/ SendRest(c)
  <2>1. UNCHANGED <<flash, settings, shown, running>>
    BY <1>6 DEF SendOk, Arm, SendRest
  <2>2. ~Program(c)
    BY <1>6 DEF SendOk, Arm, SendRest, Leave, Program, Goto
  <2>3. Writing => Writing'
    BY <2>2, WriteGoesOn
  <2> QED BY <1>1, <2>1, <2>3 DEF Sound, Readable
<1> QED BY <1>2, <1>3, <1>4, <1>5, <1>6 DEF Work, Step

\* The one way in which erased flash comes into a record, a reply, the access
\* point or the stored settings is a copy, or a restart, between erase and
\* program: no mixture of calls, no refused form and no restart elsewhere does
\* it (server_settings.c:34-48, 171-205).
THEOREM OnlyTheWindowSpoilsRecords == Unnamed => (Spec => OnlyTheWindowSpoils)
<1> SUFFICES ASSUME Unnamed PROVE Spec => OnlyTheWindowSpoils
  OBVIOUS
<1> DEFINE A == Sound /\ ~Sound' =>
                  Writing /\ (Reset \/ \E c \in Conns : Post(c) \/ Get(c))
<1>1. Shape /\ Next => A
  <2> SUFFICES ASSUME Shape, Next, Sound, ~Sound'
               PROVE  Writing /\ (Reset \/ \E c \in Conns : Post(c) \/ Get(c))
    OBVIOUS
  <2>1. CASE Reset
    <3> SUFFICES ASSUME ~Writing PROVE FALSE
      BY <2>1
    <3>1. Readable(flash)
      BY DEF Sound
    <3>2. flash' = flash /\ running' = flash /\ settings' = Zero /\ shown'
      BY <2>1 DEF Reset
    <3> QED BY <3>1, <3>2, ZeroIsReadable DEF Sound, Readable
  <2>2. CASE ~Reset
    <3>1. PICK c \in Conns : Work(c)
      BY <2>2 DEF Next, WatchdogReset, PowerCycle
    <3> QED BY <3>1, WorkKeepsSound
  <2> QED BY <2>1, <2>2
<1>2. Shape /\ [Next]_vars => [A]_vars
  BY <1>1
<1> QED BY <1>2, ShapeHolds, PTL DEF Spec, OnlyTheWindowSpoils
=============================================================================
