----------------------------- MODULE JsonParser -----------------------------
(***************************************************************************)
(* The getters of AstroTimer (MicroLogiciel/json_parser.c): a search for   *)
(* the key in the text, then for the next colon, then for the next comma   *)
(* or brace.  No nesting, no escapes: a body is a sequence of words and    *)
(* punctuation marks.  A getter has a set of outcomes, since a value       *)
(* without quotes leaves its local buffer uninitialised.                   *)
(***************************************************************************)
EXTENDS Integers, Sequences, SequencesExt

CONSTANTS
    Width,      \* characters of a word; what is not in its domain has one
    Number,     \* number word |-> its value in hundredths
    Hosts,      \* words that ip4addr_aton takes
    Broadcast,  \* the one of them that reads as 0xffffffff
    Garbage,    \* texts that an uninitialised local may hold
    Fine,       \* milliseconds in a hundredth of a second
    Word        \* 2^32

Q == "\""

ASSUME JsonAssumption ==
    /\ Broadcast \in Hosts /\ Fine \in Nat \ {0} /\ Word \in Nat \ {0}
    /\ \A w \in DOMAIN Width : Width[w] \in Nat /\ w \notin {Q, "true", "false"}
    /\ Q \notin Hosts
    /\ \A w \in DOMAIN Number : Number[w] \in Nat   \* no field takes others

Quote(s) == <<Q>> \o s \o <<Q>>
WidthOf(w) == IF w \in DOMAIN Width THEN Width[w] ELSE 1
CharsOf(s) == LET upTo[n \in 0..Len(s)] == IF n = 0 THEN 0 ELSE upTo[n - 1] + WidthOf(s[n])
              IN upTo[Len(s)]

\* Names that contain the name of another key.
Spelled(key) == CASE key = "has_password" -> <<"has_", "password">>
                  [] key = "use_domain"   -> <<"use_", "domain">>
                  [] key = "ipaddr2"      -> <<"ipaddr", "2">>
                  [] OTHER                -> <<key>>

Unquoted(key) == Spelled(key)       \* mutant: to_quoted_string does nothing
QuotedKey(key) == Quote(Spelled(key))

-----------------------------------------------------------------------------
(* <<>> where the code returns 0, and <<v>> where it returns v.             *)

ExtractValue(text, key, size) ==
    LET all == DOMAIN text
        keys == {n \in all : IsPrefix(QuotedKey(key), SubSeq(text, n, Len(text)))}
        colons == {n \in all : keys # {} /\ n > Min(keys) /\ text[n] = ":"}
        starts == {n \in all : colons # {} /\ n > Min(colons) /\ text[n] # " "}
        ends == {n \in all : /\ starts # {} /\ n >= Min(starts)
                             /\ text[n] \in {",", "}"}}
        value == SubSeq(text, Min(starts), Min(ends) - 1)
    IN IF ends = {} \/ CharsOf(value) >= size THEN <<>> ELSE <<value>>

IsString(v) == Len(v) >= 2 /\ v[1] = Q /\ v[Len(v)] = Q
Content(v) == SubSeq(v, 2, Len(v) - 1)

\* tmp after copy_strip_quote, whose result nobody looks at.
Stripped(v) == IF IsString(v) THEN {Content(v)} ELSE Garbage

\* What a getter stores, if anything, and whether it returns JSON_OK.
Outcome(ok, stored) == [ok |-> ok, stored |-> stored]
Refused == Outcome(FALSE, <<>>)
Ok(value) == Outcome(TRUE, <<value>>)

\* mutant: no room for the final zero
Smaller == [boolean |-> 7, integer |-> 10, float |-> 16, string |-> 32, ip |-> 16]
SizeOf == [boolean |-> 7, integer |-> 10, float |-> 16, string |-> 32, ip |-> 17]

\* dest is the parameter and not what it points to: nothing is stored.
GetBoolean(text, key) ==
    LET v == ExtractValue(text, key, SizeOf.boolean) IN
    {IF v \in {<< <<b>> >> : b \in {"true", "false", "0", "1"}}
     THEN Outcome(TRUE, <<>>) ELSE Refused}

GetString(text, key) ==
    LET v == ExtractValue(text, key, SizeOf.string) IN
    {IF v # <<>> /\ IsString(v[1]) THEN Ok(Content(v[1])) ELSE Refused}

IsNumber(s) == Len(s) = 1 /\ s[1] \in DOMAIN Number
IsInteger(s) == IsNumber(s) /\ Number[s[1]] % 100 = 0

GetInteger(text, key) ==
    LET v == ExtractValue(text, key, SizeOf.integer) IN
    IF v = <<>> THEN {Refused}
    ELSE {IF IsInteger(s) THEN Ok((Number[s[1]] \div 100) % Word) ELSE Refused
          : s \in Stripped(v[1])}

\* (uint32_t)(atof(tmp)*1000) cuts what the product may lack, "2.01" -> 2009.
Thousandths(h) == {h * Fine} \cup (IF h = 0 THEN {} ELSE {h * Fine - 1})

GetFloatInt(text, key) ==
    LET v == ExtractValue(text, key, SizeOf.float) IN
    IF v = <<>> THEN {Refused}
    ELSE UNION {IF IsNumber(s) THEN {Ok(m % Word) : m \in Thousandths(Number[s[1]])}
                ELSE {Refused} : s \in Stripped(v[1])}

\* 255.255.255.255 is stored, then refused.
GetIPAddress(text, key) ==
    LET v == ExtractValue(text, key, SizeOf.ip) IN
    IF v = <<>> THEN {Refused}
    ELSE {IF Len(s) # 1 \/ s[1] \notin Hosts THEN Refused
          ELSE Outcome(s[1] # Broadcast, <<s>>) : s \in Stripped(v[1])}

-----------------------------------------------------------------------------
(* The bodies: JSON.stringify of the fields of a form (www/index.html).     *)

Pair(key, value) == Quote(Spelled(key)) \o <<":">> \o value
Bool(b) == <<IF b THEN "true" ELSE "false">>

\* The pairs, with their values as they are printed.
Stringify(keys, printed) ==
    LET upTo[n \in 0..Len(keys)] ==
          IF n = 0 THEN <<"{">>
          ELSE upTo[n - 1] \o Pair(keys[n], printed[keys[n]])
                 \o <<IF n = Len(keys) THEN "}" ELSE ",">>
    IN upTo[Len(keys)]
=============================================================================
