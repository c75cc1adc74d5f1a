--------------------------- MODULE ServerSettings ---------------------------
(***************************************************************************)
(* The network settings of AstroTimer (MicroLogiciel/server_settings.c):   *)
(* do_handle_settings_api_call, run by one connection task per request     *)
(* with no semaphore around it, the static record that it parses into with *)
(* the getters of JsonParser, the flash sector, and the access point that  *)
(* main_task configures from that sector at every start (main.c:86-104).   *)
(***************************************************************************)
EXTENDS JsonParser, FiniteSets

CONSTANTS
    Conns,     \* connection tasks that may serve a request at one time
    Values,    \* strings and addresses: sequences of words
    Posted,    \* forms that are posted: functions on Kept
    Kept,      \* a bound of the runs: the keys that they follow
    Factory    \* content of the sector when it is first flashed

\* In the order of parse_server_settings.
ParseOrder ==
    <<"ssid", "has_password", "password", "hostname", "use_domain", "domain",
      "ipaddr", "netmask", "use_second_ip", "ipaddr2",
      "dns_ignores_network_suffix">>
Only(order) ==
    LET upTo[n \in 0..Len(order)] ==
          IF n = 0 THEN <<>>
          ELSE IF order[n] \in Kept THEN Append(upTo[n - 1], order[n]) ELSE upTo[n - 1]
    IN upTo[Len(order)]
Keys == Only(ParseOrder)

Addresses == {"ipaddr", "netmask", "ipaddr2"}
Flags == {"has_password", "use_domain", "use_second_ip",
          "dns_ignores_network_suffix"}
Fields == Kept \ Flags
Plain == Fields \ {"password", "domain", "ipaddr2"}   \* with no checkbox
None == <<>>                \* the empty string, and 0.0.0.0
Ones == <<Broadcast>>       \* 255.255.255.255, and what erased flash reads as
Data == Values \cup {None, Ones}
Settings == [Fields -> Data]
Blank == [f \in Fields |-> Ones]
\* A record without erased text, which nobody types.
Readable(x) == \A f \in Fields \ Addresses : x[f] # Ones
Zero == [f \in Fields |-> None]

ASSUME SettingsAssumption ==
    /\ Factory \in Settings /\ Kept \subseteq ToSet(ParseOrder)
    /\ \A b \in Posted : \A f \in Fields : b[f] \in Data
    \* JSON.stringify would escape a quote, and nobody types erased flash.
    /\ \A v \in Values : v \in Seq(ToSet(v)) /\ Q \notin ToSet(v)
    /\ \A b \in Posted : Readable(b)

VARIABLES
    flash,      \* s_Settings.settings
    settings,   \* the static local of the handler
    shown,      \* buffer_server_settings is made from whole records only
    running,    \* what the access point was started with
    armed,      \* watchdog_reboot was called
    fault,      \* undefined behaviour stopped the chip
    pc, body,   \* per connection task: place, and the form of its POST
    at          \* per connection task: the key that it parses

vars == <<flash, settings, shown, running, armed, fault, pc, body, at>>

NoBody == Zero

Init ==
    /\ flash = Factory /\ running = Factory
    /\ settings = Zero /\ shown = TRUE /\ armed = FALSE /\ fault = FALSE
    /\ pc = [c \in Conns |-> "idle"] /\ body = [c \in Conns |-> NoBody]
    /\ at = [c \in Conns |-> 1]

\* Only flash survives, and main_task starts with what it holds.
Reset ==
    /\ running' = flash /\ UNCHANGED flash
    /\ settings' = Zero /\ shown' = TRUE /\ armed' = FALSE /\ fault' = FALSE
    /\ pc' = [c \in Conns |-> "idle"] /\ body' = [c \in Conns |-> NoBody]
    /\ at' = [c \in Conns |-> 1]

WatchdogReset == armed /\ Reset
PowerCycle == Reset

Goto(c, from, to) == pc[c] = from /\ pc' = [pc EXCEPT ![c] = to]
Leave(c, from) ==
    /\ Goto(c, from, "idle")
    /\ body' = [body EXCEPT ![c] = NoBody] /\ at' = [at EXCEPT ![c] = 1]

-----------------------------------------------------------------------------
(* POST                                                                     *)

\* The stored settings are copied to the static record, whoever uses it.  A
\* request without a line of body is refused.
Post(c) ==
    /\ \/ Goto(c, "idle", "parse") /\ \E b \in Posted : body' = [body EXCEPT ![c] = b]
       \/ Goto(c, "idle", "sendErr") /\ UNCHANGED body
    /\ settings' = flash
    /\ UNCHANGED <<flash, shown, running, armed, fault, at>>

\* The page sends the boxes before the fields.
FormOrder ==
    <<"has_password", "use_domain", "dns_ignores_network_suffix",
      "use_second_ip", "ssid", "password", "ipaddr", "netmask", "hostname",
      "domain", "ipaddr2">>
Text(form) ==
    Stringify(Only(FormOrder),
              [k \in Kept |-> IF k \in Flags THEN Bool(form[k])
                                       ELSE Quote(form[k])])

Outcomes(text, k) == CASE k \in Flags     -> GetBoolean(text, k)
                       [] k \in Addresses -> GetIPAddress(text, k)
                       [] OTHER           -> GetString(text, k)

\* What each key of each form gives, computed once.
Parsed == [p \in Posted |-> [k \in Kept |-> Outcomes(Text(p), k)]]

\* Whatever the getter stores goes to the static record, refused or not.
ParseKey(c) ==
    LET k == Keys[at[c]] IN
    /\ pc[c] = "parse" /\ at[c] <= Len(Keys)
    /\ \E r \in Parsed[body[c]][k] :
         /\ settings' = IF r.stored = <<>> THEN settings
                        ELSE [settings EXCEPT ![k] = r.stored[1]]
         /\ IF r.ok THEN at' = [at EXCEPT ![c] = @ + 1] /\ UNCHANGED pc
            ELSE Goto(c, "parse", "sendErr") /\ UNCHANGED at
    /\ UNCHANGED <<flash, shown, running, armed, fault, body>>

\* has_password, use_domain and use_second_ip at the end of the parse.
Flag(c, k) == FALSE

Switched ==
    [password |-> "has_password", domain |-> "use_domain",
     ipaddr2 |-> "use_second_ip"]

Conclude(c) ==
    /\ at[c] > Len(Keys)
    /\ settings' = [f \in Fields |->
                      IF f \in DOMAIN Switched /\ ~Flag(c, Switched[f])
                      THEN None ELSE settings[f]]
    /\ Goto(c, "parse", IF /\ Flag(c, "use_second_ip")
                           /\ settings["ipaddr2"] \in {None, Ones}
                        THEN "sendErr" ELSE "erase")
    /\ UNCHANGED <<flash, shown, running, armed, fault, body, at>>

\* write_pico_server_settings.  portENTER_CRITICAL masks one core and takes the
\* lock of the kernel: nobody else enters a critical section, but the other
\* core runs on.  What it runs from flash meets a busy device: undefined.
Writing == \E d \in Conns : pc[d] = "program"

Erase(c) ==
    /\ ~Writing
    /\ Goto(c, "erase", "program")
    /\ flash' = Blank /\ fault' \in BOOLEAN
    /\ UNCHANGED <<settings, shown, running, armed, body, at>>

\* mutant: a record that the device runs with already is not written again
SkipsKnown == IF settings = running THEN flash ELSE settings
Written == settings

Program(c) ==
    /\ Goto(c, "program", "sendOk")
    /\ flash' = Written /\ fault' \in BOOLEAN
    /\ UNCHANGED <<settings, shown, running, armed, body, at>>

SendOk(c) ==
    /\ Goto(c, "sendOk", "arm")
    /\ UNCHANGED <<flash, settings, shown, running, armed, fault, body, at>>

Unarmed == armed                \* mutant: no watchdog_reboot
Armed == TRUE

Arm(c) ==
    /\ Leave(c, "arm")
    /\ armed' = Armed
    /\ UNCHANGED <<flash, settings, shown, running, fault>>

-----------------------------------------------------------------------------
(* GET                                                                      *)

\* The flags of the form are computed from the strings: they add nothing.
Get(c) ==
    /\ Goto(c, "idle", "sendData")
    /\ shown' = Readable(flash)
    /\ UNCHANGED <<flash, settings, running, armed, fault, body, at>>

\* The reply to GET, or the error text.
SendRest(c) ==
    /\ \/ Leave(c, "sendData") \/ Leave(c, "sendErr")
    /\ UNCHANGED <<flash, settings, shown, running, armed, fault>>

-----------------------------------------------------------------------------
(* The specification                                                        *)

Step(c) == Post(c) \/ ParseKey(c) \/ Conclude(c) \/ Erase(c) \/ Program(c)
             \/ SendOk(c) \/ Arm(c) \/ Get(c) \/ SendRest(c)
Work(c) == ~fault /\ Step(c)

Next == \/ \E c \in Conns : Work(c)
        \/ WatchdogReset \/ PowerCycle

Spec == Init /\ [][Next]_vars

\* The scheduler gives every task its turn, and the watchdog counts down.
FairSpec ==
    /\ Spec
    /\ \A c \in Conns : WF_vars(pc[c] # "idle" /\ Work(c))
    /\ WF_vars(WatchdogReset)

-----------------------------------------------------------------------------
(* Properties                                                               *)

TypeOK ==
    /\ {flash, settings, running} \subseteq Settings
    /\ shown \in BOOLEAN /\ armed \in BOOLEAN /\ fault \in BOOLEAN
    /\ pc \in [Conns -> {"idle", "parse", "erase", "program", "sendOk", "arm",
                         "sendData", "sendErr"}]
    /\ at \in [Conns -> 1..(Len(Keys) + 1)]

Sound == /\ Writing \/ Readable(flash)
         /\ Readable(settings) /\ Readable(running) /\ shown

\* Erased flash comes into a record, a reply, the access point or the stored
\* settings in one way only: the other core copies the sector, or the device
\* restarts with it, between erase and program (server_settings.c:173-176,
\* 183, 201).  Whatever else mixes, errors and restarts elsewhere, does not.
OnlyTheWindowSpoils ==
    [][Sound /\ ~Sound' =>
          Writing /\ (Reset \/ \E c \in Conns : Post(c) \/ Get(c))]_vars

\* New settings take effect: the device restarts with what was stored, or the
\* chip has stopped (server_settings.c:194-197).
SavedTakesEffect == flash # running ~> flash = running \/ fault

\* What can be typed: what fits the buffers of the getters with its quotes,
\* has no comma or brace, and is an address where one is asked for.
Fits(form) ==
    \A f \in Fields :
      /\ CharsOf(form[f]) <= IF f \in Addresses THEN 14 ELSE 29
      /\ \A i \in DOMAIN form[f] : form[f][i] \notin {",", "}"}
      /\ f \in Addresses => form[f] \in {<<h>> : h \in Hosts} /\ form[f] # Ones

\* A form that can be stored is not refused: every key is found, although a
\* key may be part of another (json_parser.c:36-58, 212-259).
RefusedForCause ==
    [][\A c \in Conns : pc[c] = "parse" /\ pc'[c] = "sendErr"
          => ~Fits(body[c])]_vars

\* However the calls mix, what is stored in a field is what somebody typed in
\* that field, what it came with, nothing, or the erased flash that was there
\* before it (server_settings.c:50-108): never a value of another field.
StoredWhereTyped ==
    [][\A c \in Conns : Program(c) =>
          \A f \in Plain : flash'[f] \in {p[f] : p \in Posted}
                                          \cup {Factory[f], Ones, None}]_vars

\* "Require Wi-Fi password for connecting" (www/index.html:218): with that box
\* checked, the password of the form is stored.
PasswordRequired ==
    [][\A c \in Conns : Program(c) /\ body[c]["has_password"]
          => flash'["password"] = body[c]["password"]]_vars

\* A POST stores no erased text.  It does when another POST copies the sector to
\* the record that both use, between erase and program.
StoresReadable == [][\A c \in Conns : Program(c) => Readable(flash')]_vars

\* "The settings have been updated" (www/index.html:245): a POST stores what its
\* body said.  It does when no other POST comes between.
StoresWhatWasPosted ==
    [][\A c \in Conns : Program(c) => \A f \in Plain : flash'[f] = body[c][f]]_vars
=============================================================================
