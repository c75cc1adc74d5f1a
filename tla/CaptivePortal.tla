--------------------------- MODULE CaptivePortal ---------------------------
(* How a browser comes to a page of the device: the DNS server gives it an   *)
(* address, the HTTP server redirects a foreign host name to its own and     *)
(* serves the file, while the settings may be stored and the device          *)
(* restarted at any time.  Names are read from the flash sector through      *)
(* pointers (main.c:97-100); the addresses and the flag are copies made when *)
(* the access point came up.                                                 *)
EXTENDS DnsServer, SimpleFS

CONSTANTS
    Configs,     \* network settings: [host, domain, second, ignore]
    HostLimit,   \* longest Host header that is kept (30)
    Asked,       \* names that the browser is given
    Literal,     \* the device's address, typed instead of a name
    Unread       \* sets of files that the builder may fail to read

ASSUME PortalAssumption ==
    /\ Configs \subseteq [host : Labels, domain : Seq(Labels),
                          second : BOOLEAN, ignore : BOOLEAN]
    /\ Asked \subseteq Seq(Labels) /\ Literal \in Labels

VARIABLES
    flash,       \* s_Settings
    boot,        \* the settings when the access point came up
    post,        \* a POST of settings: none, stored, armed
    image,       \* the linked file system image
    unread,      \* files missing in it
    pc,          \* the browser
    name, path,  \* what it asks for
    addr,        \* what it resolved the name to
    hops, moved, \* redirects it followed, and whether the settings changed
    reply,       \* what the server sends, and what has arrived
    got

settings == <<flash, boot, post>>
web == <<image, unread>>
request == <<name, path, addr, hops, moved>>
vars == <<settings, web, pc, request, reply, got>>

Root == <<"">>
Paths == {PathInArchive(f) : f \in Tree} \cup {<<"missing">>}
NoReply == [code |-> 0, location |-> <<>>, data |-> <<>>]

FullName(names) == <<names.host>> \o names.domain

-----------------------------------------------------------------------------
(* The HTTP server (parse_and_handle_http_request)                          *)

\* A Host header that is too long is not kept, and then matches nothing.
Chars1(n) == Bytes(n) - 1
Kept(n) == IF Chars1(n) <= HostLimit THEN n ELSE <<>>

OnlyHost(n, names) == n = <<names.host>>    \* mutant: the domain is forgotten
HostMatches(n, names) == n \in {<<names.host>>, FullName(names)}

\* Without the path: a redirect always leads to the main page.
Redirect(names) ==
    [code |-> 302, location |-> FullName(names), data |-> << <<"302", 0>> >>]

\* http_server_send_reply: a header, then the content.
Header(type, size) == << <<type, size>> >>
Answer(p) ==
    LET r == Retrieve(image, p) IN
    IF r.found
    THEN [code |-> 200, location |-> <<>>,
          data |-> Header(r.type, Len(r.content)) \o r.content]
    ELSE [code |-> 404, location |-> <<>>, data |-> << <<"404", 0>> >>]

\* send_all: send takes some of what is left.
Chunk(k) == SubSeq(reply.data, Len(got) + 1, Len(got) + k)

-----------------------------------------------------------------------------
Goto(from, to) == pc = from /\ pc' = to

Init ==
    /\ flash \in Configs /\ boot = flash /\ post = "none"
    /\ unread \in Unread
    /\ \E files \in Listings :
         image = Build(files, unread) /\ Consistent(files, image)
    /\ pc = "idle" /\ name = <<>> /\ path = Root /\ addr = "none"
    /\ hops = 0 /\ moved = FALSE /\ reply = NoReply /\ got = <<>>

\* The browser: a new page, by a name or by the address.
Ask ==
    /\ pc = "idle" /\ moved' = FALSE
    /\ path' \in Paths
    /\ \/ name' \in Asked /\ pc' = "resolve" /\ addr' = "none"
       \/ name' = <<Literal>> /\ pc' = "connect" /\ addr' = "primary"
    /\ UNCHANGED <<settings, web, hops, reply, got>>

\* A query with EDNS gets no answer; resolvers then ask without.
Query(kind) ==
    /\ \/ kind = "edns" /\ pc = "resolve"
       \/ kind = "plain" /\ pc \in {"resolve", "again"}
    /\ \/ ~Accepted(kind) /\ pc' = "again" /\ UNCHANGED addr
       \/ Accepted(kind) /\ addr' = Address(name, flash, boot.ignore)
          /\ pc' = IF addr' = "secondary" /\ ~boot.second
                   THEN "nowhere" ELSE "connect"
    /\ UNCHANGED <<settings, web, name, path, hops, moved, reply, got>>

Request ==
    /\ Goto("connect", "receive")
    /\ reply' = IF HostMatches(Kept(name), flash) THEN Answer(path)
                ELSE Redirect(flash)
    /\ UNCHANGED <<settings, web, request, got>>

Send ==
    /\ pc = "receive" /\ Len(got) < Len(reply.data)
    /\ \E k \in 1 .. Len(reply.data) - Len(got) : got' = got \o Chunk(k)
    /\ UNCHANGED <<settings, web, pc, request, reply>>

\* send fails: the rest is not sent, and nobody is told.
SendFail ==
    /\ pc = "receive" /\ Len(got) < Len(reply.data)
    /\ pc' = "broken"
    /\ UNCHANGED <<settings, web, request, reply, got>>

\* The socket is closed; the browser follows a redirect.
Received ==
    /\ pc = "receive" /\ Len(got) >= Len(reply.data)
    /\ IF reply.code = 302
       THEN /\ pc' = "resolve" /\ name' = reply.location /\ path' = Root
            /\ hops' = IF hops < 2 THEN hops + 1 ELSE hops
            /\ got' = <<>> /\ reply' = NoReply
       ELSE pc' = "done" /\ UNCHANGED <<name, path, hops, got, reply>>
    /\ UNCHANGED <<settings, web, addr, moved>>

\* The browser forgets the page.
Forget ==
    /\ pc' = "idle" /\ name' = <<>> /\ path' = Root /\ addr' = "none"
    /\ hops' = 0 /\ reply' = NoReply /\ got' = <<>>

Leave ==
    /\ pc \in {"done", "broken", "nowhere"} /\ Forget
    /\ UNCHANGED <<settings, web, moved>>

-----------------------------------------------------------------------------
(* The settings                                                             *)

\* write_pico_server_settings, in a critical section.
Store ==
    /\ post = "none" /\ post' = "stored"
    /\ flash' \in Configs
    /\ moved' = TRUE
    /\ UNCHANGED <<boot, web, pc, name, path, addr, hops, reply, got>>

\* After the reply.
NeverArms == post' = post       \* mutant: watchdog_reboot is forgotten
Arms == post' = "armed"
Arm ==
    /\ post = "stored" /\ Arms
    /\ UNCHANGED <<flash, boot, web, pc, request, reply, got>>

\* The access point comes up with what flash holds; its stations join again.
Restart ==
    /\ boot' = flash /\ post' = "none" /\ moved' = TRUE /\ Forget
    /\ UNCHANGED <<flash, web>>

Watchdog == post = "armed" /\ Restart

Serve ==
    \/ \E kind \in QueryKinds : Query(kind)
    \/ Request \/ Send \/ Received
Next == Ask \/ Serve \/ SendFail \/ Leave \/ Store \/ Arm \/ Watchdog \/ Restart

Spec == Init /\ [][Next]_vars

\* A browser that has asked goes on until it has its page, a reply that is
\* being sent is acknowledged, an armed watchdog fires.
FairSpec ==
    /\ Spec /\ WF_vars(Query("plain")) /\ WF_vars(Request) /\ WF_vars(Send)
    /\ WF_vars(Received) /\ WF_vars(Arm) /\ WF_vars(Watchdog)
-----------------------------------------------------------------------------
(* Properties                                                               *)

NameFits == Chars1(FullName(flash)) <= HostLimit

TypeOK ==
    /\ flash \in Configs /\ boot \in Configs
    /\ post \in {"none", "stored", "armed"}
    /\ pc \in {"idle", "resolve", "again", "connect", "nowhere", "receive",
               "broken", "done"}
    /\ path \in Paths
    /\ addr \in {"none", "primary", "secondary"}
    /\ hops \in 0..2 /\ moved \in BOOLEAN
    /\ IsPrefix(got, reply.data)

\* The address that a browser acts on is the one that the texts of the page
\* (www/index.html:225-227) and the comment on the secondary address
\* (server_settings.h:13-18) promise for that name (dnsserver.c:95-134).
AnswerIsMeant ==
    pc \in {"connect", "nowhere"} /\ ~moved /\ name # <<Literal>>
      => (addr = "primary" <=> IsOurs(name, flash, boot.ignore))

\* A redirect leads to a name that the DNS server answers with the device and
\* that the HTTP server takes for its own: there is never a second one, unless
\* the settings change in between or the name is too long for the Host header
\* that the server keeps (httpserver.c:231, 248-263).
OneRedirect == hops < 2 \/ moved \/ ~NameFits

\* What arrives of a file is the beginning of the header and of the packed
\* bytes of the file of that path, and all of them if the connection lasts;
\* a file that exists is found, under every listing order of the builder
\* (SimpleFSBuilder.cpp:136-157, main.c:48-63, httpserver.c:137-170).
MeantType(f) ==
    IF \E ct \in Range(ContentTypes) : ct[1] = f.ext
    THEN (CHOOSE ct \in Range(ContentTypes) : ct[1] = f.ext)[2]
    ELSE "text/html"
Meant(f) ==
    Header(MeantType(f), f.size) \o [k \in 1..f.size |-> Byte(f, k - 1, unread)]
ServedIsPacked ==
    \A f \in Tree :
      /\ path = PathInArchive(f) /\ reply.code \in {200, 404}
           => reply.code = 200 /\ IsPrefix(got, Meant(f))
      /\ path = PathInArchive(f) /\ pc = "done" => got = Meant(f)

\* A browser that asks for the device, or for anything where a secondary
\* address is configured, gets a page: directly or by the redirect that the
\* "sign into network" mechanism is made of (server_settings.h:13-18).
GetsPage ==
    pc = "resolve" /\ ~moved /\ NameFits
    /\ (boot.second \/ IsOurs(name, flash, boot.ignore))
      ~> pc \in {"done", "broken"} \/ moved

\* The names that HTTP and DNS use are those of the network, but for a time:
\* the pointers into the sector show the new ones at once, the access point
\* has the old ones until the restart (main.c:97-100).
NamesSettle == flash # boot ~> flash = boot
=============================================================================
