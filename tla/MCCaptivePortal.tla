--------------------------- MODULE MCCaptivePortal ---------------------------
(* A small instance of CaptivePortal for TLC: one host name with a shorter   *)
(* beginning, domains of none to three components, four files.               *)
EXTENDS CaptivePortal

MCBegins == { <<l, l>> : l \in Labels } \cup { <<"astro", "astrotimer">> }

MCChars ==
    [s \in Labels \cup {"", "sub", "index.html", "style.css", "page.txt", "raw.bin",
                        "missing"} \cup {ct[2] : ct \in Range(ContentTypes)}
       |-> CASE s = "" -> 0 [] s = "astrotimer" -> 3 [] s = "long" -> 6
             [] s = "text/html" -> 2 [] OTHER -> 1]

MCTree ==
    { [dir |-> <<>>, name |-> "index.html", ext |-> ".html", size |-> 2],
      [dir |-> <<>>, name |-> "style.css", ext |-> ".css", size |-> 1],
      [dir |-> <<"sub">>, name |-> "index.html", ext |-> ".html", size |-> 1],
      [dir |-> <<"sub">>, name |-> "raw.bin", ext |-> ".bin", size |-> 0] }
MCUnread == {{f \in MCTree : f.name = "style.css"}}

Config(domain, second, ignore) ==
    [host |-> "astrotimer", domain |-> domain, second |-> second, ignore |-> ignore]
MCConfigs ==
    { Config(<<>>, FALSE, TRUE), Config(<<"net", "home">>, TRUE, FALSE),
      Config(<<"long">>, TRUE, FALSE) }

\* Names of up to three labels; "web" stands for the rest of the world.
MCAsked ==
    { <<>>, <<"astrotimer">>, <<"astro", "net">>, <<"astrotimer", "home">>,
      <<"web", "net">>, <<"astro", "net", "home">>, <<"astrotimer", "net", "web">> }
=============================================================================
