----------------------------- MODULE DnsServer -----------------------------
(* The DNS server of the access point (dnsserver/dnsserver.c): one task that *)
(* answers every plain query with one of two addresses.  A name is the       *)
(* sequence of its labels, equal when they differ in case only.              *)
EXTENDS Naturals, SequencesExt

CONSTANTS
    Labels,     \* labels of names
    Begins      \* <<l, m>>: label l is how m begins, or is m

ASSUME LabelsAssumption ==
    /\ Begins \subseteq Labels \X Labels
    /\ \A l \in Labels : <<l, l>> \in Begins

\* Only these are answered: a query with additional records, as a resolver
\* with EDNS sends them, is passed over without an answer.
QueryKinds == {"plain", "edns"}
Accepted(kind) == kind = "plain"

-----------------------------------------------------------------------------
(* get_address_for_encoded_domain: one pass over the labels of the question. *)
(* next is the component of the domain to compare with.                      *)

Unmatched == [match |-> FALSE, loose |-> FALSE, next |-> 1]

\* The first label is compared over its own length only.
Ours(l, names) == <<l, names.host>> \in Begins

AnyOrder(s, l, domain) ==       \* mutant: match is not asked
    s.next <= Len(domain) /\ l = domain[s.next]
Follows(s, l, domain) ==
    s.match /\ s.next <= Len(domain) /\ l = domain[s.next]

Component(s, i, l, names, ignore) ==
    CASE i = 1 /\ Ours(l, names) ->
           [s EXCEPT !.match = TRUE, !.loose = ignore]
      [] i > 1 /\ Follows(s, l, names.domain) ->
           [s EXCEPT !.match = TRUE, !.next = @ + 1]
      [] OTHER -> [s EXCEPT !.match = FALSE]

Address(name, names, ignore) ==
    LET after[i \in Nat] ==      \* i labels
          IF i = 0 THEN Unmatched
          ELSE Component(after[i - 1], i, name[i], names, ignore)
        end == after[Len(name)]
    IN  IF end.match \/ end.loose THEN "primary" ELSE "secondary"

-----------------------------------------------------------------------------
(* What the answer is meant to be                                           *)

\* The host name or how it begins, alone or with leading components of the
\* domain; with any suffix if "Ignore domain if host name matches" is set
\* (www/index.html:227).
IsOurs(name, names, ignore) ==
    /\ Len(name) > 0 /\ Ours(name[1], names)
    /\ ignore \/ IsPrefix(Tail(name), names.domain)
=============================================================================
