---------------------------- MODULE MCDhcpServer ----------------------------
(* Small instances of DhcpServer for TLC. *)
EXTENDS DhcpServer, TLC

AnySlot == Slots \cup {NoSlot}
Nothing == {}
\* Nothing, a client identifier that holds the bytes of an option 50, and a
\* list of parameters.
MCOthers == {<<>>, Option(61, <<50, 2, Network, BaseIP>>),
             Option(12, <<1>>) \o Option(55, <<1, 50, 3, 6>>)}
Symmetry == Permutations(Macs)
=============================================================================
