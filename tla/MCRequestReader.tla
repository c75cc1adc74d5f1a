--------------------------- MODULE MCRequestReader ---------------------------
(* Small instances of RequestReader for TLC. *)
EXTENDS RequestReader

Text(n) == [i \in 1..n |-> "x"]
Post(hs, b) == [post |-> TRUE, headers |-> hs, body |-> b]
Length == <<"L">>

\* A header or body line that fits into the 9 bytes behind the first line, that
\* fills them with its CR and LF (7) or with its CR only (8), or is longer.
MCRequests ==
    {Post(<<Length>>, <<Text(7), Text(1)>>), Post(<<Length, Text(9)>>, <<Text(1)>>),
     [post |-> FALSE, headers |-> <<Text(8)>>, body |-> <<>>]}

MCShort == {Post(<<Length>>, <<Text(1)>>)}

\* Fresh memory, and the remains of an earlier request, whose spaces and CR LF
\* complete a first line that arrives in pieces, behind what was received.
Remains == <<"x", "x", "x", "x", "x", "x", "SP", "x", "CR", "LF",
             "L", "CR", "LF", "NUL", "LF", "x">>
MCLeftovers == {[i \in 1..Size |-> b] : b \in {"NUL", "x"}} \cup {Remains}
=============================================================================
