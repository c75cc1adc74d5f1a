--------------------------- MODULE RequestReader ---------------------------
(***************************************************************************)
(* How a connection task of AstroTimer takes a request out of its socket   *)
(* (MicroLogiciel/httpserver.c): the first line with recv_line, the header *)
(* lines and the lines of a POST body with recv_next_line_buffered.  TCP   *)
(* cuts the request into segments anywhere; one buffer holds what arrived. *)
(* A byte is one of the few that the code tells apart.                     *)
(***************************************************************************)
EXTENDS Integers, Sequences, SequencesExt

CONSTANTS
    Requests,    \* what clients send: records [post, headers, body]
    Size,        \* buffer_size
    MinHeader,   \* the 32 bytes that must be left for the headers
    Leftovers    \* what malloc may leave in the buffer, earlier requests too

\* "M" starts POST and "G" starts GET, "L" starts a Content-length header.
Byte == {"M", "G", "L", "x", "SP", "CR", "LF", "NUL"}
CRLF == <<"CR", "LF">>

FirstLine(r) == <<IF r.post THEN "M" ELSE "G", "SP", "x", "SP", "x">>
Lines(r) == <<FirstLine(r)>> \o r.headers \o <<<<>>>> \o r.body
Encoded(ls) == FlattenSeq([i \in DOMAIN ls |-> ls[i] \o CRLF])
Bytes(r) == Encoded(Lines(r))
ContentLength(r) == Len(Encoded(r.body))

\* A line has no end inside of it, nor the end of a C string.
Texts == Seq(Byte \ {"CR", "NUL"})

ASSUME ReaderAssumption ==
    /\ Size \in Nat /\ MinHeader \in Nat \ {0} /\ MinHeader < Size
    /\ Leftovers \subseteq [1..Size -> Byte]
    /\ \A r \in Requests :
         r.post \in BOOLEAN /\ r.headers \in Seq(Texts) /\ r.body \in Seq(Texts)

VARIABLES
    request, cut,  \* what the client sends, and how much before it hangs up
    whole,         \* whether the first segment holds all of the first line
    got,           \* bytes that recv has returned
    buffer,        \* ctx->buffer
    phase,         \* first, parse, headers, body, handled or dropped
    base,          \* where header_buf starts (offset_from_main_buffer)
    used, pos,     \* header_buf_used and _pos, later post.buffer_used and _pos
    post,          \* reqtype == HTTP_POST
    remaining,     \* post.remaining_input_len
    skipped,       \* skipped_len
    lines          \* the lines that recv_next_line_buffered has returned

clientVars == <<request, cut, whole>>
bufferVars == <<buffer, base, used, pos, skipped>>
vars == <<clientVars, got, bufferVars, phase, post, remaining, lines>>

Room == Size - base              \* header_buf_size

\* A client that sends the whole request waits for the answer.
Init ==
    /\ request \in Requests /\ cut \in 0..Len(Bytes(request)) /\ got = 0
    /\ whole \in BOOLEAN
    /\ buffer \in Leftovers
    /\ phase = "first" /\ base = 0 /\ used = 0 /\ pos = 0
    /\ post = FALSE /\ remaining = 0 /\ skipped = 0 /\ lines = <<>>

Goto(p) == phase' = p

\* Where a line of buffer[from..to] ends; strnstr stops at a NUL.
Breaks(b, from, to) ==
    {i \in from..(to - 1) : /\ b[i] = "CR" /\ b[i + 1] = "LF"
                            /\ \A j \in from..i : b[j] # "NUL"}
First(S) == CHOOSE i \in S : \A j \in S : i <= j

\* b with the sequence s copied to index at.
Copied(b, at, s) ==
    [i \in 1..Size |-> IF i \in at..(at + Len(s) - 1) THEN s[i - at + 1]
                       ELSE b[i]]

\* Segments that recv may return into room bytes; none once the client is gone.
Segments(room) ==
    {SubSeq(Bytes(request), got + 1, got + n) :
        n \in {k \in 1..room : got + k <= cut}}
Closed == got = cut /\ cut < Len(Bytes(request))

-----------------------------------------------------------------------------
(* The first line                                                           *)

\* recv_line: each segment goes to the start of the buffer.  Until the first
\* line is complete used holds its buffer_done.
RecvLine ==
    /\ phase = "first"
    /\ \E s \in Segments(Size - used) :
         /\ whole => \/ got + Len(s) = cut
                     \/ Len(s) >= Len(FirstLine(request) \o CRLF)
         /\ got' = got + Len(s) /\ used' = used + Len(s)
         /\ buffer' = Copied(buffer, 1, s)
         /\ IF Breaks(buffer', 1, used') # {} THEN Goto("parse")
            ELSE IF used' = Size THEN Goto("dropped") ELSE UNCHANGED phase
    /\ UNCHANGED <<clientVars, base, pos, post, remaining, skipped, lines>>

\* <method> SP <path> SP ... CRLF, and the rest belongs to the headers.
ParseFirst ==
    LET Ends(from) == {i \in from..Size : buffer[i] = "NUL"}
        Spaces(from) == {i \in from..Size : /\ buffer[i] = "SP"
                                            /\ \A e \in Ends(from) : i < e}
        p1 == First(Spaces(1))
        p2 == First(Spaces(p1 + 1))
        p3 == First(Breaks(buffer, p2, Size))
    IN /\ phase = "parse"
       /\ IF /\ Spaces(1) # {} /\ Spaces(p1 + 1) # {}
             /\ Breaks(buffer, p2, Size) # {}
             /\ Size - (p3 + 1) >= MinHeader
          THEN /\ base' = p3 + 1 /\ used' = used - (p3 + 1)
               /\ buffer' = [buffer EXCEPT ![p2] = "NUL"]
               /\ post' = (buffer[1] = "M")
               /\ lines' = <<[text |-> SubSeq(buffer, 1, p3 - 1), long |-> FALSE]>>
               /\ Goto("headers")
          ELSE Goto("dropped") /\ UNCHANGED <<base, used, buffer, post, lines>>
       /\ UNCHANGED <<clientVars, got, pos, remaining, skipped>>

-----------------------------------------------------------------------------
(* recv_next_line_buffered and its two callers                              *)

Reading == phase \in {"headers", "body"}
Start == base + pos + 1          \* index of the first unread byte
Limit == base + used             \* index of the last one
Found == Breaks(buffer, Start, Limit)

\* NULL: "unexpected end of headers", or the end of the body for the handler.
NoLine == Goto(IF phase = "headers" THEN "dropped" ELSE "handled")

\* *offset > *buffer_used: the end of the first line was found behind what was
\* received, in an earlier request.
Beyond ==
    /\ Reading /\ pos > used
    /\ NoLine
    /\ UNCHANGED <<clientVars, got, bufferVars, post, remaining, lines>>

\* What of the body is still to be received, when the headers are over.
Forgets(n) == remaining                      \* mutant: counts it twice
NotBuffered(n) == remaining - (used - n)

\* The loop of parse_and_handle_http_request, after a line that ends before n.
TakeHeader(line, n) ==
    IF line = <<>>                           \* !line[0]
    THEN IF post /\ remaining # 0
         THEN Goto("body") /\ remaining' = NotBuffered(n)
         ELSE Goto("handled") /\ UNCHANGED remaining
    ELSE /\ UNCHANGED phase
         /\ remaining' = IF line[1] = "L" THEN ContentLength(request)
                         ELSE remaining

\* http_server_read_post_line: a line that was cut ends the body, and so does
\* nothing more to receive and nothing buffered.
TakePost(n) ==
    /\ IF skipped # 0 \/ (remaining <= 0 /\ n >= used) THEN NoLine
       ELSE UNCHANGED phase
    /\ UNCHANGED remaining

TakeLine ==
    /\ Reading /\ pos <= used /\ Found # {}
    /\ LET p == First(Found)
           line == SubSeq(buffer, Start, p - 1)
           n == p + 1 - base
       IN /\ buffer' = [buffer EXCEPT ![p] = "NUL"]
          /\ pos' = n
          /\ lines' = Append(lines, [text |-> line, long |-> skipped # 0])
          /\ IF phase = "headers" THEN TakeHeader(line, n) ELSE TakePost(n)
          /\ skipped' = 0
    /\ UNCHANGED <<clientVars, got, base, used, post>>

\* The buffer before the next recv: emptied but for a last CR when a line has
\* filled it, moved to its start when the line began further on.
Full == pos = 0 /\ used = Room
Movable == pos > 0 /\ pos < used
NoCR == FALSE                                \* mutant: starts with nothing
LastCR == buffer[Size] = "CR"

NewPos == IF Movable THEN 0 ELSE pos

Kept == IF Full THEN IF LastCR THEN 1 ELSE 0
        ELSE IF Movable THEN used - pos ELSE used
Moved ==
    IF Full THEN [buffer EXCEPT ![base + 1] = buffer[Size]]
    ELSE IF Movable THEN Copied(buffer, base + 1, SubSeq(buffer, Start, Limit))
    ELSE buffer

Unlimited == Room                            \* mutant: asks for too much
Avail ==
    LET free == Room - Kept IN
    IF phase = "body" /\ remaining < free THEN remaining ELSE free

Refill ==
    /\ Reading /\ pos <= used /\ Found = {}
    /\ skipped' = IF Full THEN Room - Kept ELSE skipped
    /\ pos' = NewPos
    /\ \/ /\ Avail <= 0 \/ Closed
          /\ NoLine
          /\ buffer' = Moved /\ used' = Kept
          /\ UNCHANGED <<got, remaining>>
       \/ /\ Avail > 0
          /\ \E s \in Segments(Avail) :
               /\ got' = got + Len(s) /\ used' = Kept + Len(s)
               /\ buffer' = Copied(Moved, base + Kept + 1, s)
               /\ remaining' = IF phase = "body" THEN remaining - Len(s)
                               ELSE remaining
          /\ UNCHANGED phase
    /\ UNCHANGED <<clientVars, base, post, lines>>

\* recv returned 0 in recv_line: done <= 0.
Unheeded == FALSE                            \* mutant: recv again
GaveUp == Closed

HangUp ==
    /\ phase = "first" /\ GaveUp
    /\ Goto("dropped")
    /\ UNCHANGED <<clientVars, got, bufferVars, post, remaining, lines>>

Finished == phase \in {"handled", "dropped"} /\ UNCHANGED vars

Next == RecvLine \/ ParseFirst \/ Beyond \/ TakeLine \/ Refill
        \/ HangUp \/ Finished

Spec == Init /\ [][Next]_vars
FairSpec == Spec /\ WF_vars(Next)

-----------------------------------------------------------------------------
(* Properties                                                               *)

TypeOK ==
    /\ request \in Requests /\ cut \in 0..Len(Bytes(request)) /\ got \in 0..cut
    /\ whole \in BOOLEAN
    /\ buffer \in [1..Size -> Byte]
    /\ phase \in {"first", "parse", "headers", "body", "handled", "dropped"}
    /\ base \in 0..Size /\ post \in BOOLEAN
    /\ used \in (-Size)..Room /\ pos \in {0} \cup 0..used /\ skipped \in 0..Room
    /\ remaining \in Int
    /\ \A i \in DOMAIN lines : lines[i].long \in BOOLEAN

\* However TCP cuts the request after its first line, the lines that the code hands on are those
\* the client sent, each once and in their order; of one longer than the
\* buffer, marked as such, it is the end (httpserver.c:61-117).
LinesAreSent ==
    LET sent == Lines(request) IN
    whole => /\ Len(lines) <= Len(sent)
             /\ \A i \in DOMAIN lines :
                  IF lines[i].long THEN IsSuffix(lines[i].text, sent[i])
                  ELSE lines[i].text = sent[i]

\* A request that was sent to its end, or whose client is gone, is done with:
\* the task never waits for bytes that nobody sends (httpserver.c:98-100, 242).
Ended == phase \in {"handled", "dropped"}
RequestEnds == whole => <>Ended

\* A client that hangs up releases its task, and so a slot of the server,
\* wherever it was in the request (httpserver.c:45-47, 106-109).
ReleasedByClient == cut < Len(Bytes(request)) => <>Ended

\* "Receive at least one line into the buffer. Return the total size of
\* received data." (httpserver.c:39)
LineIsInBuffer ==
    phase = "parse" => SubSeq(buffer, 1, used) = SubSeq(Bytes(request), 1, got)

\* "Returns NULL when the entire request has been read." (httpserver.h:29):
\* of a client that sent everything, with no line too long for the buffer.
NullAtTheEnd ==
    phase = "handled" /\ whole /\ post /\ remaining > 0 /\ cut = Len(Bytes(request))
       => \E i \in DOMAIN lines : lines[i].long

\* "Proper end of headers" (httpserver.c:229): all of them have been read.
ProperEnd ==
    phase = "body" /\ whole => Len(lines) >= 2 + Len(request.headers)
=============================================================================
