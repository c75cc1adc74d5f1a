------------------------------ MODULE SimpleFS ------------------------------
(* The image of the web pages: SimpleFSBuilder packs a directory, main.c     *)
(* looks files up in it.  An image is laid out in bytes as in the code; a    *)
(* string is kept whole in its first byte, and Chars says how long it is.    *)
EXTENDS Integers, FiniteSets, SequencesExt

CONSTANTS
    Tree,      \* files: [dir, name, ext, size], dir a sequence of names
    Chars      \* number of characters of each string

\* std::map keeps the extensions sorted.
ContentTypes ==
    << <<".css", "text/css">>, <<".htm", "text/html">>, <<".html", "text/html">>,
       <<".jpg", "image/jpeg">>, <<".png", "image/png">>,
       <<".svg", "image/svg+xml">>, <<".txt", "text/plain">> >>

\* What num adds up to over a sequence.
Sum(s, num) ==
    LET to[n \in 0..Len(s)] == IF n = 0 THEN 0 ELSE to[n - 1] + num[s[n]]
    IN  to[Len(s)]

\* Size in bytes of a path, its slashes and its end included.
Bytes(p) == Sum(p, Chars) + Len(p)

PathInArchive(f) ==
    Append(f.dir, IF f.name = "index.html" THEN "" ELSE f.name)

\* A file system: a directory has one file of a name.
ASSUME TreeAssumption ==
    /\ IsFiniteSet(Tree)
    /\ \A f \in Tree : /\ f.size \in Nat /\ f.dir \in Seq(DOMAIN Chars)
                       /\ {f.name, ""} \subseteq DOMAIN Chars /\ f.name # ""
    /\ \A f, g \in Tree : f.dir = g.dir /\ f.name = g.name => f = g
    /\ Range(ContentTypes) \subseteq STRING \X DOMAIN Chars
    /\ \A part \in DOMAIN Chars : Chars[part] \in Nat

\* directory_iterator lists a directory in any order, a subdirectory where it
\* stands.
Under(d, f) == IsPrefix(d, f.dir)
Together(s, d) ==
    \A i, k \in DOMAIN s : \A j \in i..k :
      Under(d, s[i]) /\ Under(d, s[k]) => Under(d, s[j])
Listings == {s \in SetToSeqs(Tree) : \A f \in Tree : Together(s, f.dir)}

-----------------------------------------------------------------------------
(* The builder.  Sizes are added up first, offsets while the blocks are      *)
(* filled.  A file that cannot be read leaves zeros, without an error.       *)

Byte(f, k, unread) == IF f \in unread THEN <<"", 0>> ELSE <<f.name, k>>

NameBlockSize(files) ==
    Sum(files, [f \in Tree |-> Bytes(PathInArchive(f))])
    + Sum(ContentTypes, [ct \in Range(ContentTypes) |-> Bytes(<<ct[2]>>)])

\* m with v at a.
Put(m, a, v) == [x \in DOMAIN m \cup {a} |-> IF x = a THEN v ELSE m[x]]

AddType(b, ct) ==
    [entries |-> b.entries, base |-> b.base, dataOff |-> b.dataOff,
     mem     |-> Put(b.mem, b.nameOff, <<ct[2]>>),
     types   |-> Put(b.types, ct[1], b.nameOff),
     nameOff |-> b.nameOff + Bytes(<<ct[2]>>)]

FirstType(types, ext) ==        \* mutant: the first of the map for the others
    IF ext \in DOMAIN types THEN types[ext] ELSE 0
TypeOf(types, ext) == IF ext \in DOMAIN types THEN types[ext] ELSE types[".html"]

\* The bytes of f from address data on.
Copied(m, data, f, unread) ==
    LET to == data..(data + f.size - 1) IN
    [x \in DOMAIN m \cup to |-> IF x \in to THEN Byte(f, x - data, unread) ELSE m[x]]

AddFile(b, f, unread) ==
    [base    |-> b.base, types |-> b.types,
     entries |-> Append(b.entries, [size |-> f.size, name |-> b.nameOff,
                                    type |-> TypeOf(b.types, f.ext),
                                    data |-> b.dataOff]),
     mem     |-> Put(Copied(b.mem, b.base + b.dataOff, f, unread),
                     b.nameOff, PathInArchive(f)),
     nameOff |-> b.nameOff + Bytes(PathInArchive(f)),
     dataOff |-> b.dataOff + f.size]

Empty(files) ==
    [entries |-> <<>>, mem |-> <<>>, types |-> <<>>,
     base |-> NameBlockSize(files), nameOff |-> 0, dataOff |-> 0]

Build(files, unread) ==
    LET typed[n \in 0..Len(ContentTypes)] ==
          IF n = 0 THEN Empty(files) ELSE AddType(typed[n - 1], ContentTypes[n])
        filled[n \in 0..Len(files)] ==
          IF n = 0 THEN typed[Len(ContentTypes)]
          ELSE AddFile(filled[n - 1], files[n], unread)
    IN  filled[Len(files)]

\* "Unexpected name block size", "Unexpected data block size".
Consistent(files, b) ==
    /\ b.nameOff = b.base
    /\ b.dataOff = Sum(files, [f \in Tree |-> f.size])
    /\ Len(b.entries) = Len(files)

-----------------------------------------------------------------------------
(* The reader: the first entry of that name (do_retrieve_file)              *)

NameAt(img, e) == img.mem[e.name]

Retrieve(img, path) ==
    LET named == {i \in DOMAIN img.entries : NameAt(img, img.entries[i]) = path} IN
    IF named = {} THEN [found |-> FALSE]
    ELSE LET e == img.entries[CHOOSE i \in named : \A j \in named : i <= j] IN
         [found |-> TRUE, type |-> img.mem[e.type][1],
          content |-> [k \in 1..e.size |-> img.mem[img.base + e.data + k - 1]]]
=============================================================================
