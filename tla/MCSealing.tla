----------------------------- MODULE MCSealing -----------------------------
(* Instances of Sealing for TLC. *)
EXTENDS Sealing

\* An artifact that can hold a manifest, one that cannot, a receipt, and another name
\* of the first; else artifacts and their names are written alike.
CONSTANTS png, txt, old, dotPng

Denotes == [n \in Name |-> IF n = dotPng THEN png ELSE n]

Offline  == [c2pa |-> TRUE, embed |-> FALSE, tsa |-> FALSE, rekor |-> FALSE, pinned |-> TRUE,
             failFast |-> FALSE, index |-> TRUE, mcp |-> FALSE]
NoC2pa   == [Offline EXCEPT !.c2pa = FALSE, !.failFast = TRUE, !.index = FALSE]
Embed    == [Offline EXCEPT !.embed = TRUE]
Stamped  == [Offline EXCEPT !.tsa = TRUE]
All      == [Stamped EXCEPT !.rekor = TRUE]
AllFast  == [All EXCEPT !.failFast = TRUE]
EmbedAll == [All EXCEPT !.embed = TRUE]
NewShard == [Offline EXCEPT !.rekor = TRUE, !.pinned = FALSE]

Tool(m)  == [m EXCEPT !.index = FALSE, !.mcp = TRUE]

AllModes     == {NoC2pa, Offline, Embed, Stamped, All, AllFast, EmbedAll,
                 Tool(Offline), Tool(EmbedAll), Tool(NewShard)}
SharedModes  == {Embed, All, Tool(EmbedAll)}
EmbedAllMode == {EmbedAll}

Given(paths, under) == [paths |-> paths, under |-> under]

\* One path; two; one and what a directory holds; a directory with a receipt in it;
\* a path and a receipt; one file twice.
AnyInputs == {Given({png}, {}), Given({png, txt}, {}), Given({txt}, {png}),
              Given({}, {png, old}), Given({txt, old}, {}), Given({png, dotPng}, {})}
EachOrBoth == {Given({png}, {}), Given({txt}, {}), Given({png, txt}, {})}
OneInput  == {Given({png}, {})}
=============================================================================
