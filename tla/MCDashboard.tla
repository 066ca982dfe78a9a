---------------------------- MODULE MCDashboard ----------------------------
(* Instances of Dashboard for TLC. *)
EXTENDS Dashboard

CONSTANTS png, txt  \* an artifact that can hold a manifest, and one that cannot

Offline == [c2pa |-> TRUE, embed |-> FALSE, tsa |-> FALSE, rekor |-> FALSE, pinned |-> TRUE,
            failFast |-> FALSE, index |-> TRUE, mcp |-> FALSE]
Embed   == [Offline EXCEPT !.embed = TRUE]
Tool    == [Embed EXCEPT !.index = FALSE, !.mcp = TRUE]

SomeModes == {Offline, Embed, Tool}

\* Artifacts and the paths that name them are written alike.
Denotes == [n \in Name |-> n]

Given(paths, under) == [paths |-> paths, under |-> under]
EachInput == {Given({png}, {}), Given({txt}, {})}
=============================================================================
