--------------------------- MODULE MCReceiptIndex ---------------------------
(* Instances of ReceiptIndex for TLC. *)
EXTENDS ReceiptIndex, TLC

CONSTANTS a, b  \* two receipts of one directory

\* `seal a' names the receipt `a.seal.json'; `index rebuild .' finds it as
\* `./a.seal.json'.  Another directory holds no receipt any more.
Spellings == {"bare", "dot"}
Directories == {[files |-> {a, b}, as |-> "dot"], [files |-> {}, as |-> "dot"]}

\* The receipts have names of their own.
Paths == Receipt \X Spelling
ByName == [x \in Paths |-> x]

Symmetry == Permutations(Receipt) \cup Permutations(Seal) \cup Permutations(Caller)
=============================================================================
