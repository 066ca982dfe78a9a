------------------------------ MODULE KeyVault ------------------------------
(***************************************************************************)
(* What the keystore promises a user who runs one command at a time and    *)
(* lets each finish (docs/key-management.md): one active key in one        *)
(* storage mode; conversion keeps the key; rotation retires it whole,      *)
(* keeps the mode, and never brings a retired key back.                    *)
(***************************************************************************)
EXTENDS Naturals

VARIABLES
    active,     \* the active key, 0 if there is none
    mode,       \* "plaintext" or "encrypted"; "unset" before the first key
    leaving,    \* the key a rotation is moving to the archive, 0 if none
    retired     \* the archived keys

vars == <<active, mode, leaving, retired>>

Init ==
    /\ active = 0
    /\ mode = "unset"
    /\ leaving = 0
    /\ retired = {}

\* A key that was never retired becomes active, in the mode of the one before it.
Generate ==
    /\ active = 0 /\ leaving = 0
    /\ active' \in Nat \ {0}
    /\ active' \notin retired
    /\ mode' \in IF mode = "unset" THEN {"plaintext", "encrypted"} ELSE {mode}
    /\ UNCHANGED <<leaving, retired>>

\* encrypt and decrypt
Convert ==
    /\ active # 0
    /\ mode' = IF mode = "plaintext" THEN "encrypted" ELSE "plaintext"
    /\ UNCHANGED <<active, leaving, retired>>

\* A rotation takes the key out of use, and files it; an encrypted key is one
\* file and does both at once.
Detach ==
    /\ active # 0
    /\ active' = 0
    /\ leaving' = active
    /\ UNCHANGED <<mode, retired>>

Archive ==
    /\ leaving # 0
    /\ leaving' = 0
    /\ retired' = retired \cup {leaving}
    /\ UNCHANGED <<active, mode>>

DetachAndArchive ==
    /\ active # 0
    /\ active' = 0
    /\ retired' = retired \cup {active}
    /\ UNCHANGED <<mode, leaving>>

Next == Generate \/ Convert \/ Detach \/ Archive \/ DetachAndArchive

Spec == Init /\ [][Next]_vars
=============================================================================
