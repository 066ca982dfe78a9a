--------------------------- MODULE MCVerification ---------------------------
(* Instances of Verification for TLC. *)
EXTENDS Verification

Basic == {"hmac", "ed25519", "c2pa"}

\* Offline, for tomorrow; everything; and an embedded manifest with a timestamp
\* that is not qualified.
AllRequests ==
    {[layers |-> Basic, ahead |-> 2, host |-> "other"],
     [layers |-> Layer, ahead |-> 0, host |-> "qtsp"],
     [layers |-> Basic \cup {"embed", "tsa"}, ahead |-> 0, host |-> "other"]}

Plain == [require |-> {}, forbid |-> {}, min |-> 0, qualified |-> FALSE, maxAge |-> -1]

\* The named profiles of packaging/trust-profile.json.
OfflineBasic == [Plain EXCEPT !.require = Basic, !.min = 3]
Transparency == [Plain EXCEPT !.require = {"ed25519", "rekor"}, !.min = 2]
LegalGrade   == [Plain EXCEPT !.require = {"ed25519", "tsa"}, !.min = 2, !.qualified = TRUE]
FullProfile  == [Plain EXCEPT !.require = Layer, !.min = 5]

NamedProfiles == {OfflineBasic, Transparency, LegalGrade, FullProfile}

\* And policy files: a receipt of today; one without C2PA.
AllPolicies == NamedProfiles \cup
    {[Plain EXCEPT !.maxAge = 0], [Plain EXCEPT !.forbid = {"c2pa"}, !.min = 2]}
=============================================================================
