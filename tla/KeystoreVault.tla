---------------------------- MODULE KeystoreVault ----------------------------
(***************************************************************************)
(* Keystore, used by one caller at a time and not interrupted, implements  *)
(* KeyVault: the abstract state is read off the files.                     *)
(***************************************************************************)
EXTENDS Keystore

\* A directory that holds key k whole, in one of the two shapes.
Plaintext(dir, k) ==
    /\ dir["pem"].st = "full" /\ dir["pem"].ed = k
    /\ dir["hmac"].st = "full" /\ dir["hmac"].hmac = k

Encrypted(dir, k) ==
    dir["enc"].st = "full" /\ dir["enc"].ed = k /\ dir["enc"].hmac = k

\* The key of a set of candidates, 0 if there is none.
TheKey(S) == IF S = {} THEN 0 ELSE CHOOSE k \in S : TRUE

Keys == 1..fresh

\* keystore.enc, when whole, decides; half written it does not count yet.
VaultActive ==
    LET enc == {k \in Keys : Encrypted(disk, k)} IN
    TheKey(IF enc # {} THEN enc ELSE {k \in Keys : Plaintext(disk, k)})

\* Between the two halves of a rotation only the rotating call knows the mode.
VaultMode ==
    LET rotating == {p \in Proc : call[p].op = "rotate" /\ pc[p] # "statActive"} IN
    IF rotating # {}
    THEN IF \E p \in rotating : file[p] \in {"enc", "pub"}
         THEN "encrypted" ELSE "plaintext"
    ELSE IF VaultActive = 0 THEN "unset"
    ELSE IF disk["enc"].st = "full" THEN "encrypted" ELSE "plaintext"

\* ed25519.pem moves to the archive before hmac.key does.
VaultLeaving ==
    TheKey({k \in Keys : \E s \in Stamp :
                HoldsKey(archive[s]["pem"], k) /\ archive[s]["hmac"].st = "absent"})

VaultRetired ==
    {k \in Keys : \E s \in Stamp : Plaintext(archive[s], k) \/ Encrypted(archive[s], k)}

Vault == INSTANCE KeyVault WITH
    active <- VaultActive, mode <- VaultMode,
    leaving <- VaultLeaving, retired <- VaultRetired

\* Every step of the file-level keystore is a step of the vault or none of its
\* business: no conversion or rotation, at any of its file-system steps, shows
\* two active keys, half a key, a changed mode or a retired key back in use.
ImplementsVault == Vault!Spec
=============================================================================
