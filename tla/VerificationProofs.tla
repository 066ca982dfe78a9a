------------------------- MODULE VerificationProofs -------------------------
(***************************************************************************)
(* What verification promises, for every receipt that fields of seals can  *)
(* be put together to, and for any history of keys, shards and artifacts.  *)
(* What is said of any mixture of fields follows from the definitions of   *)
(* the layers; that a receipt still verifies after whatever happened since *)
(* it was made needs an inductive invariant (Fresh).                       *)
(***************************************************************************)
EXTENDS Verification, FiniteSetTheorems, TLAPS

-----------------------------------------------------------------------------
(* Types *)

LEMMA CountSeals ==
    ASSUME NEW n \in Nat, Seals = 1..n
    PROVE  Cardinality(Seals) = n
  BY FS_Interval DEF Seals

\* A seal takes the next number and leaves the records of the others alone.
LEMMA SealNumber ==
    ASSUME NEW n \in 0..MaxSeals, Seals = 1..n,
           NEW m, NEW ahead, NEW host, Seal(m, ahead, host)
    PROVE  /\ n < MaxSeals
           /\ Seals' = 1..(n + 1)
           /\ \A i \in 1..n : made'[i] = made[i]
           /\ made'[n + 1] = [id |-> SealedContent(m), at |-> now + ahead, key |-> key,
                              host |-> host, shard |-> shard, layers |-> m, file |-> art']
           /\ rcpt' = [f \in Field |-> IF Written(m, f) THEN n + 1 ELSE Absent]
<1>1. MaxSeals \in Nat /\ n \in Nat
  BY VerificationAssumption
<1>2. Cardinality(Seals) = n
  BY <1>1, CountSeals
<1> QED
  BY <1>1, <1>2 DEF Seal, Seals

LEMMA TypeInit == Init => TypeOK
<1> SUFFICES ASSUME Init PROVE TypeOK
  OBVIOUS
<1>1. MaxSeals \in Nat /\ MaxTime \in Nat \ {0} /\ MaxChanges \in Nat /\ MaxEdits \in Nat
  BY VerificationAssumption
<1>2. Seals = 1..0
  BY DEF Init, Seals
<1>3. Cardinality(Seals) = 0
  BY <1>2, CountSeals
<1> QED
  BY <1>1, <1>2, <1>3 DEF Init, TypeOK, NoManifest, Broken, Damaged, Absent

LEMMA TypeSeal ==
    ASSUME TypeOK, NEW q \in Requests, Seal(q.layers, q.ahead, q.host)
    PROVE  TypeOK'
<1>1. PICK n \in 0..MaxSeals : Seals = 1..n
  BY DEF TypeOK
<1>2. MaxSeals \in Nat /\ q \in Request
  BY VerificationAssumption
<1>3. /\ n < MaxSeals
      /\ Seals' = 1..(n + 1)
      /\ \A i \in 1..n : made'[i] = made[i]
      /\ made'[n + 1] = [id |-> SealedContent(q.layers), at |-> now + q.ahead, key |-> key,
                         host |-> q.host, shard |-> shard, layers |-> q.layers, file |-> art']
      /\ rcpt' = [f \in Field |-> IF Written(q.layers, f) THEN n + 1 ELSE Absent]
  BY <1>1, SealNumber
<1>4. /\ contents' \in Nat \ {0} /\ contents <= contents'
      /\ art' \in [id : 1..contents', man : Broken..key']
      /\ SealedContent(q.layers) \in 1..contents'
  <2>1. CASE "embed" \in q.layers
    BY <2>1 DEF Seal, TypeOK, SealedContent, WithManifest, Broken
  <2>2. CASE "embed" \notin q.layers
    BY <2>2 DEF Seal, TypeOK, SealedContent
  <2> QED
    BY <2>1, <2>2
<1>5. UNCHANGED <<key, shard, pinned, now, edits>> /\ changes' = 0
  BY DEF Seal
<1>6. rcpt' \in [Field -> 0..Damaged'] /\ \A f \in Field : rcpt'[f] \in {Absent, Damaged} \cup Seals'
  BY <1>1, <1>2, <1>3 DEF Damaged, Absent
<1>7. ASSUME NEW i \in Seals'
      PROVE  made'[i] \in SealRecord'
  <2>1. CASE i = n + 1
    <3>1. now + q.ahead \in Nat /\ q.host \in Hosts
      BY <1>2 DEF TypeOK, Request
    <3>2. key \in 1..key /\ shard \in 1..shard
      BY DEF TypeOK
    <3> QED
      BY <2>1, <3>1, <3>2, <1>3, <1>4, <1>5 DEF SealRecord
  <2>2. CASE i \in 1..n
    <3>1. made[i] \in SealRecord
      BY <2>2, <1>1 DEF TypeOK
    <3>2. 1..contents \subseteq 1..contents'
      BY <1>4 DEF TypeOK
    <3> QED
      BY <2>2, <3>1, <3>2, <1>3, <1>5 DEF SealRecord
  <2> QED
    BY <2>1, <2>2, <1>2, <1>3
<1>8. \E j \in 0..MaxSeals : Seals' = 1..j
  BY <1>2, <1>3
<1> QED
  BY <1>3, <1>4, <1>5, <1>6, <1>7, <1>8, VerificationAssumption DEF TypeOK

\* The records of seals stay in their types as counters grow.
LEMMA TypeKept ==
    ASSUME TypeOK, UNCHANGED made, contents' \in Nat, key' \in Nat, shard' \in Nat,
           contents <= contents', key <= key', shard <= shard'
    PROVE  Seals' = Seals /\ \A i \in Seals' : made'[i] \in SealRecord'
<1>1. 1..contents \subseteq 1..contents' /\ 1..key \subseteq 1..key' /\ Broken..key \subseteq Broken..key'
        /\ 1..shard \subseteq 1..shard'
  BY DEF TypeOK, Broken
<1>2. Seals' = Seals
  BY DEF Seals
<1>3. ASSUME NEW i \in Seals PROVE made[i] \in SealRecord'
  <2>1. made[i] \in SealRecord
    BY DEF TypeOK
  <2> QED
    BY <2>1, <1>1 DEF SealRecord
<1> QED
  BY <1>2, <1>3

\* A step that leaves the receipt and the records alone keeps the types if it
\* keeps those of what it changes.
LEMMA CountersGrow ==
    ASSUME TypeOK, UNCHANGED <<rcpt, made, changes>>,
           contents' \in Nat \ {0}, key' \in Nat \ {0}, shard' \in Nat \ {0},
           contents <= contents', key <= key', shard <= shard',
           art' \in [id : 1..contents', man : Broken..key'] \cup {NoFile},
           pinned' \subseteq 1..shard', now' \in 1..MaxTime, edits' \in 0..MaxEdits
    PROVE  TypeOK'
<1>1. Seals' = Seals /\ \A i \in Seals' : made'[i] \in SealRecord'
  BY TypeKept
<1>2. /\ rcpt' \in [Field -> 0..Damaged] /\ \A f \in Field : rcpt'[f] \in {Absent, Damaged} \cup Seals
      /\ changes' \in 0..MaxChanges
      /\ \E n \in 0..MaxSeals : Seals = 1..n
  BY DEF TypeOK
<1> QED
  BY <1>1, <1>2 DEF TypeOK, Damaged

LEMMA TypeStep == TypeOK /\ [Next]_vars => TypeOK'
<1> SUFFICES ASSUME TypeOK, [Next]_vars PROVE TypeOK'
  OBVIOUS
<1> USE VerificationAssumption
<1>1. ASSUME NEW q \in Requests, Seal(q.layers, q.ahead, q.host) PROVE TypeOK'
  BY <1>1, TypeSeal
<1>2. ASSUME NEW f \in Field, NEW v \in 0..Damaged, Change(f, v) PROVE TypeOK'
  <2>1. /\ v \in {Absent, Damaged} \cup Seals
        /\ rcpt' = [rcpt EXCEPT ![f] = v]
        /\ changes' \in 0..MaxChanges
        /\ UNCHANGED <<art, made, contents, key, shard, pinned, now, edits>>
    BY <1>2 DEF Change, TypeOK
  <2>2. Seals' = Seals /\ \A i \in Seals' : made'[i] \in SealRecord'
    BY <2>1, TypeKept DEF TypeOK
  <2>3. rcpt' \in [Field -> 0..Damaged] /\ \A g \in Field : rcpt'[g] \in {Absent, Damaged} \cup Seals
    BY <2>1 DEF TypeOK
  <2> QED
    BY <2>1, <2>2, <2>3 DEF TypeOK, Damaged
<1>3. CASE EditArtifact
  <2>1. UNCHANGED <<rcpt, made, key, shard, pinned, now, changes>> /\ edits' \in 0..MaxEdits
    BY <1>3 DEF EditArtifact, TypeOK
  <2>2. contents' \in Nat \ {0} /\ contents <= contents'
        /\ art' \in [id : 1..contents', man : Broken..key'] \cup {NoFile}
    BY <1>3, <2>1 DEF EditArtifact, TypeOK, NoManifest, Broken
  <2>3. /\ key' \in Nat \ {0} /\ shard' \in Nat \ {0} /\ key <= key' /\ shard <= shard'
        /\ pinned' \subseteq 1..shard' /\ now' \in 1..MaxTime
    BY <2>1 DEF TypeOK
  <2> QED
    BY <2>1, <2>2, <2>3, CountersGrow
<1>4. CASE RotateKey
  <2>1. /\ key' \in Nat \ {0} /\ key <= key' /\ edits' \in 0..MaxEdits
        /\ UNCHANGED <<art, rcpt, made, contents, shard, pinned, now, changes>>
    BY <1>4 DEF RotateKey, TypeOK
  <2>2. art' \in [id : 1..contents', man : Broken..key'] \cup {NoFile}
    BY <2>1 DEF TypeOK, Broken
  <2>3. /\ contents' \in Nat \ {0} /\ shard' \in Nat \ {0}
        /\ contents <= contents' /\ shard <= shard'
        /\ pinned' \subseteq 1..shard' /\ now' \in 1..MaxTime
    BY <2>1 DEF TypeOK
  <2> QED
    BY <2>1, <2>2, <2>3, CountersGrow
<1>5. CASE RotateShard
  <2>1. /\ shard' \in Nat \ {0} /\ shard <= shard' /\ edits' \in 0..MaxEdits
        /\ UNCHANGED <<art, rcpt, made, contents, key, pinned, now, changes>>
    BY <1>5 DEF RotateShard, TypeOK
  <2> QED
    BY <2>1, CountersGrow DEF TypeOK
<1>6. CASE Upgrade
  <2>1. pinned' \subseteq 1..shard
    BY <1>6 DEF Upgrade, TypeOK
  <2> QED
    BY <1>6, <2>1, CountersGrow DEF Upgrade, TypeOK
<1>7. CASE Tick
  <2>1. now' \in 1..MaxTime
    BY <1>7 DEF Tick, TypeOK
  <2> QED
    BY <1>7, <2>1, CountersGrow DEF Tick, TypeOK
<1>8. CASE UNCHANGED vars
  BY <1>8, CountersGrow DEF vars, TypeOK
<1> QED
  BY <1>1, <1>2, <1>3, <1>4, <1>5, <1>6, <1>7, <1>8 DEF Next

\* Every variable keeps its type, for any requests, policies and bounds.
THEOREM TypeCorrect == Spec => []TypeOK
  BY TypeInit, TypeStep, PTL DEF Spec

-----------------------------------------------------------------------------
(* The two verifiers *)

\* verify_artifact_bytes judges the layers that present_layers lists.
LEMMA SameLayers == ASSUME NEW r PROVE AllLayers(r) = {"content"} \cup PresentLayers(r)
  BY DEF AllLayers, PresentLayers

\* A receipt whose fields can be read: with the secret, verify accepts exactly
\* what the authorship layers of verify_artifact_bytes accept.
LEMMA Agree ==
    ASSUME NEW r, NEW file, NEW k, k # NoKey, ~StructuralError(r, file, FALSE)
    PROVE  VerifyRecord(r, k) <=>
             {"hmac", "ed25519"} \cap PresentLayers(r) \subseteq OkLayers(r, file, k, FALSE)
<1>1. \A f \in Mandatory : Has(r, f)
  BY DEF StructuralError
<1>2. Has(r, "ed25519") => Good(r, "pubkey")
  BY DEF StructuralError
<1>3. "hmac" \in PresentLayers(r)
  BY DEF PresentLayers
<1>4. "ed25519" \in PresentLayers(r) <=> Has(r, "ed25519")
  BY DEF PresentLayers
<1>5. "hmac" \in OkLayers(r, file, k, FALSE) <=> HmacOk(r, k)
  BY <1>3, SameLayers DEF OkLayers
<1>6. Has(r, "ed25519") => ("ed25519" \in OkLayers(r, file, k, FALSE) <=> Ed25519Ok(r))
  BY <1>4, SameLayers DEF OkLayers
<1>7. {"hmac", "ed25519"} \cap PresentLayers(r) \subseteq OkLayers(r, file, k, FALSE)
        <=> HmacOk(r, k) /\ (Has(r, "ed25519") => Ed25519Ok(r))
  BY <1>3, <1>4, <1>5, <1>6
<1> QED
  BY <1>1, <1>2, <1>7 DEF VerifyRecord, HmacOk, Ed25519Ok

\* The verifier of verify.rs and that of artifact.rs check signatures in a
\* different order and stop at different places, and agree all the same.
THEOREM VerifiersAlwaysAgree == Spec => []VerifiersAgree
<1>1. TypeOK => VerifiersAgree
  <2> SUFFICES ASSUME TypeOK, ~StructuralError(rcpt, art, FALSE), NEW k \in 1..key
               PROVE  VerifyRecord(rcpt, k) <=>
                        {"hmac", "ed25519"} \cap PresentLayers(rcpt)
                            \subseteq OkLayers(rcpt, art, k, FALSE)
    BY DEF VerifiersAgree
  <2>1. k # NoKey
    BY DEF TypeOK, NoKey
  <2> QED
    BY <2>1, Agree
<1> QED
  BY <1>1, TypeCorrect, PTL

-----------------------------------------------------------------------------
(* What verified layers say of the seals they are from *)

\* An Ed25519 layer that is ok is that of a seal over this payload and time,
\* with the key in the receipt.
LEMMA Ed25519Made ==
    ASSUME NEW r, Ed25519Ok(r)
    PROVE  r["ed25519"] \in Seals /\ MadeBy(r["ed25519"], r)
<1> DEFINE i == r["ed25519"]
<1>1. i \in Seals
  BY DEF Ed25519Ok, Good
<1>2. Sealed(i) = Computed(r) /\ made[i].key = PubKey(r)
  BY DEF Ed25519Ok, Sig
<1>3. made[i].id = Content(r) /\ made[i].at = At(r)
  BY <1>2 DEF Sealed, Computed, Preimage
<1> QED
  BY <1>1, <1>2, <1>3 DEF MadeBy

\* A timestamp that is ok was issued for the seal of the Ed25519 layer.
LEMMA TsaMade ==
    ASSUME NEW r, TsaOk(r)
    PROVE  Sig(r["tsa"]) = Sig(r["ed25519"])
  BY DEF TsaOk, ToStamp

\* A layer is ok only if its own check passes.
LEMMA LayerOk ==
    ASSUME NEW r, NEW file, NEW k, NEW native
    PROVE  LET ok == OkLayers(r, file, k, native) IN
           /\ "content" \in ok => file.id = Content(r)
           /\ "ed25519" \in ok => Ed25519Ok(r)
           /\ "c2pa" \in ok => C2paOk(r, file, native)
           /\ "tsa" \in ok => native /\ TsaOk(r)
           /\ "rekor" \in ok => native /\ RekorOk(r)
  BY DEF OkLayers

\* A receipt in which every layer verifies was sealed over the artifact it is
\* verified with, at the time and with the key it states, and its timestamp
\* was issued for that seal: for any mixture of fields, and any history.
THEOREM VerifiedReceiptsAreAuthentic == Spec => []VerifiedIsAuthentic
<1>1. VerifiedIsAuthentic
  <2> SUFFICES ASSUME AllOk(rcpt, art, NoKey), Has(rcpt, "ed25519")
               PROVE  \E i \in Seals :
                        /\ MadeBy(i, rcpt) /\ made[i].id = art.id
                        /\ Has(rcpt, "tsa") => Sig(rcpt["tsa"]) = Sig(i)
    BY DEF VerifiedIsAuthentic
  <2>1. {"content", "ed25519"} \subseteq OkLayers(rcpt, art, NoKey, TRUE)
    BY DEF AllOk, AllLayers, PresentLayers
  <2>2. Has(rcpt, "tsa") => "tsa" \in OkLayers(rcpt, art, NoKey, TRUE)
    BY DEF AllOk, AllLayers, PresentLayers
  <2>3. Ed25519Ok(rcpt) /\ art.id = Content(rcpt)
    BY <2>1, LayerOk
  <2>4. Has(rcpt, "tsa") => Sig(rcpt["tsa"]) = Sig(rcpt["ed25519"])
    BY <2>2, LayerOk, TsaMade
  <2>5. rcpt["ed25519"] \in Seals /\ MadeBy(rcpt["ed25519"], rcpt)
    BY <2>3, Ed25519Made
  <2> QED
    BY <2>3, <2>4, <2>5 DEF MadeBy
<1> QED
  BY <1>1, PTL

\* A named profile is never passed on authorship, timestamp and provenance of two
\* different seals, on a layer that is only present, or on an anchor in a log whose
\* key is not pinned.
THEOREM ProfilesAreEarned == Spec => []ProfileIsEarned
<1>1. ProfileIsEarned
  <2> SUFFICES ASSUME NEW p \in Profiles, McpVerdict(rcpt, art, [is |-> "policy", policy |-> p]).policy
               PROVE  /\ \E i \in Seals :
                           /\ MadeBy(i, rcpt)
                           /\ "tsa" \in p.require => Sig(rcpt["tsa"]) = Sig(i)
                           /\ "c2pa" \in p.require /\ ~Embedded(rcpt) =>
                                made[rcpt["c2pa"]].id = made[i].id
                      /\ "rekor" \in p.require =>
                           Good(rcpt, "rekor") /\ made[rcpt["rekor"]].shard \in pinned
    BY DEF ProfileIsEarned
  <2>1. p.require \subseteq OkLayers(rcpt, art, NoKey, TRUE)
    BY DEF McpVerdict, Satisfied, Evaluate
  <2>2. "ed25519" \in p.require
    BY VerificationAssumption
  <2>3. Ed25519Ok(rcpt)
    BY <2>1, <2>2, LayerOk
  <2>4. "tsa" \in p.require => Sig(rcpt["tsa"]) = Sig(rcpt["ed25519"])
    BY <2>1, LayerOk, TsaMade
  <2>5. "c2pa" \in p.require /\ ~Embedded(rcpt) => made[rcpt["c2pa"]].id = Content(rcpt)
    BY <2>1, LayerOk DEF C2paOk, SidecarOk, Sidecar, PayloadHash
  <2>6. "rekor" \in p.require => RekorOk(rcpt)
    BY <2>1, LayerOk
  <2>7. rcpt["ed25519"] \in Seals /\ MadeBy(rcpt["ed25519"], rcpt)
    BY <2>3, Ed25519Made
  <2> QED
    BY <2>4, <2>5, <2>6, <2>7 DEF MadeBy, RekorOk
<1> QED
  BY <1>1, PTL

-----------------------------------------------------------------------------
(* Fresh receipts *)

\* What a seal records of the artifact it leaves behind.
LeftBehind(i) ==
    /\ made[i].file.id = made[i].id
    /\ "embed" \in made[i].layers => made[i].file.man = made[i].key

\* The inductive invariant: a receipt that was not changed is the last seal's,
\* in the fields that seal wrote and no others.
Fresh ==
    /\ TypeOK
    /\ \A i \in Seals : LeftBehind(i)
    /\ changes = 0 /\ Seals # {} =>
         \A f \in Field : rcpt[f] = IF Written(Last.layers, f) THEN Cardinality(Seals) ELSE Absent

LEMMA FreshInit == Init => Fresh
  BY TypeInit DEF Init, Fresh, Seals

LEMMA FreshSeal ==
    ASSUME Fresh, NEW q \in Requests, Seal(q.layers, q.ahead, q.host)
    PROVE  Fresh'
<1>1. PICK n \in 0..MaxSeals : Seals = 1..n
  BY DEF Fresh, TypeOK
<1>2. n \in Nat
  BY VerificationAssumption
<1>3. /\ Seals' = 1..(n + 1)
      /\ \A i \in 1..n : made'[i] = made[i]
      /\ made'[n + 1] = [id |-> SealedContent(q.layers), at |-> now + q.ahead, key |-> key,
                         host |-> q.host, shard |-> shard, layers |-> q.layers, file |-> art']
      /\ rcpt' = [f \in Field |-> IF Written(q.layers, f) THEN n + 1 ELSE Absent]
  BY <1>1, SealNumber
<1>4. TypeOK'
  BY TypeSeal DEF Fresh
<1>5. LeftBehind(n + 1)'
  <2>1. CASE "embed" \in q.layers
    BY <2>1, <1>3 DEF LeftBehind, Seal, SealedContent, WithManifest
  <2>2. CASE "embed" \notin q.layers
    BY <2>2, <1>3 DEF LeftBehind, Seal, SealedContent
  <2> QED
    BY <2>1, <2>2
<1>6. \A i \in 1..n : LeftBehind(i)'
  BY <1>1, <1>3 DEF Fresh, LeftBehind
<1>7. \A i \in Seals' : LeftBehind(i)'
  BY <1>2, <1>3, <1>5, <1>6
<1>8. Cardinality(Seals)' = n + 1
  <2>1. Cardinality(1..(n + 1)) = n + 1
    BY <1>2, FS_Interval
  <2> QED
    BY <2>1, <1>3
<1>9. \A f \in Field : rcpt'[f] = IF Written(Last.layers, f)' THEN Cardinality(Seals)' ELSE Absent
  BY <1>3, <1>8 DEF Last, Written
<1> QED
  BY <1>4, <1>7, <1>9 DEF Fresh

LEMMA FreshStep == Fresh /\ [Next]_vars => Fresh'
<1> SUFFICES ASSUME Fresh, [Next]_vars PROVE Fresh'
  OBVIOUS
<1>1. TypeOK'
  BY TypeStep DEF Fresh
<1>2. ASSUME NEW q \in Requests, Seal(q.layers, q.ahead, q.host) PROVE Fresh'
  BY <1>2, FreshSeal
<1>3. ASSUME UNCHANGED made PROVE \A i \in Seals' : LeftBehind(i)'
  BY <1>3 DEF Fresh, LeftBehind, Seals
<1>4. ASSUME NEW f \in Field, NEW v \in 0..Damaged, Change(f, v) PROVE Fresh'
  <2>1. changes' # 0
    BY <1>4, VerificationAssumption DEF Change, Fresh, TypeOK
  <2> QED
    BY <1>1, <1>3, <1>4, <2>1 DEF Change, Fresh
<1>5. ASSUME UNCHANGED <<rcpt, made, changes>> PROVE Fresh'
  BY <1>1, <1>3, <1>5 DEF Fresh, Last, Seals, Written
<1> QED
  BY <1>2, <1>4, <1>5
  DEF Next, vars, EditArtifact, RotateKey, RotateShard, Upgrade, Tick

\* A receipt that was not changed verifies for the artifact its seal left, with
\* the secret and without it, by both verifiers, after any number of seals and
\* of rotations of keys and shards.
THEOREM FreshReceiptsVerify == Spec => []FreshVerifies
<1>1. Fresh => FreshVerifies
  <2> SUFFICES ASSUME Fresh, Seals # {}, changes = 0, art = Last.file,
                      "rekor" \in Last.layers => Last.shard \in pinned
               PROVE  /\ ~Unreadable(rcpt, art)
                      /\ \A k \in {NoKey, Last.key} : AllOk(rcpt, art, k)
                      /\ VerifyRecord(rcpt, Last.key)
    BY DEF FreshVerifies
  <2>1. PICK n \in 0..MaxSeals : Seals = 1..n
    BY DEF Fresh, TypeOK
  <2>2. n \in Nat /\ n # 0 /\ n # Damaged /\ Cardinality(Seals) = n /\ n \in Seals
    BY <2>1, CountSeals, VerificationAssumption DEF Damaged
  <2>3. Last = made[n] /\ made[n] \in SealRecord /\ LeftBehind(n)
    BY <2>2 DEF Last, Fresh, TypeOK
  <2> DEFINE m == made[n].layers
  <2>4. {"hmac", "ed25519"} \subseteq m /\ ("embed" \in m => "c2pa" \in m)
    BY <2>3, VerificationAssumption DEF SealRecord
  <2>5. \A f \in Field : rcpt[f] = IF Written(m, f) THEN n ELSE Absent
    BY <2>2, <2>3 DEF Fresh
  <2>6. /\ rcpt["payload"] = n /\ rcpt["sealedAt"] = n /\ rcpt["preimage"] = n
        /\ rcpt["pubkey"] = n /\ rcpt["hmac"] = n /\ rcpt["ed25519"] = n
        /\ rcpt["tsa"] = (IF "tsa" \in m THEN n ELSE Absent)
        /\ rcpt["rekor"] = (IF "rekor" \in m THEN n ELSE Absent)
        /\ rcpt["c2pa"] = (IF "c2pa" \in m /\ "embed" \notin m THEN n ELSE Absent)
        /\ rcpt["embedded"] = (IF "embed" \in m THEN n ELSE Absent)
    BY <2>4, <2>5 DEF Field, Written
  <2> HIDE DEF m
  <2>7. art.id = made[n].id /\ art # NoFile /\ ("embed" \in m => art.man = made[n].key)
          /\ made[n].key # 0
    BY <2>3 DEF LeftBehind, SealRecord, NoFile, Fresh, TypeOK, m
  <2>8. made[n].key # Broken /\ made[n].key # NoManifest
    BY <2>3 DEF SealRecord, Broken, NoManifest, Fresh, TypeOK
  <2>9. Content(rcpt) = made[n].id /\ At(rcpt) = made[n].at /\ PubKey(rcpt) = made[n].key
    BY <2>2, <2>6 DEF Content, At, PubKey, Good
  <2>10. Computed(rcpt) = Sealed(n) /\ Sig(n) = [over |-> Computed(rcpt), by |-> made[n].key]
    BY <2>9 DEF Computed, Sealed, Sig
  <2>11. PreimageOk(rcpt)
    BY <2>2, <2>6, <2>10 DEF PreimageOk, Good
  <2>12. Ed25519Ok(rcpt) /\ \A k \in {NoKey, Last.key} : HmacOk(rcpt, k)
    BY <2>2, <2>3, <2>6, <2>9, <2>10, <2>11 DEF Ed25519Ok, HmacOk, Good
  <2>13. VerifyRecord(rcpt, Last.key)
    BY <2>2, <2>3, <2>6, <2>9, <2>10, <2>11 DEF VerifyRecord, Good, Has, Mandatory, Absent
  <2>14. ~Unreadable(rcpt, art)
    <3>1. Damaged # Absent
      BY VerificationAssumption DEF Damaged, Absent
    <3>2. \A f \in Mandatory : Has(rcpt, f)
      BY <2>2, <2>6 DEF Mandatory, Has, Absent
    <3>3. rcpt["preimage"] # Damaged /\ rcpt["pubkey"] # Damaged /\ Good(rcpt, "pubkey")
      BY <2>2, <2>6 DEF Good
    <3>4. rcpt["c2pa"] # Damaged /\ rcpt["rekor"] # Damaged
      BY <3>1, <2>2, <2>6
    <3>5. Has(rcpt, "tsa") => \A f \in {"tsa", "hmac", "ed25519"} : Good(rcpt, f)
      BY <2>2, <2>6 DEF Good, Has
    <3>6. Embedded(rcpt) => art.man # Broken
      BY <2>2, <2>6, <2>7, <2>8 DEF Embedded, Has, Absent
    <3>7. ~StructuralError(rcpt, art, TRUE)
      BY <3>2, <3>3, <3>4, <3>5, <3>6 DEF StructuralError
    <3> QED
      BY <3>7, <2>7 DEF Unreadable
  <2>15. Has(rcpt, "c2pa") \/ Embedded(rcpt) => C2paOk(rcpt, art, TRUE)
    BY <2>2, <2>6, <2>7, <2>8, <2>9
    DEF C2paOk, EmbeddedOk, Signer, SidecarOk, Sidecar, Has, Embedded, Good, Absent
  <2>16. Has(rcpt, "tsa") => TsaOk(rcpt)
    BY <2>2, <2>6 DEF TsaOk, Has, Good, Absent
  <2>17. Has(rcpt, "rekor") => RekorOk(rcpt)
    BY <2>2, <2>3, <2>6 DEF RekorOk, Has, Good, Absent, m
  <2>18. ASSUME NEW k \in {NoKey, Last.key}
         PROVE  AllOk(rcpt, art, k)
    BY <2>7, <2>9, <2>12, <2>15, <2>16, <2>17 DEF AllOk, OkLayers, AllLayers, PresentLayers
  <2> QED
    BY <2>13, <2>14, <2>18
<1>2. Init => Fresh
  BY FreshInit
<1>3. Fresh /\ [Next]_vars => Fresh'
  BY FreshStep
<1> QED
  BY <1>1, <1>2, <1>3, PTL DEF Spec

-----------------------------------------------------------------------------
(* The surfaces *)

\* What the browser passes, `verify' could read and found nothing wrong with,
\* but for the two things the browser cannot check.
THEOREM BrowserIsNeverLaxer == Spec => []BrowserNotLaxer
<1>1. TypeOK => BrowserNotLaxer
  <2> SUFFICES ASSUME TypeOK, BrowserOk(rcpt, art), Has(rcpt, "ed25519")
               PROVE  /\ ~Unreadable(rcpt, art)
                      /\ AllLayers(rcpt) \ OkLayers(rcpt, art, NoKey, TRUE)
                           \subseteq {"hmac"} \cup (IF Embedded(rcpt) THEN {"c2pa"} ELSE {})
    BY DEF BrowserNotLaxer
  <2>1. ~Has(rcpt, "tsa") /\ ~Has(rcpt, "rekor")
    <3>1. "tsa" \notin OkLayers(rcpt, art, NoKey, FALSE) /\ "rekor" \notin OkLayers(rcpt, art, NoKey, FALSE)
      BY LayerOk
    <3> QED
      BY <3>1 DEF BrowserOk, AllLayers, PresentLayers
  <2>2. Damaged \notin Seals /\ Damaged # Absent
    BY VerificationAssumption DEF TypeOK, Damaged, Absent
  <2>3. ~StructuralError(rcpt, art, TRUE)
    <3>1. ~StructuralError(rcpt, art, FALSE)
      BY DEF BrowserOk
    <3>2. rcpt["pubkey"] # Damaged
      BY <3>1, <2>2 DEF StructuralError, Good
    <3>3. rcpt["rekor"] # Damaged
      BY <2>1, <2>2 DEF Has
    <3> QED
      BY <3>1, <3>2, <3>3, <2>1 DEF StructuralError
  <2>4. ASSUME NEW l \in AllLayers(rcpt), l # "hmac", ~(Embedded(rcpt) /\ l = "c2pa")
        PROVE  l \in OkLayers(rcpt, art, NoKey, TRUE)
    <3>1. l \in OkLayers(rcpt, art, NoKey, FALSE)
      BY <2>4 DEF BrowserOk
    <3> QED
      BY <3>1, <2>4, LayerOk DEF OkLayers, C2paOk
  <2> QED
    BY <2>3, <2>4 DEF Unreadable, BrowserOk
<1> QED
  BY <1>1, TypeCorrect, PTL

\* `verify', the SDKs, the dashboard and the MCP tool tell the same of every
\* receipt, and none passes it under a policy that cannot be resolved.
THEOREM SurfacesAlwaysAgree == Spec => []SurfacesAgree
<1>1. SurfacesAgree
  <2> DEFINE readable == ~Unreadable(rcpt, art)
             okay == AllOk(rcpt, art, NoKey)
             passes(g) == Satisfied(g, rcpt, OkLayers(rcpt, art, NoKey, TRUE))
             code(g) == ExitCode(rcpt, art, NoKey, g)
             row(g)  == DashboardRow(rcpt, art, g)
             mcp(g)  == McpVerdict(rcpt, art, g)
             sdk     == SdkVerdict(rcpt, art)
  <2>1. \A g : code(g) = IF ~readable \/ g.is = "badFile" THEN 3
                         ELSE IF g.is = "noProfile" THEN 2
                         ELSE IF ~okay THEN 1 ELSE IF ~passes(g) THEN 5 ELSE 0
    BY DEF ExitCode
  <2>2. \A g : row(g).status = IF ~readable THEN "receipt-only" ELSE IF okay THEN "PASS" ELSE "FAIL"
    BY DEF DashboardRow
  <2>3. \A g : row(g).policy <=> g.is = "policy" /\ readable /\ okay /\ passes(g)
    BY Zenon DEF DashboardRow
  <2>4. \A g : mcp(g).ok <=> readable /\ g.is # "noProfile" /\ okay
    BY Zenon DEF McpVerdict, McpError
  <2>5. \A g : mcp(g).policy <=> readable /\ g.is # "noProfile" /\ g.is = "policy" /\ passes(g)
    BY Zenon DEF McpVerdict, McpError
  <2>6. NoPolicy.is = "none" /\ passes(NoPolicy)
    BY DEF NoPolicy, Satisfied
  <2>7. (sdk.ok <=> readable /\ okay) /\ (sdk.raises <=> ~readable)
    <3>1. code(NoPolicy) = IF ~readable THEN 3 ELSE IF ~okay THEN 1 ELSE 0
      BY <2>1, <2>6
    <3>2. (code(NoPolicy) \in {0, 1} <=> readable) /\ (code(NoPolicy) = 0 <=> readable /\ okay)
      BY <3>1
    <3>3. sdk.ok <=> code(NoPolicy) \in {0, 1} /\ code(NoPolicy) = 0
      BY Zenon DEF SdkVerdict
    <3>4. sdk.raises <=> code(NoPolicy) \notin {0, 1}
      BY Zenon DEF SdkVerdict
    <3> HIDE DEF readable, okay, code, sdk
    <3> QED
      BY <3>2, <3>3, <3>4, Zenon
  <2> HIDE DEF readable, okay, passes, code, row, mcp, sdk
  <2>8. ASSUME NEW g \in Given
        PROVE  /\ code(g) = 0 => DashboardRuns(g)
               /\ DashboardRuns(g) =>
                    /\ row(g).status = "PASS" <=> code(g) \in {0, 5}
                    /\ row(g).status = "FAIL" <=> code(g) = 1
                    /\ row(g).policy <=> g.is = "policy" /\ code(g) = 0
                    /\ sdk.ok <=> code(g) \in {0, 5}
                    /\ sdk.raises <=> row(g).status = "receipt-only"
                    /\ mcp(g).ok <=> sdk.ok
               /\ code(g) = 0 <=> /\ sdk.ok /\ g.is \in {"none", "policy"}
                                  /\ g.is = "policy" => mcp(g).policy
    <3>1. g.is \in {"none", "policy", "badFile", "noProfile"}
      BY DEF Given, NoPolicy
    <3>2. DashboardRuns(g) <=> g.is # "badFile" /\ g.is # "noProfile"
      BY <3>1 DEF DashboardRuns
    <3>3. g.is = "none" => passes(g)
      BY DEF passes, Satisfied
    <3>4. /\ code(g) = 0 <=> readable /\ DashboardRuns(g) /\ okay /\ passes(g)
          /\ code(g) = 1 <=> readable /\ DashboardRuns(g) /\ ~okay
          /\ code(g) \in {0, 5} <=> readable /\ DashboardRuns(g) /\ okay
      BY <2>1, <3>2
    <3>5. /\ row(g).status = "PASS" <=> readable /\ okay
          /\ row(g).status = "FAIL" <=> readable /\ ~okay
          /\ row(g).status = "receipt-only" <=> ~readable
      BY <2>2
    <3>6. DashboardRuns(g) => (row(g).policy <=> g.is = "policy" /\ code(g) = 0)
      BY <2>3, <3>4, Zenon
    <3>7. DashboardRuns(g) => (mcp(g).ok <=> sdk.ok)
      BY <2>4, <2>7, <3>2, Zenon
    <3>8. code(g) = 0 <=> /\ sdk.ok /\ g.is \in {"none", "policy"}
                          /\ g.is = "policy" => mcp(g).policy
      <4>1. g.is \in {"none", "policy"} <=> DashboardRuns(g)
        BY DEF DashboardRuns
      <4>2. g.is = "policy" => g.is # "noProfile"
        OBVIOUS
      <4>3. DashboardRuns(g) /\ g.is # "policy" => passes(g)
        BY <3>3 DEF DashboardRuns
      <4> QED
        BY <2>5, <2>7, <3>4, <4>1, <4>2, <4>3, Zenon
    <3> QED
      BY <2>7, <3>4, <3>5, <3>6, <3>7, <3>8, Zenon
  <2> QED
    BY <2>8 DEF SurfacesAgree, code, row, mcp, sdk
<1> QED
  BY <1>1, PTL

\* What the export of a receipt says of its layers is what verification finds,
\* for any mixture of fields.
THEOREM StatementsAreHonest == Spec => []StatementIsHonest
<1>1. StatementIsHonest
  <2> DEFINE s == Statement(rcpt)
  <2>1. \A a \in s.attestations : a.type \in AllLayers(rcpt) \ {"content"}
                                    /\ (a.offline => a.type # "hmac")
    BY DEF Statement, AllLayers
  <2>2. AllLayers(rcpt) \ {"content"} \subseteq {a.type : a \in s.attestations}
    <3> SUFFICES ASSUME NEW l \in AllLayers(rcpt) \ {"content"}
                 PROVE  \E a \in s.attestations : a.type = l
      OBVIOUS
    <3>1. CASE l = "hmac"
      <4>1. [type |-> "hmac", offline |-> FALSE] \in s.attestations
        BY DEF Statement
      <4> QED
        BY <3>1, <4>1
    <3>2. CASE l # "hmac"
      <4>1. [type |-> l, offline |-> TRUE] \in s.attestations
        BY <3>2 DEF Statement, AllLayers
      <4> QED
        BY <4>1
    <3> QED
      BY <3>1, <3>2
  <2>3. ASSUME NEW l \in AllLayers(rcpt), l # "hmac", NEW k
        PROVE  l \in OkLayers(rcpt, art, NoKey, TRUE) <=> l \in OkLayers(rcpt, art, k, TRUE)
    BY <2>3 DEF OkLayers
  <2>4. AllOk(rcpt, art, NoKey) => s.subject = art.id
    <3>1. "content" \in AllLayers(rcpt)
      BY DEF AllLayers
    <3> QED
      BY <3>1, LayerOk DEF AllOk, Statement
  <2> HIDE DEF s
  <2> QED
    BY <2>1, <2>2, <2>3, <2>4 DEF StatementIsHonest, s
<1> QED
  BY <1>1, PTL

-----------------------------------------------------------------------------
(* Time *)

\* Whole days grow with half-days.
LEMMA Days ==
    ASSUME NEW a \in Int, NEW b \in Int, a <= b, 0 <= a
    PROVE  a \div 2 <= b \div 2
  OBVIOUS

\* Time passes and seals are added, so a receipt that stays as it is keeps its
\* time and gets no younger.
THEOREM TooOldStays == Spec => TooOldForGood
<1>1. TypeOK /\ [Next]_vars =>
        [\A p \in Policies : TooOld(p, rcpt) /\ rcpt' = rcpt => TooOld(p, rcpt)']_vars
  <2> SUFFICES ASSUME TypeOK, [Next]_vars, NEW p \in Policies, TooOld(p, rcpt), rcpt' = rcpt
               PROVE  TooOld(p, rcpt)'
    OBVIOUS
  <2> DEFINE i == rcpt["sealedAt"]
  <2>1. i \in Seals /\ made[i].at \in Nat /\ now \in Nat
    BY VerificationAssumption DEF TooOld, Good, TypeOK, SealRecord
  <2>2. now' \in Nat /\ now <= now' /\ i \in Seals' /\ made'[i] = made[i]
    <3>1. ASSUME NEW q \in Requests, Seal(q.layers, q.ahead, q.host)
          PROVE  now' = now /\ i \in Seals' /\ made'[i] = made[i]
      <4>1. PICK n \in 0..MaxSeals : Seals = 1..n
        BY DEF TypeOK
      <4>2. Seals' = 1..(n + 1) /\ \A j \in 1..n : made'[j] = made[j]
        BY <3>1, <4>1, SealNumber
      <4> QED
        BY <3>1, <4>1, <4>2, <2>1, VerificationAssumption DEF Seal
    <3>2. CASE Tick
      BY <3>2, <2>1 DEF Tick, Seals
    <3>3. ASSUME UNCHANGED <<now, made>> PROVE now' \in Nat /\ now <= now' /\ i \in Seals' /\ made'[i] = made[i]
      BY <3>3, <2>1 DEF Seals
    <3> QED
      BY <3>1, <3>2, <3>3, <2>1
      DEF Next, vars, Change, EditArtifact, RotateKey, RotateShard, Upgrade
  <2>3. p.maxAge \in Int /\ p.maxAge # -1 /\ 0 <= p.maxAge
    BY VerificationAssumption DEF TooOld, Policy
  <2>4. At(rcpt) = made[i].at /\ At(rcpt)' = made[i].at
    BY <2>1, <2>2 DEF At, Good
  <2>5. now >= made[i].at
    BY <2>1, <2>3, <2>4 DEF TooOld, AgeDays
  <2>6. (now - made[i].at) \div 2 <= (now' - made[i].at) \div 2
    BY <2>1, <2>2, <2>5, Days
  <2>7. AgeDays(rcpt) = (now - made[i].at) \div 2
          /\ AgeDays(rcpt)' = (now' - made[i].at) \div 2
    BY <2>1, <2>2, <2>4, <2>5 DEF AgeDays
  <2>8. Good(rcpt, "sealedAt")'
    BY <2>2 DEF Good
  <2> QED
    BY <2>1, <2>2, <2>3, <2>5, <2>6, <2>7, <2>8 DEF TooOld
<1> QED
  BY <1>1, TypeCorrect, PTL DEF Spec, TooOldForGood
=============================================================================
