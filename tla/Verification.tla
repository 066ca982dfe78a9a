---------------------------- MODULE Verification ----------------------------
(***************************************************************************)
(* Offline verification of a receipt (verify_artifact_bytes in             *)
(* artifact.rs, verify.rs, the layers), the policies evaluated on its      *)
(* outcome (policy.rs), and the surfaces that report it: `verify', the     *)
(* dashboard, the MCP tool and the browser.                                *)
(*                                                                         *)
(* Cryptography is symbolic.  A field of a receipt is either what some     *)
(* seal wrote into it, and then stands for that seal's value, or it is     *)
(* damaged, or absent: a signature nobody made does not occur.             *)
(***************************************************************************)
EXTENDS Integers, FiniteSets

CONSTANTS
    Requests,   \* what a seal may be asked for (see Request)
    Policies,   \* the policies a verifier may apply (see Policy)
    Profiles,   \* those of them that are named profiles of the trust profile
    Hosts,      \* the TSA hosts in use
    Qualified,  \* those on the list of qualified trust services
    MaxSeals,   \* bound: seals
    MaxChanges, \* bound: changes made to a receipt after it was sealed
    MaxEdits,   \* bound: changes of the artifact, key rotations, shard rotations
    MaxTime     \* bound: half-days

Layer == {"hmac", "ed25519", "c2pa", "tsa", "rekor"}

\* The layers, "embed" among them for --embed; how far --sealed-at is ahead of
\* the clock, in half-days; and the host of --tsa.
Request == [layers : SUBSET (Layer \cup {"embed"}), ahead : Nat, host : Hosts]

Policy == [require : SUBSET Layer, forbid : SUBSET Layer, min : Nat,
           qualified : BOOLEAN, maxAge : {-1} \cup Nat]

ASSUME VerificationAssumption ==
    /\ Requests \subseteq Request
    /\ \A q \in Requests : /\ {"hmac", "ed25519"} \subseteq q.layers
                           /\ "embed" \in q.layers => "c2pa" \in q.layers
    /\ Policies \subseteq Policy
    /\ Profiles \subseteq {p \in Policies : "ed25519" \in p.require}
    /\ Qualified \subseteq Hosts
    /\ MaxSeals \in Nat /\ MaxChanges \in Nat /\ MaxEdits \in Nat
    /\ MaxTime \in Nat \ {0}

VARIABLES
    art,        \* the artifact: its content and the state of a manifest in it
    rcpt,       \* the receipt: field -> where its value is from
    made,       \* the seals made so far, and the artifact as each left it
    contents,   \* how many contents there have been
    key,        \* the active key pair of the keystore, Ed25519 and HMAC
    shard,      \* the active Rekor shard
    pinned,     \* the shards whose keys the verifier's build has
    now,        \* the time, in half-days
    changes, edits

vars == <<art, rcpt, made, contents, key, shard, pinned, now, changes, edits>>

\* The fields of a receipt that verification reads.  `embedded' is the flag
\* that the C2PA manifest is in the artifact; otherwise `c2pa' has the sidecar.
Field == {"payload", "sealedAt", "preimage", "hmac", "ed25519", "pubkey",
          "c2pa", "embedded", "tsa", "rekor"}

\* What serde needs in order to parse a SealedRecord.
Mandatory == {"payload", "sealedAt", "preimage", "hmac"}

Absent  == 0
Damaged == MaxSeals + 1
Seals   == DOMAIN made

NoManifest == 0     \* the artifact has no manifest, or one that no longer
                    \* matches it; otherwise the key that signed it
Broken     == -1    \* c2pa cannot read the artifact at all
NoFile == [id |-> 0, man |-> NoManifest]
NoKey  == 0

Init ==
    /\ art = [id |-> 1, man |-> NoManifest]
    /\ rcpt = [f \in Field |-> Absent]
    /\ made = <<>>
    /\ contents = 1
    /\ key = 1
    /\ shard = 1 /\ pinned = {1}
    /\ now = 1
    /\ changes = 0 /\ edits = 0

-----------------------------------------------------------------------------
(* Values of fields *)

Has(r, f)  == r[f] # Absent
Good(r, f) == r[f] \in Seals

\* payload.artifactSha256 (0: not the hash of anything), seal.sealedAt (-1:
\* not a time) and the public key.
Content(r) == IF Good(r, "payload") THEN made[r["payload"]].id ELSE 0
At(r)      == IF Good(r, "sealedAt") THEN made[r["sealedAt"]].at ELSE -1
PubKey(r)  == made[r["pubkey"]].key

\* build_preimage: the canonical bytes of payload and sealedAt.
Preimage(id, at) == <<id, at>>
Sealed(i) == Preimage(made[i].id, made[i].at)

\* Mutant: the stored preimage is taken, not one computed from the payload.
Computed_Stored(r) == IF Good(r, "preimage") THEN Sealed(r["preimage"]) ELSE <<>>

Computed(r) == Preimage(Content(r), At(r))

\* The signatures of seal i, Ed25519 and HMAC alike, and its TSA binding
\* hmac.sig || ed25519.sig, which the two signatures of a receipt make up.
Sig(i) == [over |-> Sealed(i), by |-> made[i].key]
ToStamp(i, j) == <<Sig(i), Sig(j)>>

-----------------------------------------------------------------------------
(* verify_artifact_bytes *)

Embedded(r) == Has(r, "embedded")

\* present_layers, which the policies and the index go by.
PresentLayers(r) ==
    {"hmac"} \cup {l \in {"ed25519", "tsa", "rekor"} : Has(r, l)}
             \cup {l \in {"c2pa"} : Has(r, "c2pa") \/ Embedded(r)}

\* A SealError.  What the verify-only build does not look at cannot fail there.
StructuralError(r, file, native) ==
    \/ \E f \in Mandatory : ~Has(r, f)
    \/ r["preimage"] = Damaged
    \/ Has(r, "ed25519") /\ ~Good(r, "pubkey")
    \/ ~Embedded(r) /\ r["c2pa"] = Damaged
    \/ Embedded(r) /\ file.man = Broken
    \/ native /\ Embedded(r) /\ file.man # NoManifest /\ r["pubkey"] = Damaged
    \/ native /\ Has(r, "tsa") /\ \E f \in {"tsa", "hmac", "ed25519"} : ~Good(r, f)
    \/ native /\ r["rekor"] = Damaged

PreimageOk(r) == Good(r, "preimage") /\ Computed(r) = Sealed(r["preimage"])

\* Without the secret, hmac attests the preimage and the shape of the tag.
HmacOk(r, hmacKey) ==
    /\ PreimageOk(r)
    /\ Good(r, "hmac")
    /\ hmacKey # NoKey => Sig(r["hmac"]) = [over |-> Computed(r), by |-> hmacKey]

\* Mutant: the key of the local keystore is used, not the receipt's.
Ed25519Ok_LocalKey(r) ==
    /\ PreimageOk(r)
    /\ Good(r, "ed25519")
    /\ Sig(r["ed25519"]) = [over |-> Computed(r), by |-> key]

Ed25519Ok(r) ==
    /\ PreimageOk(r)
    /\ Good(r, "ed25519")
    /\ Sig(r["ed25519"]) = [over |-> Computed(r), by |-> PubKey(r)]

\* The key in the certificate of the manifest in the file: embed_manifest signs
\* with the key of the seal, in a certificate of its own making.
Signer(file) == file.man

\* c2pa_embedded_layer.  The verify-only build does not compare the signer of
\* the manifest with the seal's key.
EmbeddedOk(r, file, native) ==
    /\ file.man \notin {NoManifest, Broken}
    /\ native /\ Has(r, "pubkey") => Signer(file) = PubKey(r)

\* The payload hash in the sidecar of seal i, whatever key signed it.
PayloadHash(id) == <<"sha256", id>>
Sidecar(i) == PayloadHash(made[i].id)

\* c2pa_layer
SidecarOk(r) == Good(r, "c2pa") /\ Sidecar(r["c2pa"]) = PayloadHash(Content(r))

C2paOk(r, file, native) ==
    IF Embedded(r) THEN EmbeddedOk(r, file, native) ELSE SidecarOk(r)

\* verify_token: the imprint; the chain is reported and does not count.
TsaOk(r) ==
    /\ Good(r, "tsa")
    /\ ToStamp(r["tsa"], r["tsa"]) = ToStamp(r["hmac"], r["ed25519"])

\* verify_anchor: inclusion and checkpoint, under the pinned key of the shard.  The
\* entry is not compared with the receipt.
RekorOk(r) == Good(r, "rekor") /\ made[r["rekor"]].shard \in pinned

\* The layers that have a result.
AllLayers(r) ==
    {"content", "hmac"} \cup {l \in {"ed25519", "tsa", "rekor"} : Has(r, l)}
                       \cup {l \in {"c2pa"} : Embedded(r) \/ Has(r, "c2pa")}

\* The results: the layers that are ok.
OkLayers(r, file, hmacKey, native) ==
    {l \in AllLayers(r) :
        \/ l = "content" /\ file.id = Content(r)
        \/ l = "hmac" /\ HmacOk(r, hmacKey)
        \/ l = "ed25519" /\ Ed25519Ok(r)
        \/ l = "c2pa" /\ C2paOk(r, file, native)
        \/ l = "tsa" /\ native /\ TsaOk(r)
        \/ l = "rekor" /\ native /\ RekorOk(r)}

\* Mutant: a receipt without a public key is not checked for authorship.
VerifyRecord_KeylessPasses(r, hmacKey) ==
    /\ \A f \in Mandatory : Has(r, f)
    /\ HmacOk(r, hmacKey)
    /\ Good(r, "ed25519") /\ Good(r, "pubkey") => Ed25519Ok(r)

\* verify, the other verifier (verify.rs), with the HMAC secret: Ok(true).
VerifyRecord(r, hmacKey) ==
    /\ \A f \in Mandatory : Has(r, f)
    /\ PreimageOk(r)
    /\ Good(r, "hmac") /\ Sig(r["hmac"]) = [over |-> Computed(r), by |-> hmacKey]
    /\ Has(r, "ed25519") =>
         /\ Good(r, "pubkey") /\ Good(r, "ed25519")
         /\ Sig(r["ed25519"]) = [over |-> Computed(r), by |-> PubKey(r)]

-----------------------------------------------------------------------------
(* policy.rs *)

\* Mutant: the sign of the age is lost.
AgeDays_Unsigned(r) == (IF now >= At(r) THEN now - At(r) ELSE At(r) - now) \div 2

\* num_days: whole days, truncated toward zero.
AgeDays(r) == IF now >= At(r) THEN (now - At(r)) \div 2 ELSE -((At(r) - now) \div 2)

TooOld(p, r) == p.maxAge # -1 /\ Good(r, "sealedAt") /\ AgeDays(r) > p.maxAge

AgeOk(p, r) ==
    p.maxAge # -1 => /\ Good(r, "sealedAt")
                     /\ AgeDays(r) \in 0..p.maxAge

QualifiedOk(p, r) ==
    p.qualified => Good(r, "tsa") /\ made[r["tsa"]].host \in Qualified

\* Mutant: a layer that is present satisfies a requirement.
Evaluate_Present(p, r, ok) ==
    /\ p.require \subseteq PresentLayers(r)
    /\ p.forbid \cap PresentLayers(r) = {}
    /\ Cardinality(ok \cap PresentLayers(r)) >= p.min
    /\ QualifiedOk(p, r)
    /\ AgeOk(p, r)

\* evaluate: no violations.
Evaluate(p, r, ok) ==
    /\ p.require \subseteq PresentLayers(r) \cap ok
    /\ p.forbid \cap PresentLayers(r) = {}
    /\ Cardinality(ok \cap PresentLayers(r)) >= p.min
    /\ QualifiedOk(p, r)
    /\ AgeOk(p, r)

-----------------------------------------------------------------------------
(* The surfaces, given the receipt, the artifact beside it and a policy *)

Unreadable(r, file) == file = NoFile \/ StructuralError(r, file, TRUE)

AllOk(r, file, hmacKey) == OkLayers(r, file, hmacKey, TRUE) = AllLayers(r)

\* What --policy or --profile comes to (resolve_policy): a policy; nothing, a
\* file that cannot be read or parsed, or a name that no profile has.
NoPolicy == [is |-> "none"]
Given == {[is |-> "policy", policy |-> p] : p \in Policies}
             \cup {NoPolicy, [is |-> "badFile"], [is |-> "noProfile"]}

\* The policy is satisfied, if there is one.
Satisfied(g, r, ok) == g.is = "policy" => Evaluate(g.policy, r, ok)

\* Mutant: a profile nobody knows is no policy.
ExitCode_IgnoresUnknown(r, file, hmacKey, g) ==
    IF Unreadable(r, file) \/ g.is = "badFile" THEN 3
    ELSE IF ~AllOk(r, file, hmacKey) THEN 1
    ELSE IF ~Satisfied(g, r, OkLayers(r, file, hmacKey, TRUE)) THEN 5 ELSE 0

\* run_verify: the policy is resolved when the layers have been checked, and
\* what is wrong with it is reported in place of the verdict.
ExitCode(r, file, hmacKey, g) ==
    IF Unreadable(r, file) \/ g.is = "badFile" THEN 3
    ELSE IF g.is = "noProfile" THEN 2
    ELSE IF ~AllOk(r, file, hmacKey) THEN 1
    ELSE IF ~Satisfied(g, r, OkLayers(r, file, hmacKey, TRUE)) THEN 5 ELSE 0

\* verify of the SDKs, which takes no policy: an exit code but 0 and 1 raises.
SdkVerdict(r, file) ==
    LET code == ExitCode(r, file, NoKey, NoPolicy) IN
    IF code \in {0, 1} THEN [raises |-> FALSE, ok |-> code = 0]
    ELSE [raises |-> TRUE, ok |-> FALSE]

\* build_dashboard_entry: the status and, for a PASS, the policy.
DashboardRow(r, file, g) ==
    LET status == IF Unreadable(r, file) THEN "receipt-only"
                  ELSE IF AllOk(r, file, NoKey) THEN "PASS" ELSE "FAIL" IN
    [status |-> status,
     policy |-> /\ g.is = "policy" /\ status = "PASS"
                /\ Satisfied(g, r, OkLayers(r, file, NoKey, TRUE))]

\* run_dashboard resolves the policy before it looks at any receipt.
DashboardRuns(g) == g.is \in {"none", "policy"}

\* verify_receipt of the MCP server: an error, or two verdicts that do not look
\* at each other.
McpError(r, file, g) == Unreadable(r, file) \/ g.is = "noProfile"

McpVerdict(r, file, g) ==
    [ok |-> ~McpError(r, file, g) /\ AllOk(r, file, NoKey),
     policy |-> /\ ~McpError(r, file, g) /\ g.is = "policy"
                /\ Satisfied(g, r, OkLayers(r, file, NoKey, TRUE))]

\* Mutant: layers the browser cannot check are left out of its verdict.
BrowserOk_SkipsNetwork(r, file) ==
    /\ file # NoFile
    /\ ~StructuralError(r, file, FALSE)
    /\ AllLayers(r) \ {"hmac", "tsa", "rekor"} \subseteq OkLayers(r, file, NoKey, FALSE)

\* verify_inner: every layer but hmac, which it cannot check.
BrowserOk(r, file) ==
    /\ file # NoFile
    /\ ~StructuralError(r, file, FALSE)
    /\ AllLayers(r) \ {"hmac"} \subseteq OkLayers(r, file, NoKey, FALSE)

\* Mutant: the HMAC tag is said to be verifiable by anyone.
Statement_AllOffline(r) ==
    [subject |-> Content(r),
     attestations |-> {[type |-> l, offline |-> TRUE] :
                         l \in {"hmac"} \cup {x \in {"ed25519", "tsa", "rekor"} : Has(r, x)}
                                  \cup {x \in {"c2pa"} : Embedded(r) \/ Has(r, x)}}]

\* provenance_statement: an export of what the receipt says, verified or not.
Statement(r) ==
    [subject |-> Content(r),
     attestations |->
       {[type |-> "hmac", offline |-> FALSE]} \cup
       {[type |-> l, offline |-> TRUE] :
          l \in {x \in {"ed25519", "tsa", "rekor"} : Has(r, x)}
                  \cup {x \in {"c2pa"} : Embedded(r) \/ Has(r, x)}}]

-----------------------------------------------------------------------------
(* What happens to the artifact, the receipt, the keys and the log *)

\* seal_artifact hashes the artifact, after embedding if it embeds.
SealedContent(m) == IF "embed" \in m THEN contents + 1 ELSE art.id

\* embed_manifest: the artifact with a manifest in it, signed with the key k.
WithManifest(k) == [id |-> contents + 1, man |-> k]

Written(m, f) ==
    \/ f \in {"payload", "sealedAt", "preimage", "pubkey"}
    \/ f = "c2pa" /\ "c2pa" \in m /\ "embed" \notin m
    \/ f = "embedded" /\ "embed" \in m
    \/ f \in m \cap {"hmac", "ed25519", "tsa", "rekor"}

\* seal_artifact
Seal(m, ahead, host) ==
    /\ Cardinality(Seals) < MaxSeals
    /\ art # NoFile
    /\ "embed" \in m => art.man # Broken
    /\ IF "embed" \in m
       THEN contents' = contents + 1 /\ art' = WithManifest(key)
       ELSE UNCHANGED <<contents, art>>
    /\ made' = [i \in 1..(Cardinality(Seals) + 1) |->
                  IF i \in Seals THEN made[i]
                  ELSE [id |-> SealedContent(m), at |-> now + ahead, key |-> key, host |-> host,
                        shard |-> shard, layers |-> m, file |-> art']]
    /\ rcpt' = [f \in Field |-> IF Written(m, f) THEN Cardinality(Seals) + 1 ELSE Absent]
    /\ changes' = 0
    /\ UNCHANGED <<key, shard, pinned, now, edits>>

\* A field of the receipt is lost, damaged or taken from another receipt.
Change(f, v) ==
    /\ Seals # {}
    /\ changes < MaxChanges
    /\ v \in {Absent} \cup Seals \cup (IF f = "embedded" THEN {} ELSE {Damaged})
    /\ v \in Seals /\ f \notin Mandatory \cup {"pubkey"} => Written(made[v].layers, f)
    /\ rcpt[f] # v
    /\ rcpt' = [rcpt EXCEPT ![f] = v]
    /\ changes' = changes + 1
    /\ UNCHANGED <<art, made, contents, key, shard, pinned, now, edits>>

\* The artifact is rewritten (a manifest in it no longer matches, or it is no
\* longer a file that c2pa can read), or removed.
EditArtifact ==
    /\ edits < MaxEdits
    /\ edits' = edits + 1
    /\ \/ /\ contents' = contents + 1
          /\ \E man \in {NoManifest, Broken} : art' = [id |-> contents + 1, man |-> man]
       \/ contents' = contents /\ art' = NoFile
    /\ UNCHANGED <<rcpt, made, key, shard, pinned, now, changes>>

\* key rotate
RotateKey ==
    /\ edits < MaxEdits
    /\ edits' = edits + 1
    /\ key' = key + 1
    /\ UNCHANGED <<art, rcpt, made, contents, shard, pinned, now, changes>>

\* The log turns to a new shard, which --rekor may name at once; its key
\* reaches verifiers with an upgrade.
RotateShard ==
    /\ edits < MaxEdits
    /\ edits' = edits + 1
    /\ shard' = shard + 1
    /\ UNCHANGED <<art, rcpt, made, contents, key, pinned, now, changes>>

\* Mutant: keys are numbered one too high.
Upgrade_NextShard ==
    /\ shard \notin pinned
    /\ pinned' = pinned \cup {shard + 1}
    /\ UNCHANGED <<art, rcpt, made, contents, key, shard, now, changes, edits>>

Upgrade ==
    /\ shard \notin pinned
    /\ pinned' = pinned \cup {shard}
    /\ UNCHANGED <<art, rcpt, made, contents, key, shard, now, changes, edits>>

Tick ==
    /\ now < MaxTime
    /\ now' = now + 1
    /\ UNCHANGED <<art, rcpt, made, contents, key, shard, pinned, changes, edits>>

Next ==
    \/ \E q \in Requests : Seal(q.layers, q.ahead, q.host)
    \/ \E f \in Field, v \in 0..Damaged : Change(f, v)
    \/ EditArtifact \/ RotateKey \/ RotateShard \/ Upgrade \/ Tick

Spec == Init /\ [][Next]_vars

-----------------------------------------------------------------------------
(* Properties *)

\* What is recorded of a seal.
SealRecord == [id : 1..contents, at : Nat, key : 1..key, host : Hosts, shard : 1..shard,
               layers : {q.layers : q \in Requests},
               file : [id : 1..contents, man : Broken..key]]

\* Every variable keeps its type.
TypeOK ==
    /\ art \in [id : 1..contents, man : Broken..key] \cup {NoFile}
    /\ rcpt \in [Field -> 0..Damaged]
    /\ \A f \in Field : rcpt[f] \in {Absent, Damaged} \cup Seals
    /\ \A i \in Seals : made[i] \in SealRecord
    /\ \E n \in 0..MaxSeals : Seals = 1..n
    /\ contents \in Nat \ {0} /\ key \in Nat \ {0} /\ shard \in Nat \ {0}
    /\ pinned \subseteq 1..shard
    /\ now \in 1..MaxTime
    /\ changes \in 0..MaxChanges /\ edits \in 0..MaxEdits

Last == made[Cardinality(Seals)]

\* A receipt that was not changed verifies for the artifact the seal left,
\* with the secret and without it, by both verifiers and in every layer,
\* whatever rotations there have been; its shard's key has to be pinned.
FreshVerifies ==
    /\ Seals # {} /\ changes = 0
    /\ art = Last.file
    /\ "rekor" \in Last.layers => Last.shard \in pinned
    => /\ ~Unreadable(rcpt, art)
       /\ \A k \in {NoKey, Last.key} : AllOk(rcpt, art, k)
       /\ VerifyRecord(rcpt, Last.key)

\* Seal i was made over this payload, at this time, with the key in the receipt.
MadeBy(i, r) == made[i].id = Content(r) /\ made[i].at = At(r) /\ made[i].key = PubKey(r)

\* However receipts were mixed up: one with an authorship layer that verifies
\* was sealed over this very artifact, and a timestamp that verifies was
\* issued for that seal.  (A Rekor anchor that verifies need not be that seal's:
\* see AnchorIsOfThisSeal.)
VerifiedIsAuthentic ==
    /\ ~Unreadable(rcpt, art)
    /\ AllOk(rcpt, art, NoKey)
    /\ Has(rcpt, "ed25519")
    => \E i \in Seals :
         /\ MadeBy(i, rcpt) /\ made[i].id = art.id
         /\ Has(rcpt, "tsa") => Sig(rcpt["tsa"]) = Sig(i)

\* A named profile is passed only with positive evidence (policy.rs:99-101), even
\* where the MCP server reports the policy of a receipt that is not ok: authorship,
\* timestamp and provenance are of one seal over payload and time as the receipt
\* states them.  Of the anchor no more is known than that some seal has put it into
\* a log whose key is pinned.
ProfileIsEarned ==
    \A p \in Profiles :
        McpVerdict(rcpt, art, [is |-> "policy", policy |-> p]).policy =>
            /\ \E i \in Seals :
                 /\ MadeBy(i, rcpt)
                 /\ "tsa" \in p.require => Sig(rcpt["tsa"]) = Sig(i)
                 /\ "c2pa" \in p.require /\ ~Embedded(rcpt) => made[rcpt["c2pa"]].id = made[i].id
            /\ "rekor" \in p.require => Good(rcpt, "rekor") /\ made[rcpt["rekor"]].shard \in pinned

\* Every layer of a receipt that verifies binds the canonical preimage
\* (docs/ASSURANCE.md:68, 91-93): the Rekor anchor does too.
AnchorIsOfThisSeal ==
    ~Unreadable(rcpt, art) /\ AllOk(rcpt, art, NoKey) /\ Has(rcpt, "rekor") =>
        Sealed(rcpt["rekor"]) = Computed(rcpt)

\* The two verifiers check the same thing in a different order: on what both
\* can read, one accepts exactly the signatures the other does.
VerifiersAgree ==
    ~StructuralError(rcpt, art, FALSE) =>
        \A k \in 1..key :
            VerifyRecord(rcpt, k) <=>
                {"hmac", "ed25519"} \cap PresentLayers(rcpt) \subseteq OkLayers(rcpt, art, k, FALSE)

\* The browser, which checks less, passes no receipt with an authorship layer
\* in which `verify' finds anything wrong, but for the shape of the HMAC tag
\* and the signer of an embedded manifest.
BrowserNotLaxer ==
    BrowserOk(rcpt, art) /\ Has(rcpt, "ed25519") =>
        /\ ~Unreadable(rcpt, art)
        /\ AllLayers(rcpt) \ OkLayers(rcpt, art, NoKey, TRUE)
               \subseteq {"hmac"} \cup (IF Embedded(rcpt) THEN {"c2pa"} ELSE {})

\* `verify', the SDKs, the dashboard and the MCP tool give the same verdict on a
\* receipt and a policy.  Where the policy cannot be resolved, which `verify'
\* notices after verification and the dashboard before, none of them passes
\* the receipt (docs/POSITIONING.md:27-31).
SurfacesAgree ==
    LET sdk == SdkVerdict(rcpt, art) IN
    Seals # {} => \A g \in Given :
        LET code == ExitCode(rcpt, art, NoKey, g)
            row  == DashboardRow(rcpt, art, g)
            mcp  == McpVerdict(rcpt, art, g) IN
        /\ code = 0 => DashboardRuns(g)
        /\ DashboardRuns(g) =>
             /\ row.status = "PASS" <=> code \in {0, 5}
             /\ row.status = "FAIL" <=> code = 1
             /\ row.policy <=> g.is = "policy" /\ code = 0
             /\ sdk.ok <=> code \in {0, 5}
             /\ sdk.raises <=> row.status = "receipt-only"
             /\ mcp.ok <=> sdk.ok
        /\ code = 0 <=> /\ sdk.ok /\ g.is \in {"none", "policy"}
                        /\ g.is = "policy" => mcp.policy

\* The exported statement attests the layers that verification judges, no more
\* and no fewer, and what it flags as verifiable offline gets the same verdict
\* from one who holds a secret and one who does not; if the receipt verifies,
\* its subject is the artifact (provenance.rs:66-78).
StatementIsHonest ==
    LET s == Statement(rcpt) IN
    /\ {a.type : a \in s.attestations} = AllLayers(rcpt) \ {"content"}
    /\ ~Unreadable(rcpt, art) =>
         /\ \A a \in s.attestations, k \in 1..key :
              a.offline => (a.type \in OkLayers(rcpt, art, NoKey, TRUE)
                              <=> a.type \in OkLayers(rcpt, art, k, TRUE))
         /\ AllOk(rcpt, art, NoKey) => s.subject = art.id

\* A receipt that was too old once stays too old.
TooOldForGood ==
    [][\A p \in Policies :
         TooOld(p, rcpt) /\ rcpt' = rcpt => TooOld(p, rcpt)']_vars
=============================================================================
