# A TLA+ model of apohara-sealchain

apohara-sealchain seals artifacts offline: it hashes a file, signs the hash
under an HMAC secret and an Ed25519 key, optionally adds a C2PA manifest, an
RFC 3161 timestamp and an entry in the Sigstore transparency log, and writes all
of it into `<artifact>.seal.json`. Receipts are verified offline, by the CLI, an
MCP server, a dashboard and a browser build.

Nothing in the program takes a lock. It writes files in place, keeps an SQLite
table that is derived from files, calls two network services in the middle of a
seal, and has two verifiers and five surfaces that report a verdict. What can go
wrong lies in the order of small steps and in combinations of fields, and this
is what the modules here are about.

## 1. Inventory

| Component | State | Operations | Interacts with | What is hard |
|---|---|---|---|---|
| signing keystore (`keystore.rs`) | `ed25519.pem`, `hmac.key`, `keystore.enc`, `ed25519.pub.pem`, `archive/<stamp>/` | load_or_generate, encrypt, decrypt, rotate, info/list | every seal resolves its keys here; `key ...` commands | no lock, no atomic rename, two on-disk shapes told apart by file presence, crash between any two steps, one-second stamps |
| sealing (`artifact.rs`, `cli.rs` `run_seal`/`seal_one`, MCP `seal_artifact`) | the artifact (rewritten by `--embed`), the receipt, the log | seal of a batch, fail-fast, exit code | keystore, TSA, Rekor, index, the owner of the artifact | a network call between a change of the artifact and the write of the receipt; lost answers; concurrent seals; the MCP tool verifies, later, what it has just written |
| receipt index (`index.rs`) | one SQLite table | upsert after a seal, rebuild, list, find | receipts on disk | rebuild is scan, DELETE, INSERT... in separate transactions |
| verification (`artifact.rs`, `verify.rs`, `layers/*`) | none | verify_artifact(_bytes), verify | receipts, artifact, pinned shard keys | which key, preimage and binding a layer is checked against; structural error or failed layer |
| policies (`policy.rs`, `trust_profile.rs`) | none | evaluate | verification results, the clock | positive evidence only; ages truncated and negative |
| surfaces: `verify`, dashboard column, MCP, browser, SDKs (`cli.rs`, `mcp.rs`, `sealchain-wasm`, `sdks/`) | none | a verdict each | verification, policies | five combinations of the same facts, and of a policy that cannot be resolved |
| dashboard (`cli.rs` `run_dashboard`, `dashboard.rs`) | the report being made | find receipts in a directory or the index, read, verify, count, render | receipts, index, artifacts | all receipts are read first and all artifacts after that, beside running seals; relative paths |
| provenance export (`provenance.rs`) | none | statement of a receipt | verification | lists of layers of its own |
| network layers (`tsa.rs`, `rekor.rs`) | the shard configuration, the log | request_token, check_shard_active, submit; verify_token, verify_anchor | sealing, verification | rotation of shards, no timeouts |
| C2PA layer (`c2pa.rs`) | the manifest in the artifact | emit_sidecar, embed_manifest, verify | sealing, verification | embedding changes what is hashed |
| npx wrapper, web page, packaging, CI, examples, fuzzing | none of their own | download, display, build | the above | not modelled, see section 8 |

What makes each of them correct:

* keystore: a key that sealed a receipt is never destroyed, both halves of a
  pair stay together, and `key list` can name the key of every receipt;
* sealing: real or abort; what is reported as sealed verifies against the
  artifact as it is now; every path the inputs come to is accounted for; a batch ends;
* index: it shows what the receipts say, and a rebuild repairs anything;
* verification: an untouched receipt verifies for ever, and one that verifies was
  made as it says; the two verifiers agree;
* policies: a profile is earned by authorship, timestamp and provenance of one seal (the
  anchor is bound to none, see section 4); too old stays too old;
* surfaces: one receipt, one verdict;
* dashboard: run where the artifacts are, it reports what is on disk; and it ends;
* provenance: a statement claims no layer that verification would not check.

The hazards in `PROJECT.json` are this list line by line.

## 2. Modules

| Module | Models | Role |
|---|---|---|
| `Keystore` | `keystore.rs` | files of the config directory and the archive; one action per file-system step |
| `KeyVault` | the module doc of `keystore.rs` | abstract: an active key, a mode, a key on its way out, retired keys |
| `KeystoreVault` | | refinement mapping from files to `KeyVault` |
| `KeystoreProofs` | | theorems about `Keystore`: types, and keys in spite of interruptions |
| `KeystoreFirstUseProofs` | | theorems about `Keystore` with racing first uses |
| `KeystoreVaultProofs` | | theorems about `Keystore` with complete calls; the refinement of `KeyVault` |
| `ReceiptIndex` | `index.rs`, the end of `seal_one` | receipts and table; seals and rebuilds statement by statement |
| `ReceiptIndexProofs` | | theorems about `ReceiptIndex` |
| `Sealing` | `run_seal`, `seal_one`, `seal_artifact`, the MCP tool `seal_artifact`, `tsa.rs`, `rekor.rs` | batches of seals; its last steps are those of `ReceiptIndex` (INSTANCE) |
| `SealingProofs` | | theorems about `Sealing` |
| `Dashboard` | `run_dashboard`, `build_dashboard_entry`, `dashboard.rs` | EXTENDS `Sealing`: a report, step by step, beside the seals |
| `DashboardProofs` | | theorems about `Dashboard` |
| `Verification` | `verify_artifact_bytes`, `verify.rs`, `policy.rs`, `provenance.rs`, the five surfaces | receipts as maps from field to the seal its value is from |
| `VerificationProofs` | | theorems about `Verification` |
| `MC*` | | finite instances |

How state and actions correspond to the code:

* **Keystore.** `disk` and `archive` map file names to contents (`absent`,
  `torn`, or the keys a `full` file holds). `fs::write` is two steps, `Truncate`
  and `Write`, as it creates or truncates first. `pc`/`file` is the position in
  the call: `statPlain` (the two `is_file` tests of load), `readPem`, `readHmac`,
  `readEnc`, `statActive` and `archive` (rotate), `trunc`/`write`, `remove`,
  `return`. A torn `hmac.key` is read as an empty secret, for `load_plaintext`
  checks no length; a torn PEM or blob is an error. `Abort` is any `?` or death
  after a step. `issued` is history: the bundles callers were given.
* **ReceiptIndex.** `rows` is the table, keyed by the receipt's path *as spelled*:
  `PathOf` says what path comes of a receipt under a spelling, so that one receipt
  may have several paths, and, the paths being relative to directories that are not
  kept, several receipts one. `SealUnindexed` ends a seal with `--no-index`, or one by
  the MCP tool. `SealTruncate`, `SealWrite`, `SealInsert` are the end of a seal; `Scan`,
  `DeleteAll`, `RebuildInsert` a rebuild. `clean` is history: whether anything got
  in the way of this call. Two writers of one receipt may leave it garbled.
* **Sealing.** `pc` walks the layers in the order of `seal_artifact`. Contents are
  numbers; `Partial` is an artifact cut short in the middle of an embedding. `log`
  has what Rekor has accepted, also when the answer was lost. The inputs of a batch are
  literal `paths` and what lies `under` directories and globs; `expand_inputs` makes of them
  the paths `Found` and the literal ones `Missing`. It drops receipts (`ReceiptNames`)
  and what a glob does not match without a word, and takes equal paths for one but not two
  spellings of one file (`ArtOf` says what file a path names). If nothing is left, a
  directory cannot be read or a glob is invalid, the command ends there and has changed
  nothing, which is no step. The paths are taken up in a fixed order of which nothing else
  is known (`First`): the code sorts them. `todo` and `done` are the
  inputs left and the outcomes, from which `ExitCode` is computed as `exit_code_for`
  does; `made` maps the seals that were written out to their records. A mode says
  whether the index is kept (`index`), whether this build has the key of the shard that is
  asked for (`pinned`), and whether the caller is the MCP tool (`mcp`):
  `CallTool` starts such a call, and after the receipt is written `Answer` verifies it
  against the artifact of that moment, which may be another than the one sealed.
* **Dashboard.** `rep` is the report under way: `StartReport` lists receipts from a
  directory or the table, `ReadReceipt` reads each and passes over what does not
  parse, `VerifyEntry` gives each record found its status from the artifact as it then
  is, `Render` counts them. Every step of `Sealing` may come in between (`Beside`),
  which adds the artifacts and receipts it changes to `touched`, a history. From
  the index a report takes the bare artifact name in its own directory: `here` is that
  of the artifacts, `away` another, where a file of the same name (`Homonyms`) may hold
  anything, a copy of what was sealed included. Artifacts are sealed by one path each and
  anchored in pinned shards only (`DashboardAssumption`).
* **Verification.** `rcpt[f] = i` says that field `f` holds what seal `i` wrote
  there; 0 is absent and `MaxSeals + 1` damaged beyond decoding. Signatures are the
  pairs (preimage, key), so that the model has no signature nobody made. `Change`
  loses, damages or swaps in a field of another receipt. The layers, both
  verifiers, `evaluate`, the verdicts of the surfaces and the exported `Statement` are
  operators on a receipt and a file; `native` tells the native build from the
  browser's. A file's manifest may also be `Broken`, no longer one that c2pa can read.
  What `--policy` or `--profile` comes to is an input (`Given`): a policy, none, or
  one that cannot be resolved, which `verify` finds out last and the dashboard first.

`KeystoreVault` composes `Keystore` with `KeyVault`; `Sealing` composes the seal
with `ReceiptIndex`, and `Dashboard` the report with both. Keys enter `Sealing` and
`Verification` only as numbers: a batch resolves its keys once, before its loop, and
what that can return is the subject of `Keystore`.

## 3. Runs

| Run | Question | Bounds |
|---|---|---|
| `ks_interrupted` | load, decrypt and rotate stop between any two steps: is an issued signing key ever lost? | 1 caller, 2 passphrases, 3 keys, 2 seconds |
| `ks_serial` | complete calls: are both halves kept at every step, is `key list` right, is `KeyVault` implemented? | 1 caller, 2 passphrases, 4 keys, 3 seconds |
| `ks_first_use` | three processes race on an empty directory: what is left? | 3 processes, 2 passphrases, 3 keys |
| `index_concurrent` | seals and a rebuild, interruptible and interleaved | 2 receipts, 2 spellings, 2 records, 2 sealers, 1 rebuilder |
| `seal_serial` | whole batches, and calls of the MCP tool, in every mode with every fault | 10 modes, 6 inputs (one path, two, a path and a directory, a directory and a path beside receipts, one file under two names), 3 artifacts taken up, crashes |
| `seal_concurrent` | CLI and MCP tool seal one artifact, which is edited; the shard rotates; crashes | 2 processes, 3 modes, 2 seals, 2 edits |
| `dash_report` | a report beside seals that fail, crash or skip the index, and edits | 1 sealer, 2 artifacts, 2 seals, 1 edit, 3 sources |
| `verification` | receipts mixed up, damaged, stripped; rotations; time | 2 seals of 3 kinds, 6 policies, 2 changes, 1 edit or rotation, half-days 1-3 |
| `ks_same_second` | violation: two rotations in one second | as `ks_serial`, stamps may repeat |
| `ks_encrypt_stops` | violation: encrypt stops half way | as `ks_interrupted`, 4 keys |
| `seal_abort` | violation: an abort after embedding | 1 batch, `--all --embed` |
| `rekor_unbound` | violation: the anchor of another seal | as `verification`, 1 change, half-days 1-2 |

What the passing runs show:

* `IssuedKeyKept`: wherever load, decrypt or rotate stop, and whatever calls
  follow, the signing key of every bundle ever returned is in the store or the
  archive. The HMAC half is kept only without interruptions (`IssuedBundleKept`):
  a plaintext rotation stopped between its two files can lose the secret.
* `ImplementsVault`: at none of its file-system steps does an uninterrupted call
  show two active keys, half a key, another mode, or a retired key in use.
* `UsableOnceQuiet`, `MixedOnlyFromPlaintext`: after a race on first use the store
  can be loaded. A caller may get halves of different pairs, but only by reading
  `ed25519.pem` and `hmac.key` one after the other, never out of `keystore.enc`; and
  receipts sealed meanwhile may be under a pair that is no longer there, or, for a caller
  that read a truncated `hmac.key`, under an empty secret.
* `RebuildReflectsDisk`, `SealShowsInIndex`: a call on the index that nothing
  disturbed leaves the right rows whatever crashes and lost updates came before.
* `ReportedSealsVerify`, `NothingSkipped`, `RealOrAbort`, `OfflineBatchEnds`: what
  sealing promises, alone and under concurrency; `ReportedSealsVerify` also after
  calls that died and left a torn artifact or receipt. Under concurrency a receipt that
  can be read has all its layers and its log entry, but it need not match the
  artifact, which may have been changed since.
* What those say is no more than the code does. `ReportedSealsVerify` excludes a file that
  one batch seals under two names, since the later seal may embed again, and lets the MCP
  tool call a fresh anchor unverified if its shard is not pinned; the tool's `ok: true` comes
  with any results. `NothingSkipped` starts from what `expand_inputs` returns: a glob
  without a match and a receipt among the inputs are dropped with exit code 0.
* `ReportReflectsDisk`: whatever was half done when the report started, a receipt that
  nothing changed beside it has one row, of the record on disk (not of the index, which
  may be behind), with the status its artifact calls for, in a report made where the artifacts are; made
  elsewhere, a report still shows the record on disk.
  `ReportEnds`: receipts cut short for ever do not hold it up.
* `VerifiedIsAuthentic`, `ProfileIsEarned`: authorship and timestamp that verify are of one
  seal, and so, in a profile, is provenance. Neither says of the Rekor anchor that it
  is of that seal: the code binds it to nothing.
* `StatementIsHonest`: an exported statement names the layers that verification
  judges and calls offline those whose verdict does not depend on a secret.
* the other properties of `verification`: see the comments in the module. They
  leave room for what the code leaves open: without the secret the HMAC layer is
  only about the preimage; the browser neither checks the HMAC nor the signer of
  an embedded manifest; a shard's key has to be pinned before its entries verify.

Why the bounds are enough. A key can be active, archived, and half way between;
three keys give one of each and four let a further one be overwritten. Two
passphrases make one right and one wrong. Two seals are what a mixed receipt needs
(its fields come from one or the other), and two changes are what is needed to
swap a field together with the one it is checked against. Three half-days make one
whole day, after which a policy of zero days rejects. Two processes meet at every
step; the third on first use is a reader that sees the work of two writers. In
the index, a rebuild and two seals make the lost update and the stale overwrite. In
`dash_report` one sealer is enough, since the report is the second process; two
artifacts tell the one that can hold a manifest from the one that cannot, and two
seals make a record that the index has and a newer one that it does not.

`CHECK_DEADLOCK FALSE` is in every configuration: the counters of seals, keys,
edits and seconds are bounded, and a bounded run ends when they are used up. The
program itself is a set of commands, which is not running most of the time.

Symmetry is used where processes, passphrases, receipts and records are only
compared with one another, and only in runs without liveness properties.

### Fairness

Two runs have a liveness property. In `seal_concurrent`, `FairSpec` assumes weak fairness
of the *local* steps of each process, for the operating system schedules it. It
assumes nothing of the network steps: the HTTP clients are built without a
timeout (`rekor.rs:398`, and the TSA client likewise), so a TSA, configuration or log
request may hang for ever, and nothing can be said of the end of such a batch.
`OfflineBatchEnds` is thus about batches with no network layer, which must end
even if another process hangs on the same artifact. In `dash_report`, `FairDashSpec`
assumes weak fairness of the steps of the report (`Reader`), a local process that is
scheduled, and nothing of the seals beside it; `ReportEnds` follows because each step
takes a receipt off a finite list, readable or not.

## 4. Where the code and its documentation differ

* **Two rotations in a second** (`ks_same_second`): the archive directory is named
  with the second, and `rename` replaces what is there. An archived key is lost.
* **encrypt is not crash-safe** (`ks_encrypt_stops`): both shapes stay behind, the
  blob torn. A rotation archives the torn blob, and a later decrypt overwrites the
  plaintext pair, the only copy of an issued key.
* **Abort writes nothing** (`seal_abort`): with `--embed` the artifact has been
  rewritten before the network is asked.
* **The Rekor anchor is bound to no receipt** (`rekor_unbound`): `docs/ASSURANCE.md:68` and
  `:91-92` say that each layer binds the canonical preimage. `rekor_layer` checks that the
  anchor's entry is in a pinned log and never compares it with the preimage or the key. A receipt
  with another seal's anchor verifies, and passes the profiles that require `rekor`.

`PROJECT.json` quotes the lines. The assumptions under which the first two do not
arise are constants of the passing runs: `UniqueStamps`, `AbortOps`.

Noted while modelling, without a run:

* The key of an index row is the path as the seal was given it, and nothing says relative to
  what. Sealing `b/report.pdf` by its bare name from `b` replaces the row that sealing
  `a/report.pdf` from `a` made, although `index.rs:3` says that the index records where
  receipts live: `PathOf` may map both receipts to one path.
* The comment at `cli.rs:666-668` ranks usage errors above network aborts; the code
  (`cli.rs:679`) keeps the smallest number, and network is 1, usage 2.
* A row has the bare name of the artifact (`cli.rs:1280`, `cli.rs:1308`), which a report opens in
  its own directory. Elsewhere than beside the artifact, a file of that name makes an untouched
  artifact *FAIL*, and a copy of what was sealed makes an edited one *PASS*, of which
  `dashboard.rs:45-48` says that the artifact was present; with no such file an intact
  artifact is *receipt-only*. No property therefore speaks of the status of such rows.
* `a.seal.json` and `./a.seal.json` are one receipt and two rows, although
  `index.rs:122-124` speaks of one row per artifact. A rebuild removes the double.
* `cli.rs:837` calls the inputs of a batch de-duplicated. They are by spelling:
  `a.png` and `./a.png` are sealed one after the other, and the second seal replaces the
  receipt of the first, both of which are reported as sealed.
* `dashboard.rs:50-51` says that *receipt-only* is an artifact that is not there;
  `build_dashboard_entry` also gives it for any structural error. `StatusOf` and
  `DashboardRow` are as in the code.

## 5. Proofs

Seven modules prove their theorems for every value of the constants: any number of
processes, passphrases, keys, receipts, directories, artifacts, batches, seals, changes,
rotations, requests and policies. Every invariant and every action property that a passing
run checks is stated by one of them, and so is the refinement of `KeyVault`; what an
assumption restricts is said at the theorem. Each inductive invariant was an invariant
of the runs before it was proved.

### KeystoreProofs

* `TypeCorrect`: `Spec => []TypeOK`, without further assumptions.
* `IssuedKeysAreKept`: `Spec => []IssuedKeyKept`, assuming `SafeUse`: one call at a
  time, rotations in different seconds, and `encrypt` not interrupted. The two
  violation runs show that the last two are needed. The first restricts the claim to
  what the model has: only load is modelled with concurrent callers.

`IssuedKeyKept` is not inductive: a step that removes or overwrites a file is safe
only because of what the call did before. The inductive invariant is
`IInv == TypeOK /\ Solo /\ StoreInv /\ \A p : CallInv(p)`:

* `Solo`: at most one process is in a call;
* `StoreInv`: keys in files and bundles are among those generated
  (`FreshIsFresh`, so that a new key cannot be confused with an old one); every issued
  key is somewhere (`IssuedKeyKept`); a store that load would fill with a new pair,
  having neither `keystore.enc` nor `hmac.key`, holds no issued key that is not
  archived too (`LonePemSpare`); a plaintext key left beside an encrypted store is the
  encrypted key itself, or archived (`PemBesideEnc`);
* `CallInv(p)`: what a call has established by the time it is at a given step, by
  operation. `PlainInv` for those that read and rewrite the active files,
  `RotateInv` for the archive being this rotation's own and the active files being
  those not yet moved, `WriteInv` for what is safe to truncate, `EndInv` for the
  bundle about to be returned being on disk.

The proof has a lemma for each group of actions (`StartStep`, `ReadStep`,
`RotateStep`, `WriteStep`, `RemoveStep`, `ReturnStep`, `AbortStep`), and
`ControlStep` for the conjuncts that a step only moves along.

### KeystoreFirstUseProofs

Here every call is a load (`LoadsOnly`), as when many programs start on an empty directory.

* `MixedPairsArePlaintext`: `Spec => MixedOnlyFromPlaintext`, an action property; loads may
  die at any step.
* `FirstUseIsUsable`: `Spec => []UsableOnceQuiet`, if every load runs to its end: a load
  that dies in `fs::write` may leave a torn file which later loads do not replace.

The inductive `FirstInv` says of the files that the blob always holds a pair of one key
(`FilesInv`); of each load what it has seen to before it goes on, such as that a PEM is there
when it writes the secret (`LoadInv`); and that the directory stays usable once a bundle was
handed out (`IssuedInv`). `Attended` adds that a torn file has its writer, which turns
"all calls have returned" into "nothing is torn".

### KeystoreVaultProofs

`QuietUse`: one call at a time, uninterrupted, rotations in different seconds. It is what
`KeyVault` is about: `ks_same_second` and `ks_encrypt_stops` show what goes wrong otherwise.

* `BundlesAreKept`: `Spec => []IssuedBundleKept`, at every file-system step.
* `IssuedKeysAreListed`: `Spec => []IssuedKeyListed`, between calls.
* `KeystoreImplementsVault`: `Spec => ImplementsVault`, the refinement.

The inductive `QInv` says for each step of the call which files of which key the directory
and the archive hold (`Stage`, in parts for reading, rotating, writing and finishing), that
the archive has only whole pairs but for the one a rotation is filing (`ArchiveInv`), and
where each bundle is (`BundlesKept`). From it `Views` reads off the abstract state: the
active key, the mode and the key on its way out as functions of the files and the step. Thus
each lemma of the refinement (`VStart` to `VReturn`) only compares two such readings and
names the vault action, or finds them equal, which is a stutter.

### ReceiptIndexProofs

* `TypeCorrect`: `Spec => []TypeOK`.
* `RebuildsReflectDisk`: `Spec => RebuildReflectsDisk`, an action property.
* `SealsShowInIndex`: `Spec => SealShowsInIndex`, likewise.

Both hold with any number of sealers and rebuilds, all of which may stop at any step.
What they say of the end of a call depends on every step of it, so that the inductive
invariant `IInv == Types /\ SealInv /\ RebuildInv` describes calls half way:

* `SealInv`: the receipt of a seal that nothing disturbed is truncated, or whole and
  its own;
* `RebuildInv`: a rebuild that nothing disturbed has, while it scans, found what the
  files hold that it has read (`Scanned`); and while it inserts, exactly the rows for
  what it found and has not still to insert (`Inserted`).

`SealKept` and `RebuildDisturbed` say what a step of another call leaves of one, from
which each step needs an argument only about its own call (`ScanStep`, `InsertStep`).
The proofs rest on `ReceiptIndexAssumption`: the files of one directory have different
paths, without which an insert could overwrite one made before; and no process both
seals and rebuilds at a time.

### VerificationProofs

* `TypeCorrect`: `Spec => []TypeOK`. With it goes `SealNumber`, which every argument
  about seals uses: a seal takes the next number and leaves the others alone.
* `FreshReceiptsVerify`: `Spec => []FreshVerifies`. The property speaks only of
  receipts and the last seal; the inductive invariant `Fresh` adds that what a seal
  recorded of the artifact it left is what it hashed and, after embedding, a manifest
  under the seal's key (`LeftBehind`, for every seal), and that a receipt nobody
  changed holds the last seal's number in exactly the fields that seal wrote.
* `VerifiersAlwaysAgree`, `BrowserIsNeverLaxer`, from `TypeOK` (a damaged field is
  no seal's, and keys are numbered from 1).
* `VerifiedReceiptsAreAuthentic`, `ProfilesAreEarned`, `SurfacesAlwaysAgree`,
  `StatementsAreHonest`: these hold of every receipt whatsoever, reachable or not, so they need no
  invariant. `Ed25519Made` and `TsaMade` say what each layer attests; authenticity is
  that they attest the same seal. The witness is the seal of the Ed25519 field. Of a
  required anchor `ProfilesAreEarned` only says that some seal made it in a pinned shard.
* `TooOldStays`: `Spec => TooOldForGood`, an action property, from `TypeOK`: the
  seal's record stays, the clock does not go back, and whole days grow with it.

All rest on `VerificationAssumption` only: each seal has the HMAC and the Ed25519
layer, `--embed` comes with C2PA, and each named profile requires Ed25519.

### SealingProofs

* `TypeCorrect`, `SealsAreReal` (`RealOrAbort`), `NoneSkipped` (`NothingSkipped`): of `Spec`
  with any number of processes, any batches, faults, crashes and edits.
* `ReportedVerify` (`ReportedSealsVerify`): assuming `Serial` and `MaxEdits = 0`. It is a claim
  about calls nothing disturbs; with a second writer a receipt may be of a content
  that was replaced since. Faults and crashes, also of earlier calls, are covered.

`RealOrAbort` speaks of receipts that can be read, but depends on everything a process
has done before it writes one. The inductive `IInv` is `TypeOK`, and for every process
`LayersOf` (the record has the layers up to this step, and the entry is in the log after
Submit), `IdOf` (a record has a number of its own, and is not written out while it is
being built), `CallOf` (the index knows of the call exactly while its receipt is written, and
under the same artifact and seal) and `BatchOf` (`todo` and `done` make up `inputs`, no
input has two outcomes, and a batch with `--fail-fast` works only as long as none failed and
ends with one failure);
then `IdsApart`, without which a receipt could be that of another seal, and
`MadeInv`, for what is on disk. A process has one lemma per action (`ReadKeeps` to `CrashKeeps`), which gives
`Keeps(p)`: its own part, and that nothing else changed but by what it may add. One lemma
(`OthersKept`) carries the other processes over such a step.

`ReportedVerify` adds `SerialInv`: at most one call is under way (`Alone`), the record under
way is over the artifact as it is (`FreshOf`), and so are the outcomes (`DoneOf`). An outcome
whose file has no other name in the batch (`OnlyName`) is not overwritten by a later seal of
that batch.

### DashboardProofs

* `ReportTypeCorrect` (`ReportTypeOK`), `ReportsReflectDisk` (`ReportReflectsDisk`): of
  `DashSpec`, beside any seals, faults and edits, from any of the sources; the second is about
  reports from the directory of the artifacts, but for the record shown. It counts rows and so needs finitely many
  artifacts (`DashboardAssumption`).

The invariant `DInv` is `IInv` of the seals, `HashInv` (a seal is over a content that there has
been, which is never 0: a missing artifact cannot pass) and `RepInv`: what was found and is shown
is of records that were written out and, while the receipt is untouched, of this receipt and, where
the artifacts are, with the status of its artifact (`FoundInv`, `ShownInv`); a receipt has one row (`OnceInv`); and one that can
be read is still to do, found or shown (`NoneLost`). `BesideRep` shows that no step of a seal
breaks any of it, as the receipts and artifacts it changes become `touched`. For the totals
`SameCount` gives a bijection between rows and receipts.

## 6. Only model-checked

Liveness: `OfflineBatchEnds` and `ReportEnds`. Both need weak fairness, and with it ENABLED,
which the installed provers do not handle.

The four violation runs show where an assumption of a theorem is needed or what the code does not
promise, on one instance each; nothing is proved about them.

No module here declares a RECURSIVE operator, and nothing is claimed about recursive
functions of data, which could not be proved by induction either.

## 7. Plan

Done: every component that keeps state, verification and all surfaces; a theorem for every
invariant and action property of the passing runs, and for the refinement.

Left, in this order:

* Weaker assumptions where a theorem has more than it uses: `IssuedKeyListed` if load and
  decrypt may stop; a bound on what the HMAC half can lose if a rotation stops.
* Lemmas that hold the safety core of the liveness properties, as far as it is an invariant
  or an action property: each step of `Local` takes an offline batch forward in the
  order of `Label`, and each step of `Reader` takes a receipt off a list.
* Of the model, the second half of the C2PA layer (formats, sidecar assets) where it
  affects control, and the passphrase a rotation encrypts under. New questions go into
  the runs above where their instance fits.

## 8. Not modelled

* Bytes: JSON canonicalisation, hashing, encryption, certificates, Merkle proofs,
  CMS, JUMBF. Equal values stand for equal bytes, and a signature verifies if
  and only if it was made over that preimage with that key.
* Receipts of other schema versions, and the parsing of policies and profiles:
  these are rejected before anything in the model starts.
* Output: the JSON shapes of provenance statements, the HTML of the dashboard and its
  escaping, `show`, `ls`, `find`.
* The SDKs' `seal`, `show` and `provenance`, the web page and the transports of the
  MCP server: they pass a call on and keep nothing.
* The npx wrapper. It downloads the binary with no timeout, and what a connection that
  breaks half way leaves behind is decided by the streams of Node.js.
* Build, release, packaging, examples, benchmarks and fuzzing.
* Concurrent encrypt, decrypt and rotate: these rename and remove files by name under
  the feet of other calls; the model requires `Serial` for them.
