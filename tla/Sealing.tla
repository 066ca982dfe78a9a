------------------------------ MODULE Sealing ------------------------------
(***************************************************************************)
(* The `seal' command (run_seal and seal_one in cli.rs, seal_artifact in   *)
(* artifact.rs): a batch of artifacts sealed one after the other, each     *)
(* through optional in-file embedding, a timestamp authority and a         *)
(* transparency log, into a receipt file and the local index; and the MCP  *)
(* tool seal_artifact, which seals one artifact, leaves the index alone    *)
(* and answers with what verifying the seal gives.  Calls share the        *)
(* artifacts, the receipts, the log and the index; the last steps of a     *)
(* call are those of ReceiptIndex, where the rebuilds that run beside      *)
(* them are modelled.                                                      *)
(*                                                                         *)
(* Contents are numbered: 0 is no file, 1 a file cut short in the middle   *)
(* of a rewrite, and every edit or embedding makes a new number.           *)
(***************************************************************************)
EXTENDS Naturals, FiniteSets

CONSTANTS
    Proc,           \* the CLI processes (or MCP worker threads)
    Artifact,       \* the artifacts; a receipt stands beside each
    Name,           \* the paths by which callers name them
    ArtOf,          \* path -> artifact: `a.png' and `./a.png' are one file
    ReceiptNames,   \* the paths that end in .seal.json
    Embeddable,     \* those of a media format that can hold a C2PA manifest
    Batches,        \* the inputs given to a call (see Batch)
    Modes,          \* the flags given to a call
    Faults,         \* what may fail: {"tsa", "rekor", "disk", "index", "crash"}
    Serial,         \* TRUE: nobody starts a call while another one runs
    MaxSeals,       \* bound: artifacts taken up
    MaxEdits        \* bound: artifacts changed or removed by their owner

\* The flags.  `pinned': rekor-shards.json of this build has the key of the shard
\* that --rekor names.
Mode == [c2pa : BOOLEAN, embed : BOOLEAN, tsa : BOOLEAN, rekor : BOOLEAN, pinned : BOOLEAN,
         failFast : BOOLEAN, index : BOOLEAN, mcp : BOOLEAN]

\* The inputs: literal paths, each given once, and the paths at which directories
\* and globs would turn a file up.
Batch == [paths : SUBSET Name, under : SUBSET Name]

ASSUME SealingAssumption ==
    /\ Embeddable \subseteq Artifact
    /\ ArtOf \in [Name -> Artifact]
    /\ ReceiptNames \subseteq Name
    /\ Batches \subseteq Batch
    /\ \A batch \in Batches : IsFiniteSet(batch.paths \cup batch.under)
    \* --embed with --no-c2pa is a usage error (run_seal, seal_artifact).
    \* The MCP tool has neither --fail-fast nor an index.
    /\ Modes \subseteq Mode
    /\ \A m \in Modes : /\ m.embed => m.c2pa
                        /\ m.mcp => ~m.failFast /\ ~m.index
    /\ Faults \subseteq {"tsa", "rekor", "disk", "index", "crash"}
    /\ Serial \in BOOLEAN
    /\ MaxSeals \in Nat
    /\ MaxEdits \in Nat

VARIABLES
    art,        \* artifact -> content
    log,        \* the transparency log: the seals anchored in it
    shards,     \* the Sigstore SigningConfig: "lists" our shard, "omits" it, has "none"
    pc,         \* what each process does next
    mode,       \* its flags
    inputs,     \* what its inputs came to: the files found and the paths missing
    todo,       \* those still to be sealed
    done,       \* the outcomes so far
    rec,        \* the record being built
    made,       \* the seals that got as far as a receipt -> the record written there
    taken,      \* how many artifacts calls have taken up
    seals,      \* how many seals have been computed
    contents,   \* how many contents there have been
    edits,      \* how many edits there have been
    rcpt, rows, seal, reb   \* see ReceiptIndex

NoFile  == 0
Partial == 1

\* Receipts and index: a receipt stands beside its artifact, and its row is keyed
\* by the path that the artifact was given by.
Index == INSTANCE ReceiptIndex WITH
    Receipt <- Artifact, Seal <- Nat \ {0}, NoSeal <- 0, Spelling <- Name,
    Path <- Name, PathOf <- [x \in Artifact \X Name |-> x[2]], Dirs <- {},
    Caller <- Proc, Rebuilder <- {}, NoIndex <- TRUE, CanStop <- Faults # {}

job   == <<mode, inputs, todo, done>>
world == <<art, log, shards, edits>>
count == <<taken, seals, contents>>
store == <<rcpt, rows, seal, reb>>
vars  == <<world, pc, job, rec, made, count, store>>

Layer == {"hmac", "ed25519", "c2pa", "tsa", "rekor"}

\* SealedRecord, as far as it has been built; `read' is what fs::read returned.
Record == [id : Nat, read : Nat, hash : Nat, layers : SUBSET Layer]
NoRecord == [id |-> 0, read |-> 0, hash |-> 0, layers |-> {}]

\* What is kept of a record that was written out; and SealOutcome.
MadeRecord == [art : Artifact, hash : Nat, layers : SUBSET Layer, asked : SUBSET Layer,
               embedded : BOOLEAN]
Outcome == [name : Name, kind : {"ok", "unverified", "usage", "network", "schema"},
            read : Nat, id : Nat]

NoMode == [c2pa |-> TRUE, embed |-> FALSE, tsa |-> FALSE, rekor |-> FALSE,
           pinned |-> TRUE, failFast |-> FALSE, index |-> TRUE, mcp |-> FALSE]

\* The layers a mode asks for.
Asked(m) ==
    {"hmac", "ed25519"} \cup {l \in {"c2pa"} : m.c2pa}
        \cup {l \in {"tsa"} : m.tsa} \cup {l \in {"rekor"} : m.rekor}

Init ==
    /\ art \in [Artifact -> {NoFile, 2}]
    /\ log = {}
    /\ shards \in {"lists", "none"}
    /\ pc = [p \in Proc |-> "idle"]
    /\ mode = [p \in Proc |-> NoMode]
    /\ inputs = [p \in Proc |-> {}]
    /\ todo = [p \in Proc |-> {}]
    /\ done = [p \in Proc |-> {}]
    /\ rec = [p \in Proc |-> NoRecord]
    /\ made = [i \in {} |-> <<>>]
    /\ taken = 0 /\ seals = 0 /\ contents = 2 /\ edits = 0
    /\ Index!Init

\* expand_inputs sorts the paths.  Their order is not modelled: some one of them
\* comes first.
First(S) == CHOOSE n \in S : TRUE

\* The input that p is at, and the file it names.
Item(p)    == First(todo[p])
Current(p) == ArtOf[Item(p)]

Goto(p, l) == pc' = [pc EXCEPT ![p] = l]

-----------------------------------------------------------------------------
(* Outcomes *)

\* FailureKind of an error of seal_artifact; c2paError is SealError::C2pa.
ErrorKind(m, c2paError) ==
    IF m.embed /\ c2paError THEN "usage"
    ELSE IF m.tsa \/ m.rekor THEN "network" ELSE "schema"

\* The outcome of the current input; `id' is the seal it got as far as.
OutcomeOf(p, kind) ==
    [name |-> Item(p), kind |-> kind, read |-> rec[p].read, id |-> rec[p].id]

\* Mutant: the artifact that was sealed is not taken off the list.
Conclude_SameAgain(p, kind) ==
    /\ done' = [done EXCEPT ![p] = @ \cup {OutcomeOf(p, kind)}]
    /\ rec' = [rec EXCEPT ![p] = NoRecord]
    /\ Goto(p, IF kind # "ok" /\ mode[p].failFast THEN "report" ELSE "read")
    /\ UNCHANGED <<mode, inputs, todo>>

\* The current input's outcome is known; the loop of run_seal goes on.
Conclude(p, kind) ==
    /\ done' = [done EXCEPT ![p] = @ \cup {OutcomeOf(p, kind)}]
    /\ todo' = [todo EXCEPT ![p] = @ \ {Item(p)}]
    /\ rec' = [rec EXCEPT ![p] = NoRecord]
    /\ Goto(p, IF todo[p] = {Item(p)} \/ (kind # "ok" /\ mode[p].failFast) THEN "report" ELSE "read")
    /\ UNCHANGED <<mode, inputs>>

Kinds(p) == {o.kind : o \in done[p]}

\* exit_code_for: the smallest code of a failure.
ExitCode(p) ==
    IF Kinds(p) \subseteq {"ok"} THEN 0
    ELSE IF "network" \in Kinds(p) THEN 1
    ELSE IF "usage" \in Kinds(p) THEN 2 ELSE 3

-----------------------------------------------------------------------------
(* Starting a batch *)

There(n) == art[ArtOf[n]] # NoFile

\* expand_inputs.  A literal path that is not there is missing.  What a directory or
\* a glob does not turn up is no input, nor is a receipt, wherever it is from; paths
\* that are equal count once, but not the spellings of one file.
Found(batch)   == {n \in (batch.paths \cup batch.under) \ ReceiptNames : There(n)}
Missing(batch) == {n \in batch.paths : ~There(n)}

MissingOutcome(n) == [name |-> n, kind |-> "schema", read |-> NoFile, id |-> 0]

\* Mutant: paths that are not there are left out in silence.
StartSeal_SkipsMissing(p, batch, m) ==
    LET given == Found(batch) \cup Missing(batch) IN
    /\ pc[p] = "idle" /\ ~m.mcp
    /\ Serial => \A q \in Proc : pc[q] = "idle"
    /\ given # {} /\ taken + Cardinality(given) <= MaxSeals
    /\ mode' = [mode EXCEPT ![p] = m]
    /\ inputs' = [inputs EXCEPT ![p] = given]
    /\ todo' = [todo EXCEPT ![p] = Found(batch)]
    /\ done' = [done EXCEPT ![p] = {}]
    /\ taken' = taken + Cardinality(given)
    /\ Goto(p, IF Found(batch) = {} THEN "report" ELSE "read")
    /\ UNCHANGED <<world, rec, made, seals, contents, store>>

\* run_seal up to its loop: expand_inputs; the inputs that are not there fail
\* first.  Where nothing matches, a directory cannot be read or a glob is invalid,
\* the command ends with an error and has changed nothing.  (The keys are resolved
\* here too: see Keystore.)
StartSeal(p, batch, m) ==
    LET missing == Missing(batch)
        given == Found(batch) \cup missing
        stop == m.failFast /\ missing # {} IN
    /\ pc[p] = "idle" /\ ~m.mcp
    /\ Serial => \A q \in Proc : pc[q] = "idle"
    /\ given # {} /\ taken + Cardinality(given) <= MaxSeals
    /\ mode' = [mode EXCEPT ![p] = m]
    /\ inputs' = [inputs EXCEPT ![p] = given]
    /\ todo' = [todo EXCEPT ![p] = Found(batch)]
    /\ done' = [done EXCEPT ![p] =
                  {MissingOutcome(n) : n \in IF stop THEN {First(missing)} ELSE missing}]
    /\ taken' = taken + Cardinality(given)
    /\ Goto(p, IF stop \/ Found(batch) = {} THEN "report" ELSE "read")
    /\ UNCHANGED <<world, rec, made, seals, contents, store>>

\* The MCP tool is called with one path, which need not be there.
CallTool(p, batch, m) ==
    /\ pc[p] = "idle" /\ m.mcp
    /\ Cardinality(batch.paths) = 1 /\ batch.under = {}
    /\ Serial => \A q \in Proc : pc[q] = "idle"
    /\ taken < MaxSeals
    /\ mode' = [mode EXCEPT ![p] = m]
    /\ inputs' = [inputs EXCEPT ![p] = batch.paths]
    /\ todo' = [todo EXCEPT ![p] = batch.paths]
    /\ taken' = taken + 1
    /\ Goto(p, "read")
    /\ UNCHANGED <<world, done, rec, made, seals, contents, store>>

-----------------------------------------------------------------------------
(* seal_artifact *)

\* The layer to produce after the ones in L, for the modes that ask for it.
NextLayer(m, L) ==
    IF m.tsa /\ "tsa" \notin L THEN "tsa"
    ELSE IF m.rekor /\ "rekor" \notin L THEN "shard" ELSE "receipt"

\* The record is sealed over the content c: HMAC, Ed25519 and C2PA, offline.
SealContent(p, read, c) ==
    /\ seals' = seals + 1
    /\ rec' = [rec EXCEPT ![p] = [id |-> seals + 1, read |-> read, hash |-> c,
                                  layers |-> Asked(mode[p]) \ {"tsa", "rekor"}]]
    /\ Goto(p, NextLayer(mode[p], {}))

\* fs::read; with --embed the format is tested next, and c2pa refuses a file
\* that is cut short.
Read(p) ==
    LET a == Current(p)
        m == mode[p] IN
    /\ pc[p] = "read"
    /\ \/ /\ art[a] = NoFile
          /\ Conclude(p, ErrorKind(m, FALSE))
          /\ UNCHANGED seals
       \/ /\ art[a] # NoFile /\ m.embed
          /\ a \notin Embeddable \/ art[a] = Partial
          /\ Conclude(p, ErrorKind(m, TRUE))
          /\ UNCHANGED seals
       \/ /\ art[a] # NoFile /\ m.embed
          /\ a \in Embeddable /\ art[a] # Partial
          /\ rec' = [rec EXCEPT ![p] = [NoRecord EXCEPT !.read = art[a]]]
          /\ Goto(p, "embedTrunc")
          /\ UNCHANGED <<job, seals>>
       \/ /\ art[a] # NoFile /\ ~m.embed
          /\ SealContent(p, art[a], art[a])
          /\ UNCHANGED job
    /\ UNCHANGED <<world, made, taken, contents, store>>

\* embed_into_file rewrites the artifact in place ...
EmbedTruncate(p) ==
    /\ pc[p] = "embedTrunc"
    /\ art' = [art EXCEPT ![Current(p)] = Partial]
    /\ Goto(p, "embedWrite")
    /\ UNCHANGED <<log, shards, edits, job, rec, made, count, store>>

\* What the artifact can hold once an embedded content c is written to it: c; but
\* if it was rewritten since it was truncated, possibly a mix of both texts, or
\* what replaced it; and nothing if it was removed.
Written(a, c) ==
    CASE art[a] = Partial -> {c}
      [] art[a] = NoFile  -> {NoFile}
      [] OTHER            -> {c, c + 1, art[a]}

\* Mutant: the hash is taken of the bytes that were read.
EmbedWrite_HashesRead(p) ==
    /\ pc[p] = "embedWrite"
    /\ contents' = contents + 2
    /\ art' \in {[art EXCEPT ![Current(p)] = c] : c \in Written(Current(p), contents + 1)}
    /\ SealContent(p, rec[p].read, rec[p].read)
    /\ UNCHANGED <<log, shards, edits, job, made, taken, store>>

\* ... with what it was before and a manifest, and the seal is over that.
EmbedWrite(p) ==
    /\ pc[p] = "embedWrite"
    /\ contents' = contents + 2
    /\ art' \in {[art EXCEPT ![Current(p)] = c] : c \in Written(Current(p), contents + 1)}
    /\ SealContent(p, rec[p].read, contents + 1)
    /\ UNCHANGED <<log, shards, edits, job, made, taken, store>>

\* Mutant: a rewrite that fails is tried again, from the read.
EmbedFails_Retries(p) ==
    /\ "disk" \in Faults
    /\ pc[p] \in {"embedTrunc", "embedWrite"}
    /\ Goto(p, "read")
    /\ UNCHANGED <<world, job, rec, made, count, store>>

\* Mutant: a rewrite that fails is passed over, and the receipt written.
EmbedFails_Ignored(p) ==
    /\ "disk" \in Faults
    /\ pc[p] \in {"embedTrunc", "embedWrite"}
    /\ Goto(p, "receipt")
    /\ UNCHANGED <<world, job, rec, made, count, store>>

\* The rewrite fails before or after the file was truncated.
EmbedFails(p) ==
    /\ "disk" \in Faults
    /\ pc[p] \in {"embedTrunc", "embedWrite"}
    /\ Conclude(p, ErrorKind(mode[p], FALSE))
    /\ UNCHANGED <<world, made, count, store>>

AddLayer(p, l) ==
    LET L == rec[p].layers \cup {l} IN
    /\ rec' = [rec EXCEPT ![p] = [id |-> rec[p].id, read |-> rec[p].read,
                                  hash |-> rec[p].hash, layers |-> L]]
    /\ Goto(p, NextLayer(mode[p], L))
    /\ UNCHANGED job

\* request_token
Tsa(p) ==
    /\ pc[p] = "tsa"
    /\ \/ AddLayer(p, "tsa")
       \/ "tsa" \in Faults /\ Conclude(p, ErrorKind(mode[p], FALSE))
    /\ UNCHANGED <<world, made, count, store>>

\* check_shard_active: a shard that the configuration omits is stale; without
\* a configuration, or without an answer, staleness cannot be told.
CheckShard(p) ==
    /\ pc[p] = "shard"
    /\ \/ /\ shards \in {"lists", "none"} \/ "rekor" \in Faults
          /\ Goto(p, "submit")
          /\ UNCHANGED <<job, rec>>
       \/ shards = "omits" /\ Conclude(p, ErrorKind(mode[p], FALSE))
    /\ UNCHANGED <<world, made, count, store>>

\* Mutant: an anchor is taken for granted before the log has answered.
Submit_Optimistic(p) ==
    /\ pc[p] = "submit"
    /\ log' \in {log, log \cup {rec[p].id}}
    /\ AddLayer(p, "rekor")
    /\ UNCHANGED <<art, shards, edits, made, count, store>>

\* submit: the log takes the entry and answers; or the call fails, and nobody
\* knows whether the log has taken it.
Submit(p) ==
    /\ pc[p] = "submit"
    /\ \/ /\ log' = log \cup {rec[p].id}
          /\ AddLayer(p, "rekor")
       \/ /\ "rekor" \in Faults
          /\ log' \in {log, log \cup {rec[p].id}}
          /\ Conclude(p, ErrorKind(mode[p], FALSE))
    /\ UNCHANGED <<art, shards, edits, made, count, store>>

-----------------------------------------------------------------------------
(* seal_one: the receipt and its index row *)

\* The record as it is written out, with what it should be.
WrittenOut(p) ==
    [art |-> Current(p), hash |-> rec[p].hash, layers |-> rec[p].layers,
     asked |-> Asked(mode[p]), embedded |-> mode[p].embed]

\* fs::write truncates the receipt.
WriteReceipt(p) ==
    /\ pc[p] = "receipt"
    /\ Index!SealTruncate(p, Current(p), Item(p), rec[p].id)
    /\ made' = [i \in DOMAIN made \cup {rec[p].id} |->
                  IF i = rec[p].id THEN WrittenOut(p) ELSE made[i]]
    /\ Goto(p, "save")
    /\ UNCHANGED <<world, job, rec, count>>

\* ... and writes it; then index_insert, unless there was a --no-index.
SaveReceipt(p) ==
    /\ pc[p] = "save"
    /\ \/ Index!SealWrite(p) /\ UNCHANGED <<pc, job, rec>>
       \/ ~mode[p].mcp /\ mode[p].index /\ Index!SealInsert(p) /\ Conclude(p, "ok")
       \/ ~mode[p].mcp /\ ~mode[p].index /\ Index!SealUnindexed(p) /\ Conclude(p, "ok")
    /\ UNCHANGED <<world, made, count>>

\* What verify_artifact can say of the fresh record and the artifact as it is
\* now: every layer is "ok", or one is not and the call answers all the same; or
\* the artifact, or the manifest in it, cannot be read, which is an error.  An
\* anchor in a shard whose key is not pinned is not ok, however fresh it is.
Answers(p) ==
    LET now == art[Current(p)]
        m   == mode[p] IN
    CASE now = NoFile      -> {"schema"}
      [] now = rec[p].hash -> {IF m.rekor /\ ~m.pinned THEN "unverified" ELSE "ok"}
      [] OTHER             -> {"unverified"} \cup {k \in {"schema"} : m.embed}

\* The MCP tool reads the artifact again, verifies and answers.
Answer(p) ==
    /\ pc[p] = "save" /\ mode[p].mcp
    /\ Index!SealUnindexed(p)
    /\ \E kind \in Answers(p) : Conclude(p, kind)
    /\ UNCHANGED <<world, made, count>>

\* A receipt that cannot be written fails the seal; a row that cannot be
\* inserted is warned about.
SaveFails(p) ==
    /\ pc[p] = "save"
    /\ Index!SealStop(p)
    /\ \/ "disk" \in Faults /\ seal[p].pc = "write" /\ Conclude(p, "schema")
       \/ /\ "index" \in Faults /\ mode[p].index
          /\ seal[p].pc = "insert" /\ Conclude(p, "ok")
    /\ UNCHANGED <<world, made, count>>

\* report_batch, and the process exits.
Report(p) ==
    /\ pc[p] = "report"
    /\ Goto(p, "idle")
    /\ todo' = [todo EXCEPT ![p] = {}]
    /\ done' = [done EXCEPT ![p] = {}]
    /\ inputs' = [inputs EXCEPT ![p] = {}]
    /\ mode' = [mode EXCEPT ![p] = NoMode]
    /\ UNCHANGED <<world, rec, made, count, store>>

-----------------------------------------------------------------------------
(* The environment *)

Crash(p) ==
    /\ "crash" \in Faults
    /\ pc[p] \notin {"idle", "report"}
    /\ IF pc[p] = "save" THEN Index!SealStop(p) ELSE UNCHANGED store
    /\ Goto(p, "idle")
    /\ todo' = [todo EXCEPT ![p] = {}]
    /\ done' = [done EXCEPT ![p] = {}]
    /\ inputs' = [inputs EXCEPT ![p] = {}]
    /\ mode' = [mode EXCEPT ![p] = NoMode]
    /\ rec' = [rec EXCEPT ![p] = NoRecord]
    /\ UNCHANGED <<world, made, count>>

\* The owner of an artifact replaces or removes it.
Edit(a) ==
    /\ edits < MaxEdits
    /\ edits' = edits + 1
    /\ \/ contents' = contents + 1 /\ art' = [art EXCEPT ![a] = contents + 1]
       \/ contents' = contents /\ art' = [art EXCEPT ![a] = NoFile]
    /\ UNCHANGED <<log, shards, pc, job, rec, made, taken, seals, store>>

\* The log operator turns to another shard.
RotateShard ==
    /\ shards = "lists"
    /\ shards' = "omits"
    /\ UNCHANGED <<art, log, edits, pc, job, rec, made, count, store>>

Start(p) == \E batch \in Batches, m \in Modes : StartSeal(p, batch, m) \/ CallTool(p, batch, m)

\* What the process does by itself, and what waits for an answer.
Local(p) ==
    \/ Read(p) \/ EmbedTruncate(p) \/ EmbedWrite(p) \/ EmbedFails(p)
    \/ WriteReceipt(p) \/ SaveReceipt(p) \/ Answer(p) \/ SaveFails(p) \/ Report(p)

Remote(p) == Tsa(p) \/ CheckShard(p) \/ Submit(p)

Next ==
    \/ \E p \in Proc : Start(p) \/ Local(p) \/ Remote(p) \/ Crash(p)
    \/ \E a \in Artifact : Edit(a)
    \/ RotateShard

Spec == Init /\ [][Next]_vars

\* The processes are scheduled.  The network may never answer: the clients
\* are built without a timeout.
FairSpec == Spec /\ \A p \in Proc : WF_vars(Local(p))

-----------------------------------------------------------------------------
(* Properties *)

\* Every variable keeps its type.
TypeOK ==
    /\ art \in [Artifact -> Nat]
    /\ log \subseteq 1..seals
    /\ shards \in {"lists", "omits", "none"}
    /\ pc \in [Proc -> {"idle", "read", "embedTrunc", "embedWrite", "tsa", "shard", "submit",
                        "receipt", "save", "report"}]
    /\ mode \in [Proc -> Mode]
    /\ inputs \in [Proc -> SUBSET Name]
    /\ todo \in [Proc -> SUBSET Name]
    /\ done \in [Proc -> SUBSET Outcome]
    /\ rec \in [Proc -> Record]
    /\ DOMAIN made \subseteq 1..seals /\ made \in [DOMAIN made -> MadeRecord]
    /\ taken \in 0..MaxSeals /\ seals \in Nat
    /\ contents \in Nat /\ edits \in 0..MaxEdits
    /\ Index!TypeOK

\* Real or abort (docs/ASSURANCE.md:24-25): a receipt that can be read carries
\* every layer its seal was asked for, is the receipt of the artifact beside it,
\* and if it claims an anchor, the log has the entry.
RealOrAbort ==
    \A a \in Artifact :
        rcpt[a].st = "full" =>
            LET r == made[rcpt[a].id] IN
            /\ r.art = a
            /\ r.layers = r.asked
            /\ "rekor" \in r.layers => rcpt[a].id \in log

\* No other input of p's batch is the same file by another name.
OnlyName(p, n) == \A x \in inputs[p] : ArtOf[x] = ArtOf[n] => x = n

\* A batch that nothing disturbs reports `OK' only for artifacts whose receipt
\* is there and matches them as they are now, embedded manifest included, unless
\* the batch itself goes on to seal the same file by another name; and an MCP call
\* that nothing disturbs finds no fault in what it has sealed, but for an anchor in
\* a shard whose key is not pinned.
ReportedSealsVerify ==
    \A p \in Proc : pc[p] = "report" =>
        \A o \in done[p] :
            LET a == ArtOf[o.name] IN
            /\ o.kind = "unverified" => mode[p].rekor /\ ~mode[p].pinned
            /\ o.kind = "ok" /\ OnlyName(p, o.name) =>
                 rcpt[a].st = "full" /\ made[rcpt[a].id].hash = art[a]

\* Exit code 0 means that every file the inputs came to was sealed and no literal
\* path was missing; without --fail-fast each of them has an outcome, also one that
\* went after the inputs were expanded; --fail-fast stops at the first failure; and
\* no path has two outcomes, as if it had been sealed again (cli.rs:563-565,
\* 621-622).  Of globs that match nothing, and of receipts, nothing is reported
\* (cli.rs:831-837), and nothing said here.
NothingSkipped ==
    \A p \in Proc : pc[p] = "report" =>
        LET failed == {o \in done[p] : o.kind # "ok"} IN
        /\ ExitCode(p) = 0 => inputs[p] \subseteq {o.name : o \in done[p] \ failed}
        /\ ~mode[p].failFast => {o.name : o \in done[p]} = inputs[p]
        /\ mode[p].failFast => \A o1, o2 \in failed : o1 = o2
        /\ \A o1, o2 \in done[p] : o1.name = o2.name => o1 = o2

\* An offline batch ends, whatever runs beside it.
OfflineBatchEnds ==
    \A p \in Proc :
        (pc[p] # "idle" /\ ~mode[p].tsa /\ ~mode[p].rekor) ~> (pc[p] = "idle")

\* When a requested network layer cannot be produced the seal aborts and
\* writes nothing (README.md:90, docs/ASSURANCE.md:73).
AbortWritesNothing ==
    \A p \in Proc : pc[p] = "report" =>
        \A o \in done[p] : o.kind = "network" => art[ArtOf[o.name]] = o.read
=============================================================================
