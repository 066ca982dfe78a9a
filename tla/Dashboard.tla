----------------------------- MODULE Dashboard -----------------------------
(***************************************************************************)
(* The `dashboard' command (run_dashboard in cli.rs, dashboard.rs) beside  *)
(* the seals of Sealing: a report finds receipts in a directory or through *)
(* the index, reads them one by one, and then verifies them one by one     *)
(* against the artifacts.  It takes no lock: receipts, rows and artifacts  *)
(* change between these steps.                                             *)
(***************************************************************************)
EXTENDS Sealing

CONSTANTS
    Sources,    \* where reports look: "dir" (--from-dir), or the index, run "here",
                \* where the artifacts are, or "away" from there
    Absolute,   \* TRUE: the artifacts were given to `seal' by their absolute paths
    Homonyms    \* the artifacts another file of whose name stands where "away" is

ASSUME DashboardAssumption ==
    /\ Sources \subseteq {"dir", "here", "away"}
    /\ Absolute \in BOOLEAN
    /\ Homonyms \subseteq Artifact
    \* Every artifact is given by one path, and anchors are in pinned shards: see
    \* Sealing for what becomes of others.
    /\ \A x, y \in Name : ArtOf[x] = ArtOf[y] => x = y
    /\ \A m \in Modes : m.rekor => m.pinned
    \* The report counts them.
    /\ IsFiniteSet(Artifact)

VARIABLE rep    \* the report under way

Status == {"PASS", "FAIL", "receipt-only"}

\* A row of the report: DashboardEntry, with the record it shows.
Entry == [rcpt : Artifact, id : Nat \ {0}, status : Status]

\* todo: the receipts to be read; found: <<receipt, record>> to be verified.
\* `listed' and `touched' are history: what the report found when it started, and
\* what was changed beside it since.
NoReport == [pc |-> "none"]
ReportCall == [pc : {"read", "verify", "shown"}, src : Sources, todo : SUBSET Artifact,
               found : SUBSET (Artifact \X (Nat \ {0})), shown : SUBSET Entry,
               listed : SUBSET Artifact, touched : SUBSET Artifact]

dashVars == <<vars, rep>>

DashInit == Init /\ rep = NoReport

\* index_list: the rows, in one statement; scan_receipts: any file there.
Indexed     == {ArtOf[n] : n \in {x \in Name : rows[x] # 0}}
Listed(src) == IF src = "dir" THEN Artifact ELSE Indexed

StartReport(src) ==
    /\ rep = NoReport
    /\ rep' = [pc |-> "read", src |-> src, todo |-> Listed(src), found |-> {}, shown |-> {},
               listed |-> Listed(src), touched |-> {}]
    /\ UNCHANGED vars

\* The receipts that the report can open: a relative path of the index leads
\* nowhere from another directory.
Reachable(src) == IF src = "away" /\ ~Absolute THEN {} ELSE Artifact

\* Mutant: a receipt that does not parse is found too.
ReadReceipt_TakesTorn ==
    /\ rep.pc = "read"
    /\ \E a \in rep.todo :
         rep' = [rep EXCEPT !.todo = @ \ {a}, !.found = @ \cup {<<a, rcpt[a].id>>}]
    /\ UNCHANGED vars

\* Mutant: the record is the one that the index has a row of.
RowOrFile(a) ==
    IF rep.src = "dir" THEN rcpt[a].id ELSE rows[CHOOSE n \in Name : ArtOf[n] = a]

ReadReceipt_TrustsIndex ==
    /\ rep.pc = "read"
    /\ \E a \in rep.todo :
         rep' = [rep EXCEPT !.todo = @ \ {a},
                            !.found = IF rcpt[a].st = "full" /\ a \in Reachable(rep.src)
                                      THEN @ \cup {<<a, RowOrFile(a)>>} ELSE @]
    /\ UNCHANGED vars

\* Mutant: a receipt that does not parse is tried again.
ReadReceipt_Retries ==
    /\ rep.pc = "read"
    /\ \E a \in rep.todo :
         rep' = IF rcpt[a].st \in {"torn", "garbled"} THEN rep
                ELSE [rep EXCEPT !.todo = @ \ {a},
                                 !.found = IF rcpt[a].st = "full" /\ a \in Reachable(rep.src)
                                           THEN @ \cup {<<a, rcpt[a].id>>} ELSE @]
    /\ UNCHANGED vars

\* parse_receipt, read_receipt: what is not a whole receipt is passed over.
ReadReceipt ==
    /\ rep.pc = "read"
    /\ \E a \in rep.todo :
         rep' = [rep EXCEPT !.todo = @ \ {a},
                            !.found = IF rcpt[a].st = "full" /\ a \in Reachable(rep.src)
                                      THEN @ \cup {<<a, rcpt[a].id>>} ELSE @]
    /\ UNCHANGED vars

AllRead ==
    /\ rep.pc = "read" /\ rep.todo = {}
    /\ rep' = [rep EXCEPT !.pc = "verify"]
    /\ UNCHANGED vars

\* What may stand at the path where the report takes the artifact to be: beside the
\* receipt, the artifact; or, from the index, the bare name in the directory that the
\* report is run in, where a file of that name may hold anything: what was sealed,
\* another artifact, or what is nowhere else.
ArtifactSeen(src, a) ==
    CASE src # "away" -> {art[a]}
      [] src = "away" /\ a \in Homonyms -> 1..(contents + 1)
      [] OTHER -> {NoFile}

\* The status of a record made as r over the content c, where a fresh seal verifies
\* (Verification says when).  A manifest in the file that c2pa cannot read is a
\* structural error, which is shown like no file.
StatusOf(r, c) ==
    CASE c = NoFile -> {"receipt-only"}
      [] c = r.hash -> {"PASS"}
      [] OTHER -> {"FAIL"} \cup {s \in {"receipt-only"} : r.embedded}

\* build_dashboard_entry.  (If the file goes or comes between the test that it
\* is there and the reading, the outcome is that of one of the two moments.)
VerifyEntry ==
    /\ rep.pc = "verify"
    /\ \E x \in rep.found :
         \E c \in ArtifactSeen(rep.src, x[1]), s \in Status :
           /\ s \in StatusOf(made[x[2]], c)
           /\ rep' = [rep EXCEPT !.found = @ \ {x},
                                 !.shown = @ \cup {[rcpt |-> x[1], id |-> x[2], status |-> s]}]
    /\ UNCHANGED vars

\* render_html, and the report is written.
Render ==
    /\ rep.pc = "verify" /\ rep.found = {}
    /\ rep' = [rep EXCEPT !.pc = "shown"]
    /\ UNCHANGED vars

CloseReport ==
    /\ rep.pc = "shown"
    /\ rep' = NoReport
    /\ UNCHANGED vars

\* The numbers at the top of the report.
Summary ==
    [total |-> Cardinality(rep.shown),
     verified |-> Cardinality({e \in rep.shown : e.status = "PASS"}),
     failed |-> Cardinality({e \in rep.shown : e.status = "FAIL"}),
     receiptOnly |-> Cardinality({e \in rep.shown : e.status = "receipt-only"})]

\* A step of somebody else, seen by the report only as history.
Beside ==
    /\ Next
    /\ rep' = IF rep = NoReport THEN rep
              ELSE [rep EXCEPT !.touched =
                      @ \cup {a \in Artifact : art'[a] # art[a] \/ rcpt'[a] # rcpt[a]}]

Reader == ReadReceipt \/ AllRead \/ VerifyEntry \/ Render

DashNext == Beside \/ (\E src \in Sources : StartReport(src)) \/ Reader \/ CloseReport

DashSpec == DashInit /\ [][DashNext]_dashVars

\* The reporting process is scheduled.
FairDashSpec == DashSpec /\ WF_dashVars(Reader)

-----------------------------------------------------------------------------
(* Properties *)

\* The report keeps its type.
ReportTypeOK == rep \in ReportCall \cup {NoReport}

Shown == rep.pc = "shown"

\* What a report should show of a receipt that nothing changed beside it.
Expected(a) ==
    IF rcpt[a].st # "full" \/ a \notin rep.listed THEN {}
    ELSE {[rcpt |-> a, id |-> rcpt[a].id, status |-> s] : s \in StatusOf(made[rcpt[a].id], art[a])}

\* Whatever runs beside it, and whatever died before it, a report shows of a receipt
\* that nobody changed meanwhile the record on disk, which is not always the one in
\* the index.  A report made where the artifacts are has one row for each such
\* receipt it found that can be read, with the status that the artifact calls for,
\* and the numbers at its top count these.  (From another directory the status may be
\* that of another file.)
ReportReflectsDisk ==
    /\ Shown => \A e \in rep.shown : e.rcpt \notin rep.touched =>
                  rcpt[e.rcpt].st = "full" /\ rcpt[e.rcpt].id = e.id
    /\ Shown /\ rep.src # "away" =>
        /\ \A a \in Artifact \ rep.touched :
             LET entries == {e \in rep.shown : e.rcpt = a} IN
             /\ entries \subseteq Expected(a)
             /\ Expected(a) # {} => Cardinality(entries) = 1
        /\ rep.touched = {} =>
             /\ Summary.total = Cardinality({a \in Artifact : Expected(a) # {}})
             /\ Summary.verified =
                  Cardinality({a \in rep.listed : /\ rcpt[a].st = "full"
                                                  /\ art[a] = made[rcpt[a].id].hash})

\* A report ends, although receipts may be cut short for ever.
ReportEnds == (rep # NoReport) ~> Shown
=============================================================================
