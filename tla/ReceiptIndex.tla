---------------------------- MODULE ReceiptIndex ----------------------------
(***************************************************************************)
(* The local receipt index (src/index.rs): a table derived from the        *)
(* *.seal.json files, kept by two kinds of calls that no lock separates.   *)
(* A seal writes a receipt file and then upserts its row; `index rebuild'  *)
(* scans a directory, deletes every row and then upserts one row per       *)
(* receipt it has read.  Each SQL statement is a transaction of its own.   *)
(*                                                                         *)
(* A row is keyed by the path of its receipt as the call was given it.  A  *)
(* relative path says nothing of the directory it was relative to, so      *)
(* that one receipt may have several paths and several receipts one.       *)
(***************************************************************************)
CONSTANTS
    Receipt,    \* the receipt files
    Seal,       \* the records that seals produce
    NoSeal,     \* no record
    Spelling,   \* the ways to name a receipt: by bare name, from `.', ...
    Path,       \* the paths that come of it
    PathOf,     \* <<receipt, spelling>> -> path
    Dirs,       \* directories to rebuild from: [files : SUBSET Receipt, as : Spelling]
    Caller,     \* the processes that seal
    Rebuilder,  \* the processes that rebuild
    NoIndex,    \* TRUE: some seals leave the index alone (--no-index, the MCP tool)
    CanStop     \* TRUE: a call may stop half way (I/O or SQLite error, kill, crash)

\* receipt_path, the key of the row of f for a call that spells it `as'.
RowKey(f, as) == PathOf[<<f, as>>]

ASSUME ReceiptIndexAssumption ==
    /\ NoSeal \notin Seal
    /\ PathOf \in [Receipt \X Spelling -> Path]
    /\ Dirs \subseteq [files : SUBSET Receipt, as : Spelling]
    \* The files of a directory have different names.
    /\ \A d \in Dirs : \A f, g \in d.files : RowKey(f, d.as) = RowKey(g, d.as) => f = g
    \* A process does one thing at a time.
    /\ Caller \cap Rebuilder = {}
    /\ NoIndex \in BOOLEAN
    /\ CanStop \in BOOLEAN

VARIABLES
    rcpt,   \* the receipt files' contents
    rows,   \* the table: path -> the record that its row describes
    seal,   \* the calls that are writing a receipt
    reb     \* the rebuilds under way

vars == <<rcpt, rows, seal, reb>>

\* A file is absent, torn (created or truncated, not yet written), full (id is
\* its record) or garbled (two writers left a text that does not parse).
FileState == [st : {"absent", "torn", "garbled", "full"}, id : Seal \cup {NoSeal}]

Absent  == [st |-> "absent", id |-> NoSeal]
Torn    == [st |-> "torn", id |-> NoSeal]
Garbled == [st |-> "garbled", id |-> NoSeal]
Full(i) == [st |-> "full", id |-> i]

NoRows == [k \in Path |-> NoSeal]

Idle == [pc |-> "idle"]

\* `clean' is history: no other call has got in the way of this one so far.
SealCall == [pc : {"write", "insert"}, f : Receipt, as : Spelling, id : Seal, clean : BOOLEAN]

RebuildCall == [pc : {"scan", "delete", "insert"}, dir : Dirs, todo : SUBSET Receipt,
                found : SUBSET (Receipt \X Seal), clean : BOOLEAN]

Init ==
    /\ rcpt = [f \in Receipt |-> Absent]
    /\ rows = NoRows
    /\ seal = [c \in Caller |-> Idle]
    /\ reb = [r \in Rebuilder |-> Idle]

-----------------------------------------------------------------------------
(* History: the calls that a step on the receipts F gets in the way of *)

Busy(call) == call # Idle

SealsDisturbed(F, self) ==
    [c \in Caller |-> IF c # self /\ Busy(seal[c]) /\ seal[c].f \in F
                      THEN [seal[c] EXCEPT !.clean = FALSE] ELSE seal[c]]

RebuildsDisturbed(self) ==
    [r \in Rebuilder |-> IF r # self /\ Busy(reb[r])
                         THEN [reb[r] EXCEPT !.clean = FALSE] ELSE reb[r]]

\* Whether a call that starts now on f finds another one at work on it.
Undisturbed(f) ==
    /\ \A c \in Caller : Busy(seal[c]) => seal[c].f # f
    /\ \A r \in Rebuilder : ~Busy(reb[r])

-----------------------------------------------------------------------------
(* Sealing: the end of seal_one, once the record has been built *)

\* fs::write, first half: the receipt file is created or truncated.
SealTruncate(c, f, as, i) ==
    /\ seal[c] = Idle
    /\ rcpt' = [rcpt EXCEPT ![f] = Torn]
    /\ seal' = [SealsDisturbed({f}, c) EXCEPT
                  ![c] = [pc |-> "write", f |-> f, as |-> as, id |-> i,
                          clean |-> Undisturbed(f)]]
    /\ reb' = RebuildsDisturbed(c)
    /\ UNCHANGED rows

\* fs::write, second half.  Over a file that another call has written since,
\* the shorter of two receipts leaves the tail of the longer one behind it.
SealWrite(c) ==
    LET f == seal[c].f IN
    /\ seal[c] # Idle /\ seal[c].pc = "write"
    /\ \/ rcpt' = [rcpt EXCEPT ![f] = Full(seal[c].id)]
       \/ /\ rcpt[f].st \in {"full", "garbled"}
          /\ rcpt' = [rcpt EXCEPT ![f] = Garbled]
    /\ seal' = [SealsDisturbed({f}, c) EXCEPT ![c].pc = "insert"]
    /\ reb' = RebuildsDisturbed(c)
    /\ UNCHANGED rows

\* Mutant: a new row, under a key of its own, leaves an old one in place.
Upsert_KeepsOld(t, f, as, i) ==
    IF t[RowKey(f, as)] = NoSeal THEN [t EXCEPT ![RowKey(f, as)] = i] ELSE t

\* upsert: insert the row, or update the one with the same receipt_path.
Upsert(t, f, as, i) == [t EXCEPT ![RowKey(f, as)] = i]

\* index_insert, after which the call is over.
SealInsert(c) ==
    /\ seal[c] # Idle /\ seal[c].pc = "insert"
    /\ rows' = Upsert(rows, seal[c].f, seal[c].as, seal[c].id)
    /\ seal' = [SealsDisturbed({seal[c].f}, c) EXCEPT ![c] = Idle]
    /\ reb' = RebuildsDisturbed(c)
    /\ UNCHANGED rcpt

\* The call is over without an index_insert.
SealUnindexed(c) ==
    /\ NoIndex
    /\ seal[c] # Idle /\ seal[c].pc = "insert"
    /\ seal' = [seal EXCEPT ![c] = Idle]
    /\ UNCHANGED <<rcpt, rows, reb>>

\* The process dies, or the write fails; or the index insert fails, which is
\* warned about and no more.
SealStop(c) ==
    /\ CanStop
    /\ seal[c] # Idle
    /\ seal' = [seal EXCEPT ![c] = Idle]
    /\ UNCHANGED <<rcpt, rows, reb>>

-----------------------------------------------------------------------------
(* rebuild *)

RebuildStart(r, d) ==
    /\ reb[r] = Idle
    /\ reb' = [RebuildsDisturbed(r) EXCEPT
                 ![r] = [pc |-> "scan", dir |-> d, todo |-> d.files, found |-> {},
                         clean |-> /\ \A c \in Caller : ~Busy(seal[c])
                                   /\ \A q \in Rebuilder : ~Busy(reb[q])]]
    /\ seal' = SealsDisturbed(Receipt, r)
    /\ UNCHANGED <<rcpt, rows>>

\* Mutant: a receipt that does not parse is found too, with no facts.
Scan_TakesTorn(r) ==
    /\ reb[r] # Idle /\ reb[r].pc = "scan"
    /\ \/ \E f \in reb[r].todo :
            reb' = [reb EXCEPT ![r].todo = @ \ {f}, ![r].found = @ \cup {<<f, rcpt[f].id>>}]
       \/ /\ reb[r].todo = {}
          /\ reb' = [reb EXCEPT ![r].pc = "delete"]
    /\ UNCHANGED <<rcpt, rows, seal>>

\* scan_receipts: the files in the order of the directory, which is any;
\* parse_receipt skips what is not a whole receipt.
Scan(r) ==
    /\ reb[r] # Idle /\ reb[r].pc = "scan"
    /\ \/ \E f \in reb[r].todo :
            reb' = [reb EXCEPT
                      ![r].todo = @ \ {f},
                      ![r].found = IF rcpt[f].st = "full" THEN @ \cup {<<f, rcpt[f].id>>} ELSE @]
       \/ /\ reb[r].todo = {}
          /\ reb' = [reb EXCEPT ![r].pc = "delete"]
    /\ UNCHANGED <<rcpt, rows, seal>>

\* Mutant: the rows of receipts that are not found again stay.
DeleteAll_KeepsOthers(r) ==
    /\ reb[r] # Idle /\ reb[r].pc = "delete"
    /\ rows' = rows
    /\ reb' = [RebuildsDisturbed(r) EXCEPT ![r].pc = "insert"]
    /\ seal' = SealsDisturbed(Receipt, r)
    /\ UNCHANGED rcpt

\* DELETE FROM receipts: also the rows of other directories.
DeleteAll(r) ==
    /\ reb[r] # Idle /\ reb[r].pc = "delete"
    /\ rows' = NoRows
    /\ reb' = [RebuildsDisturbed(r) EXCEPT ![r].pc = "insert"]
    /\ seal' = SealsDisturbed(Receipt, r)
    /\ UNCHANGED rcpt

\* One upsert for each receipt read, keyed by the path the scan gave it.
RebuildInsert(r) ==
    /\ reb[r] # Idle /\ reb[r].pc = "insert"
    /\ \E x \in reb[r].found :
         /\ rows' = Upsert(rows, x[1], reb[r].dir.as, x[2])
         /\ reb' = [RebuildsDisturbed(r) EXCEPT ![r].found = @ \ {x}]
    /\ seal' = SealsDisturbed(Receipt, r)
    /\ UNCHANGED rcpt

RebuildDone(r) ==
    /\ reb[r] # Idle /\ reb[r].pc = "insert" /\ reb[r].found = {}
    /\ reb' = [reb EXCEPT ![r] = Idle]
    /\ UNCHANGED <<rcpt, rows, seal>>

RebuildStop(r) ==
    /\ CanStop
    /\ reb[r] # Idle
    /\ reb' = [reb EXCEPT ![r] = Idle]
    /\ UNCHANGED <<rcpt, rows, seal>>

Next ==
    \/ \E c \in Caller :
         \/ \E f \in Receipt, as \in Spelling, i \in Seal : SealTruncate(c, f, as, i)
         \/ SealWrite(c) \/ SealInsert(c) \/ SealUnindexed(c) \/ SealStop(c)
    \/ \E r \in Rebuilder :
         \/ \E d \in Dirs : RebuildStart(r, d)
         \/ Scan(r) \/ DeleteAll(r) \/ RebuildInsert(r) \/ RebuildDone(r) \/ RebuildStop(r)

Spec == Init /\ [][Next]_vars

-----------------------------------------------------------------------------
(* Properties *)

\* Every variable keeps its type.
TypeOK ==
    /\ rcpt \in [Receipt -> FileState]
    /\ rows \in [Path -> Seal \cup {NoSeal}]
    /\ seal \in [Caller -> SealCall \cup {Idle}]
    /\ reb \in [Rebuilder -> RebuildCall \cup {Idle}]

\* The rows that describe the directory d as it is.
Readable(d) == {f \in d.files : rcpt[f].st = "full"}
RowsOf(d) ==
    [k \in Path |-> IF \E f \in Readable(d) : RowKey(f, d.as) = k
                    THEN rcpt[CHOOSE f \in Readable(d) : RowKey(f, d.as) = k].id ELSE NoSeal]

\* A rebuild that nothing else ran beside leaves exactly one row for each
\* receipt of its directory, with that receipt's facts, and no other row,
\* whatever calls died before it (the index is derived, index.rs:3-8, 232-235).
RebuildReflectsDisk ==
    [][\A r \in Rebuilder :
         reb[r] # Idle /\ reb[r].clean /\ RebuildDone(r) => rows = RowsOf(reb[r].dir)]_vars

\* After a seal that nothing else ran beside on the same receipt, `ls' shows
\* under the path it was given the record that the receipt file holds.
SealShowsInIndex ==
    [][\A c \in Caller :
         seal[c] # Idle /\ seal[c].clean /\ SealInsert(c) =>
           /\ rcpt[seal[c].f].st = "full"
           /\ rows'[RowKey(seal[c].f, seal[c].as)] = rcpt[seal[c].f].id]_vars
=============================================================================
