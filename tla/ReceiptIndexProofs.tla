------------------------- MODULE ReceiptIndexProofs -------------------------
(* Theorems about ReceiptIndex, for every value of its constants. *)
EXTENDS ReceiptIndex, TLAPS

-----------------------------------------------------------------------------
(* The inductive invariant *)

\* A whole receipt holds a record.
FullHasSeal == \A f \in Receipt : rcpt[f].st = "full" => rcpt[f].id \in Seal

\* What scan_receipts makes of the files F.
Found(F) == {<<f, rcpt[f].id>> : f \in {g \in F : rcpt[g].st = "full"}}

\* The receipt of a seal that nothing disturbed is as that seal left it.
SealInv ==
    \A c \in Caller :
        seal[c] # Idle /\ seal[c].clean =>
            rcpt[seal[c].f] = IF seal[c].pc = "write" THEN Torn ELSE Full(seal[c].id)

\* A rebuild x that scans has found what the files hold that it has read.
Scanned(x) ==
    /\ x.todo \subseteq x.dir.files
    /\ x.found = Found(x.dir.files \ x.todo)
    /\ x.pc = "delete" => x.todo = {}

\* A rebuild x that inserts has a row for the receipts that it has inserted, and
\* no others.
Inserted(x) ==
    /\ x.found \subseteq Found(x.dir.files)
    /\ \A f \in Readable(x.dir) :
         <<f, rcpt[f].id>> \notin x.found => rows[RowKey(f, x.dir.as)] = rcpt[f].id
    /\ \A k \in Path :
         (\A f \in Readable(x.dir) : RowKey(f, x.dir.as) = k => <<f, rcpt[f].id>> \in x.found)
           => rows[k] = NoSeal

\* One or the other is so while nothing disturbs the rebuild.
RebuildInv ==
    \A r \in Rebuilder :
        reb[r] # Idle /\ reb[r].clean =>
            IF reb[r].pc = "insert" THEN Inserted(reb[r]) ELSE Scanned(reb[r])

Types == TypeOK /\ FullHasSeal
IInv == Types /\ SealInv /\ RebuildInv

USE DEF Busy

-----------------------------------------------------------------------------
(* Types *)

LEMMA IdleIsNoCall ==
    /\ Idle \notin SealCall
    /\ Idle \notin RebuildCall
BY DEF Idle, SealCall, RebuildCall

\* Marking calls as disturbed keeps them calls, and what they are about.
LEMMA SealsDisturbedType ==
    ASSUME seal \in [Caller -> SealCall \cup {Idle}], NEW F \in SUBSET Receipt, NEW self
    PROVE  SealsDisturbed(F, self) \in [Caller -> SealCall \cup {Idle}]
<1>1. SUFFICES ASSUME NEW c \in Caller, seal[c] # Idle
               PROVE  [seal[c] EXCEPT !.clean = FALSE] \in SealCall
  BY DEF SealsDisturbed
<1>2. seal[c] \in SealCall
  BY <1>1
<1>3. QED
  BY <1>2 DEF SealCall

LEMMA RebuildsDisturbedType ==
    ASSUME reb \in [Rebuilder -> RebuildCall \cup {Idle}], NEW self
    PROVE  RebuildsDisturbed(self) \in [Rebuilder -> RebuildCall \cup {Idle}]
<1>1. SUFFICES ASSUME NEW r \in Rebuilder, reb[r] # Idle
               PROVE  [reb[r] EXCEPT !.clean = FALSE] \in RebuildCall
  BY DEF RebuildsDisturbed
<1>2. reb[r] \in RebuildCall
  BY <1>1
<1>3. QED
  BY <1>2 DEF RebuildCall

LEMMA RowKeyType ==
    ASSUME NEW f \in Receipt, NEW as \in Spelling
    PROVE  RowKey(f, as) \in Path
BY ReceiptIndexAssumption DEF RowKey

LEMMA UpsertType ==
    ASSUME NEW t \in [Path -> Seal \cup {NoSeal}],
           NEW f \in Receipt, NEW as \in Spelling, NEW i \in Seal
    PROVE  Upsert(t, f, as, i) \in [Path -> Seal \cup {NoSeal}]
BY RowKeyType DEF Upsert

LEMMA TypesInit == Init => Types
BY DEF Init, Types, TypeOK, FullHasSeal, Absent, NoRows, FileState

LEMMA TypesStep == Types /\ [Next]_vars => Types'
<1> SUFFICES ASSUME Types, [Next]_vars PROVE Types'
  OBVIOUS
<1> USE DEF Types, TypeOK
<1>1. ASSUME NEW c \in Caller, NEW f \in Receipt, NEW as \in Spelling, NEW i \in Seal,
             SealTruncate(c, f, as, i)
      PROVE  Types'
  <2>1. [pc |-> "write", f |-> f, as |-> as, id |-> i, clean |-> Undisturbed(f)] \in SealCall
    BY DEF SealCall, Undisturbed
  <2>2. rcpt' \in [Receipt -> FileState] /\ FullHasSeal'
    BY <1>1 DEF SealTruncate, FullHasSeal, Torn, FileState
  <2>3. seal' \in [Caller -> SealCall \cup {Idle}] /\ reb' \in [Rebuilder -> RebuildCall \cup {Idle}]
    BY <1>1, <2>1, SealsDisturbedType, RebuildsDisturbedType DEF SealTruncate
  <2>4. QED
    BY <1>1, <2>2, <2>3 DEF SealTruncate
<1>2. ASSUME NEW c \in Caller, SealWrite(c) PROVE Types'
  <2>1. seal[c] \in SealCall
    BY <1>2 DEF SealWrite
  <2>2. rcpt' \in [Receipt -> FileState] /\ FullHasSeal'
    BY <1>2, <2>1 DEF SealWrite, FullHasSeal, Full, Garbled, FileState, SealCall
  <2>3. SealsDisturbed({seal[c].f}, c)[c] = seal[c]
    BY DEF SealsDisturbed
  <2>4. seal' \in [Caller -> SealCall \cup {Idle}]
    <3>1. {seal[c].f} \in SUBSET Receipt
      BY <2>1 DEF SealCall
    <3>2. SealsDisturbed({seal[c].f}, c) \in [Caller -> SealCall \cup {Idle}]
      BY <3>1, SealsDisturbedType
    <3>3. [seal[c] EXCEPT !.pc = "insert"] \in SealCall
      BY <2>1 DEF SealCall
    <3>4. QED
      BY <1>2, <2>3, <3>2, <3>3 DEF SealWrite
  <2>5. reb' \in [Rebuilder -> RebuildCall \cup {Idle}]
    BY <1>2, RebuildsDisturbedType DEF SealWrite
  <2>6. QED
    BY <1>2, <2>2, <2>4, <2>5 DEF SealWrite
<1>3. ASSUME NEW c \in Caller, SealInsert(c) PROVE Types'
  <2>1. seal[c] \in SealCall
    BY <1>3 DEF SealInsert
  <2>2. rows' \in [Path -> Seal \cup {NoSeal}]
    BY <1>3, <2>1, UpsertType DEF SealInsert, SealCall
  <2>3. seal' \in [Caller -> SealCall \cup {Idle}]
    <3>1. {seal[c].f} \in SUBSET Receipt
      BY <2>1 DEF SealCall
    <3>2. QED
      BY <1>3, <3>1, SealsDisturbedType DEF SealInsert
  <2>4. reb' \in [Rebuilder -> RebuildCall \cup {Idle}]
    BY <1>3, RebuildsDisturbedType DEF SealInsert
  <2>5. QED
    BY <1>3, <2>2, <2>3, <2>4 DEF SealInsert, FullHasSeal
<1>4. ASSUME NEW c \in Caller, SealUnindexed(c) \/ SealStop(c) PROVE Types'
  BY <1>4 DEF SealUnindexed, SealStop, FullHasSeal
<1>5. ASSUME NEW r \in Rebuilder, NEW d \in Dirs, RebuildStart(r, d) PROVE Types'
  <2>1. [pc |-> "scan", dir |-> d, todo |-> d.files, found |-> {},
         clean |-> /\ \A c \in Caller : ~Busy(seal[c])
                   /\ \A q \in Rebuilder : ~Busy(reb[q])] \in RebuildCall
    BY ReceiptIndexAssumption DEF RebuildCall
  <2>2. seal' \in [Caller -> SealCall \cup {Idle}]
    BY <1>5, SealsDisturbedType DEF RebuildStart
  <2>3. reb' \in [Rebuilder -> RebuildCall \cup {Idle}]
    BY <1>5, <2>1, RebuildsDisturbedType DEF RebuildStart
  <2>4. QED
    BY <1>5, <2>2, <2>3 DEF RebuildStart, FullHasSeal
<1>6. ASSUME NEW r \in Rebuilder, Scan(r) PROVE Types'
  <2>1. reb[r] \in RebuildCall
    BY <1>6 DEF Scan
  <2>2. ASSUME NEW f \in reb[r].todo, rcpt[f].st = "full"
        PROVE  <<f, rcpt[f].id>> \in Receipt \X Seal
    BY <2>1, <2>2 DEF RebuildCall, FullHasSeal
  <2>3. reb' \in [Rebuilder -> RebuildCall \cup {Idle}]
    <3>1. CASE reb[r].todo = {} /\ reb' = [reb EXCEPT ![r].pc = "delete"]
      BY <2>1, <3>1 DEF RebuildCall
    <3>2. ASSUME NEW f \in reb[r].todo,
                 reb' = [reb EXCEPT
                           ![r].todo = @ \ {f},
                           ![r].found = IF rcpt[f].st = "full" THEN @ \cup {<<f, rcpt[f].id>>} ELSE @]
          PROVE  reb' \in [Rebuilder -> RebuildCall \cup {Idle}]
      <4> DEFINE x == [reb[r] EXCEPT
                         !.todo = @ \ {f},
                         !.found = IF rcpt[f].st = "full" THEN @ \cup {<<f, rcpt[f].id>>} ELSE @]
      <4>1. x \in RebuildCall
        BY <2>1, <2>2 DEF RebuildCall
      <4>2. reb' = [reb EXCEPT ![r] = x]
        BY <3>2
      <4>3. QED
        BY <4>1, <4>2
    <3>3. QED
      BY <1>6, <3>1, <3>2 DEF Scan
  <2>4. QED
    BY <1>6, <2>3 DEF Scan, FullHasSeal
<1>7. ASSUME NEW r \in Rebuilder, DeleteAll(r) PROVE Types'
  <2>1. reb[r] \in RebuildCall /\ RebuildsDisturbed(r)[r] = reb[r]
    BY <1>7 DEF DeleteAll, RebuildsDisturbed
  <2>2. [reb[r] EXCEPT !.pc = "insert"] \in RebuildCall
    BY <2>1 DEF RebuildCall
  <2>3. reb' \in [Rebuilder -> RebuildCall \cup {Idle}]
    BY <1>7, <2>1, <2>2, RebuildsDisturbedType DEF DeleteAll
  <2>4. seal' \in [Caller -> SealCall \cup {Idle}]
    BY <1>7, SealsDisturbedType DEF DeleteAll
  <2>5. QED
    BY <1>7, <2>3, <2>4 DEF DeleteAll, NoRows, FullHasSeal
<1>8. ASSUME NEW r \in Rebuilder, RebuildInsert(r) PROVE Types'
  <2>1. reb[r] \in RebuildCall /\ RebuildsDisturbed(r)[r] = reb[r]
    BY <1>8 DEF RebuildInsert, RebuildsDisturbed
  <2>2. PICK x \in reb[r].found :
          /\ rows' = Upsert(rows, x[1], reb[r].dir.as, x[2])
          /\ reb' = [RebuildsDisturbed(r) EXCEPT ![r].found = @ \ {x}]
    BY <1>8 DEF RebuildInsert
  <2>3. x[1] \in Receipt /\ x[2] \in Seal /\ reb[r].dir.as \in Spelling
    BY <2>1, ReceiptIndexAssumption DEF RebuildCall
  <2>4. rows' \in [Path -> Seal \cup {NoSeal}]
    BY <2>2, <2>3, UpsertType
  <2>5. [reb[r] EXCEPT !.found = @ \ {x}] \in RebuildCall
    BY <2>1 DEF RebuildCall
  <2>6. reb' \in [Rebuilder -> RebuildCall \cup {Idle}]
    BY <2>1, <2>2, <2>5, RebuildsDisturbedType
  <2>7. seal' \in [Caller -> SealCall \cup {Idle}]
    BY <1>8, SealsDisturbedType DEF RebuildInsert
  <2>8. QED
    BY <1>8, <2>4, <2>6, <2>7 DEF RebuildInsert, FullHasSeal
<1>9. ASSUME NEW r \in Rebuilder, RebuildDone(r) \/ RebuildStop(r) PROVE Types'
  BY <1>9 DEF RebuildDone, RebuildStop, FullHasSeal
<1>10. CASE UNCHANGED vars
  BY <1>10 DEF vars, FullHasSeal
<1>11. QED
  BY <1>1, <1>2, <1>3, <1>4, <1>5, <1>6, <1>7, <1>8, <1>9, <1>10 DEF Next

-----------------------------------------------------------------------------
(* What another call's step leaves of a seal, and of a rebuild *)

LEMMA SealKept ==
    ASSUME Types, NEW F \in SUBSET Receipt, NEW self, NEW c \in Caller, c # self
    PROVE  LET s == SealsDisturbed(F, self)[c]
           IN  s # Idle /\ s.clean => s = seal[c] /\ s.f \notin F
<1>1. CASE Busy(seal[c]) /\ seal[c].f \in F
  <2>1. seal[c] \in SealCall
    BY <1>1 DEF Types, TypeOK
  <2>2. [seal[c] EXCEPT !.clean = FALSE].clean = FALSE
    BY <2>1 DEF SealCall
  <2>3. QED
    BY <1>1, <2>2 DEF SealsDisturbed
<1>2. CASE ~(Busy(seal[c]) /\ seal[c].f \in F)
  BY <1>2 DEF SealsDisturbed
<1>3. QED
  BY <1>1, <1>2

LEMMA RebuildDisturbed ==
    ASSUME Types, NEW self, NEW r \in Rebuilder, r # self
    PROVE  LET x == RebuildsDisturbed(self)[r] IN ~(x # Idle /\ x.clean)
<1>1. CASE Busy(reb[r])
  <2>1. reb[r] \in RebuildCall
    BY <1>1 DEF Types, TypeOK
  <2>2. [reb[r] EXCEPT !.clean = FALSE].clean = FALSE
    BY <2>1 DEF RebuildCall
  <2>3. QED
    BY <1>1, <2>2 DEF RebuildsDisturbed
<1>2. CASE ~Busy(reb[r])
  BY <1>2 DEF RebuildsDisturbed
<1>3. QED
  BY <1>1, <1>2

-----------------------------------------------------------------------------
(* The receipts of seals *)

LEMMA SealStep == Types /\ SealInv /\ [Next]_vars => SealInv'
<1> SUFFICES ASSUME Types, SealInv, [Next]_vars,
                    NEW d \in Caller, seal'[d] # Idle, seal'[d].clean
             PROVE  rcpt'[seal'[d].f] =
                      IF seal'[d].pc = "write" THEN Torn ELSE Full(seal'[d].id)
  BY DEF SealInv, Full
<1>1. ASSUME NEW c \in Caller, NEW f \in Receipt, NEW as \in Spelling, NEW i \in Seal,
             SealTruncate(c, f, as, i)
      PROVE  rcpt'[seal'[d].f] = IF seal'[d].pc = "write" THEN Torn ELSE Full(seal'[d].id)
  <2>1. SealsDisturbed({f}, c) \in [Caller -> SealCall \cup {Idle}]
    BY SealsDisturbedType DEF Types, TypeOK
  <2>2. CASE d = c
    BY <1>1, <2>1, <2>2 DEF SealTruncate, Types, TypeOK
  <2>3. CASE d # c
    <3>1. seal'[d] = SealsDisturbed({f}, c)[d]
      BY <1>1, <2>3 DEF SealTruncate
    <3>2. seal'[d] = seal[d] /\ seal[d].f # f
      BY <2>3, <3>1, SealKept
    <3>3. rcpt'[seal[d].f] = rcpt[seal[d].f]
      BY <1>1, <3>2 DEF SealTruncate, Types, TypeOK
    <3>4. QED
      BY <3>2, <3>3 DEF SealInv
  <2>4. QED
    BY <2>2, <2>3
<1>2. ASSUME NEW c \in Caller, SealWrite(c)
      PROVE  rcpt'[seal'[d].f] = IF seal'[d].pc = "write" THEN Torn ELSE Full(seal'[d].id)
  <2> DEFINE f == seal[c].f
  <2>1. seal[c] \in SealCall /\ f \in Receipt
    BY <1>2 DEF SealWrite, Types, TypeOK, SealCall
  <2>2. SealsDisturbed({f}, c) \in [Caller -> SealCall \cup {Idle}]
    BY <2>1, SealsDisturbedType DEF Types, TypeOK
  <2>3. CASE d = c
    <3>1. SealsDisturbed({f}, c)[c] = seal[c]
      BY DEF SealsDisturbed
    <3>2. seal'[c] = [seal[c] EXCEPT !.pc = "insert"]
      BY <1>2, <2>2, <3>1 DEF SealWrite
    <3>3. /\ seal'[c].pc = "insert" /\ seal'[c].f = f
          /\ seal'[c].id = seal[c].id /\ seal'[c].clean = seal[c].clean
      BY <2>1, <3>2 DEF SealCall
    <3>4. rcpt[f] = Torn
      BY <1>2, <2>3, <3>3 DEF SealInv, SealWrite
    <3>5. rcpt' = [rcpt EXCEPT ![f] = Full(seal[c].id)]
      BY <1>2, <3>4 DEF SealWrite, Torn
    <3>6. rcpt'[f] = Full(seal[c].id)
      BY <2>1, <3>5 DEF Types, TypeOK
    <3>7. QED
      BY <2>3, <3>3, <3>6
  <2>4. CASE d # c
    <3>1. seal'[d] = SealsDisturbed({f}, c)[d]
      BY <1>2, <2>2, <2>4 DEF SealWrite
    <3>2. seal'[d] = seal[d] /\ seal[d].f # f
      BY <2>1, <2>4, <3>1, SealKept
    <3>3. rcpt'[seal[d].f] = rcpt[seal[d].f]
      <4>1. \E v : rcpt' = [rcpt EXCEPT ![f] = v]
        BY <1>2 DEF SealWrite
      <4>2. seal[d].f \in Receipt
        BY <3>2 DEF Types, TypeOK, SealCall
      <4>3. QED
        BY <3>2, <4>1, <4>2 DEF Types, TypeOK
    <3>4. QED
      BY <3>2, <3>3 DEF SealInv
  <2>5. QED
    BY <2>3, <2>4
<1>3. ASSUME NEW c \in Caller, SealInsert(c)
      PROVE  rcpt'[seal'[d].f] = IF seal'[d].pc = "write" THEN Torn ELSE Full(seal'[d].id)
  <2>1. {seal[c].f} \in SUBSET Receipt
    BY <1>3 DEF SealInsert, Types, TypeOK, SealCall
  <2>2. SealsDisturbed({seal[c].f}, c) \in [Caller -> SealCall \cup {Idle}]
    BY <2>1, SealsDisturbedType DEF Types, TypeOK
  <2>3. d # c
    BY <1>3, <2>2 DEF SealInsert
  <2>4. seal'[d] = SealsDisturbed({seal[c].f}, c)[d]
    BY <1>3, <2>3 DEF SealInsert
  <2>5. seal'[d] = seal[d] /\ rcpt' = rcpt
    BY <1>3, <2>1, <2>3, <2>4, SealKept DEF SealInsert
  <2>6. QED
    BY <2>5 DEF SealInv
<1>4. ASSUME NEW c \in Caller, SealUnindexed(c) \/ SealStop(c)
      PROVE  rcpt'[seal'[d].f] = IF seal'[d].pc = "write" THEN Torn ELSE Full(seal'[d].id)
  <2>1. seal'[d] = seal[d] /\ rcpt' = rcpt
    BY <1>4 DEF SealUnindexed, SealStop, Types, TypeOK
  <2>2. QED
    BY <2>1 DEF SealInv
<1>5. ASSUME NEW r \in Rebuilder, seal' = SealsDisturbed(Receipt, r) PROVE FALSE
  <2>1. d # r
    BY ReceiptIndexAssumption
  <2>2. seal'[d] = seal[d] /\ seal[d].f \notin Receipt
    BY <1>5, <2>1, SealKept
  <2>3. QED
    BY <2>2 DEF Types, TypeOK, SealCall
<1>6. CASE seal' = seal /\ rcpt' = rcpt
  BY <1>6 DEF SealInv
<1>7. QED
  BY <1>1, <1>2, <1>3, <1>4, <1>5, <1>6
     DEF Next, RebuildStart, Scan, DeleteAll, RebuildInsert, RebuildDone, RebuildStop, vars

-----------------------------------------------------------------------------
(* The rows of rebuilds *)

\* The state of a rebuild says the same of it as long as the receipts and the
\* table stay.
LEMMA RebuildLeft ==
    ASSUME RebuildInv, rcpt' = rcpt, rows' = rows,
           NEW q \in Rebuilder, reb'[q] = reb[q], reb'[q] # Idle, reb'[q].clean
    PROVE  IF reb'[q].pc = "insert" THEN Inserted(reb[q])' ELSE Scanned(reb[q])'
BY DEF RebuildInv, Inserted, Scanned, Found, Readable

\* A scan adds what it reads to what it has found.
LEMMA ScanStep ==
    ASSUME Types, NEW r \in Rebuilder, Scan(r), Scanned(reb[r])
    PROVE  reb'[r].pc # "insert" /\ Scanned(reb[r])'
<1>1. reb[r] \in RebuildCall /\ rcpt' = rcpt /\ reb[r].pc = "scan"
  BY DEF Scan, Types, TypeOK
<1>2. CASE reb[r].todo = {} /\ reb' = [reb EXCEPT ![r].pc = "delete"]
  <2>1. reb'[r] = [reb[r] EXCEPT !.pc = "delete"]
    BY <1>2 DEF Types, TypeOK
  <2>2. /\ reb'[r].todo = reb[r].todo /\ reb'[r].dir = reb[r].dir
        /\ reb'[r].found = reb[r].found /\ reb'[r].pc = "delete"
    BY <1>1, <2>1 DEF RebuildCall
  <2>3. QED
    BY <1>1, <1>2, <2>2 DEF Scanned, Found
<1>3. ASSUME NEW f \in reb[r].todo,
             reb' = [reb EXCEPT
                       ![r].todo = @ \ {f},
                       ![r].found = IF rcpt[f].st = "full" THEN @ \cup {<<f, rcpt[f].id>>} ELSE @]
      PROVE  reb'[r].pc # "insert" /\ Scanned(reb[r])'
  <2> DEFINE more == IF rcpt[f].st = "full" THEN {<<f, rcpt[f].id>>} ELSE {}
  <2>1. reb'[r] = [reb[r] EXCEPT
                     !.todo = @ \ {f},
                     !.found = IF rcpt[f].st = "full" THEN @ \cup {<<f, rcpt[f].id>>} ELSE @]
    BY <1>3 DEF Types, TypeOK
  <2>2. /\ reb'[r].todo = reb[r].todo \ {f} /\ reb'[r].dir = reb[r].dir
        /\ reb'[r].found = reb[r].found \cup more /\ reb'[r].pc = "scan"
    BY <1>1, <2>1 DEF RebuildCall
  <2>3. f \in reb[r].dir.files
    BY DEF Scanned
  <2>4. reb[r].dir.files \ (reb[r].todo \ {f}) = (reb[r].dir.files \ reb[r].todo) \cup {f}
    BY <2>3
  <2>5. Found((reb[r].dir.files \ reb[r].todo) \cup {f})
          = Found(reb[r].dir.files \ reb[r].todo) \cup more
    BY DEF Found
  <2>6. Found(reb[r].dir.files \ reb[r].todo)' = reb'[r].found
    BY <1>1, <2>2, <2>4, <2>5 DEF Scanned, Found
  <2>7. QED
    BY <2>2, <2>6 DEF Scanned
<1>4. QED
  BY <1>2, <1>3 DEF Scan

\* An upsert gives one receipt of the directory its row, and leaves those of the
\* others, for the files of a directory have different paths.
LEMMA InsertStep ==
    ASSUME Types, NEW r \in Rebuilder, RebuildInsert(r), Inserted(reb[r])
    PROVE  reb'[r].pc = "insert" /\ Inserted(reb[r])'
<1> DEFINE d == reb[r].dir
<1>1. /\ reb[r] \in RebuildCall /\ rcpt' = rcpt /\ reb[r].pc = "insert"
      /\ RebuildsDisturbed(r)[r] = reb[r]
      /\ RebuildsDisturbed(r) \in [Rebuilder -> RebuildCall \cup {Idle}]
  BY RebuildsDisturbedType DEF RebuildInsert, RebuildsDisturbed, Types, TypeOK
<1>2. PICK x \in reb[r].found :
        /\ rows' = Upsert(rows, x[1], d.as, x[2])
        /\ reb' = [RebuildsDisturbed(r) EXCEPT ![r].found = @ \ {x}]
  BY DEF RebuildInsert
<1>3. reb'[r] = [reb[r] EXCEPT !.found = @ \ {x}]
  BY <1>1, <1>2
<1>4. /\ reb'[r].dir = d /\ reb'[r].found = reb[r].found \ {x} /\ reb'[r].pc = "insert"
  BY <1>1, <1>3 DEF RebuildCall
<1>5. PICK g \in Readable(d) : x = <<g, rcpt[g].id>>
  BY DEF Inserted, Found, Readable
<1>6. /\ d \in Dirs /\ d.as \in Spelling /\ d.files \subseteq Receipt
      /\ g \in d.files /\ g \in Receipt /\ rcpt[g].id \in Seal
  BY <1>1, <1>5, ReceiptIndexAssumption DEF RebuildCall, Readable, Types, FullHasSeal
<1>7. /\ RowKey(g, d.as) \in Path
      /\ rows' = [rows EXCEPT ![RowKey(g, d.as)] = rcpt[g].id]
  BY <1>2, <1>5, <1>6, RowKeyType DEF Upsert
<1>8. Readable(d)' = Readable(d)
  BY <1>1, <1>4 DEF Readable
<1>9. ASSUME NEW f \in Readable(d), <<f, rcpt[f].id>> \notin reb[r].found \ {x}
      PROVE  rows'[RowKey(f, d.as)] = rcpt[f].id
  <2>1. CASE f = g
    BY <1>7, <2>1 DEF Types, TypeOK
  <2>2. CASE f # g
    <3>1. <<f, rcpt[f].id>> \notin reb[r].found
      BY <1>5, <1>9, <2>2
    <3>2. rows[RowKey(f, d.as)] = rcpt[f].id
      BY <1>9, <3>1 DEF Inserted
    <3>3. RowKey(f, d.as) # RowKey(g, d.as)
      BY <1>6, <2>2, ReceiptIndexAssumption DEF Readable
    <3>4. RowKey(f, d.as) \in Path
      BY <1>6, RowKeyType DEF Readable
    <3>5. QED
      BY <1>7, <3>2, <3>3, <3>4 DEF Types, TypeOK
  <2>3. QED
    BY <2>1, <2>2
<1>10. ASSUME NEW k \in Path,
              \A f \in Readable(d) : RowKey(f, d.as) = k => <<f, rcpt[f].id>> \in reb[r].found \ {x}
       PROVE  rows'[k] = NoSeal
  <2>1. k # RowKey(g, d.as)
    BY <1>5, <1>10
  <2>2. rows[k] = NoSeal
    BY <1>10 DEF Inserted
  <2>3. QED
    BY <1>7, <2>1, <2>2 DEF Types, TypeOK
<1>11. (reb[r].found \ {x}) \subseteq Found(d.files)'
  BY <1>1, <1>4 DEF Inserted, Found
<1>12. QED
  BY <1>1, <1>4, <1>8, <1>9, <1>10, <1>11 DEF Inserted

LEMMA RebuildStep == Types /\ RebuildInv /\ [Next]_vars => RebuildInv'
<1> SUFFICES ASSUME Types, RebuildInv, [Next]_vars,
                    NEW q \in Rebuilder, reb'[q] # Idle, reb'[q].clean
             PROVE  IF reb'[q].pc = "insert" THEN Inserted(reb[q])' ELSE Scanned(reb[q])'
  BY DEF RebuildInv, Inserted, Scanned, Found, Readable
<1>1. ASSUME NEW c \in Caller, reb' = RebuildsDisturbed(c) PROVE FALSE
  <2>1. q # c
    BY ReceiptIndexAssumption
  <2>2. QED
    BY <1>1, <2>1, RebuildDisturbed
<1>2. ASSUME NEW r \in Rebuilder, r # q,
             \E x : reb' = [RebuildsDisturbed(r) EXCEPT ![r] = x]
      PROVE  FALSE
  <2>1. RebuildsDisturbed(r)[q] = reb'[q]
    BY <1>2, RebuildsDisturbedType DEF Types, TypeOK
  <2>2. QED
    BY <1>2, <2>1, RebuildDisturbed
<1>3. ASSUME NEW d \in Dirs, RebuildStart(q, d)
      PROVE  reb'[q].pc # "insert" /\ Scanned(reb[q])'
  <2>1. RebuildsDisturbed(q) \in [Rebuilder -> RebuildCall \cup {Idle}]
    BY RebuildsDisturbedType DEF Types, TypeOK
  <2>2. /\ reb'[q].dir = d /\ reb'[q].todo = d.files
        /\ reb'[q].found = {} /\ reb'[q].pc = "scan"
    BY <1>3, <2>1 DEF RebuildStart
  <2>3. Found(d.files \ d.files)' = {}
    BY DEF Found
  <2>4. QED
    BY <2>2, <2>3 DEF Scanned, Found
<1>4. ASSUME NEW r \in Rebuilder, Scan(r)
      PROVE  IF reb'[q].pc = "insert" THEN Inserted(reb[q])' ELSE Scanned(reb[q])'
  <2>1. CASE r = q
    <3>1. reb[q] \in RebuildCall /\ reb'[q].clean = reb[q].clean
      <4>1. reb[q] \in RebuildCall
        BY <1>4, <2>1 DEF Scan, Types, TypeOK
      <4>2. \/ reb'[q] = [reb[q] EXCEPT !.pc = "delete"]
            \/ \E f \in reb[q].todo :
                 reb'[q] = [reb[q] EXCEPT
                              !.todo = @ \ {f},
                              !.found = IF rcpt[f].st = "full" THEN @ \cup {<<f, rcpt[f].id>>} ELSE @]
        BY <1>4, <2>1 DEF Scan, Types, TypeOK
      <4>3. QED
        BY <4>1, <4>2 DEF RebuildCall
    <3>2. reb[q] # Idle /\ reb[q].pc = "scan"
      BY <1>4, <2>1 DEF Scan
    <3>3. Scanned(reb[q])
      BY <3>1, <3>2 DEF RebuildInv
    <3>4. QED
      BY <1>4, <2>1, <3>3, ScanStep
  <2>2. CASE r # q
    <3>1. reb'[q] = reb[q] /\ rcpt' = rcpt /\ rows' = rows
      BY <1>4, <2>2 DEF Scan, Types, TypeOK
    <3>2. QED
      BY <3>1, RebuildLeft
  <2>3. QED
    BY <2>1, <2>2
<1>5. ASSUME DeleteAll(q)
      PROVE  reb'[q].pc = "insert" /\ Inserted(reb[q])'
  <2>1. /\ reb[q] \in RebuildCall /\ rcpt' = rcpt /\ reb[q].pc = "delete" /\ reb[q] # Idle
        /\ RebuildsDisturbed(q)[q] = reb[q]
        /\ RebuildsDisturbed(q) \in [Rebuilder -> RebuildCall \cup {Idle}]
    BY <1>5, RebuildsDisturbedType DEF DeleteAll, RebuildsDisturbed, Types, TypeOK
  <2>2. reb'[q] = [reb[q] EXCEPT !.pc = "insert"]
    BY <1>5, <2>1 DEF DeleteAll
  <2>3. /\ reb'[q].dir = reb[q].dir /\ reb'[q].found = reb[q].found
        /\ reb'[q].clean = reb[q].clean /\ reb'[q].pc = "insert"
    BY <2>1, <2>2 DEF RebuildCall
  <2>4. Scanned(reb[q])
    BY <2>1, <2>3 DEF RebuildInv
  <2>5. reb[q].found = Found(reb[q].dir.files)
    BY <2>1, <2>4 DEF Scanned
  <2>6. \A f \in Readable(reb[q].dir) : <<f, rcpt[f].id>> \in reb[q].found
    BY <2>5 DEF Found, Readable
  <2>7. \A k \in Path : rows'[k] = NoSeal
    BY <1>5 DEF DeleteAll, NoRows
  <2>8. QED
    BY <2>1, <2>3, <2>5, <2>6, <2>7 DEF Inserted, Found, Readable
<1>6. ASSUME RebuildInsert(q)
      PROVE  reb'[q].pc = "insert" /\ Inserted(reb[q])'
  <2>1. /\ reb[q] \in RebuildCall /\ reb[q].pc = "insert" /\ reb[q] # Idle
        /\ RebuildsDisturbed(q)[q] = reb[q]
        /\ RebuildsDisturbed(q) \in [Rebuilder -> RebuildCall \cup {Idle}]
    BY <1>6, RebuildsDisturbedType DEF RebuildInsert, RebuildsDisturbed, Types, TypeOK
  <2>2. \E u : reb'[q] = [reb[q] EXCEPT !.found = u]
    BY <1>6, <2>1 DEF RebuildInsert
  <2>3. reb'[q].clean = reb[q].clean
    BY <2>1, <2>2 DEF RebuildCall
  <2>4. Inserted(reb[q])
    BY <2>1, <2>3 DEF RebuildInv
  <2>5. QED
    BY <1>6, <2>4, InsertStep
<1>7. ASSUME NEW r \in Rebuilder, RebuildDone(r) \/ RebuildStop(r)
      PROVE  reb'[q] = reb[q] /\ rcpt' = rcpt /\ rows' = rows
  BY <1>7 DEF RebuildDone, RebuildStop, Types, TypeOK
<1>8. ASSUME NEW r \in Rebuilder, r # q,
             (\E d \in Dirs : RebuildStart(r, d)) \/ DeleteAll(r) \/ RebuildInsert(r)
      PROVE  \E x : reb' = [RebuildsDisturbed(r) EXCEPT ![r] = x]
  BY <1>8 DEF RebuildStart, DeleteAll, RebuildInsert
<1>9. CASE reb' = reb /\ rcpt' = rcpt /\ rows' = rows
  BY <1>9, RebuildLeft
<1>10. CASE \E c \in Caller : 
         \/ \E f \in Receipt, as \in Spelling, i \in Seal : SealTruncate(c, f, as, i)
         \/ SealWrite(c) \/ SealInsert(c) \/ SealUnindexed(c) \/ SealStop(c)
  BY <1>1, <1>9, <1>10 DEF SealTruncate, SealWrite, SealInsert, SealUnindexed, SealStop
<1>11. CASE \E r \in Rebuilder :
         \/ \E d \in Dirs : RebuildStart(r, d)
         \/ Scan(r) \/ DeleteAll(r) \/ RebuildInsert(r) \/ RebuildDone(r) \/ RebuildStop(r)
  BY <1>2, <1>3, <1>4, <1>5, <1>6, <1>7, <1>8, <1>11, RebuildLeft
<1>12. QED
  BY <1>9, <1>10, <1>11 DEF Next, vars

-----------------------------------------------------------------------------
(* Theorems *)

\* The inductive invariant holds.
THEOREM Invariant == Spec => []IInv
<1>1. Init => IInv
  BY TypesInit DEF IInv, Init, SealInv, RebuildInv
<1>2. IInv /\ [Next]_vars => IInv'
  BY TypesStep, SealStep, RebuildStep DEF IInv
<1>3. QED
  BY <1>1, <1>2, PTL DEF Spec

\* Every variable keeps its type.
THEOREM TypeCorrect == Spec => []TypeOK
<1>1. IInv => TypeOK
  BY DEF IInv, Types
<1>2. QED
  BY <1>1, Invariant, PTL

\* A rebuild that nothing else ran beside leaves exactly the rows of its
\* directory, whatever died before it.
THEOREM RebuildsReflectDisk == Spec => RebuildReflectsDisk
<1>1. ASSUME Types, RebuildInv, NEW r \in Rebuilder,
             reb[r] # Idle, reb[r].clean, RebuildDone(r)
      PROVE  rows = RowsOf(reb[r].dir)
  <2> DEFINE d == reb[r].dir
  <2>1. Inserted(reb[r]) /\ reb[r].found = {}
    BY <1>1 DEF RebuildInv, RebuildDone
  <2>2. ASSUME NEW k \in Path PROVE rows[k] = RowsOf(d)[k]
    <3>1. CASE \E f \in Readable(d) : RowKey(f, d.as) = k
      <4> DEFINE f == CHOOSE f \in Readable(d) : RowKey(f, d.as) = k
      <4>1. f \in Readable(d) /\ RowKey(f, d.as) = k
        BY <3>1
      <4>2. RowsOf(d)[k] = rcpt[f].id
        BY <3>1 DEF RowsOf
      <4>3. rows[RowKey(f, d.as)] = rcpt[f].id
        BY <2>1, <4>1 DEF Inserted
      <4>4. QED
        BY <4>1, <4>2, <4>3
    <3>2. CASE ~\E f \in Readable(d) : RowKey(f, d.as) = k
      <4>1. RowsOf(d)[k] = NoSeal
        BY <3>2 DEF RowsOf
      <4>2. rows[k] = NoSeal
        BY <2>1, <3>2 DEF Inserted
      <4>3. QED
        BY <4>1, <4>2
    <3>3. QED
      BY <3>1, <3>2
  <2>3. rows = [k \in Path |-> rows[k]]
    BY <1>1 DEF Types, TypeOK
  <2>4. RowsOf(d) = [k \in Path |-> RowsOf(d)[k]]
    BY DEF RowsOf
  <2>5. QED
    BY <2>2, <2>3, <2>4
<1>2. IInv /\ [Next]_vars =>
        [\A r \in Rebuilder :
           reb[r] # Idle /\ reb[r].clean /\ RebuildDone(r) => rows = RowsOf(reb[r].dir)]_vars
  BY <1>1 DEF IInv
<1>3. QED
  BY <1>2, Invariant, PTL DEF Spec, RebuildReflectsDisk

\* After a seal that nothing else ran beside on the same receipt, its row is what
\* the receipt file holds.
THEOREM SealsShowInIndex == Spec => SealShowsInIndex
<1>1. ASSUME Types, SealInv, NEW c \in Caller,
             seal[c] # Idle, seal[c].clean, SealInsert(c)
      PROVE  /\ rcpt[seal[c].f].st = "full"
             /\ rows'[RowKey(seal[c].f, seal[c].as)] = rcpt[seal[c].f].id
  <2>1. seal[c] \in SealCall
    BY <1>1 DEF Types, TypeOK
  <2>2. rcpt[seal[c].f] = Full(seal[c].id)
    BY <1>1 DEF SealInv, SealInsert
  <2>3. RowKey(seal[c].f, seal[c].as) \in Path
    BY <2>1, RowKeyType DEF SealCall
  <2>4. rows'[RowKey(seal[c].f, seal[c].as)] = seal[c].id
    BY <1>1, <2>3 DEF SealInsert, Upsert, Types, TypeOK
  <2>5. QED
    BY <2>2, <2>4 DEF Full
<1>2. IInv /\ [Next]_vars =>
        [\A c \in Caller :
           seal[c] # Idle /\ seal[c].clean /\ SealInsert(c) =>
             /\ rcpt[seal[c].f].st = "full"
             /\ rows'[RowKey(seal[c].f, seal[c].as)] = rcpt[seal[c].f].id]_vars
  BY <1>1 DEF IInv
<1>3. QED
  BY <1>2, Invariant, PTL DEF Spec, SealShowsInIndex
=============================================================================
