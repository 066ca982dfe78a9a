--------------------------- MODULE SealingProofs ---------------------------
(***************************************************************************)
(* Proofs about Sealing, for any processes, artifacts, batches, modes,     *)
(* faults and bounds: a receipt that can be read carries what was asked    *)
(* for, and none of the files that the inputs came to is skipped, whatever *)
(* interleaves; and what a batch reports as sealed verifies, if nobody     *)
(* else runs or edits.                                                     *)
(***************************************************************************)
EXTENDS Sealing, FiniteSetTheorems, TLAPS

-----------------------------------------------------------------------------
(* The inductive invariant *)

\* The record of p is sealed, and not yet written out; or it is being written.
Building(p) == pc[p] \in {"tsa", "shard", "submit", "receipt"}
Writing(p)  == pc[p] = "save"
Sealed(p)   == Building(p) \/ Writing(p)
Working(p)  == pc[p] \notin {"idle", "report"}

\* The record has the layers that its process has got through so far.
LayersOf(p) ==
    /\ pc[p] = "tsa" => /\ mode[p].tsa
                        /\ rec[p].layers = Asked(mode[p]) \ {"tsa", "rekor"}
    /\ pc[p] \in {"shard", "submit"} => /\ mode[p].rekor
                                        /\ rec[p].layers = Asked(mode[p]) \ {"rekor"}
    /\ pc[p] \in {"receipt", "save"} => /\ rec[p].layers = Asked(mode[p])
                                        /\ mode[p].rekor => rec[p].id \in log

\* A seal has a number, and is not written out while it is being built.
IdOf(p) ==
    /\ Sealed(p) => rec[p].id \in 1..seals
    /\ Building(p) => rec[p].id \notin DOMAIN made

\* The index knows of a call exactly while its process writes the receipt.
CallOf(p) ==
    /\ Writing(p) <=> Index!Busy(seal[p])
    /\ Writing(p) => /\ seal[p].f = Current(p)
                     /\ seal[p].id = rec[p].id
                     /\ rec[p].id \in DOMAIN made
                     /\ made[rec[p].id] = WrittenOut(p)

NamesOf(O) == {o.name : o \in O}

\* A batch with --fail-fast that has met a failure.
Stopped(p) == mode[p].failFast /\ \E o \in done[p] : o.kind # "ok"

\* The inputs of a batch: those still to do and those with an outcome.
BatchOf(p) ==
    /\ pc[p] = "idle" => inputs[p] = {} /\ todo[p] = {} /\ done[p] = {}
    /\ Working(p) => todo[p] # {} /\ ~Stopped(p)
    /\ todo[p] \subseteq inputs[p]
    /\ NamesOf(done[p]) \subseteq inputs[p] \ todo[p]
    /\ ~Stopped(p) => inputs[p] \subseteq todo[p] \cup NamesOf(done[p])
    /\ pc[p] = "report" /\ ~Stopped(p) => todo[p] = {}
    /\ \A o1, o2 \in done[p] : o1.name = o2.name => o1 = o2
    /\ mode[p].failFast =>
         \A o1, o2 \in done[p] : o1.kind # "ok" /\ o2.kind # "ok" => o1 = o2

Mine(p) == LayersOf(p) /\ IdOf(p) /\ CallOf(p) /\ BatchOf(p)

\* Seals are numbered apart.
IdsApart == \A p, q \in Proc : Sealed(p) /\ Sealed(q) /\ p # q => rec[p].id # rec[q].id

\* What was written out, and where it can be read.
MadeInv ==
    /\ \A i \in DOMAIN made : /\ made[i].layers = made[i].asked
                              /\ "rekor" \in made[i].layers => i \in log
    /\ \A a \in Artifact : rcpt[a].st = "full" => /\ rcpt[a].id \in DOMAIN made
                                                  /\ made[rcpt[a].id].art = a

IInv == TypeOK /\ (\A p \in Proc : Mine(p)) /\ IdsApart /\ MadeInv

\* Where calls are made one at a time and nobody edits: one process at work, ...
Alone == \A p, q \in Proc : pc[p] # "idle" /\ pc[q] # "idle" => p = q

\* ... the artifact as it was sealed, and the receipt as far as it was written, ...
FreshOf(p) ==
    /\ pc[p] = "embedWrite" => art[Current(p)] = Partial
    /\ Sealed(p) => rec[p].hash = art[Current(p)]
    /\ Writing(p) => IF seal[p].pc = "insert" THEN rcpt[Current(p)] = Index!Full(rec[p].id)
                                              ELSE rcpt[Current(p)].st = "torn"

\* ... and the artifacts and receipts as the outcomes say.
DoneOf(p) ==
    \A o \in done[p] :
        /\ o.kind = "unverified" => mode[p].rekor /\ ~mode[p].pinned
        /\ o.kind = "ok" /\ OnlyName(p, o.name) =>
             LET a == ArtOf[o.name] IN
             rcpt[a].st = "full" /\ made[rcpt[a].id].hash = art[a]

SerialInv == Alone /\ \A p \in Proc : FreshOf(p) /\ DoneOf(p)

-----------------------------------------------------------------------------
(* Types *)

Kind  == {"ok", "unverified", "usage", "network", "schema"}
Label == {"idle", "read", "embedTrunc", "embedWrite", "tsa", "shard", "submit", "receipt",
          "save", "report"}

\* The parts of TypeOK: the processes' own state, and what they share.
JobTypeOK ==
    /\ pc \in [Proc -> Label]
    /\ mode \in [Proc -> Mode]
    /\ inputs \in [Proc -> SUBSET Name]
    /\ todo \in [Proc -> SUBSET Name]
    /\ done \in [Proc -> SUBSET Outcome]
    /\ rec \in [Proc -> Record]

SharedTypeOK ==
    /\ art \in [Artifact -> Nat]
    /\ log \subseteq 1..seals
    /\ shards \in {"lists", "omits", "none"}
    /\ DOMAIN made \subseteq 1..seals /\ made \in [DOMAIN made -> MadeRecord]
    /\ taken \in 0..MaxSeals /\ seals \in Nat
    /\ contents \in Nat /\ edits \in 0..MaxEdits

LEMMA TypeParts == TypeOK <=> JobTypeOK /\ SharedTypeOK /\ Index!TypeOK
BY DEF TypeOK, JobTypeOK, SharedTypeOK, Label

LEMMA TypePartsNext == JobTypeOK' /\ SharedTypeOK' /\ Index!TypeOK' => TypeOK'
BY DEF TypeOK, JobTypeOK, SharedTypeOK, Label

LEMMA ItemIsTodo ==
    ASSUME NEW p, todo[p] # {}
    PROVE  Item(p) \in todo[p]
BY DEF Item, First

\* The file at hand is one of the artifacts.
LEMMA CurrentIsArtifact ==
    ASSUME SealingAssumption, JobTypeOK, NEW p \in Proc, todo[p] # {}
    PROVE  Item(p) \in Name /\ Current(p) = ArtOf[Item(p)] /\ Current(p) \in Artifact
<1>1. Item(p) \in Name
  BY ItemIsTodo DEF JobTypeOK
<1> QED BY <1>1 DEF Current, SealingAssumption

LEMMA ErrorKinds ==
    ASSUME NEW m, NEW c2paError
    PROVE  ErrorKind(m, c2paError) \in Kind \ {"ok", "unverified"}
BY DEF ErrorKind, Kind

LEMMA AskedType == ASSUME NEW m PROVE Asked(m) \in SUBSET Layer
BY DEF Asked, Layer

\* A process that concludes keeps its types.
LEMMA ConcludeType ==
    ASSUME JobTypeOK, NEW p \in Proc, todo[p] # {}, NEW kind \in Kind, Conclude(p, kind)
    PROVE  JobTypeOK'
<1>1. Item(p) \in Name
  BY ItemIsTodo DEF JobTypeOK
<1>2. rec[p] \in Record /\ rec[p].read \in Nat /\ rec[p].id \in Nat
  BY DEF JobTypeOK, Record
<1>3. OutcomeOf(p, kind) \in Outcome
  BY <1>1, <1>2 DEF OutcomeOf, Outcome, Kind
<1>4. done' \in [Proc -> SUBSET Outcome] /\ todo' \in [Proc -> SUBSET Name]
  BY <1>3 DEF Conclude, JobTypeOK
<1>5. rec' \in [Proc -> Record]
  BY DEF Conclude, JobTypeOK, NoRecord, Record
<1>6. pc' \in [Proc -> Label]
  BY DEF Conclude, Goto, JobTypeOK, Label
<1> QED BY <1>4, <1>5, <1>6 DEF Conclude, JobTypeOK

LEMMA NextLayerLabel ==
    ASSUME NEW m, NEW L PROVE NextLayer(m, L) \in {"tsa", "shard", "receipt"}
BY DEF NextLayer

LEMMA SealContentType ==
    ASSUME JobTypeOK, NEW p \in Proc, NEW r \in Nat, NEW c \in Nat, seals \in Nat,
           SealContent(p, r, c), UNCHANGED job
    PROVE  JobTypeOK' /\ seals' = seals + 1
<1>1. pc' \in [Proc -> Label]
  BY NextLayerLabel DEF SealContent, Goto, JobTypeOK, Label
<1>2. Asked(mode[p]) \ {"tsa", "rekor"} \in SUBSET Layer
  BY AskedType
<1>3. [id |-> seals + 1, read |-> r, hash |-> c,
       layers |-> Asked(mode[p]) \ {"tsa", "rekor"}] \in Record
  BY <1>2 DEF Record
<1>4. rec' \in [Proc -> Record]
  BY <1>3 DEF SealContent, JobTypeOK
<1> QED BY <1>1, <1>4 DEF JobTypeOK, job, SealContent

LEMMA AddLayerType ==
    ASSUME JobTypeOK, NEW p \in Proc, NEW l \in Layer, AddLayer(p, l)
    PROVE  JobTypeOK'
<1>1. pc' \in [Proc -> Label]
  BY NextLayerLabel DEF AddLayer, Goto, JobTypeOK, Label
<1>2. rec[p] \in Record
  BY DEF JobTypeOK
<1>3. rec[p].id \in Nat /\ rec[p].read \in Nat /\ rec[p].hash \in Nat
      /\ rec[p].layers \cup {l} \in SUBSET Layer
  BY <1>2 DEF Record
<1>4. [id |-> rec[p].id, read |-> rec[p].read, hash |-> rec[p].hash,
       layers |-> rec[p].layers \cup {l}] \in Record
  BY <1>3 DEF Record
<1>5. rec' \in [Proc -> Record]
  BY <1>4 DEF AddLayer, JobTypeOK
<1> QED BY <1>1, <1>5 DEF JobTypeOK, job, AddLayer
-----------------------------------------------------------------------------
(* The steps of ReceiptIndex that a seal takes *)

\* The call of q stays as it is, but for its history.
CallKept(q) ==
    /\ Index!Busy(seal'[q]) <=> Index!Busy(seal[q])
    /\ Index!Busy(seal[q]) => /\ seal'[q].pc = seal[q].pc
                              /\ seal'[q].f = seal[q].f
                              /\ seal'[q].id = seal[q].id

LEMMA CallType ==
    ASSUME Index!TypeOK, NEW q \in Proc, Index!Busy(seal[q])
    PROVE  /\ seal[q].pc \in {"write", "insert"} /\ seal[q].f \in Artifact
           /\ seal[q].as \in Name /\ seal[q].id \in Nat \ {0}
           /\ seal[q].clean \in BOOLEAN
           /\ seal[q] = [pc |-> seal[q].pc, f |-> seal[q].f, as |-> seal[q].as,
                         id |-> seal[q].id, clean |-> seal[q].clean]
BY DEF Index!TypeOK, Index!SealCall, Index!Busy

LEMMA DisturbedCalls ==
    ASSUME Index!TypeOK, NEW F, NEW self
    PROVE  /\ Index!SealsDisturbed(F, self) \in [Proc -> Index!SealCall \cup {Index!Idle}]
           /\ \A q \in Proc :
                LET d == Index!SealsDisturbed(F, self) IN
                /\ q = self => d[q] = seal[q]
                /\ Index!Busy(d[q]) <=> Index!Busy(seal[q])
                /\ Index!Busy(seal[q]) => /\ d[q].pc = seal[q].pc
                                          /\ d[q].f = seal[q].f
                                          /\ d[q].id = seal[q].id
<1> DEFINE d == Index!SealsDisturbed(F, self)
<1>1. \A q \in Proc : d[q] = IF q # self /\ Index!Busy(seal[q]) /\ seal[q].f \in F
                             THEN [seal[q] EXCEPT !.clean = FALSE] ELSE seal[q]
  BY DEF Index!SealsDisturbed
<1>2. d = [q \in Proc |-> d[q]]
  BY DEF Index!SealsDisturbed
<1>3. ASSUME NEW q \in Proc
      PROVE  /\ d[q] \in Index!SealCall \cup {Index!Idle}
             /\ q = self => d[q] = seal[q]
             /\ Index!Busy(d[q]) <=> Index!Busy(seal[q])
             /\ Index!Busy(seal[q]) => /\ d[q].pc = seal[q].pc
                                       /\ d[q].f = seal[q].f
                                       /\ d[q].id = seal[q].id
  <2>1. CASE q # self /\ Index!Busy(seal[q]) /\ seal[q].f \in F
    <3>1. d[q] = [seal[q] EXCEPT !.clean = FALSE]
      BY <2>1, <1>1
    <3>2. d[q] = [pc |-> seal[q].pc, f |-> seal[q].f, as |-> seal[q].as,
                  id |-> seal[q].id, clean |-> FALSE]
      BY <3>1, <2>1, CallType
    <3>3. /\ seal[q].pc \in {"write", "insert"} /\ seal[q].f \in Artifact
          /\ seal[q].as \in Name /\ seal[q].id \in Nat \ {0}
      BY <2>1, CallType
    <3>4. d[q] \in Index!SealCall
      BY <3>2, <3>3 DEF Index!SealCall
    <3>5. d[q] # Index!Idle
      BY <3>2, <3>3 DEF Index!Idle
    <3> QED BY <3>2, <3>4, <3>5, <2>1 DEF Index!Busy
  <2>2. CASE ~(q # self /\ Index!Busy(seal[q]) /\ seal[q].f \in F)
    BY <2>2, <1>1 DEF Index!TypeOK
  <2> QED BY <2>1, <2>2
<1>4. d \in [Proc -> Index!SealCall \cup {Index!Idle}]
  BY <1>2, <1>3
<1> QED BY <1>3, <1>4

\* fs::write truncates: the receipt is torn, and the call is there.
LEMMA TruncateStep ==
    ASSUME Index!TypeOK, NEW p \in Proc, NEW a \in Artifact, NEW n \in Name,
           NEW i \in Nat \ {0}, Index!SealTruncate(p, a, n, i)
    PROVE  /\ Index!TypeOK'
           /\ rcpt' = [rcpt EXCEPT ![a] = Index!Torn]
           /\ Index!Busy(seal'[p])
           /\ seal'[p].pc = "write" /\ seal'[p].f = a /\ seal'[p].id = i
           /\ \A q \in Proc \ {p} : CallKept(q)
<1> DEFINE d == Index!SealsDisturbed({a}, p)
           call == [pc |-> "write", f |-> a, as |-> n, id |-> i,
                    clean |-> Index!Undisturbed(a)]
<1>1. seal' = [d EXCEPT ![p] = call] /\ rcpt' = [rcpt EXCEPT ![a] = Index!Torn]
      /\ rows' = rows /\ reb' = Index!RebuildsDisturbed(p)
  BY DEF Index!SealTruncate
<1>2. d \in [Proc -> Index!SealCall \cup {Index!Idle}]
  BY DisturbedCalls
<1>3. Index!Undisturbed(a) \in BOOLEAN
  BY DEF Index!Undisturbed
<1>4. call \in Index!SealCall
  BY <1>3 DEF Index!SealCall
<1>5. seal' \in [Proc -> Index!SealCall \cup {Index!Idle}] /\ seal'[p] = call
      /\ \A q \in Proc \ {p} : seal'[q] = d[q]
  BY <1>1, <1>2, <1>4
<1>6. rcpt' \in [Artifact -> Index!FileState]
  BY <1>1 DEF Index!TypeOK, Index!Torn, Index!FileState
<1>7. reb' \in [{} -> Index!RebuildCall \cup {Index!Idle}]
  BY <1>1 DEF Index!RebuildsDisturbed
<1>8. Index!TypeOK'
  BY <1>1, <1>5, <1>6, <1>7 DEF Index!TypeOK
<1>9. Index!Busy(seal'[p])
  BY <1>5 DEF Index!Busy, Index!Idle
<1>10. \A q \in Proc \ {p} : CallKept(q)
  BY <1>5, DisturbedCalls DEF CallKept
<1> QED BY <1>1, <1>5, <1>8, <1>9, <1>10

\* fs::write writes: the receipt is whole, or garbled by two writers.
LEMMA WriteStep ==
    ASSUME Index!TypeOK, NEW p \in Proc, Index!SealWrite(p)
    PROVE  /\ Index!TypeOK'
           /\ Index!Busy(seal[p]) /\ seal[p].pc = "write"
           /\ \/ rcpt' = [rcpt EXCEPT ![seal[p].f] = Index!Full(seal[p].id)]
              \/ /\ rcpt[seal[p].f].st \in {"full", "garbled"}
                 /\ rcpt' = [rcpt EXCEPT ![seal[p].f] = Index!Garbled]
           /\ Index!Busy(seal'[p])
           /\ seal'[p].pc = "insert" /\ seal'[p].f = seal[p].f /\ seal'[p].id = seal[p].id
           /\ \A q \in Proc \ {p} : CallKept(q)
<1> DEFINE d == Index!SealsDisturbed({seal[p].f}, p)
           call == [pc |-> "insert", f |-> seal[p].f, as |-> seal[p].as,
                    id |-> seal[p].id, clean |-> seal[p].clean]
<1>1. Index!Busy(seal[p]) /\ seal[p].pc = "write"
  BY DEF Index!SealWrite, Index!Busy
<1>2. /\ \/ rcpt' = [rcpt EXCEPT ![seal[p].f] = Index!Full(seal[p].id)]
         \/ /\ rcpt[seal[p].f].st \in {"full", "garbled"}
            /\ rcpt' = [rcpt EXCEPT ![seal[p].f] = Index!Garbled]
      /\ seal' = [d EXCEPT ![p].pc = "insert"]
      /\ reb' = Index!RebuildsDisturbed(p) /\ rows' = rows
  BY DEF Index!SealWrite
<1>3. d \in [Proc -> Index!SealCall \cup {Index!Idle}] /\ d[p] = seal[p]
  BY DisturbedCalls
<1>4. /\ seal[p].f \in Artifact /\ seal[p].as \in Name /\ seal[p].id \in Nat \ {0}
      /\ seal[p].clean \in BOOLEAN
  BY <1>1, CallType
<1>5. seal[p] = [pc |-> seal[p].pc, f |-> seal[p].f, as |-> seal[p].as,
                  id |-> seal[p].id, clean |-> seal[p].clean]
  BY <1>1, CallType
<1>6. [d[p] EXCEPT !.pc = "insert"] = call
  BY <1>3, <1>5
<1>7. call \in Index!SealCall
  BY <1>4 DEF Index!SealCall
<1>8. seal' \in [Proc -> Index!SealCall \cup {Index!Idle}] /\ seal'[p] = call
      /\ (\A q \in Proc \ {p} : seal'[q] = d[q])
  BY <1>2, <1>3, <1>6, <1>7
<1>9. rcpt' \in [Artifact -> Index!FileState]
  BY <1>2, <1>4 DEF Index!TypeOK, Index!Full, Index!Garbled, Index!FileState
<1>10. reb' \in [{} -> Index!RebuildCall \cup {Index!Idle}]
  BY <1>2 DEF Index!RebuildsDisturbed
<1>11. Index!TypeOK'
  BY <1>2, <1>8, <1>9, <1>10 DEF Index!TypeOK
<1>12. Index!Busy(seal'[p])
  BY <1>8 DEF Index!Busy, Index!Idle
<1>13. \A q \in Proc \ {p} : CallKept(q)
  BY <1>8, DisturbedCalls DEF CallKept
<1> QED BY <1>1, <1>2, <1>8, <1>11, <1>12, <1>13

\* The call is over, with an index row or without one.
LEMMA LeaveStep ==
    ASSUME Index!TypeOK, NEW p \in Proc,
           Index!SealInsert(p) \/ Index!SealUnindexed(p) \/ Index!SealStop(p)
    PROVE  /\ Index!TypeOK'
           /\ Index!Busy(seal[p]) /\ ~Index!Busy(seal'[p])
           /\ Index!SealStop(p) \/ seal[p].pc = "insert"
           /\ rcpt' = rcpt
           /\ \A q \in Proc \ {p} : CallKept(q)
<1> DEFINE d == Index!SealsDisturbed({seal[p].f}, p)
<1>1. CASE Index!SealInsert(p)
  <2>1. /\ Index!Busy(seal[p]) /\ seal[p].pc = "insert"
        /\ rows' = Index!Upsert(rows, seal[p].f, seal[p].as, seal[p].id)
        /\ seal' = [d EXCEPT ![p] = Index!Idle]
        /\ reb' = Index!RebuildsDisturbed(p) /\ rcpt' = rcpt
    BY <1>1 DEF Index!SealInsert, Index!Busy
  <2>2. seal[p].f \in Artifact /\ seal[p].as \in Name /\ seal[p].id \in Nat \ {0}
    BY <2>1, CallType
  <2>3. Index!RowKey(seal[p].f, seal[p].as) = seal[p].as
    BY <2>2 DEF Index!RowKey
  <2>4. rows' \in [Name -> (Nat \ {0}) \cup {0}]
    BY <2>1, <2>2, <2>3 DEF Index!Upsert, Index!TypeOK
  <2>5. reb' \in [{} -> Index!RebuildCall \cup {Index!Idle}]
    BY <2>1 DEF Index!RebuildsDisturbed
  <2>6. d \in [Proc -> Index!SealCall \cup {Index!Idle}]
    BY DisturbedCalls
  <2>7. seal' \in [Proc -> Index!SealCall \cup {Index!Idle}] /\ seal'[p] = Index!Idle
        /\ (\A q \in Proc \ {p} : seal'[q] = d[q])
    BY <2>1, <2>6
  <2>8. Index!TypeOK'
    BY <2>1, <2>4, <2>5, <2>7 DEF Index!TypeOK
  <2>9. \A q \in Proc \ {p} : CallKept(q)
    BY <2>7, DisturbedCalls DEF CallKept
  <2> QED BY <2>1, <2>7, <2>8, <2>9 DEF Index!Busy
<1>2. CASE Index!SealUnindexed(p) \/ Index!SealStop(p)
  <2>1. /\ Index!Busy(seal[p]) /\ seal' = [seal EXCEPT ![p] = Index!Idle]
        /\ Index!SealStop(p) \/ seal[p].pc = "insert"
        /\ UNCHANGED <<rcpt, rows, reb>>
    BY <1>2 DEF Index!SealUnindexed, Index!SealStop, Index!Busy
  <2>2. seal'[p] = Index!Idle /\ \A q \in Proc \ {p} : seal'[q] = seal[q]
    BY <2>1 DEF Index!TypeOK
  <2>3. Index!TypeOK'
    BY <2>1 DEF Index!TypeOK
  <2> QED BY <2>1, <2>2, <2>3 DEF Index!Busy, CallKept
<1> QED BY <1>1, <1>2

-----------------------------------------------------------------------------
(* What a step of one process leaves to the others *)

\* Nothing that belongs to a process other than p changes.
KeptBut(p) ==
    \A q \in Proc \ {p} :
        /\ pc'[q] = pc[q] /\ mode'[q] = mode[q] /\ inputs'[q] = inputs[q]
        /\ todo'[q] = todo[q] /\ done'[q] = done[q] /\ rec'[q] = rec[q]
        /\ CallKept(q)

\* The log and the records that were written out are only added to.
Grows ==
    /\ log \subseteq log'
    /\ seals' \in {seals, seals + 1}
    /\ DOMAIN made \subseteq DOMAIN made'
    /\ \A i \in DOMAIN made : made'[i] = made[i]

\* A step of p: its seal keeps its number or gets a new one, and what is newly
\* written out is its own.
StepOf(p) ==
    /\ KeptBut(p)
    /\ Grows
    /\ \A i \in DOMAIN made' \ DOMAIN made : Sealed(p) /\ i = rec[p].id
    /\ Sealed(p)' => \/ Sealed(p) /\ rec'[p].id = rec[p].id
                     \/ seals' = seals + 1 /\ rec'[p].id = seals + 1

LEMMA OthersKept ==
    ASSUME IInv, NEW p \in Proc, StepOf(p), Mine(p)'
    PROVE  (\A q \in Proc : Mine(q)') /\ IdsApart'
<1>1. seals \in Nat
  BY DEF IInv, TypeOK
<1>2. ASSUME NEW q \in Proc \ {p} PROVE Mine(q)'
  <2>1. /\ pc'[q] = pc[q] /\ mode'[q] = mode[q] /\ inputs'[q] = inputs[q]
        /\ todo'[q] = todo[q] /\ done'[q] = done[q] /\ rec'[q] = rec[q]
        /\ CallKept(q)
    BY <1>2 DEF StepOf, KeptBut
  <2>2. Mine(q)
    BY DEF IInv
  <2>3. LayersOf(q)'
    BY <2>1, <2>2 DEF Mine, LayersOf, StepOf, Grows
  <2>4. Building(q) => rec[q].id \notin DOMAIN made'
    <3> SUFFICES ASSUME Building(q), rec[q].id \in DOMAIN made' PROVE FALSE
      OBVIOUS
    <3>1. rec[q].id \notin DOMAIN made
      BY <2>2 DEF Mine, IdOf
    <3>2. Sealed(p) /\ rec[q].id = rec[p].id
      BY <3>1 DEF StepOf
    <3> QED BY <3>2 DEF IInv, IdsApart, Sealed
  <2>5. IdOf(q)'
    BY <2>1, <2>2, <2>4, <1>1 DEF Mine, IdOf, Sealed, Building, Writing, StepOf, Grows
  <2>6. CallOf(q)'
    BY <2>1, <2>2 DEF Mine, CallOf, CallKept, Writing, StepOf, Grows, Current, Item, WrittenOut
  <2>7. BatchOf(q)'
    BY <2>1, <2>2 DEF Mine, BatchOf, Working, Stopped
  <2> QED BY <2>3, <2>5, <2>6, <2>7 DEF Mine
<1>3. ASSUME NEW q \in Proc \ {p}, Sealed(p)', Sealed(q)' PROVE rec'[p].id # rec'[q].id
  <2>1. Sealed(q) /\ rec'[q] = rec[q]
    BY <1>3 DEF StepOf, KeptBut, Sealed, Building, Writing
  <2>2. rec[q].id \in 1..seals
    BY <2>1 DEF IInv, Mine, IdOf
  <2>3. CASE Sealed(p) /\ rec'[p].id = rec[p].id
    BY <2>1, <2>3 DEF IInv, IdsApart
  <2>4. CASE rec'[p].id = seals + 1
    BY <2>1, <2>2, <2>4, <1>1
  <2> QED BY <2>3, <2>4, <1>3 DEF StepOf
<1>4. ASSUME NEW q \in Proc \ {p}, NEW r \in Proc \ {p}, q # r, Sealed(q)', Sealed(r)'
      PROVE  rec'[q].id # rec'[r].id
  BY <1>4 DEF StepOf, KeptBut, Sealed, Building, Writing, IInv, IdsApart
<1>5. IdsApart'
  BY <1>3, <1>4 DEF IdsApart
<1> QED BY <1>2, <1>5

JobsKept(p) ==
    \A q \in Proc \ {p} :
        /\ pc'[q] = pc[q] /\ mode'[q] = mode[q] /\ inputs'[q] = inputs[q]
        /\ todo'[q] = todo[q] /\ done'[q] = done[q] /\ rec'[q] = rec[q]

LEMMA MadeKept ==
    ASSUME IInv, Grows, made' = made,
           \A a \in Artifact : rcpt'[a].st = "full" => rcpt'[a] = rcpt[a]
    PROVE  MadeInv'
BY DEF IInv, MadeInv, Grows

-----------------------------------------------------------------------------
(* Concluding *)

\* The outcome of the current artifact is added to those of the others.
LEMMA ConcludeMine ==
    ASSUME IInv, NEW p \in Proc, Working(p), NEW kind \in Kind, Conclude(p, kind)
    PROVE  /\ JobTypeOK' /\ JobsKept(p)
           /\ LayersOf(p)' /\ BatchOf(p)'
           /\ ~Sealed(p)' /\ IdOf(p)'
           /\ done'[p] = done[p] \cup {OutcomeOf(p, kind)}
<1> DEFINE a == Item(p)
           o == OutcomeOf(p, kind)
<1>1. JobTypeOK /\ BatchOf(p) /\ todo[p] # {}
  BY TypeParts DEF IInv, Mine, BatchOf
<1>2. a \in todo[p]
  BY <1>1, ItemIsTodo
<1>3. JobTypeOK'
  BY <1>1, ConcludeType
<1>4. JobsKept(p)
  BY <1>1 DEF JobsKept, Conclude, Goto, JobTypeOK
<1>5. /\ done'[p] = done[p] \cup {o} /\ todo'[p] = todo[p] \ {a}
      /\ mode'[p] = mode[p] /\ inputs'[p] = inputs[p]
      /\ pc'[p] = IF todo[p] = {a} \/ (kind # "ok" /\ mode[p].failFast) THEN "report" ELSE "read"
  BY <1>1 DEF Conclude, Goto, JobTypeOK
<1>6. o.name = a /\ o.kind = kind
  BY DEF OutcomeOf
<1>7. pc'[p] \in {"read", "report"}
  BY <1>5
<1>8. NamesOf(done'[p]) = NamesOf(done[p]) \cup {a}
  BY <1>5, <1>6 DEF NamesOf
<1>9. a \notin NamesOf(done[p])
  BY <1>1, <1>2 DEF BatchOf
<1>10. \A x \in done[p] : x.name # a
  BY <1>9 DEF NamesOf
<1>11. ~Stopped(p)
  BY <1>1 DEF BatchOf
<1>12. (Stopped(p))' <=> kind # "ok" /\ mode[p].failFast
  BY <1>5, <1>6, <1>11 DEF Stopped
<1>13. BatchOf(p)'
  <2>1. (Working(p))' => todo'[p] # {} /\ ~(Stopped(p))'
    BY <1>1, <1>2, <1>5, <1>12 DEF Working
  <2>2. todo'[p] \subseteq inputs'[p] /\ NamesOf(done'[p]) \subseteq inputs'[p] \ todo'[p]
    BY <1>1, <1>2, <1>5, <1>8 DEF BatchOf
  <2>3. inputs'[p] \subseteq todo'[p] \cup NamesOf(done'[p])
    BY <1>1, <1>5, <1>8, <1>11 DEF BatchOf
  <2>4. pc'[p] = "report" /\ ~(Stopped(p))' => todo'[p] = {}
    BY <1>5, <1>12
  <2>5. \A x, y \in done'[p] : x.name = y.name => x = y
    BY <1>1, <1>5, <1>6, <1>10 DEF BatchOf
  <2>6. mode'[p].failFast =>
          \A x, y \in done'[p] : x.kind # "ok" /\ y.kind # "ok" => x = y
    BY <1>5, <1>11 DEF Stopped
  <2> QED BY <2>1, <2>2, <2>3, <2>4, <2>5, <2>6, <1>7 DEF BatchOf
<1>14. LayersOf(p)' /\ ~Sealed(p)' /\ IdOf(p)'
  BY <1>7 DEF LayersOf, Sealed, Building, Writing, IdOf
<1> QED BY <1>3, <1>4, <1>5, <1>13, <1>14

-----------------------------------------------------------------------------
(* The steps of a process, one by one *)

\* What each of them is shown to do; the invariant follows by OthersKept.
Keeps(p) == TypeOK' /\ StepOf(p) /\ Mine(p)' /\ MadeInv'

LEMMA StoreSame ==
    ASSUME Index!TypeOK, UNCHANGED store
    PROVE  Index!TypeOK' /\ \A q \in Proc : CallKept(q) /\ seal'[q] = seal[q]
BY DEF store, Index!TypeOK, CallKept

\* A step that touches neither the store nor the records written out.
LEMMA QuietStep ==
    ASSUME IInv, NEW p \in Proc, UNCHANGED <<made, store>>, JobTypeOK', SharedTypeOK',
           JobsKept(p), log \subseteq log', seals' \in {seals, seals + 1},
           LayersOf(p)', IdOf(p)', BatchOf(p)', ~Writing(p), ~Writing(p)',
           Sealed(p)' => \/ Sealed(p) /\ rec'[p].id = rec[p].id
                         \/ seals' = seals + 1 /\ rec'[p].id = seals + 1
    PROVE  Keeps(p)
<1>1. Index!TypeOK' /\ \A q \in Proc : CallKept(q) /\ seal'[q] = seal[q]
  BY TypeParts, StoreSame DEF IInv
<1>2. TypeOK'
  BY <1>1, TypePartsNext
<1>3. Grows
  BY DEF Grows
<1>4. StepOf(p)
  BY <1>1, <1>3 DEF StepOf, KeptBut, JobsKept
<1>5. CallOf(p)'
  BY <1>1 DEF IInv, Mine, CallOf, CallKept
<1>6. MadeInv'
  BY <1>3, MadeKept DEF store
<1> QED BY <1>2, <1>4, <1>5, <1>6 DEF Keeps, Mine

LEMMA StartSealKeeps ==
    ASSUME IInv, SealingAssumption, NEW p \in Proc, NEW batch \in Batches, NEW m \in Modes,
           StartSeal(p, batch, m)
    PROVE  Keeps(p)
<1> DEFINE missing == Missing(batch)
           found == Found(batch)
           given == found \cup missing
           stop == m.failFast /\ missing # {}
           failed == IF stop THEN {First(missing)} ELSE missing
<1>1. /\ batch.paths \subseteq Name /\ batch.under \subseteq Name
      /\ IsFiniteSet(batch.paths \cup batch.under) /\ m \in Mode
  BY DEF SealingAssumption, Batch
<1>2. JobTypeOK /\ SharedTypeOK
  BY TypeParts DEF IInv
<1>3. /\ pc[p] = "idle" /\ ~m.mcp
      /\ taken + Cardinality(given) <= MaxSeals /\ taken' = taken + Cardinality(given)
      /\ mode' = [mode EXCEPT ![p] = m] /\ inputs' = [inputs EXCEPT ![p] = given]
      /\ todo' = [todo EXCEPT ![p] = found]
      /\ done' = [done EXCEPT ![p] = {MissingOutcome(n) : n \in failed}]
      /\ pc' = [pc EXCEPT ![p] = IF stop \/ found = {} THEN "report" ELSE "read"]
      /\ UNCHANGED <<world, rec, made, seals, contents, store>>
  BY DEF StartSeal, Goto
<1>4. /\ given \subseteq Name /\ IsFiniteSet(given) /\ found \cap missing = {}
  <2>1. given \subseteq batch.paths \cup batch.under /\ found \cap missing = {}
    BY DEF Found, Missing
  <2> QED BY <2>1, <1>1, FS_Subset
<1>5. /\ failed \subseteq missing
      /\ stop => failed # {} /\ m.failFast
      /\ ~stop => failed = missing
      /\ m.failFast => \A x, y \in failed : x = y
  BY DEF First
<1> HIDE DEF failed, stop, missing, found
<1>6. \A n \in Name : /\ MissingOutcome(n) \in Outcome /\ MissingOutcome(n).name = n
                      /\ MissingOutcome(n).kind = "schema"
  BY DEF MissingOutcome, Outcome, NoFile
<1>7. JobTypeOK'
  <2>1. {MissingOutcome(n) : n \in failed} \subseteq Outcome
    BY <1>4, <1>5, <1>6
  <2> QED BY <2>1, <1>1, <1>2, <1>3, <1>4 DEF JobTypeOK, Label
<1>8. SharedTypeOK'
  <2>1. Cardinality(given) \in Nat
    BY <1>4, FS_CardinalityType
  <2>2. taken' \in 0..MaxSeals
    BY <2>1, <1>2, <1>3 DEF SharedTypeOK, SealingAssumption
  <2> QED BY <2>2, <1>2, <1>3 DEF SharedTypeOK, world
<1>9. JobsKept(p)
  BY <1>2, <1>3 DEF JobsKept, JobTypeOK
<1>10. /\ done'[p] = {MissingOutcome(n) : n \in failed} /\ todo'[p] = found
       /\ mode'[p] = m /\ inputs'[p] = given
       /\ pc'[p] = IF stop \/ found = {} THEN "report" ELSE "read"
  BY <1>2, <1>3 DEF JobTypeOK
<1>11. NamesOf(done'[p]) = failed
  BY <1>4, <1>5, <1>6, <1>10 DEF NamesOf
<1>12. (Stopped(p))' <=> stop
  <2>1. \A o \in done'[p] : o.kind = "schema"
    BY <1>4, <1>5, <1>6, <1>10
  <2>2. done'[p] # {} <=> failed # {}
    BY <1>10
  <2>3. (Stopped(p))' <=> m.failFast /\ failed # {}
    BY <2>1, <2>2, <1>10 DEF Stopped
  <2>4. m.failFast /\ failed # {} <=> stop
    BY <1>5 DEF stop
  <2> QED BY <2>3, <2>4
<1>13. BatchOf(p)'
  <2>1. \A x, y \in done'[p] : x.name = y.name => x = y
    BY <1>4, <1>5, <1>6, <1>10
  <2>2. NamesOf(done'[p]) \subseteq inputs'[p] \ todo'[p]
    BY <1>4, <1>5, <1>10, <1>11
  <2>3. ~stop => inputs'[p] \subseteq todo'[p] \cup NamesOf(done'[p])
    BY <1>5, <1>10, <1>11
  <2>4. (Working(p))' => todo'[p] # {} /\ ~(Stopped(p))'
    BY <1>10, <1>12 DEF Working
  <2>5. pc'[p] = "report" /\ ~(Stopped(p))' => todo'[p] = {}
    BY <1>10, <1>12
  <2>6. mode'[p].failFast =>
          \A x, y \in done'[p] : x.kind # "ok" /\ y.kind # "ok" => x = y
    BY <1>5, <1>10
  <2>7. pc'[p] # "idle" /\ todo'[p] \subseteq inputs'[p]
    BY <1>10
  <2> QED BY <2>1, <2>2, <2>3, <2>4, <2>5, <2>6, <2>7, <1>12 DEF BatchOf
<1>14. LayersOf(p)' /\ IdOf(p)' /\ ~Sealed(p)' /\ ~Writing(p) /\ ~Writing(p)'
  BY <1>3, <1>10 DEF LayersOf, IdOf, Sealed, Building, Writing
<1> QED BY <1>3, <1>7, <1>8, <1>9, <1>13, <1>14, QuietStep DEF world

LEMMA CallToolKeeps ==
    ASSUME IInv, SealingAssumption, NEW p \in Proc, NEW batch \in Batches, NEW m \in Modes,
           CallTool(p, batch, m)
    PROVE  Keeps(p)
<1>1. /\ batch.paths \subseteq Name /\ IsFiniteSet(batch.paths \cup batch.under)
      /\ m \in Mode
  BY DEF SealingAssumption, Batch
<1>2. JobTypeOK /\ SharedTypeOK /\ BatchOf(p)
  BY TypeParts DEF IInv, Mine
<1>3. /\ pc[p] = "idle" /\ Cardinality(batch.paths) = 1
      /\ taken < MaxSeals /\ taken' = taken + 1
      /\ mode' = [mode EXCEPT ![p] = m] /\ inputs' = [inputs EXCEPT ![p] = batch.paths]
      /\ todo' = [todo EXCEPT ![p] = batch.paths] /\ pc' = [pc EXCEPT ![p] = "read"]
      /\ UNCHANGED <<world, done, rec, made, seals, contents, store>>
  BY DEF CallTool, Goto
<1>4. batch.paths # {}
  <2> SUFFICES ASSUME batch.paths = {} PROVE FALSE
    OBVIOUS
  <2>1. Cardinality(batch.paths) = 0
    BY FS_EmptySet
  <2> QED BY <2>1, <1>3
<1>5. JobTypeOK'
  BY <1>1, <1>2, <1>3 DEF JobTypeOK, Label
<1>6. SharedTypeOK'
  <2>1. taken' \in 0..MaxSeals
    BY <1>2, <1>3 DEF SharedTypeOK, SealingAssumption
  <2> QED BY <2>1, <1>2, <1>3 DEF SharedTypeOK, world
<1>7. JobsKept(p)
  BY <1>2, <1>3 DEF JobsKept, JobTypeOK
<1>8. /\ done'[p] = {} /\ todo'[p] = batch.paths /\ mode'[p] = m
      /\ inputs'[p] = batch.paths /\ pc'[p] = "read"
  BY <1>2, <1>3 DEF JobTypeOK, BatchOf
<1>9. BatchOf(p)'
  BY <1>4, <1>8 DEF BatchOf, Working, Stopped, NamesOf
<1>10. LayersOf(p)' /\ IdOf(p)' /\ ~Sealed(p)' /\ ~Writing(p) /\ ~Writing(p)'
  BY <1>3, <1>8 DEF LayersOf, IdOf, Sealed, Building, Writing
<1> QED BY <1>3, <1>5, <1>6, <1>7, <1>9, <1>10, QuietStep DEF world

LEMMA AskedLayers ==
    ASSUME NEW m
    PROVE  ("tsa" \in Asked(m) <=> m.tsa) /\ ("rekor" \in Asked(m) <=> m.rekor)
BY DEF Asked

\* A seal begins with the layers that need no network.
LEMMA SealContentMine ==
    ASSUME IInv, NEW p \in Proc, pc[p] \in {"read", "embedWrite"}, NEW r \in Nat,
           NEW c \in Nat, SealContent(p, r, c), UNCHANGED <<job, made>>
    PROVE  /\ JobTypeOK' /\ JobsKept(p) /\ LayersOf(p)' /\ IdOf(p)' /\ BatchOf(p)'
           /\ seals' = seals + 1 /\ rec'[p].id = seals + 1 /\ rec'[p].hash = c
           /\ ~Writing(p)'
<1> DEFINE L == Asked(mode[p]) \ {"tsa", "rekor"}
<1>1. JobTypeOK /\ SharedTypeOK /\ BatchOf(p)
  BY TypeParts DEF IInv, Mine
<1>2. seals \in Nat /\ DOMAIN made \subseteq 1..seals
  BY <1>1 DEF SharedTypeOK
<1>3. JobTypeOK' /\ seals' = seals + 1
  BY <1>1, <1>2, SealContentType
<1>4. /\ pc' = [pc EXCEPT ![p] = NextLayer(mode[p], {})]
      /\ rec' = [rec EXCEPT ![p] = [id |-> seals + 1, read |-> r, hash |-> c, layers |-> L]]
      /\ mode' = mode /\ inputs' = inputs /\ todo' = todo /\ done' = done
  BY DEF SealContent, Goto, job
<1>5. JobsKept(p)
  BY <1>1, <1>4 DEF JobsKept, JobTypeOK
<1>6. /\ pc'[p] = NextLayer(mode[p], {}) /\ rec'[p].id = seals + 1 /\ rec'[p].hash = c
      /\ rec'[p].layers = L
  BY <1>1, <1>4 DEF JobTypeOK
<1>7. pc'[p] \in {"tsa", "shard", "receipt"}
  BY <1>6, NextLayerLabel
<1>8. LayersOf(p)'
  <2>1. pc'[p] = "tsa" => mode[p].tsa
    BY <1>6 DEF NextLayer
  <2>2. pc'[p] = "shard" => mode[p].rekor /\ L = Asked(mode[p]) \ {"rekor"}
    BY <1>6, AskedLayers DEF NextLayer
  <2>3. pc'[p] = "receipt" => ~mode[p].rekor /\ L = Asked(mode[p])
    BY <1>6, AskedLayers DEF NextLayer
  <2> QED BY <2>1, <2>2, <2>3, <1>4, <1>6, <1>7 DEF LayersOf
<1>9. IdOf(p)'
  BY <1>2, <1>3, <1>6 DEF IdOf
<1>10. BatchOf(p)'
  BY <1>1, <1>4, <1>7 DEF BatchOf, Working, Stopped
<1> QED BY <1>3, <1>5, <1>6, <1>7, <1>8, <1>9, <1>10 DEF Writing

\* A network layer is added once it is there, and rekor's only with the log's entry.
LEMMA AddLayerMine ==
    ASSUME IInv, NEW p \in Proc, NEW l,
           \/ l = "tsa" /\ pc[p] = "tsa"
           \/ l = "rekor" /\ pc[p] = "submit" /\ rec[p].id \in log',
           AddLayer(p, l), made' = made, seals' = seals
    PROVE  /\ JobTypeOK' /\ JobsKept(p) /\ LayersOf(p)' /\ IdOf(p)' /\ BatchOf(p)'
           /\ Sealed(p) /\ rec'[p].id = rec[p].id /\ rec'[p].hash = rec[p].hash
           /\ ~Writing(p)'
<1> DEFINE L == rec[p].layers \cup {l}
<1>1. JobTypeOK /\ LayersOf(p) /\ IdOf(p) /\ BatchOf(p)
  BY TypeParts DEF IInv, Mine
<1>2. l \in Layer
  BY DEF Layer
<1>3. JobTypeOK'
  BY <1>1, <1>2, AddLayerType
<1>4. /\ pc' = [pc EXCEPT ![p] = NextLayer(mode[p], L)]
      /\ rec' = [rec EXCEPT ![p] = [id |-> rec[p].id, read |-> rec[p].read,
                                    hash |-> rec[p].hash, layers |-> L]]
      /\ mode' = mode /\ inputs' = inputs /\ todo' = todo /\ done' = done
  BY DEF AddLayer, Goto, job
<1>5. JobsKept(p)
  BY <1>1, <1>4 DEF JobsKept, JobTypeOK
<1>6. /\ pc'[p] = NextLayer(mode[p], L) /\ rec'[p].id = rec[p].id /\ rec'[p].layers = L
      /\ rec'[p].hash = rec[p].hash
  BY <1>1, <1>4 DEF JobTypeOK
<1>7. pc'[p] \in {"shard", "receipt"} /\ LayersOf(p)'
  <2>1. CASE l = "tsa" /\ pc[p] = "tsa"
    <3>1. mode[p].tsa /\ L = Asked(mode[p]) \ {"rekor"}
      BY <2>1, <1>1, AskedLayers DEF LayersOf
    <3>2. pc'[p] = IF mode[p].rekor THEN "shard" ELSE "receipt"
      BY <3>1, <1>6 DEF NextLayer
    <3>3. ~mode[p].rekor => L = Asked(mode[p])
      BY <3>1, AskedLayers
    <3>4. mode'[p] = mode[p] /\ rec'[p].layers = L
      BY <1>4, <1>6
    <3>5. CASE mode[p].rekor
      BY <3>1, <3>2, <3>4, <3>5 DEF LayersOf
    <3>6. CASE ~mode[p].rekor
      BY <3>2, <3>3, <3>4, <3>6 DEF LayersOf
    <3> QED BY <3>5, <3>6
  <2>2. CASE l = "rekor" /\ pc[p] = "submit" /\ rec[p].id \in log'
    <3>1. mode[p].rekor /\ L = Asked(mode[p])
      BY <2>2, <1>1, AskedLayers DEF LayersOf
    <3>2. pc'[p] = "receipt"
      BY <3>1, <1>6, AskedLayers DEF NextLayer
    <3> QED BY <3>1, <3>2, <2>2, <1>4, <1>6 DEF LayersOf
  <2> QED BY <2>1, <2>2
<1>8. IdOf(p)' /\ Sealed(p)
  BY <1>1, <1>6, <1>7 DEF IdOf, Sealed, Building, Writing
<1>9. BatchOf(p)'
  BY <1>1, <1>4, <1>7 DEF BatchOf, Working, Stopped
<1> QED BY <1>3, <1>5, <1>6, <1>7, <1>8, <1>9 DEF Writing

LEMMA WorkingFacts ==
    ASSUME IInv, NEW p \in Proc, Working(p)
    PROVE  /\ JobTypeOK /\ SharedTypeOK /\ Index!TypeOK
           /\ LayersOf(p) /\ IdOf(p) /\ CallOf(p) /\ BatchOf(p)
           /\ Item(p) \in todo[p] /\ Item(p) \in Name
           /\ Current(p) = ArtOf[Item(p)] /\ Current(p) \in Artifact
           /\ mode[p] \in Mode /\ rec[p] \in Record
<1>1. JobTypeOK /\ SharedTypeOK /\ Index!TypeOK
  BY TypeParts DEF IInv
<1>2. LayersOf(p) /\ IdOf(p) /\ CallOf(p) /\ BatchOf(p)
  BY DEF IInv, Mine
<1>3. Item(p) \in todo[p]
  BY <1>2, ItemIsTodo DEF BatchOf
<1> QED BY <1>1, <1>2, <1>3, SealingAssumption, CurrentIsArtifact DEF JobTypeOK

\* A step that concludes and touches neither the store nor the records.
LEMMA QuietConclude ==
    ASSUME IInv, NEW p \in Proc, Working(p), ~Writing(p), NEW kind \in Kind, Conclude(p, kind),
           log \subseteq log', log' \subseteq 1..seals,
           UNCHANGED <<art, shards, edits, made, count, store>>
    PROVE  Keeps(p)
<1>1. /\ JobTypeOK' /\ JobsKept(p) /\ LayersOf(p)' /\ BatchOf(p)' /\ ~Sealed(p)' /\ IdOf(p)'
  BY ConcludeMine
<1>2. SharedTypeOK /\ SharedTypeOK'
  BY WorkingFacts DEF SharedTypeOK, count
<1>3. ~Writing(p)' /\ seals' = seals
  BY <1>1 DEF Sealed, count
<1> QED BY <1>1, <1>2, <1>3, QuietStep

\* A process goes on to another label of the same batch.
LEMMA GotoMine ==
    ASSUME IInv, NEW p \in Proc, Working(p), NEW l \in Label \ {"idle", "report", "save"},
           Goto(p, l), UNCHANGED job
    PROVE  BatchOf(p)' /\ ~Writing(p)' /\ pc'[p] = l
<1>1. JobTypeOK /\ BatchOf(p)
  BY WorkingFacts
<1>2. pc'[p] = l /\ mode' = mode /\ inputs' = inputs /\ todo' = todo /\ done' = done
  BY <1>1 DEF Goto, job, JobTypeOK
<1>3. BatchOf(p)'
  BY <1>1, <1>2 DEF BatchOf, Working, Stopped
<1> QED BY <1>2, <1>3 DEF Writing

LEMMA ReadKeeps ==
    ASSUME IInv, NEW p \in Proc, Read(p)
    PROVE  Keeps(p)
<1> DEFINE a == Current(p)
           m == mode[p]
<1>1. pc[p] = "read" /\ UNCHANGED <<world, made, taken, contents, store>>
  BY DEF Read
<1>2. Working(p) /\ ~Writing(p) /\ ~Sealed(p)
  BY <1>1 DEF Working, Writing, Sealed, Building
<1>3. JobTypeOK /\ SharedTypeOK /\ a \in Artifact /\ m \in Mode /\ art[a] \in Nat
  BY <1>2, WorkingFacts DEF SharedTypeOK
<1>4. log \subseteq 1..seals
  BY <1>3 DEF SharedTypeOK
<1>5. CASE (Conclude(p, ErrorKind(m, FALSE)) \/ Conclude(p, ErrorKind(m, TRUE)))
           /\ UNCHANGED seals
  BY <1>1, <1>2, <1>4, <1>5, ErrorKinds, QuietConclude DEF world, count
<1>6. CASE /\ rec' = [rec EXCEPT ![p] = [NoRecord EXCEPT !.read = art[a]]]
           /\ Goto(p, "embedTrunc")
           /\ UNCHANGED <<job, seals>>
  <2>1. [NoRecord EXCEPT !.read = art[a]] \in Record
    BY <1>3 DEF NoRecord, Record
  <2>2. JobTypeOK' /\ JobsKept(p)
    BY <1>3, <1>6, <2>1 DEF JobTypeOK, Goto, job, JobsKept, Label
  <2>3. BatchOf(p)' /\ ~Writing(p)' /\ pc'[p] = "embedTrunc"
    BY <1>2, <1>6, <2>2, GotoMine DEF Label
  <2>4. LayersOf(p)' /\ IdOf(p)' /\ ~Sealed(p)'
    BY <2>3 DEF LayersOf, IdOf, Sealed, Building, Writing
  <2>5. SharedTypeOK'
    BY <1>1, <1>3, <1>6 DEF SharedTypeOK, world
  <2> QED BY <1>1, <1>2, <1>6, <2>2, <2>3, <2>4, <2>5, QuietStep DEF world
<1>7. CASE SealContent(p, art[a], art[a]) /\ UNCHANGED job
  <2>1. /\ JobTypeOK' /\ JobsKept(p) /\ LayersOf(p)' /\ IdOf(p)' /\ BatchOf(p)'
        /\ seals' = seals + 1 /\ rec'[p].id = seals + 1 /\ ~Writing(p)'
    BY <1>1, <1>3, <1>7, SealContentMine
  <2>2. SharedTypeOK'
    BY <1>1, <1>3, <2>1 DEF SharedTypeOK, world
  <2> QED BY <1>1, <1>2, <2>1, <2>2, QuietStep DEF world
<1> QED BY <1>5, <1>6, <1>7 DEF Read

LEMMA EmbedTruncateKeeps ==
    ASSUME IInv, NEW p \in Proc, EmbedTruncate(p)
    PROVE  Keeps(p)
<1>1. /\ pc[p] = "embedTrunc" /\ art' = [art EXCEPT ![Current(p)] = Partial]
      /\ Goto(p, "embedWrite") /\ UNCHANGED <<log, shards, edits, job, rec, made, count, store>>
  BY DEF EmbedTruncate
<1>2. Working(p) /\ ~Writing(p)
  BY <1>1 DEF Working, Writing
<1>3. JobTypeOK /\ SharedTypeOK
  BY <1>2, WorkingFacts
<1>4. JobTypeOK' /\ JobsKept(p)
  BY <1>1, <1>3 DEF JobTypeOK, Goto, job, JobsKept, Label
<1>5. BatchOf(p)' /\ ~Writing(p)' /\ pc'[p] = "embedWrite"
  BY <1>1, <1>2, <1>4, GotoMine DEF Label
<1>6. LayersOf(p)' /\ IdOf(p)' /\ ~Sealed(p)'
  BY <1>5 DEF LayersOf, IdOf, Sealed, Building, Writing
<1>7. SharedTypeOK' /\ seals' = seals
  BY <1>1, <1>3 DEF SharedTypeOK, Partial, count
<1> QED BY <1>1, <1>2, <1>4, <1>5, <1>6, <1>7, QuietStep

LEMMA EmbedWriteKeeps ==
    ASSUME IInv, NEW p \in Proc, EmbedWrite(p)
    PROVE  Keeps(p)
<1> DEFINE a == Current(p)
<1>1. /\ pc[p] = "embedWrite" /\ contents' = contents + 2
      /\ art' \in {[art EXCEPT ![a] = c] : c \in Written(a, contents + 1)}
      /\ SealContent(p, rec[p].read, contents + 1)
      /\ UNCHANGED <<log, shards, edits, job, made, taken, store>>
  BY DEF EmbedWrite
<1>2. Working(p) /\ ~Writing(p)
  BY <1>1 DEF Working, Writing
<1>3. JobTypeOK /\ SharedTypeOK /\ a \in Artifact /\ art[a] \in Nat /\ contents \in Nat
      /\ rec[p].read \in Nat
  BY <1>2, WorkingFacts DEF SharedTypeOK, Record
<1>4. /\ JobTypeOK' /\ JobsKept(p) /\ LayersOf(p)' /\ IdOf(p)' /\ BatchOf(p)'
      /\ seals' = seals + 1 /\ rec'[p].id = seals + 1 /\ ~Writing(p)'
  BY <1>1, <1>3, SealContentMine
<1>5. Written(a, contents + 1) \subseteq Nat
  BY <1>3 DEF Written, NoFile
<1>6. art' \in [Artifact -> Nat]
  BY <1>1, <1>3, <1>5 DEF SharedTypeOK
<1>7. SharedTypeOK'
  BY <1>1, <1>3, <1>4, <1>6 DEF SharedTypeOK
<1> QED BY <1>1, <1>2, <1>4, <1>7, QuietStep

LEMMA EmbedFailsKeeps ==
    ASSUME IInv, NEW p \in Proc, EmbedFails(p)
    PROVE  Keeps(p)
<1>1. /\ pc[p] \in {"embedTrunc", "embedWrite"} /\ Conclude(p, ErrorKind(mode[p], FALSE))
      /\ UNCHANGED <<world, made, count, store>>
  BY DEF EmbedFails
<1>2. Working(p) /\ ~Writing(p)
  BY <1>1 DEF Working, Writing
<1>3. log \subseteq 1..seals
  BY <1>2, WorkingFacts DEF SharedTypeOK
<1> QED BY <1>1, <1>2, <1>3, ErrorKinds, QuietConclude DEF world

LEMMA TsaKeeps ==
    ASSUME IInv, NEW p \in Proc, Tsa(p)
    PROVE  Keeps(p)
<1>1. pc[p] = "tsa" /\ UNCHANGED <<world, made, count, store>>
  BY DEF Tsa
<1>2. Working(p) /\ ~Writing(p)
  BY <1>1 DEF Working, Writing
<1>3. SharedTypeOK /\ SharedTypeOK' /\ seals' = seals /\ log' = log
  BY <1>1, <1>2, WorkingFacts DEF SharedTypeOK, world, count
<1>4. CASE AddLayer(p, "tsa")
  <2>1. /\ JobTypeOK' /\ JobsKept(p) /\ LayersOf(p)' /\ IdOf(p)' /\ BatchOf(p)'
        /\ Sealed(p) /\ rec'[p].id = rec[p].id /\ ~Writing(p)'
    BY <1>1, <1>3, <1>4, AddLayerMine
  <2> QED BY <1>1, <1>2, <1>3, <2>1, QuietStep
<1>5. CASE Conclude(p, ErrorKind(mode[p], FALSE))
  BY <1>1, <1>2, <1>3, <1>5, ErrorKinds, QuietConclude DEF world, SharedTypeOK
<1> QED BY <1>4, <1>5 DEF Tsa

LEMMA CheckShardKeeps ==
    ASSUME IInv, NEW p \in Proc, CheckShard(p)
    PROVE  Keeps(p)
<1>1. pc[p] = "shard" /\ UNCHANGED <<world, made, count, store>>
  BY DEF CheckShard
<1>2. Working(p) /\ ~Writing(p)
  BY <1>1 DEF Working, Writing
<1>3. JobTypeOK /\ SharedTypeOK /\ SharedTypeOK' /\ seals' = seals /\ log' = log
      /\ LayersOf(p) /\ IdOf(p)
  BY <1>1, <1>2, WorkingFacts DEF SharedTypeOK, world, count
<1>4. CASE Goto(p, "submit") /\ UNCHANGED <<job, rec>>
  <2>1. JobTypeOK' /\ JobsKept(p)
    BY <1>3, <1>4 DEF JobTypeOK, Goto, job, JobsKept, Label
  <2>2. BatchOf(p)' /\ ~Writing(p)' /\ pc'[p] = "submit"
    BY <1>2, <1>4, GotoMine DEF Label
  <2>3. LayersOf(p)' /\ IdOf(p)' /\ Sealed(p) /\ rec'[p].id = rec[p].id
    BY <1>1, <1>3, <1>4, <2>2 DEF LayersOf, IdOf, Sealed, Building, Writing, job
  <2> QED BY <1>1, <1>2, <1>3, <2>1, <2>2, <2>3, QuietStep
<1>5. CASE Conclude(p, ErrorKind(mode[p], FALSE))
  BY <1>1, <1>2, <1>3, <1>5, ErrorKinds, QuietConclude DEF world, SharedTypeOK
<1> QED BY <1>4, <1>5 DEF CheckShard

LEMMA SubmitKeeps ==
    ASSUME IInv, NEW p \in Proc, Submit(p)
    PROVE  Keeps(p)
<1>1. /\ pc[p] = "submit" /\ UNCHANGED <<art, shards, edits, made, count, store>>
      /\ log \subseteq log' /\ log' \subseteq log \cup {rec[p].id}
  BY DEF Submit
<1>2. Working(p) /\ ~Writing(p) /\ Sealed(p)
  BY <1>1 DEF Working, Writing, Sealed, Building
<1>3. SharedTypeOK /\ seals' = seals /\ rec[p].id \in 1..seals
  BY <1>1, <1>2, WorkingFacts DEF IdOf, count
<1>4. log' \subseteq 1..seals /\ SharedTypeOK'
  BY <1>1, <1>3 DEF SharedTypeOK, count
<1>5. CASE log' = log \cup {rec[p].id} /\ AddLayer(p, "rekor")
  <2>1. /\ JobTypeOK' /\ JobsKept(p) /\ LayersOf(p)' /\ IdOf(p)' /\ BatchOf(p)'
        /\ Sealed(p) /\ rec'[p].id = rec[p].id /\ ~Writing(p)'
    BY <1>1, <1>3, <1>5, AddLayerMine
  <2> QED BY <1>1, <1>2, <1>3, <1>4, <2>1, QuietStep
<1>6. CASE Conclude(p, ErrorKind(mode[p], FALSE))
  BY <1>1, <1>2, <1>4, <1>6, ErrorKinds, QuietConclude
<1> QED BY <1>5, <1>6 DEF Submit

\* The receipt is truncated, and what will be in it is fixed.
LEMMA WriteReceiptKeeps ==
    ASSUME IInv, NEW p \in Proc, WriteReceipt(p)
    PROVE  Keeps(p)
<1> DEFINE a == Current(p)
           i == rec[p].id
<1>1. /\ pc[p] = "receipt" /\ Index!SealTruncate(p, a, Item(p), i)
      /\ made' = [j \in DOMAIN made \cup {i} |-> IF j = i THEN WrittenOut(p) ELSE made[j]]
      /\ pc' = [pc EXCEPT ![p] = "save"]
      /\ UNCHANGED <<world, job, rec, count>>
  BY DEF WriteReceipt, Goto
<1>2. Working(p) /\ Building(p) /\ Sealed(p)
  BY <1>1 DEF Working, Sealed, Building
<1>3. /\ JobTypeOK /\ SharedTypeOK /\ Index!TypeOK /\ LayersOf(p) /\ IdOf(p) /\ BatchOf(p)
      /\ a \in Artifact /\ Item(p) \in Name /\ mode[p] \in Mode /\ rec[p] \in Record
  BY <1>2, WorkingFacts
<1>4. i \in 1..seals /\ i \notin DOMAIN made /\ i \in Nat \ {0} /\ seals \in Nat
  BY <1>2, <1>3 DEF IdOf, SharedTypeOK
<1>5. /\ Index!TypeOK'
      /\ rcpt' = [rcpt EXCEPT ![a] = Index!Torn]
      /\ Index!Busy(seal'[p])
      /\ seal'[p].pc = "write" /\ seal'[p].f = a /\ seal'[p].id = i
      /\ \A q \in Proc \ {p} : CallKept(q)
  BY <1>1, <1>3, <1>4, TruncateStep
<1>6. DOMAIN made' = DOMAIN made \cup {i} /\ made'[i] = WrittenOut(p)
      /\ \A j \in DOMAIN made : made'[j] = made[j]
  BY <1>1, <1>4
<1>7. WrittenOut(p) \in MadeRecord
  BY <1>3, AskedType DEF WrittenOut, MadeRecord, Record, Mode
<1>8. made' \in [DOMAIN made' -> MadeRecord]
  BY <1>1, <1>3, <1>6, <1>7 DEF SharedTypeOK
<1>9. SharedTypeOK'
  BY <1>1, <1>3, <1>4, <1>6, <1>8 DEF SharedTypeOK, world, count
<1>10. JobTypeOK' /\ pc'[p] = "save" /\ rec' = rec /\ mode' = mode /\ todo' = todo
       /\ inputs' = inputs /\ done' = done /\ log' = log /\ seals' = seals
  BY <1>1, <1>3 DEF JobTypeOK, Label, job, world, count
<1>11. Grows
  BY <1>6, <1>10 DEF Grows
<1>12. KeptBut(p)
  BY <1>1, <1>3, <1>5, <1>10 DEF KeptBut, JobTypeOK
<1>13. StepOf(p)
  BY <1>2, <1>6, <1>10, <1>11, <1>12 DEF StepOf
<1>14. LayersOf(p)' /\ IdOf(p)' /\ BatchOf(p)'
  BY <1>1, <1>3, <1>4, <1>10 DEF LayersOf, IdOf, Sealed, Building, Writing, BatchOf, Working,
                                Stopped
<1>15. CallOf(p)'
  BY <1>5, <1>6, <1>10 DEF CallOf, Writing, Current, Item, WrittenOut
<1>16. MadeInv'
  <2>1. made'[i].layers = made'[i].asked /\ ("rekor" \in made'[i].layers => i \in log')
    BY <1>1, <1>3, <1>6, <1>10, AskedLayers DEF LayersOf, WrittenOut
  <2>2. \A j \in DOMAIN made' : /\ made'[j].layers = made'[j].asked
                                /\ "rekor" \in made'[j].layers => j \in log'
    BY <2>1, <1>6, <1>10 DEF IInv, MadeInv
  <2>3. ASSUME NEW b \in Artifact, rcpt'[b].st = "full"
        PROVE  rcpt'[b].id \in DOMAIN made' /\ made'[rcpt'[b].id].art = b
    <3>1. rcpt'[b] = rcpt[b]
      BY <1>3, <1>5, <2>3 DEF Index!TypeOK, Index!Torn
    <3> QED BY <3>1, <2>3, <1>6 DEF IInv, MadeInv
  <2> QED BY <2>2, <2>3 DEF MadeInv
<1>17. TypeOK'
  BY <1>5, <1>9, <1>10, TypePartsNext
<1> QED BY <1>13, <1>14, <1>15, <1>16, <1>17 DEF Keeps, Mine

\* The receipt is written over whatever is there.
LEMMA WholeReceiptKeeps ==
    ASSUME IInv, NEW p \in Proc, Writing(p), Index!SealWrite(p),
           UNCHANGED <<pc, job, rec, world, made, count>>
    PROVE  Keeps(p)
<1>1. /\ JobTypeOK /\ SharedTypeOK /\ Index!TypeOK /\ CallOf(p) /\ Current(p) \in Artifact
      /\ Mine(p)
  BY WorkingFacts DEF Working, Writing, IInv
<1>2. /\ Index!TypeOK'
      /\ \/ rcpt' = [rcpt EXCEPT ![seal[p].f] = Index!Full(seal[p].id)]
         \/ rcpt' = [rcpt EXCEPT ![seal[p].f] = Index!Garbled]
      /\ Index!Busy(seal'[p])
      /\ seal'[p].f = seal[p].f /\ seal'[p].id = seal[p].id
      /\ \A q \in Proc \ {p} : CallKept(q)
  BY <1>1, WriteStep
<1>3. seal[p].f = Current(p) /\ seal[p].id = rec[p].id /\ rec[p].id \in DOMAIN made
      /\ made[rec[p].id].art = Current(p)
  BY <1>1 DEF CallOf, WrittenOut
<1>4. /\ JobTypeOK' /\ SharedTypeOK'
  BY <1>1 DEF JobTypeOK, SharedTypeOK, job, world, count
<1>5. Grows /\ KeptBut(p)
  BY <1>2 DEF Grows, KeptBut, job, world, count
<1>6. StepOf(p)
  BY <1>5 DEF StepOf, Sealed, Writing
<1>7. LayersOf(p)' /\ IdOf(p)' /\ BatchOf(p)'
  BY <1>1 DEF Mine, LayersOf, IdOf, BatchOf, Sealed, Building, Writing, Working, Stopped, job,
              world, count
<1>8. CallOf(p)'
  BY <1>1, <1>2 DEF CallOf, Writing, Current, Item, WrittenOut, job
<1>9. MadeInv'
  <2>1. ASSUME NEW b \in Artifact, rcpt'[b].st = "full"
        PROVE  rcpt'[b].id \in DOMAIN made /\ made[rcpt'[b].id].art = b
    <3>1. CASE b = Current(p)
      <4>1. rcpt'[b] \in {Index!Full(seal[p].id), Index!Garbled}
        BY <1>1, <1>2, <1>3, <3>1 DEF Index!TypeOK
      <4>2. rcpt'[b].id = rec[p].id
        BY <4>1, <2>1, <1>3 DEF Index!Full, Index!Garbled
      <4> QED BY <4>2, <3>1, <1>3
    <3>2. CASE b # Current(p)
      <4>1. rcpt'[b] = rcpt[b]
        BY <1>1, <1>2, <1>3, <3>2 DEF Index!TypeOK
      <4> QED BY <4>1, <2>1 DEF IInv, MadeInv
    <3> QED BY <3>1, <3>2
  <2> QED BY <2>1 DEF IInv, MadeInv, world
<1>10. TypeOK'
  BY <1>2, <1>4, TypePartsNext
<1> QED BY <1>6, <1>7, <1>8, <1>9, <1>10 DEF Keeps, Mine

\* The call is over, and the artifact concluded.
LEMMA LeaveConclude ==
    ASSUME IInv, NEW p \in Proc, Writing(p), NEW kind \in Kind, Conclude(p, kind),
           Index!SealInsert(p) \/ Index!SealUnindexed(p) \/ Index!SealStop(p),
           UNCHANGED <<world, made, count>>
    PROVE  Keeps(p)
<1>1. Working(p)
  BY DEF Working, Writing
<1>2. SharedTypeOK /\ Index!TypeOK
  BY <1>1, WorkingFacts
<1>3. /\ JobTypeOK' /\ JobsKept(p) /\ LayersOf(p)' /\ BatchOf(p)' /\ ~Sealed(p)' /\ IdOf(p)'
  BY <1>1, ConcludeMine
<1>4. /\ Index!TypeOK' /\ ~Index!Busy(seal'[p]) /\ rcpt' = rcpt
      /\ \A q \in Proc \ {p} : CallKept(q)
  BY <1>2, LeaveStep
<1>5. SharedTypeOK' /\ TypeOK'
  BY <1>2, <1>3, <1>4, TypePartsNext DEF SharedTypeOK, world, count
<1>6. Grows
  BY DEF Grows, world, count
<1>7. StepOf(p)
  BY <1>3, <1>4, <1>6 DEF StepOf, KeptBut, JobsKept
<1>8. CallOf(p)'
  BY <1>3, <1>4 DEF CallOf, Sealed, Writing
<1>9. MadeInv'
  BY <1>4, <1>6, MadeKept
<1> QED BY <1>3, <1>5, <1>7, <1>8, <1>9 DEF Keeps, Mine

LEMMA SaveReceiptKeeps ==
    ASSUME IInv, NEW p \in Proc, SaveReceipt(p)
    PROVE  Keeps(p)
<1>1. Writing(p) /\ UNCHANGED <<world, made, count>>
  BY DEF SaveReceipt, Writing
<1>2. CASE Index!SealWrite(p) /\ UNCHANGED <<pc, job, rec>>
  BY <1>1, <1>2, WholeReceiptKeeps
<1>3. CASE (Index!SealInsert(p) \/ Index!SealUnindexed(p)) /\ Conclude(p, "ok")
  BY <1>1, <1>3, LeaveConclude DEF Kind
<1> QED BY <1>2, <1>3 DEF SaveReceipt

LEMMA AnswerKinds == ASSUME NEW p PROVE Answers(p) \subseteq {"ok", "unverified", "schema"}
BY DEF Answers

LEMMA AnswerKeeps ==
    ASSUME IInv, NEW p \in Proc, Answer(p)
    PROVE  Keeps(p)
<1>1. Writing(p) /\ Index!SealUnindexed(p) /\ UNCHANGED <<world, made, count>>
  BY DEF Answer, Writing
<1>2. PICK kind \in Answers(p) : Conclude(p, kind)
  BY DEF Answer
<1>3. kind \in Kind
  BY AnswerKinds DEF Kind
<1> QED BY <1>1, <1>2, <1>3, LeaveConclude

LEMMA SaveFailsKeeps ==
    ASSUME IInv, NEW p \in Proc, SaveFails(p)
    PROVE  Keeps(p)
<1>1. Writing(p) /\ Index!SealStop(p) /\ UNCHANGED <<world, made, count>>
  BY DEF SaveFails, Writing
<1>2. Conclude(p, "schema") \/ Conclude(p, "ok")
  BY DEF SaveFails
<1> QED BY <1>1, <1>2, LeaveConclude DEF Kind

\* The process is idle again, and keeps nothing of its batch.
LEMMA IdleMine ==
    ASSUME IInv, NEW p \in Proc, Goto(p, "idle"),
           todo' = [todo EXCEPT ![p] = {}], done' = [done EXCEPT ![p] = {}],
           inputs' = [inputs EXCEPT ![p] = {}], mode' = [mode EXCEPT ![p] = NoMode],
           rec' = rec \/ rec' = [rec EXCEPT ![p] = NoRecord]
    PROVE  /\ JobTypeOK' /\ JobsKept(p) /\ LayersOf(p)' /\ IdOf(p)' /\ BatchOf(p)'
           /\ ~Sealed(p)'
<1>1. JobTypeOK
  BY TypeParts DEF IInv
<1>2. JobTypeOK'
  BY <1>1 DEF JobTypeOK, Goto, Label, NoMode, Mode, NoRecord, Record
<1>3. JobsKept(p)
  BY <1>1 DEF JobsKept, JobTypeOK, Goto
<1>4. pc'[p] = "idle" /\ todo'[p] = {} /\ done'[p] = {} /\ inputs'[p] = {}
  BY <1>1 DEF JobTypeOK, Goto
<1>5. LayersOf(p)' /\ IdOf(p)' /\ ~Sealed(p)'
  BY <1>4 DEF LayersOf, IdOf, Sealed, Building, Writing
<1>6. BatchOf(p)'
  BY <1>4 DEF BatchOf, Working, NamesOf, Stopped
<1> QED BY <1>2, <1>3, <1>5, <1>6

LEMMA ReportKeeps ==
    ASSUME IInv, NEW p \in Proc, Report(p)
    PROVE  Keeps(p)
<1>1. /\ pc[p] = "report" /\ Goto(p, "idle") /\ rec' = rec
      /\ todo' = [todo EXCEPT ![p] = {}] /\ done' = [done EXCEPT ![p] = {}]
      /\ inputs' = [inputs EXCEPT ![p] = {}] /\ mode' = [mode EXCEPT ![p] = NoMode]
      /\ UNCHANGED <<world, made, count, store>>
  BY DEF Report
<1>2. /\ JobTypeOK' /\ JobsKept(p) /\ LayersOf(p)' /\ IdOf(p)' /\ BatchOf(p)' /\ ~Sealed(p)'
  BY <1>1, IdleMine
<1>3. SharedTypeOK' /\ log' = log /\ seals' = seals
  BY <1>1, TypeParts DEF IInv, SharedTypeOK, world, count
<1>4. ~Writing(p) /\ ~Writing(p)'
  BY <1>1, <1>2 DEF Writing, Sealed
<1> QED BY <1>1, <1>2, <1>3, <1>4, QuietStep

LEMMA CrashKeeps ==
    ASSUME IInv, NEW p \in Proc, Crash(p)
    PROVE  Keeps(p)
<1>1. /\ Working(p) /\ Goto(p, "idle") /\ rec' = [rec EXCEPT ![p] = NoRecord]
      /\ todo' = [todo EXCEPT ![p] = {}] /\ done' = [done EXCEPT ![p] = {}]
      /\ inputs' = [inputs EXCEPT ![p] = {}] /\ mode' = [mode EXCEPT ![p] = NoMode]
      /\ UNCHANGED <<world, made, count>>
      /\ IF Writing(p) THEN Index!SealStop(p) ELSE UNCHANGED store
  BY DEF Crash, Working, Writing
<1>2. /\ JobTypeOK' /\ JobsKept(p) /\ LayersOf(p)' /\ IdOf(p)' /\ BatchOf(p)' /\ ~Sealed(p)'
  BY <1>1, IdleMine
<1>3. SharedTypeOK' /\ log' = log /\ seals' = seals
  BY <1>1, TypeParts DEF IInv, SharedTypeOK, world, count
<1>4. ~Writing(p)'
  BY <1>2 DEF Sealed
<1>5. CASE ~Writing(p)
  BY <1>1, <1>2, <1>3, <1>4, <1>5, QuietStep
<1>6. CASE Writing(p)
  <2>1. /\ Index!TypeOK' /\ ~Index!Busy(seal'[p]) /\ rcpt' = rcpt
        /\ \A q \in Proc \ {p} : CallKept(q)
    BY <1>1, <1>6, LeaveStep, TypeParts DEF IInv
  <2>2. TypeOK'
    BY <1>2, <1>3, <2>1, TypePartsNext
  <2>3. Grows
    BY <1>1, <1>3 DEF Grows
  <2>4. StepOf(p)
    BY <1>1, <1>2, <2>1, <2>3 DEF StepOf, KeptBut, JobsKept
  <2>5. CallOf(p)'
    BY <1>4, <2>1 DEF CallOf
  <2>6. MadeInv'
    BY <1>1, <2>1, <2>3, MadeKept
  <2> QED BY <1>2, <2>2, <2>4, <2>5, <2>6 DEF Keeps, Mine
<1> QED BY <1>5, <1>6

-----------------------------------------------------------------------------
(* The invariant *)

LEMMA InitIInv == ASSUME SealingAssumption, Init PROVE IInv
<1>1. /\ art \in [Artifact -> {NoFile, 2}] /\ log = {} /\ shards \in {"lists", "none"}
      /\ pc = [p \in Proc |-> "idle"] /\ mode = [p \in Proc |-> NoMode]
      /\ inputs = [p \in Proc |-> {}] /\ todo = [p \in Proc |-> {}]
      /\ done = [p \in Proc |-> {}] /\ rec = [p \in Proc |-> NoRecord]
      /\ made = [i \in {} |-> <<>>]
      /\ taken = 0 /\ seals = 0 /\ contents = 2 /\ edits = 0
  BY DEF Init
<1>2. /\ rcpt = [a \in Artifact |-> Index!Absent] /\ rows = [x \in Name |-> 0]
      /\ seal = [p \in Proc |-> Index!Idle] /\ reb = [r \in {} |-> Index!Idle]
  BY DEF Init, Index!Init, Index!NoRows
<1>3. Index!TypeOK
  BY <1>2 DEF Index!TypeOK, Index!Absent, Index!FileState
<1>4. JobTypeOK
  BY <1>1 DEF JobTypeOK, Label, NoMode, Mode, NoRecord, Record
<1>5. DOMAIN made = {}
  BY <1>1
<1>6. art \in [Artifact -> Nat]
  BY <1>1 DEF NoFile
<1>7. SharedTypeOK
  BY <1>1, <1>5, <1>6 DEF SharedTypeOK, SealingAssumption
<1>8. \A p \in Proc : Mine(p)
  BY <1>1, <1>2 DEF Mine, LayersOf, IdOf, CallOf, BatchOf, Sealed, Building, Writing, Working,
                    Stopped, NamesOf, Index!Busy
<1>9. IdsApart
  BY <1>1 DEF IdsApart, Sealed, Building, Writing
<1>10. MadeInv
  BY <1>2, <1>5 DEF MadeInv, Index!Absent
<1> QED BY <1>3, <1>4, <1>7, <1>8, <1>9, <1>10, TypeParts DEF IInv

\* A step of nobody here: of an artifact's owner, of the log's operator, or none.
LEMMA OutsideKeeps ==
    ASSUME IInv, SharedTypeOK', UNCHANGED <<log, pc, job, rec, made, seals, store>>
    PROVE  IInv'
<1>1. JobTypeOK' /\ Index!TypeOK'
  BY TypeParts, StoreSame DEF IInv, JobTypeOK, job
<1>2. TypeOK'
  BY <1>1, TypePartsNext
<1>3. \A p \in Proc : Mine(p)'
  BY DEF IInv, Mine, LayersOf, IdOf, CallOf, BatchOf, Sealed, Building, Writing, Working,
         Stopped, Current, Item, WrittenOut, job, store
<1>4. IdsApart' /\ MadeInv'
  BY DEF IInv, IdsApart, MadeInv, Sealed, Building, Writing, store
<1> QED BY <1>2, <1>3, <1>4 DEF IInv

\* The steps of a process.
StepBy(p) == Start(p) \/ Local(p) \/ Remote(p) \/ Crash(p)

LEMMA ProcessKeeps ==
    ASSUME IInv, SealingAssumption, NEW p \in Proc, StepBy(p)
    PROVE  Keeps(p)
<1>1. CASE Start(p)
  BY <1>1, StartSealKeeps, CallToolKeeps DEF Start
<1>2. CASE Local(p)
  BY <1>2, ReadKeeps, EmbedTruncateKeeps, EmbedWriteKeeps, EmbedFailsKeeps, WriteReceiptKeeps,
     SaveReceiptKeeps, AnswerKeeps, SaveFailsKeeps, ReportKeeps DEF Local
<1>3. CASE Remote(p)
  BY <1>3, TsaKeeps, CheckShardKeeps, SubmitKeeps DEF Remote
<1>4. CASE Crash(p)
  BY <1>4, CrashKeeps
<1> QED BY <1>1, <1>2, <1>3, <1>4 DEF StepBy

LEMMA NextIInv == ASSUME IInv, SealingAssumption, [Next]_vars PROVE IInv'
<1>1. ASSUME NEW p \in Proc, StepBy(p) PROVE IInv'
  BY <1>1, ProcessKeeps, OthersKept DEF Keeps, IInv
<1>2. ASSUME NEW a \in Artifact, Edit(a) PROVE IInv'
  <2>1. SharedTypeOK /\ edits < MaxEdits /\ edits' = edits + 1
        /\ UNCHANGED <<log, shards, pc, job, rec, made, taken, seals, store>>
    BY <1>2, TypeParts DEF IInv, Edit
  <2>2. contents' \in Nat /\ art' \in [Artifact -> Nat]
    BY <1>2, <2>1 DEF Edit, SharedTypeOK, NoFile
  <2>3. SharedTypeOK'
    BY <2>1, <2>2 DEF SharedTypeOK, SealingAssumption
  <2> QED BY <2>1, <2>3, OutsideKeeps
<1>3. CASE RotateShard
  <2>1. SharedTypeOK'
    BY <1>3, TypeParts DEF IInv, RotateShard, SharedTypeOK, count
  <2> QED BY <1>3, <2>1, OutsideKeeps DEF RotateShard, count
<1>4. CASE UNCHANGED vars
  <2>1. SharedTypeOK'
    BY <1>4, TypeParts DEF IInv, vars, world, count, SharedTypeOK
  <2> QED BY <1>4, <2>1, OutsideKeeps DEF vars, world, count
<1> QED BY <1>1, <1>2, <1>3, <1>4 DEF Next, StepBy

-----------------------------------------------------------------------------
(* The theorems, whatever runs beside a call, fails, dies or is edited *)

\* The invariant holds in every state of a behaviour.
THEOREM Invariance == Spec => []IInv
<1>1. Init => IInv
  BY SealingAssumption, InitIInv
<1>2. IInv /\ [Next]_vars => IInv'
  BY SealingAssumption, NextIInv
<1> QED BY <1>1, <1>2, PTL DEF Spec

\* Every variable keeps its type; in particular nothing that is no record is ever
\* written out, and no row or receipt names a seal that was not computed.
THEOREM TypeCorrect == Spec => []TypeOK
<1>1. IInv => TypeOK
  BY DEF IInv
<1> QED BY <1>1, Invariance, PTL

\* A receipt that can be read carries every layer that was asked for, is that of the
\* artifact beside it, and claims an anchor only of an entry that the log has.
THEOREM SealsAreReal == Spec => []RealOrAbort
<1>1. IInv => RealOrAbort
  BY DEF IInv, MadeInv, RealOrAbort
<1> QED BY <1>1, Invariance, PTL

\* Of what the inputs came to, nothing is skipped in silence or has two outcomes,
\* exit code 0 means that all of it was sealed, and --fail-fast goes on after no
\* failure.
THEOREM NoneSkipped == Spec => []NothingSkipped
<1>1. ASSUME IInv, NEW p \in Proc, pc[p] = "report", NEW failed,
             failed = {o \in done[p] : o.kind # "ok"}
      PROVE  /\ ExitCode(p) = 0 => inputs[p] \subseteq {o.name : o \in done[p] \ failed}
             /\ ~mode[p].failFast => {o.name : o \in done[p]} = inputs[p]
             /\ mode[p].failFast => \A o1, o2 \in failed : o1 = o2
             /\ \A o1, o2 \in done[p] : o1.name = o2.name => o1 = o2
  <2>1. BatchOf(p)
    BY <1>1 DEF IInv, Mine
  <2>2. ~Stopped(p) => NamesOf(done[p]) = inputs[p]
    BY <1>1, <2>1 DEF BatchOf
  <2>3. ASSUME ExitCode(p) = 0
        PROVE  inputs[p] \subseteq {o.name : o \in done[p] \ failed}
    <3>1. Kinds(p) \subseteq {"ok"}
      BY <2>3 DEF ExitCode
    <3>2. \A o \in done[p] : o.kind = "ok"
      BY <3>1 DEF Kinds
    <3>3. done[p] \ failed = done[p] /\ ~Stopped(p)
      BY <1>1, <3>2 DEF Stopped
    <3> QED BY <3>3, <2>2 DEF NamesOf
  <2>4. ~mode[p].failFast => {o.name : o \in done[p]} = inputs[p]
    BY <2>2 DEF Stopped, NamesOf
  <2>5. mode[p].failFast => \A o1, o2 \in failed : o1 = o2
    BY <1>1, <2>1 DEF BatchOf
  <2> QED BY <2>1, <2>3, <2>4, <2>5 DEF BatchOf
<1>2. IInv => NothingSkipped
  BY <1>1 DEF NothingSkipped
<1> QED BY <1>2, Invariance, PTL

-----------------------------------------------------------------------------
(* Calls made one at a time, beside which nobody edits *)

Undisturbed == Serial /\ MaxEdits = 0

\* What was reported of an artifact that has one name in the batch stays true.
LEMMA DoneKept ==
    ASSUME IInv, NEW p \in Proc, Working(p), DoneOf(p), done'[p] = done[p],
           inputs'[p] = inputs[p], mode'[p] = mode[p],
           \A i \in DOMAIN made : made'[i] = made[i],
           \A b \in Artifact \ {Current(p)} : art'[b] = art[b] /\ rcpt'[b] = rcpt[b]
    PROVE  DoneOf(p)'
<1>1. /\ NamesOf(done[p]) \subseteq inputs[p] \ todo[p] /\ todo[p] \subseteq inputs[p]
      /\ Item(p) \in todo[p] /\ Current(p) = ArtOf[Item(p)]
  BY WorkingFacts DEF BatchOf
<1>2. ASSUME NEW o \in done[p], o.kind = "ok", OnlyName(p, o.name)
      PROVE  LET a == ArtOf[o.name] IN
             rcpt'[a].st = "full" /\ made'[rcpt'[a].id].hash = art'[a]
  <2> DEFINE a == ArtOf[o.name]
  <2>1. o.name # Item(p)
    BY <1>1 DEF NamesOf
  <2>2. a # Current(p)
    BY <1>1, <1>2, <2>1 DEF OnlyName
  <2>3. a \in Artifact
    BY WorkingFacts, SealingAssumption DEF JobTypeOK, Outcome, SealingAssumption
  <2>4. art'[a] = art[a] /\ rcpt'[a] = rcpt[a]
    BY <2>2, <2>3
  <2>5. rcpt[a].st = "full" /\ made[rcpt[a].id].hash = art[a]
    BY <1>2 DEF DoneOf
  <2> QED BY <2>3, <2>4, <2>5 DEF IInv, MadeInv
<1>3. \A n : OnlyName(p, n)' <=> OnlyName(p, n)
  BY DEF OnlyName
<1>4. \A o \in done[p] : o.kind = "unverified" => mode'[p].rekor /\ ~mode'[p].pinned
  BY DEF DoneOf
<1> QED BY <1>2, <1>3, <1>4 DEF DoneOf

\* A seal is reported as sealed once its receipt is written.
LEMMA ConcludeSerial ==
    ASSUME IInv, NEW p \in Proc, Working(p), FreshOf(p), DoneOf(p),
           NEW kind \in Kind, Conclude(p, kind),
           kind = "unverified" => mode[p].rekor /\ ~mode[p].pinned,
           kind = "ok" => Writing(p) /\ seal[p].pc = "insert",
           art' = art, rcpt' = rcpt, made' = made
    PROVE  FreshOf(p)' /\ DoneOf(p)'
<1> DEFINE a == Current(p)
           o == OutcomeOf(p, kind)
<1>1. /\ done'[p] = done[p] \cup {o} /\ ~Sealed(p)' /\ JobTypeOK
      /\ a = ArtOf[Item(p)]
  BY ConcludeMine, WorkingFacts
<1>2. pc'[p] # "embedWrite" /\ ~Writing(p)' /\ mode' = mode /\ inputs' = inputs
  BY <1>1 DEF Conclude, Goto, JobTypeOK, Sealed
<1>3. FreshOf(p)'
  BY <1>1, <1>2 DEF FreshOf
<1>4. o.name = Item(p) /\ o.kind = kind
  BY DEF OutcomeOf
<1>5. kind = "ok" => rcpt[a].st = "full" /\ made[rcpt[a].id].hash = art[a]
  <2> SUFFICES ASSUME kind = "ok" PROVE rcpt[a].st = "full" /\ made[rcpt[a].id].hash = art[a]
    OBVIOUS
  <2>1. rcpt[a] = Index!Full(rec[p].id) /\ rec[p].hash = art[a]
    BY DEF FreshOf, Sealed
  <2>2. CallOf(p) /\ Writing(p)
    BY WorkingFacts
  <2>3. made[rec[p].id] = WrittenOut(p)
    BY <2>2 DEF CallOf
  <2>4. made[rec[p].id].hash = rec[p].hash
    BY <2>3 DEF WrittenOut
  <2> QED BY <2>1, <2>4 DEF Index!Full
<1>6. \A n : OnlyName(p, n)' <=> OnlyName(p, n)
  BY <1>2 DEF OnlyName
<1>7. \A x \in done'[p] : x.kind = "unverified" => mode'[p].rekor /\ ~mode'[p].pinned
  BY <1>1, <1>2, <1>4 DEF DoneOf
<1>8. \A x \in done'[p] : x.kind = "ok" /\ OnlyName(p, x.name) =>
          LET b == ArtOf[x.name] IN rcpt[b].st = "full" /\ made[rcpt[b].id].hash = art[b]
  BY <1>1, <1>4, <1>5 DEF DoneOf
<1> QED BY <1>3, <1>6, <1>7, <1>8 DEF DoneOf

\* The steps of a process that is at work.
LEMMA WorkSerial ==
    ASSUME IInv, NEW p \in Proc, Working(p), FreshOf(p), DoneOf(p), Local(p) \/ Remote(p)
    PROVE  FreshOf(p)' /\ DoneOf(p)'
<1> DEFINE a == Current(p)
<1>1. /\ JobTypeOK /\ SharedTypeOK /\ Index!TypeOK /\ CallOf(p)
      /\ Item(p) \in Name /\ a \in Artifact
  BY WorkingFacts
<1>2. CASE Read(p)
  <2>1. pc[p] = "read" /\ UNCHANGED <<world, made, store>>
    BY <1>2 DEF Read
  <2>2. CASE Conclude(p, ErrorKind(mode[p], FALSE)) \/ Conclude(p, ErrorKind(mode[p], TRUE))
    BY <2>1, <2>2, ErrorKinds, ConcludeSerial DEF world, store
  <2>3. CASE Goto(p, "embedTrunc") /\ UNCHANGED job
    <3>1. pc'[p] = "embedTrunc"
      BY <1>1, <2>3 DEF Goto, JobTypeOK
    <3> QED BY <3>1, <2>1, <2>3, DoneKept
            DEF FreshOf, Sealed, Building, Writing, world, store, job
  <2>4. CASE SealContent(p, art[a], art[a]) /\ UNCHANGED job
    <3>1. rec'[p].hash = art[a] /\ ~Writing(p)' /\ pc'[p] # "embedWrite"
      BY <1>1, <2>1, <2>4, SealContentMine, NextLayerLabel
         DEF SharedTypeOK, SealContent, Goto, JobTypeOK
    <3> QED BY <3>1, <2>1, <2>4, DoneKept DEF FreshOf, world, store, job, Current, Item
  <2> QED BY <1>2, <2>2, <2>3, <2>4 DEF Read
<1>3. CASE EmbedTruncate(p)
  <2>1. /\ pc'[p] = "embedWrite" /\ art' = [art EXCEPT ![a] = Partial]
        /\ UNCHANGED <<job, made, store>>
    BY <1>1, <1>3 DEF EmbedTruncate, Goto, JobTypeOK
  <2>2. art'[a] = Partial /\ \A b \in Artifact \ {a} : art'[b] = art[b]
    BY <1>1, <2>1 DEF SharedTypeOK
  <2> QED BY <2>1, <2>2, DoneKept
          DEF FreshOf, Sealed, Building, Writing, store, job, Current, Item
<1>4. CASE EmbedWrite(p)
  <2>1. /\ pc[p] = "embedWrite" /\ SealContent(p, rec[p].read, contents + 1)
        /\ art' \in {[art EXCEPT ![a] = c] : c \in Written(a, contents + 1)}
        /\ UNCHANGED <<job, made, store>>
    BY <1>4 DEF EmbedWrite
  <2>2. Written(a, contents + 1) = {contents + 1}
    BY <2>1 DEF FreshOf, Written, Partial, NoFile
  <2>3. art' = [art EXCEPT ![a] = contents + 1]
    BY <2>1, <2>2
  <2>4. art'[a] = contents + 1 /\ \A b \in Artifact \ {a} : art'[b] = art[b]
    BY <1>1, <2>3 DEF SharedTypeOK
  <2>5. rec'[p].hash = contents + 1 /\ ~Writing(p)' /\ pc'[p] # "embedWrite"
    <3>1. rec[p].read \in Nat /\ contents + 1 \in Nat
      BY <1>1, WorkingFacts DEF SharedTypeOK, Record
    <3>2. rec'[p].hash = contents + 1 /\ ~Writing(p)'
      BY <2>1, <3>1, SealContentMine
    <3>3. pc'[p] = NextLayer(mode[p], {})
      BY <1>1, <2>1 DEF SealContent, Goto, JobTypeOK
    <3> QED BY <3>2, <3>3, NextLayerLabel
  <2> QED BY <2>1, <2>4, <2>5, DoneKept DEF FreshOf, store, job, Current, Item
<1>5. CASE EmbedFails(p)
  BY <1>5, ErrorKinds, ConcludeSerial DEF EmbedFails, world, store
<1>6. CASE Tsa(p) \/ CheckShard(p) \/ Submit(p)
  <2>1. pc[p] \in {"tsa", "shard", "submit"} /\ UNCHANGED <<art, made, count, store>>
    BY <1>6 DEF Tsa, CheckShard, Submit, world
  <2>2. CASE Conclude(p, ErrorKind(mode[p], FALSE))
    BY <2>1, <2>2, ErrorKinds, ConcludeSerial DEF store
  <2>3. CASE Goto(p, "submit") /\ UNCHANGED <<job, rec>>
    <3>1. pc'[p] = "submit"
      BY <1>1, <2>3 DEF Goto, JobTypeOK
    <3> QED BY <3>1, <2>1, <2>3, DoneKept
            DEF FreshOf, Sealed, Building, Writing, store, job, Current, Item
  <2>4. CASE pc[p] = "tsa" /\ AddLayer(p, "tsa")
    <3>1. Sealed(p) /\ rec'[p].hash = rec[p].hash /\ ~Writing(p)' /\ pc'[p] # "embedWrite"
          /\ UNCHANGED job
      BY <1>1, <2>1, <2>4, AddLayerMine, NextLayerLabel DEF AddLayer, Goto, JobTypeOK, count
    <3> QED BY <3>1, <2>1, DoneKept DEF FreshOf, store, job, Current, Item
  <2>5. CASE pc[p] = "submit" /\ rec[p].id \in log' /\ AddLayer(p, "rekor")
    <3>1. Sealed(p) /\ rec'[p].hash = rec[p].hash /\ ~Writing(p)' /\ pc'[p] # "embedWrite"
          /\ UNCHANGED job
      BY <1>1, <2>1, <2>5, AddLayerMine, NextLayerLabel DEF AddLayer, Goto, JobTypeOK, count
    <3> QED BY <3>1, <2>1, DoneKept DEF FreshOf, store, job, Current, Item
  <2>6. CASE Tsa(p)
    BY <2>2, <2>4, <2>6 DEF Tsa
  <2>7. CASE CheckShard(p)
    BY <2>2, <2>3, <2>7 DEF CheckShard
  <2>8. CASE Submit(p)
    BY <2>2, <2>5, <2>8 DEF Submit
  <2> QED BY <1>6, <2>6, <2>7, <2>8
<1>7. CASE WriteReceipt(p)
  <2>1. /\ pc[p] = "receipt" /\ Index!SealTruncate(p, a, Item(p), rec[p].id)
        /\ pc'[p] = "save" /\ UNCHANGED <<world, job, rec>>
        /\ made' = [j \in DOMAIN made \cup {rec[p].id} |->
                      IF j = rec[p].id THEN WrittenOut(p) ELSE made[j]]
    BY <1>1, <1>7 DEF WriteReceipt, Goto, JobTypeOK
  <2>2. Sealed(p) /\ IdOf(p) /\ rec[p].id \notin DOMAIN made /\ rec[p].id \in Nat \ {0}
    BY <1>1, <2>1, WorkingFacts DEF Sealed, Building, IdOf, SharedTypeOK
  <2>3. rcpt' = [rcpt EXCEPT ![a] = Index!Torn] /\ seal'[p].pc = "write"
    BY <1>1, <2>1, <2>2, TruncateStep
  <2>4. rcpt'[a].st = "torn" /\ \A b \in Artifact \ {a} : rcpt'[b] = rcpt[b]
    BY <1>1, <2>3 DEF Index!TypeOK, Index!Torn
  <2>5. \A i \in DOMAIN made : made'[i] = made[i]
    BY <2>1, <2>2
  <2> QED BY <2>1, <2>2, <2>3, <2>4, <2>5, DoneKept DEF FreshOf, Sealed, world, job, Current, Item
<1>8. CASE Writing(p) /\ Index!SealWrite(p) /\ UNCHANGED <<pc, job, rec, world, made>>
  <2>1. /\ seal[p].pc = "write" /\ seal'[p].pc = "insert"
        /\ \/ rcpt' = [rcpt EXCEPT ![seal[p].f] = Index!Full(seal[p].id)]
           \/ rcpt[seal[p].f].st \in {"full", "garbled"}
    BY <1>1, <1>8, WriteStep
  <2>2. seal[p].f = a /\ seal[p].id = rec[p].id /\ rcpt[a].st = "torn"
    BY <1>1, <1>8, <2>1 DEF CallOf, FreshOf
  <2>3. rcpt' = [rcpt EXCEPT ![a] = Index!Full(rec[p].id)]
    BY <2>1, <2>2
  <2>4. rcpt'[a] = Index!Full(rec[p].id) /\ \A b \in Artifact \ {a} : rcpt'[b] = rcpt[b]
    BY <1>1, <2>3 DEF Index!TypeOK
  <2> QED BY <1>8, <2>1, <2>4, DoneKept
          DEF FreshOf, Sealed, Building, Writing, world, job, Current, Item
<1>9. ASSUME NEW kind \in Kind, kind = "unverified" => mode[p].rekor /\ ~mode[p].pinned, Writing(p), Conclude(p, kind),
             Index!SealInsert(p) \/ Index!SealUnindexed(p) \/ Index!SealStop(p),
             kind = "ok" => seal[p].pc = "insert", UNCHANGED <<world, made>>
      PROVE  FreshOf(p)' /\ DoneOf(p)'
  <2>1. rcpt' = rcpt
    BY <1>1, <1>9, LeaveStep
  <2> QED BY <1>9, <2>1, ConcludeSerial DEF world
<1>10. CASE SaveReceipt(p)
  <2>1. Writing(p) /\ UNCHANGED <<world, made>>
    BY <1>10 DEF SaveReceipt, Writing
  <2>2. CASE (Index!SealInsert(p) \/ Index!SealUnindexed(p)) /\ Conclude(p, "ok")
    BY <2>1, <2>2, <1>9 DEF Index!SealInsert, Index!SealUnindexed, Kind
  <2> QED BY <1>8, <1>10, <2>1, <2>2 DEF SaveReceipt
<1>11. CASE Answer(p)
  <2>1. Writing(p) /\ Index!SealUnindexed(p) /\ UNCHANGED <<world, made>>
    BY <1>11 DEF Answer, Writing
  <2>2. PICK kind \in Answers(p) : Conclude(p, kind)
    BY <1>11 DEF Answer
  <2>3. /\ kind \in {"ok", "schema", "unverified"}
        /\ kind = "unverified" => mode[p].rekor /\ ~mode[p].pinned
    BY <2>1, <2>2 DEF Answers, FreshOf, Sealed
  <2> QED BY <2>1, <2>2, <2>3, <1>9 DEF Index!SealUnindexed, Kind
<1>12. CASE SaveFails(p)
  BY <1>12, <1>9 DEF SaveFails, Writing, Kind
<1>13. ~Report(p)
  BY DEF Report, Working
<1> QED BY <1>2, <1>3, <1>4, <1>5, <1>6, <1>7, <1>10, <1>11, <1>12, <1>13 DEF Local, Remote

LEMMA NextSerial ==
    ASSUME IInv, IInv', SerialInv, SealingAssumption, Undisturbed, [Next]_vars
    PROVE  SerialInv'
<1>1. JobTypeOK /\ SharedTypeOK
  BY TypeParts DEF IInv
<1>2. ASSUME NEW p \in Proc, StepBy(p) PROVE SerialInv'
  <2>1. Keeps(p) /\ KeptBut(p)
    BY <1>2, ProcessKeeps DEF Keeps, StepOf
  <2>2. \A q \in Proc \ {p} : pc[q] = "idle"
    <3>1. CASE Start(p)
      BY <3>1 DEF Start, StartSeal, CallTool, Undisturbed
    <3>2. CASE Local(p) \/ Remote(p) \/ Crash(p)
      <4>1. pc[p] # "idle"
        BY <3>2 DEF Local, Remote, Crash, Read, EmbedTruncate, EmbedWrite, EmbedFails,
                    WriteReceipt, SaveReceipt, Answer, SaveFails, Report, Tsa, CheckShard, Submit
      <4> QED BY <4>1 DEF SerialInv, Alone
    <3> QED BY <1>2, <3>1, <3>2 DEF StepBy
  <2>3. ASSUME NEW q \in Proc \ {p} PROVE pc'[q] = "idle" /\ FreshOf(q)' /\ DoneOf(q)'
    <3>1. pc'[q] = "idle"
      BY <2>1, <2>2 DEF KeptBut
    <3>2. done'[q] = {}
      BY <3>1 DEF IInv, Mine, BatchOf
    <3> QED BY <3>1, <3>2 DEF FreshOf, DoneOf, Sealed, Building, Writing
  <2>4. FreshOf(p)' /\ DoneOf(p)'
    <3>1. FreshOf(p) /\ DoneOf(p)
      BY DEF SerialInv
    <3>2. CASE \E batch \in Batches, m \in Modes : StartSeal(p, batch, m)
      <4>1. /\ pc'[p] \in {"report", "read"}
            /\ \A o \in done'[p] : o.kind = "schema"
        BY <1>1, <3>2 DEF StartSeal, Goto, JobTypeOK, MissingOutcome
      <4> QED BY <4>1 DEF FreshOf, DoneOf, Sealed, Building, Writing
    <3>3. CASE \E batch \in Batches, m \in Modes : CallTool(p, batch, m)
      <4>1. pc[p] = "idle" /\ pc'[p] = "read" /\ done' = done
        BY <1>1, <3>3 DEF CallTool, Goto, JobTypeOK
      <4>2. done'[p] = {}
        BY <4>1 DEF IInv, Mine, BatchOf
      <4> QED BY <4>1, <4>2 DEF FreshOf, DoneOf, Sealed, Building, Writing
    <3>4. CASE Report(p) \/ Crash(p)
      <4>1. pc'[p] = "idle" /\ done'[p] = {}
        BY <1>1, <3>4 DEF Report, Crash, Goto, JobTypeOK
      <4> QED BY <4>1 DEF FreshOf, DoneOf, Sealed, Building, Writing
    <3>5. CASE (Local(p) \/ Remote(p)) /\ ~Report(p)
      <4>1. Working(p)
        BY <3>5 DEF Local, Remote, Read, EmbedTruncate, EmbedWrite, EmbedFails, WriteReceipt,
                    SaveReceipt, Answer, SaveFails, Tsa, CheckShard, Submit, Working
      <4> QED BY <3>1, <3>5, <4>1, WorkSerial
    <3> QED BY <1>2, <3>2, <3>3, <3>4, <3>5 DEF StepBy, Start
  <2>5. Alone'
    BY <2>3 DEF Alone
  <2> QED BY <2>3, <2>4, <2>5 DEF SerialInv
<1>3. ASSUME NEW a \in Artifact PROVE ~Edit(a)
  BY <1>1 DEF Edit, SharedTypeOK, Undisturbed
<1>4. CASE RotateShard \/ UNCHANGED vars
  BY <1>4 DEF RotateShard, vars, world, count, store, job, SerialInv, Alone, FreshOf, DoneOf,
              Sealed, Building, Writing, Current, Item, OnlyName
<1> QED BY <1>2, <1>3, <1>4 DEF Next, StepBy

\* What a batch that nothing disturbs reports as sealed has a receipt that matches the
\* artifact, whatever fails, dies or refuses on the way, unless the batch names the
\* file twice; and an MCP call finds no fault in what it has just sealed, but for an
\* anchor in a shard whose key is not pinned.
THEOREM ReportedVerify ==
    ASSUME Serial, MaxEdits = 0
    PROVE  Spec => []ReportedSealsVerify
<1>1. Init => SerialInv
  BY DEF Init, SerialInv, Alone, FreshOf, DoneOf, Sealed, Building, Writing
<1>2. IInv /\ IInv' /\ SerialInv /\ [Next]_vars => SerialInv'
  BY SealingAssumption, NextSerial DEF Undisturbed
<1>3. SerialInv => ReportedSealsVerify
  BY DEF SerialInv, DoneOf, ReportedSealsVerify
<1> QED BY <1>1, <1>2, <1>3, Invariance, PTL DEF Spec
=============================================================================
