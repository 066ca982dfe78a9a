-------------------------- MODULE DashboardProofs --------------------------
(***************************************************************************)
(* Proofs about Dashboard, for any seals, failures and edits beside the    *)
(* report: it shows the receipts that nobody touched as they are on disk,  *)
(* each once and, where the artifacts are, with the status its artifact    *)
(* calls for.                                                              *)
(***************************************************************************)
EXTENDS Dashboard, SealingProofs

-----------------------------------------------------------------------------
(* Contents *)

\* A seal is over a content that there has been, and never over a missing file.
HashInv ==
    /\ contents >= 2
    /\ \A a \in Artifact : art[a] <= contents
    /\ \A p \in Proc : Sealed(p) => rec[p].hash \in 1..contents
    /\ \A i \in DOMAIN made : made[i].hash \in 1..contents

\* What a step of p does to contents and to the record it builds.
LEMMA HashStep ==
    ASSUME IInv, HashInv, NEW p \in Proc, Keeps(p), contents' \in Nat, contents <= contents',
           \A a \in Artifact : art'[a] <= contents',
           Sealed(p)' => rec'[p].hash \in 1..contents',
           \A i \in DOMAIN made' \ DOMAIN made : made'[i].hash \in 1..contents'
    PROVE  HashInv'
<1>1. contents \in Nat
  BY DEF IInv, TypeOK
<1>2. ASSUME NEW q \in Proc, Sealed(q)' PROVE rec'[q].hash \in 1..contents'
  <2>1. CASE q = p
    BY <1>2, <2>1
  <2>2. CASE q # p
    <3>1. Sealed(q) /\ rec'[q] = rec[q]
      BY <1>2, <2>2 DEF Keeps, StepOf, KeptBut, Sealed, Building, Writing
    <3> QED BY <3>1, <1>1 DEF HashInv
  <2> QED BY <2>1, <2>2
<1>3. ASSUME NEW i \in DOMAIN made PROVE made'[i].hash \in 1..contents'
  BY <1>1, <1>3 DEF Keeps, StepOf, Grows, HashInv
<1> QED BY <1>1, <1>2, <1>3 DEF HashInv

\* A step after which nothing is sealed that was not, over the same contents.
LEMMA HashSame ==
    ASSUME IInv, HashInv, NEW p \in Proc, Keeps(p), UNCHANGED <<art, contents, made>>,
           Sealed(p)' => Sealed(p) /\ rec'[p].hash = rec[p].hash
    PROVE  HashInv'
<1>1. contents' \in Nat /\ contents <= contents' /\ \A a \in Artifact : art'[a] <= contents'
  BY DEF IInv, TypeOK, HashInv
<1>2. Sealed(p)' => rec'[p].hash \in 1..contents'
  BY DEF HashInv
<1>3. \A i \in DOMAIN made' \ DOMAIN made : made'[i].hash \in 1..contents'
  OBVIOUS
<1> QED BY <1>1, <1>2, <1>3, HashStep

LEMMA HashProcess ==
    ASSUME IInv, HashInv, SealingAssumption, NEW p \in Proc, StepBy(p)
    PROVE  HashInv'
<1> DEFINE a == Current(p)
<1>1. Keeps(p) /\ JobTypeOK /\ SharedTypeOK /\ contents \in Nat
  BY ProcessKeeps, TypeParts DEF IInv, SharedTypeOK
<1>2. CASE Start(p) \/ Report(p) \/ Crash(p)
  <2>1. UNCHANGED <<art, contents, made>> /\ pc'[p] \in {"read", "report", "idle"}
    BY <1>1, <1>2 DEF Start, StartSeal, CallTool, Report, Crash, Goto, JobTypeOK, world, count
  <2> QED BY <1>1, <2>1, HashSame DEF Sealed, Building, Writing
<1>3. ASSUME Working(p), NEW kind \in Kind, Conclude(p, kind), UNCHANGED <<art, contents, made>>
      PROVE  HashInv'
  BY <1>1, <1>3, ConcludeMine, HashSame
<1>4. CASE Read(p)
  <2>1. /\ pc[p] = "read" /\ Working(p) /\ UNCHANGED <<art, contents, made>>
        /\ art[a] \in 0..contents
    BY <1>1, <1>4, WorkingFacts DEF Read, Working, world, HashInv, SharedTypeOK
  <2>2. CASE Conclude(p, ErrorKind(mode[p], FALSE)) \/ Conclude(p, ErrorKind(mode[p], TRUE))
    BY <1>3, <2>1, <2>2, ErrorKinds
  <2>3. CASE Goto(p, "embedTrunc")
    <3>1. pc'[p] = "embedTrunc"
      BY <1>1, <2>3 DEF Goto, JobTypeOK
    <3> QED BY <1>1, <2>1, <3>1, HashSame DEF Sealed, Building, Writing
  <2>4. CASE art[a] # NoFile /\ SealContent(p, art[a], art[a]) /\ UNCHANGED job
    <3>1. rec'[p].hash = art[a]
      BY <1>1, <2>1, <2>4, SealContentMine
    <3> QED BY <1>1, <2>1, <2>4, <3>1, HashStep DEF HashInv, NoFile
  <2> QED BY <1>4, <2>2, <2>3, <2>4 DEF Read
<1>5. CASE EmbedTruncate(p)
  <2>1. /\ pc'[p] = "embedWrite" /\ art' = [art EXCEPT ![a] = Partial]
        /\ UNCHANGED <<contents, made>>
    BY <1>1, <1>5 DEF EmbedTruncate, Goto, JobTypeOK, count
  <2>2. Working(p) /\ a \in Artifact
    BY <1>5, WorkingFacts DEF EmbedTruncate, Working
  <2>3. \A b \in Artifact : art'[b] <= contents'
    BY <1>1, <2>1, <2>2 DEF HashInv, SharedTypeOK, Partial
  <2>4. ~Sealed(p)'
    BY <2>1 DEF Sealed, Building, Writing
  <2> QED BY <1>1, <2>1, <2>3, <2>4, HashStep
<1>6. CASE EmbedWrite(p)
  <2>1. /\ pc[p] = "embedWrite" /\ SealContent(p, rec[p].read, contents + 1)
        /\ contents' = contents + 2
        /\ art' \in {[art EXCEPT ![a] = c] : c \in Written(a, contents + 1)}
        /\ UNCHANGED <<job, made>>
    BY <1>6 DEF EmbedWrite
  <2>2. a \in Artifact /\ rec[p].read \in Nat
    BY <2>1, WorkingFacts DEF Working, Record
  <2>3. rec'[p].hash = contents + 1
    BY <1>1, <2>1, <2>2, SealContentMine
  <2>4. \A c \in Written(a, contents + 1) : c <= contents + 2
    BY <1>1, <2>2 DEF Written, NoFile, HashInv, SharedTypeOK
  <2>5. \A b \in Artifact : art'[b] <= contents'
    BY <1>1, <2>1, <2>2, <2>4 DEF HashInv, SharedTypeOK
  <2> QED BY <1>1, <2>1, <2>3, <2>5, HashStep
<1>7. CASE EmbedFails(p)
  BY <1>3, <1>7, ErrorKinds DEF EmbedFails, Working, world, count
<1>8. CASE Tsa(p) \/ CheckShard(p) \/ Submit(p)
  <2>1. pc[p] \in {"tsa", "shard", "submit"} /\ UNCHANGED <<art, contents, made, seals>>
    BY <1>8 DEF Tsa, CheckShard, Submit, world, count
  <2>2. CASE Conclude(p, ErrorKind(mode[p], FALSE))
    BY <1>3, <2>1, <2>2, ErrorKinds DEF Working
  <2>3. CASE Goto(p, "submit") /\ UNCHANGED rec
    BY <1>1, <2>1, <2>3, HashSame DEF Sealed, Building
  <2>4. CASE \/ pc[p] = "tsa" /\ AddLayer(p, "tsa")
             \/ pc[p] = "submit" /\ rec[p].id \in log' /\ AddLayer(p, "rekor")
    <3>1. Sealed(p) /\ rec'[p].hash = rec[p].hash
      BY <2>1, <2>4, AddLayerMine
    <3> QED BY <1>1, <2>1, <3>1, HashSame
  <2> QED BY <1>8, <2>2, <2>3, <2>4 DEF Tsa, CheckShard, Submit
<1>9. CASE WriteReceipt(p)
  <2>1. /\ Sealed(p) /\ UNCHANGED <<art, contents, rec>>
        /\ DOMAIN made' = DOMAIN made \cup {rec[p].id}
        /\ made'[rec[p].id].hash = rec[p].hash
    BY <1>9 DEF WriteReceipt, Sealed, Building, world, count, WrittenOut
  <2> QED BY <1>1, <2>1, HashStep DEF HashInv
<1>10. CASE SaveReceipt(p) \/ Answer(p) \/ SaveFails(p)
  <2>1. Working(p) /\ pc[p] = "save" /\ UNCHANGED <<art, contents, made>>
    BY <1>10 DEF SaveReceipt, Answer, SaveFails, Working, world, count
  <2>2. CASE UNCHANGED <<pc, rec>>
    BY <1>1, <2>1, <2>2, HashSame DEF Sealed, Building, Writing
  <2>3. ASSUME NEW kind \in Kind, Conclude(p, kind) PROVE HashInv'
    BY <1>3, <2>1, <2>3
  <2>4. CASE Answer(p)
    BY <2>3, <2>4, AnswerKinds DEF Answer, Kind
  <2>5. CASE SaveReceipt(p) \/ SaveFails(p)
    BY <2>2, <2>3, <2>5 DEF SaveReceipt, SaveFails, Kind
  <2> QED BY <1>10, <2>4, <2>5
<1> QED BY <1>2, <1>4, <1>5, <1>6, <1>7, <1>8, <1>9, <1>10 DEF StepBy, Local, Remote

LEMMA HashNext ==
    ASSUME IInv, HashInv, SealingAssumption, [Next]_vars PROVE HashInv'
<1>1. SharedTypeOK
  BY TypeParts DEF IInv
<1>2. CASE \E p \in Proc : StepBy(p)
  BY <1>2, HashProcess
<1>3. ASSUME NEW a \in Artifact, Edit(a) PROVE HashInv'
  <2>1. /\ contents' \in Nat /\ contents <= contents'
        /\ UNCHANGED <<pc, rec, made>>
    BY <1>1, <1>3 DEF Edit, SharedTypeOK
  <2>2. \A b \in Artifact : art'[b] <= contents'
    BY <1>1, <1>3 DEF Edit, SharedTypeOK, NoFile, HashInv
  <2> QED BY <1>1, <2>1, <2>2 DEF HashInv, SharedTypeOK, Sealed, Building, Writing
<1>4. CASE RotateShard \/ UNCHANGED vars
  BY <1>4 DEF RotateShard, vars, world, count, HashInv, Sealed, Building, Writing
<1> QED BY <1>2, <1>3, <1>4 DEF Next, StepBy

-----------------------------------------------------------------------------
(* The report *)

\* The receipt a is as it was when the report started.
Untouched(a) == a \notin rep.touched

\* What is found is a record that was written out, and that of its receipt.
FoundInv ==
    \A x \in rep.found :
        /\ x[2] \in DOMAIN made
        /\ Untouched(x[1]) => rcpt[x[1]] = Index!Full(x[2]) /\ x[1] \in rep.listed \ rep.todo

\* So is what is shown; and where the artifacts are, with a status that fits them.
ShownInv ==
    \A e \in rep.shown :
        /\ e.id \in DOMAIN made
        /\ Untouched(e.rcpt) =>
             /\ rcpt[e.rcpt] = Index!Full(e.id) /\ e.rcpt \in rep.listed
             /\ rep.src # "away" => e.status \in StatusOf(made[e.id], art[e.rcpt])

\* A receipt has one row, once it has been verified.
OnceInv ==
    \A e \in rep.shown :
        Untouched(e.rcpt) => /\ \A d \in rep.shown : d.rcpt = e.rcpt => d = e
                             /\ \A x \in rep.found : x[1] # e.rcpt

\* No receipt that can be read is lost on the way.
NoneLost ==
    rep.src # "away" =>
        \A a \in rep.listed :
            Untouched(a) /\ rcpt[a].st = "full" =>
                \/ a \in rep.todo
                \/ <<a, rcpt[a].id>> \in rep.found
                \/ \E e \in rep.shown : e.rcpt = a

PhaseInv ==
    /\ rep.todo \subseteq rep.listed
    /\ rep.pc = "read" => rep.shown = {}
    /\ rep.pc # "read" => rep.todo = {}
    /\ rep.pc = "shown" => rep.found = {}

RepInv == rep # NoReport => FoundInv /\ ShownInv /\ OnceInv /\ NoneLost /\ PhaseInv

DInv == IInv /\ HashInv /\ ReportTypeOK /\ RepInv

\* A record passes over the content it was sealed over, and over no other.
LEMMA PassMeans ==
    ASSUME NEW r, NEW c, r.hash \in Nat \ {0}
    PROVE  /\ "PASS" \in StatusOf(r, c) <=> c = r.hash
           /\ c = r.hash => StatusOf(r, c) = {"PASS"}
           /\ StatusOf(r, c) # {}
BY DEF StatusOf, NoFile

\* What was written out stays as it was.
LEMMA MadeStays ==
    ASSUME IInv, SealingAssumption, [Next]_vars
    PROVE  DOMAIN made \subseteq DOMAIN made' /\ \A i \in DOMAIN made : made'[i] = made[i]
<1>1. CASE \E p \in Proc : StepBy(p)
  BY <1>1, ProcessKeeps DEF Keeps, StepOf, Grows
<1>2. CASE (\E a \in Artifact : Edit(a)) \/ RotateShard \/ UNCHANGED vars
  BY <1>2 DEF Edit, RotateShard, vars
<1> QED BY <1>1, <1>2 DEF Next, StepBy

LEMMA RepType ==
    ASSUME ReportTypeOK, rep # NoReport
    PROVE  /\ rep.pc \in {"read", "verify", "shown"} /\ rep.src \in Sources
           /\ rep.todo \subseteq Artifact /\ rep.found \subseteq Artifact \X (Nat \ {0})
           /\ rep.shown \subseteq Entry /\ rep.listed \subseteq Artifact
           /\ rep.touched \subseteq Artifact /\ rep \in ReportCall
           /\ rep = [pc |-> rep.pc, src |-> rep.src, todo |-> rep.todo, found |-> rep.found,
                     shown |-> rep.shown, listed |-> rep.listed, touched |-> rep.touched]
BY DEF ReportTypeOK, ReportCall

LEMMA RcptFull ==
    ASSUME IInv, NEW a \in Artifact, rcpt[a].st = "full"
    PROVE  /\ rcpt[a] = Index!Full(rcpt[a].id) /\ rcpt[a].id \in DOMAIN made
           /\ rcpt[a].id \in Nat \ {0}
<1>1. rcpt[a] \in Index!FileState
  BY TypeParts DEF IInv, Index!TypeOK
<1>2. rcpt[a].id \in DOMAIN made /\ DOMAIN made \subseteq 1..seals /\ seals \in Nat
  BY DEF IInv, MadeInv, TypeOK
<1> QED BY <1>1, <1>2 DEF Index!FileState, Index!Full

\* A step of the seals, of an owner or of the log's operator.
LEMMA BesideRep ==
    ASSUME DInv, SealingAssumption, Beside PROVE ReportTypeOK' /\ RepInv'
<1>1. CASE rep = NoReport
  BY <1>1 DEF Beside, DInv, ReportTypeOK, RepInv
<1>2. CASE rep # NoReport
  <2> DEFINE changed == {a \in Artifact : art'[a] # art[a] \/ rcpt'[a] # rcpt[a]}
  <2>1. rep' = [rep EXCEPT !.touched = @ \cup changed]
    BY <1>2 DEF Beside
  <2>2. rep' = [pc |-> rep.pc, src |-> rep.src, todo |-> rep.todo, found |-> rep.found,
                shown |-> rep.shown, listed |-> rep.listed, touched |-> rep.touched \cup changed]
    BY <1>2, <2>1, RepType DEF DInv
  <2>3. rep'.pc = rep.pc /\ rep'.src = rep.src /\ rep'.todo = rep.todo /\ rep'.found = rep.found
        /\ rep'.shown = rep.shown /\ rep'.listed = rep.listed
        /\ rep'.touched = rep.touched \cup changed
    BY <2>2
  <2>4. ReportTypeOK'
    <3>1. rep' \in ReportCall
      BY <1>2, <2>2, RepType DEF DInv, ReportCall
    <3> QED BY <3>1 DEF ReportTypeOK
  <2>5. DOMAIN made \subseteq DOMAIN made' /\ \A i \in DOMAIN made : made'[i] = made[i]
    BY MadeStays DEF DInv, Beside
  <2>6. \A a \in Artifact : (Untouched(a))' => Untouched(a) /\ art'[a] = art[a] /\ rcpt'[a] = rcpt[a]
    BY <2>3 DEF Untouched
  <2>7. FoundInv /\ ShownInv /\ OnceInv /\ NoneLost /\ PhaseInv
    BY <1>2 DEF DInv, RepInv
  <2>8. rep.found \subseteq Artifact \X (Nat \ {0}) /\ rep.shown \subseteq Entry
        /\ rep.listed \subseteq Artifact
    BY <1>2, RepType DEF DInv
  <2>9. FoundInv'
    BY <2>3, <2>5, <2>6, <2>7, <2>8 DEF FoundInv
  <2>10. \A e \in rep.shown : e.rcpt \in Artifact
    BY <2>8 DEF Entry
  <2>11. ShownInv'
    <3>1. ASSUME NEW e \in rep.shown
          PROVE  /\ e.id \in DOMAIN made'
                 /\ (Untouched(e.rcpt))' =>
                      /\ rcpt'[e.rcpt] = Index!Full(e.id) /\ e.rcpt \in rep.listed
                      /\ rep.src # "away" => e.status \in StatusOf(made'[e.id], art'[e.rcpt])
      <4>1. e.id \in DOMAIN made /\ made'[e.id] = made[e.id]
        BY <2>5, <2>7 DEF ShownInv
      <4> QED BY <4>1, <2>5, <2>6, <2>7, <2>10 DEF ShownInv
    <3>2. \A i, a : (StatusOf(made[i], art[a]))' = StatusOf(made'[i], art'[a])
      BY DEF StatusOf
    <3> QED BY <3>1, <3>2, <2>3 DEF ShownInv
  <2>12. OnceInv'
    BY <2>3, <2>6, <2>7, <2>10 DEF OnceInv
  <2>13. NoneLost'
    BY <2>3, <2>6, <2>7, <2>8 DEF NoneLost
  <2>14. PhaseInv'
    BY <2>3, <2>7 DEF PhaseInv
  <2> QED BY <2>4, <2>9, <2>11, <2>12, <2>13, <2>14 DEF RepInv
<1> QED BY <1>1, <1>2

LEMMA StartRep ==
    ASSUME DInv, NEW src \in Sources, StartReport(src) PROVE ReportTypeOK' /\ RepInv'
<1>1. rep' = [pc |-> "read", src |-> src, todo |-> Listed(src), found |-> {}, shown |-> {},
              listed |-> Listed(src), touched |-> {}]
  BY DEF StartReport
<1>2. Listed(src) \subseteq Artifact
  BY SealingAssumption DEF Listed, Indexed, SealingAssumption
<1>3. ReportTypeOK'
  BY <1>1, <1>2 DEF ReportTypeOK, ReportCall
<1> QED BY <1>1, <1>3 DEF RepInv, FoundInv, ShownInv, OnceInv, NoneLost, PhaseInv

LEMMA ReadRep ==
    ASSUME DInv, ReadReceipt PROVE ReportTypeOK' /\ RepInv'
<1>1. PICK a \in rep.todo :
        rep' = [rep EXCEPT !.todo = @ \ {a},
                           !.found = IF rcpt[a].st = "full" /\ a \in Reachable(rep.src)
                                     THEN @ \cup {<<a, rcpt[a].id>>} ELSE @]
  BY DEF ReadReceipt
<1>2. rep.pc = "read" /\ rep # NoReport /\ UNCHANGED <<art, rcpt, made>>
  BY DEF ReadReceipt, NoReport, vars, world, store
<1> DEFINE found == IF rcpt[a].st = "full" /\ a \in Reachable(rep.src)
                    THEN rep.found \cup {<<a, rcpt[a].id>>} ELSE rep.found
<1>3. rep' = [pc |-> rep.pc, src |-> rep.src, todo |-> rep.todo \ {a}, found |-> found,
              shown |-> rep.shown, listed |-> rep.listed, touched |-> rep.touched]
  BY <1>1, <1>2, RepType DEF DInv
<1>4. /\ rep'.pc = rep.pc /\ rep'.src = rep.src /\ rep'.todo = rep.todo \ {a}
      /\ rep'.found = found /\ rep'.shown = rep.shown /\ rep'.listed = rep.listed
      /\ rep'.touched = rep.touched
  BY <1>3
<1>5. a \in Artifact
  BY <1>1, <1>2, RepType DEF DInv
<1>6. rcpt[a].st = "full" => /\ rcpt[a] = Index!Full(rcpt[a].id) /\ rcpt[a].id \in DOMAIN made
                             /\ rcpt[a].id \in Nat \ {0}
  BY <1>5, RcptFull DEF DInv
<1>7. ReportTypeOK'
  <2>1. found \subseteq Artifact \X (Nat \ {0})
    BY <1>2, <1>5, <1>6, RepType DEF DInv
  <2>2. rep' \in ReportCall
    BY <1>2, <1>3, <2>1, RepType DEF DInv, ReportCall
  <2> QED BY <2>2 DEF ReportTypeOK
<1>8. FoundInv /\ ShownInv /\ OnceInv /\ NoneLost /\ PhaseInv
  BY <1>2 DEF DInv, RepInv
<1>9. rep.shown = {}
  BY <1>2, <1>8 DEF PhaseInv
<1>10. FoundInv'
  <2>1. ASSUME NEW x \in found
        PROVE  /\ x[2] \in DOMAIN made
               /\ Untouched(x[1]) => /\ rcpt[x[1]] = Index!Full(x[2])
                                     /\ x[1] \in rep.listed \ (rep.todo \ {a})
    <3>1. CASE x \in rep.found
      BY <3>1, <1>8 DEF FoundInv
    <3>2. CASE x = <<a, rcpt[a].id>> /\ rcpt[a].st = "full"
      BY <3>2, <1>1, <1>6, <1>8 DEF PhaseInv
    <3> QED BY <3>1, <3>2
  <2> QED BY <2>1, <1>2, <1>4 DEF FoundInv, Untouched
<1>11. ShownInv' /\ OnceInv'
  BY <1>4, <1>9 DEF ShownInv, OnceInv
<1>12. NoneLost'
  <2>1. ASSUME rep.src # "away", NEW b \in rep.listed, Untouched(b), rcpt[b].st = "full"
        PROVE  b \in rep.todo \ {a} \/ <<b, rcpt[b].id>> \in found
    <3>1. b \in rep.todo \/ <<b, rcpt[b].id>> \in rep.found
      BY <2>1, <1>8, <1>9 DEF NoneLost
    <3>2. Reachable(rep.src) = Artifact
      BY <2>1 DEF Reachable
    <3> QED BY <2>1, <3>1, <3>2, <1>5
  <2> QED BY <2>1, <1>2, <1>4 DEF NoneLost, Untouched
<1>13. PhaseInv'
  BY <1>2, <1>4, <1>8 DEF PhaseInv
<1> QED BY <1>7, <1>10, <1>11, <1>12, <1>13 DEF RepInv

LEMMA AllReadRep ==
    ASSUME DInv, AllRead PROVE ReportTypeOK' /\ RepInv'
<1>1. /\ rep.pc = "read" /\ rep.todo = {} /\ rep # NoReport /\ UNCHANGED <<art, rcpt, made>>
      /\ rep' = [rep EXCEPT !.pc = "verify"]
  BY DEF AllRead, NoReport, vars, world, store
<1>2. rep' = [pc |-> "verify", src |-> rep.src, todo |-> rep.todo, found |-> rep.found,
              shown |-> rep.shown, listed |-> rep.listed, touched |-> rep.touched]
  BY <1>1, RepType DEF DInv
<1>3. ReportTypeOK'
  BY <1>1, <1>2, RepType DEF DInv, ReportTypeOK, ReportCall
<1>4. FoundInv /\ ShownInv /\ OnceInv /\ NoneLost /\ PhaseInv
  BY <1>1 DEF DInv, RepInv
<1>5. FoundInv' /\ ShownInv' /\ OnceInv' /\ NoneLost' /\ PhaseInv'
  BY <1>1, <1>2, <1>4 DEF FoundInv, ShownInv, OnceInv, NoneLost, PhaseInv, Untouched
<1> QED BY <1>3, <1>5 DEF RepInv

LEMMA RenderRep ==
    ASSUME DInv, Render PROVE ReportTypeOK' /\ RepInv'
<1>1. /\ rep.pc = "verify" /\ rep.found = {} /\ rep # NoReport /\ UNCHANGED <<art, rcpt, made>>
      /\ rep' = [rep EXCEPT !.pc = "shown"]
  BY DEF Render, NoReport, vars, world, store
<1>2. rep' = [pc |-> "shown", src |-> rep.src, todo |-> rep.todo, found |-> rep.found,
              shown |-> rep.shown, listed |-> rep.listed, touched |-> rep.touched]
  BY <1>1, RepType DEF DInv
<1>3. ReportTypeOK'
  BY <1>1, <1>2, RepType DEF DInv, ReportTypeOK, ReportCall
<1>4. FoundInv /\ ShownInv /\ OnceInv /\ NoneLost /\ PhaseInv
  BY <1>1 DEF DInv, RepInv
<1>5. FoundInv' /\ ShownInv' /\ OnceInv' /\ NoneLost' /\ PhaseInv'
  BY <1>1, <1>2, <1>4 DEF FoundInv, ShownInv, OnceInv, NoneLost, PhaseInv, Untouched
<1> QED BY <1>3, <1>5 DEF RepInv

\* A record is verified, and shown as what it was found to be.
LEMMA VerifyRep ==
    ASSUME DInv, VerifyEntry PROVE ReportTypeOK' /\ RepInv'
<1>1. PICK x \in rep.found :
        \E c \in ArtifactSeen(rep.src, x[1]), s \in Status :
          /\ s \in StatusOf(made[x[2]], c)
          /\ rep' = [rep EXCEPT !.found = @ \ {x},
                                !.shown = @ \cup {[rcpt |-> x[1], id |-> x[2], status |-> s]}]
  BY DEF VerifyEntry
<1>2. PICK c \in ArtifactSeen(rep.src, x[1]), s \in Status :
          /\ s \in StatusOf(made[x[2]], c)
          /\ rep' = [rep EXCEPT !.found = @ \ {x},
                                !.shown = @ \cup {[rcpt |-> x[1], id |-> x[2], status |-> s]}]
  BY <1>1
<1> DEFINE new == [rcpt |-> x[1], id |-> x[2], status |-> s]
<1>3. rep.pc = "verify" /\ rep # NoReport /\ UNCHANGED <<art, rcpt, made>>
  BY DEF VerifyEntry, NoReport, vars, world, store
<1>4. rep' = [pc |-> rep.pc, src |-> rep.src, todo |-> rep.todo, found |-> rep.found \ {x},
              shown |-> rep.shown \cup {new}, listed |-> rep.listed, touched |-> rep.touched]
  BY <1>2, <1>3, RepType DEF DInv
<1>5. /\ rep'.pc = rep.pc /\ rep'.src = rep.src /\ rep'.todo = rep.todo
      /\ rep'.found = rep.found \ {x} /\ rep'.shown = rep.shown \cup {new}
      /\ rep'.listed = rep.listed /\ rep'.touched = rep.touched
  BY <1>4
<1>6. FoundInv /\ ShownInv /\ OnceInv /\ NoneLost /\ PhaseInv
  BY <1>3 DEF DInv, RepInv
<1>7. x[1] \in Artifact /\ x[2] \in Nat \ {0} /\ x[2] \in DOMAIN made /\ x = <<x[1], x[2]>>
  BY <1>1, <1>3, <1>6, RepType DEF DInv, FoundInv
<1>10. ReportTypeOK'
  <2>1. new \in Entry
    BY <1>2, <1>7 DEF Entry
  <2>2. rep' \in ReportCall
    BY <1>3, <1>4, <2>1, RepType DEF DInv, ReportCall
  <2> QED BY <2>2 DEF ReportTypeOK
<1>11. rep.src # "away" => s \in StatusOf(made[x[2]], art[x[1]])
  BY <1>2 DEF ArtifactSeen
<1>13. Untouched(x[1]) => /\ rcpt[x[1]] = Index!Full(x[2]) /\ x[1] \in rep.listed
                         /\ \A y \in rep.found : y[1] = x[1] => y = x
                         /\ \A e \in rep.shown : e.rcpt # x[1]
  <2>1. ASSUME Untouched(x[1]), NEW y \in rep.found, y[1] = x[1] PROVE y = x
    <3>1. rcpt[x[1]] = Index!Full(x[2]) /\ rcpt[x[1]] = Index!Full(y[2])
      BY <2>1, <1>6 DEF FoundInv
    <3>2. y = <<y[1], y[2]>>
      BY <1>3, RepType DEF DInv
    <3> QED BY <2>1, <3>1, <3>2, <1>7 DEF Index!Full
  <2>2. ASSUME Untouched(x[1]), NEW e \in rep.shown PROVE e.rcpt # x[1]
    BY <2>2, <1>6 DEF OnceInv
  <2> QED BY <2>1, <2>2, <1>6 DEF FoundInv
<1>14. new.rcpt = x[1] /\ new.id = x[2] /\ new.status = s
  OBVIOUS
<1> HIDE DEF new
<1>15. FoundInv'
  BY <1>3, <1>5, <1>6 DEF FoundInv, Untouched
<1>16. ShownInv'
  <2>1. ASSUME NEW e \in rep.shown \cup {new}
        PROVE  /\ e.id \in DOMAIN made
               /\ Untouched(e.rcpt) =>
                    /\ rcpt[e.rcpt] = Index!Full(e.id) /\ e.rcpt \in rep.listed
                    /\ rep.src # "away" => e.status \in StatusOf(made[e.id], art[e.rcpt])
    <3>1. CASE e \in rep.shown
      BY <3>1, <1>6 DEF ShownInv
    <3>2. CASE e = new
      BY <3>2, <1>7, <1>11, <1>13, <1>14
    <3> QED BY <3>1, <3>2
  <2>2. \A i, a : (StatusOf(made[i], art[a]))' = StatusOf(made[i], art[a])
    BY <1>3 DEF StatusOf
  <2> QED BY <2>1, <2>2, <1>3, <1>5 DEF ShownInv, Untouched
<1>17. OnceInv'
  <2>1. ASSUME NEW e \in rep.shown \cup {new}, Untouched(e.rcpt)
        PROVE  /\ \A d \in rep.shown \cup {new} : d.rcpt = e.rcpt => d = e
               /\ \A y \in rep.found \ {x} : y[1] # e.rcpt
    BY <2>1, <1>6, <1>13, <1>14 DEF OnceInv
  <2> QED BY <2>1, <1>5 DEF OnceInv, Untouched
<1>18. NoneLost'
  <2>1. ASSUME rep.src # "away", NEW b \in rep.listed, Untouched(b), rcpt[b].st = "full"
        PROVE  \/ b \in rep.todo
               \/ <<b, rcpt[b].id>> \in rep.found \ {x}
               \/ \E e \in rep.shown \cup {new} : e.rcpt = b
    <3>1. CASE <<b, rcpt[b].id>> = x
      BY <3>1, <1>14
    <3>2. CASE <<b, rcpt[b].id>> # x
      BY <2>1, <3>2, <1>6 DEF NoneLost
    <3> QED BY <3>1, <3>2
  <2> QED BY <2>1, <1>3, <1>5 DEF NoneLost, Untouched
<1>19. PhaseInv'
  BY <1>3, <1>5, <1>6 DEF PhaseInv
<1> QED BY <1>10, <1>15, <1>16, <1>17, <1>18, <1>19 DEF RepInv

-----------------------------------------------------------------------------
(* The theorems *)

LEMMA InitDInv == ASSUME SealingAssumption, DashInit PROVE DInv
<1>1. IInv /\ rep = NoReport
  BY InitIInv DEF DashInit
<1>2. HashInv
  <2>1. /\ art \in [Artifact -> {0, 2}] /\ contents = 2 /\ made = [i \in {} |-> <<>>]
        /\ pc = [p \in Proc |-> "idle"]
    BY DEF DashInit, Init, NoFile
  <2>2. DOMAIN made = {}
    BY <2>1
  <2>3. \A p \in Proc : ~Sealed(p)
    BY <2>1 DEF Sealed, Building, Writing
  <2>4. \A a \in Artifact : art[a] <= contents
    BY <2>1
  <2> QED BY <2>1, <2>2, <2>3, <2>4 DEF HashInv
<1> QED BY <1>1, <1>2 DEF DInv, ReportTypeOK, RepInv

LEMMA NextDInv ==
    ASSUME DInv, SealingAssumption, [DashNext]_dashVars PROVE DInv'
<1>1. [Next]_vars
  BY DEF DashNext, dashVars, Beside, StartReport, Reader, ReadReceipt, AllRead, VerifyEntry,
         Render, CloseReport
<1>2. IInv' /\ HashInv'
  BY <1>1, NextIInv, HashNext DEF DInv
<1>3. ReportTypeOK' /\ RepInv'
  <2>1. CASE Beside
    BY <2>1, BesideRep
  <2>2. CASE \E src \in Sources : StartReport(src)
    BY <2>2, StartRep
  <2>3. CASE Reader
    BY <2>3, ReadRep, AllReadRep, VerifyRep, RenderRep DEF Reader
  <2>4. CASE CloseReport
    BY <2>4 DEF CloseReport, ReportTypeOK, RepInv
  <2>5. CASE UNCHANGED dashVars
    <3>1. UNCHANGED <<art, rcpt, made, rep>>
      BY <2>5 DEF dashVars, vars, world, store
    <3>2. \A i, a : (StatusOf(made[i], art[a]))' = StatusOf(made[i], art[a])
      BY <3>1 DEF StatusOf
    <3> QED BY <3>1, <3>2 DEF DInv, ReportTypeOK, RepInv, FoundInv, ShownInv, OnceInv, NoneLost,
                              PhaseInv, Untouched
  <2> QED BY <2>1, <2>2, <2>3, <2>4, <2>5 DEF DashNext
<1> QED BY <1>2, <1>3 DEF DInv

\* At every step seals are over contents that there have been, what the report has found
\* and shows is of a record that was written out, and as long as nothing touches a
\* receipt, it agrees with the disk and is not lost on the way.
THEOREM DashInvariance == DashSpec => []DInv
<1>1. DashInit => DInv
  BY SealingAssumption, InitDInv
<1>2. DInv /\ [DashNext]_dashVars => DInv'
  BY SealingAssumption, NextDInv
<1> QED BY <1>1, <1>2, PTL DEF DashSpec

\* The report keeps its type; in particular every row is of a record.
THEOREM ReportTypeCorrect == DashSpec => []ReportTypeOK
<1>1. DInv => ReportTypeOK
  BY DEF DInv
<1> QED BY <1>1, DashInvariance, PTL

\* Counting rows is counting the receipts they are of.
LEMMA SameCount ==
    ASSUME NEW S, NEW T, IsFiniteSet(T),
           \A e \in S : e.rcpt \in T,
           \A d, e \in S : d.rcpt = e.rcpt => d = e,
           \A a \in T : \E e \in S : e.rcpt = a
    PROVE  Cardinality(S) = Cardinality(T)
<1> DEFINE f == [e \in S |-> e.rcpt]
<1>1. f \in [S -> T]
  OBVIOUS
<1>2. \A d, e \in S : f[d] = f[e] => d = e
  OBVIOUS
<1>3. \A a \in T : \E e \in S : f[e] = a
  OBVIOUS
<1> HIDE DEF f
<1>4. f \in Injection(S, T)
  BY <1>1, <1>2 DEF Injection, IsInjective
<1>5. f \in Surjection(S, T)
  BY <1>1, <1>3 DEF Surjection
<1> QED BY <1>4, <1>5, FS_Injection

LEMMA ReflectsDisk ==
    ASSUME DInv, IsFiniteSet(Artifact), Shown, rep.src # "away"
    PROVE  /\ \A a \in Artifact \ rep.touched :
                LET entries == {e \in rep.shown : e.rcpt = a} IN
                /\ entries \subseteq Expected(a)
                /\ Expected(a) # {} => Cardinality(entries) = 1
           /\ rep.touched = {} =>
                /\ Summary.total = Cardinality({a \in Artifact : Expected(a) # {}})
                /\ Summary.verified =
                     Cardinality({a \in rep.listed : /\ rcpt[a].st = "full"
                                                     /\ art[a] = made[rcpt[a].id].hash})
<1>1. rep # NoReport /\ ShownInv /\ OnceInv /\ NoneLost /\ rep.found = {} /\ rep.todo = {}
  BY DEF Shown, NoReport, DInv, RepInv, PhaseInv
<1>2. rep.shown \subseteq Entry /\ rep.listed \subseteq Artifact
  BY <1>1, RepType DEF DInv
<1>3. ASSUME NEW a \in Artifact, rcpt[a].st = "full"
      PROVE  made[rcpt[a].id].hash \in Nat \ {0}
  <2>1. rcpt[a].id \in DOMAIN made
    BY <1>3, RcptFull DEF DInv
  <2>2. contents \in Nat
    BY DEF DInv, IInv, TypeOK
  <2> QED BY <2>1, <2>2 DEF DInv, HashInv
<1>4. ASSUME NEW a \in Artifact \ rep.touched
      PROVE  /\ {e \in rep.shown : e.rcpt = a} \subseteq Expected(a)
             /\ Expected(a) # {} => \E e \in rep.shown : {d \in rep.shown : d.rcpt = a} = {e}
  <2>1. ASSUME NEW e \in rep.shown, e.rcpt = a PROVE e \in Expected(a)
    <3>1. /\ rcpt[a] = Index!Full(e.id) /\ a \in rep.listed
          /\ e.status \in StatusOf(made[e.id], art[a])
      BY <2>1, <1>1 DEF ShownInv, Untouched
    <3>2. rcpt[a].st = "full" /\ rcpt[a].id = e.id
      BY <3>1 DEF Index!Full
    <3>3. e = [rcpt |-> a, id |-> rcpt[a].id, status |-> e.status]
      BY <1>2, <2>1, <3>2 DEF Entry
    <3> QED BY <3>1, <3>2, <3>3 DEF Expected
  <2>2. ASSUME Expected(a) # {} PROVE \E e \in rep.shown : {d \in rep.shown : d.rcpt = a} = {e}
    <3>1. rcpt[a].st = "full" /\ a \in rep.listed
      BY <2>2 DEF Expected
    <3>2. PICK e \in rep.shown : e.rcpt = a
      BY <3>1, <1>1 DEF NoneLost, Untouched
    <3>3. \A d \in rep.shown : d.rcpt = a => d = e
      BY <3>2, <1>1 DEF OnceInv, Untouched
    <3> QED BY <3>2, <3>3
  <2> QED BY <2>1, <2>2
<1>5. ASSUME NEW a \in Artifact \ rep.touched, Expected(a) # {}
      PROVE  Cardinality({e \in rep.shown : e.rcpt = a}) = 1
  BY <1>4, <1>5, FS_Singleton
<1>6. ASSUME rep.touched = {}
      PROVE  Summary.total = Cardinality({a \in Artifact : Expected(a) # {}})
  <2> DEFINE T == {a \in Artifact : Expected(a) # {}}
  <2>1. IsFiniteSet(T)
    BY FS_Subset
  <2>2. \A e \in rep.shown : e.rcpt \in Artifact
    BY <1>2 DEF Entry
  <2>3. \A e \in rep.shown : e.rcpt \in T
    BY <1>4, <1>6, <2>2
  <2>4. \A d, e \in rep.shown : d.rcpt = e.rcpt => d = e
    BY <1>1, <1>6 DEF OnceInv, Untouched
  <2>5. \A a \in T : \E e \in rep.shown : e.rcpt = a
    BY <1>4, <1>6
  <2> HIDE DEF T
  <2>6. Cardinality(rep.shown) = Cardinality(T)
    BY <2>1, <2>3, <2>4, <2>5, SameCount
  <2> QED BY <2>6 DEF Summary, T
<1>7. ASSUME rep.touched = {}
      PROVE  Summary.verified =
               Cardinality({a \in rep.listed : /\ rcpt[a].st = "full"
                                               /\ art[a] = made[rcpt[a].id].hash})
  <2> DEFINE S == {e \in rep.shown : e.status = "PASS"}
             T == {a \in rep.listed : rcpt[a].st = "full" /\ art[a] = made[rcpt[a].id].hash}
  <2>1. IsFiniteSet(T)
    BY <1>2, FS_Subset
  <2>2. ASSUME NEW e \in S PROVE e.rcpt \in T
    <3>1. /\ rcpt[e.rcpt] = Index!Full(e.id) /\ e.rcpt \in rep.listed
          /\ "PASS" \in StatusOf(made[e.id], art[e.rcpt])
      BY <1>1, <1>7, <2>2 DEF ShownInv, Untouched
    <3>2. rcpt[e.rcpt].st = "full" /\ rcpt[e.rcpt].id = e.id
      BY <3>1 DEF Index!Full
    <3>3. made[e.id].hash \in Nat \ {0}
      BY <1>2, <1>3, <3>1, <3>2
    <3>4. art[e.rcpt] = made[e.id].hash
      BY <3>1, <3>3, PassMeans
    <3> QED BY <3>1, <3>2, <3>4
  <2>3. \A d, e \in S : d.rcpt = e.rcpt => d = e
    BY <1>1, <1>7 DEF OnceInv, Untouched
  <2>4. ASSUME NEW a \in T PROVE \E e \in S : e.rcpt = a
    <3>1. PICK e \in rep.shown : e.rcpt = a
      BY <1>1, <1>7, <2>4 DEF NoneLost, Untouched
    <3>2. rcpt[a] = Index!Full(e.id) /\ e.status \in StatusOf(made[e.id], art[a])
      BY <3>1, <1>1, <1>7 DEF ShownInv, Untouched
    <3>3. made[e.id].hash \in Nat \ {0} /\ art[a] = made[e.id].hash
      BY <3>2, <2>4, <1>2, <1>3 DEF Index!Full
    <3>4. e.status = "PASS"
      BY <3>2, <3>3, PassMeans
    <3> QED BY <3>1, <3>4
  <2> HIDE DEF S, T
  <2>5. Cardinality(S) = Cardinality(T)
    BY <2>1, <2>2, <2>3, <2>4, SameCount
  <2> QED BY <2>5 DEF Summary, S, T
<1> QED BY <1>4, <1>5, <1>6, <1>7

\* What a report shows of a receipt nobody changed meanwhile is the record on disk; and
\* made where the artifacts are, it has one row for each readable one it found, with the
\* status that the artifact calls for, and the numbers at its top count these rows.
THEOREM ReportsReflectDisk == DashSpec => []ReportReflectsDisk
<1>1. ASSUME DInv, Shown, NEW e \in rep.shown, e.rcpt \notin rep.touched
      PROVE  rcpt[e.rcpt].st = "full" /\ rcpt[e.rcpt].id = e.id
  <2>1. rep # NoReport /\ ShownInv
    BY <1>1 DEF Shown, NoReport, DInv, RepInv
  <2>2. rcpt[e.rcpt] = Index!Full(e.id)
    BY <1>1, <2>1 DEF ShownInv, Untouched
  <2> QED BY <2>2 DEF Index!Full
<1>2. DInv => ReportReflectsDisk
  BY <1>1, DashboardAssumption, ReflectsDisk DEF DashboardAssumption, ReportReflectsDisk
<1> QED BY <1>2, DashInvariance, PTL
=============================================================================
