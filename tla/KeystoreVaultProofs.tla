------------------------- MODULE KeystoreVaultProofs -------------------------
(***************************************************************************)
(* Keystore, used by one caller at a time, each running to its end and no  *)
(* two rotations in one second, keeps whole every bundle it handed out,    *)
(* lists its key, and implements KeyVault, step by step.                   *)
(***************************************************************************)
EXTENDS KeystoreVault, KeystoreProofs

\* How the keystore has to be used for all this to hold.
QuietUse == Serial = TRUE /\ UniqueStamps = TRUE /\ AbortOps = {}

-----------------------------------------------------------------------------
(* The inductive invariant: at each step of the one call there is, which   *)
(* files of which key the directory and the archive hold                   *)

PlainPair == {"pem", "hmac"}
EncPair   == {"enc", "pub"}

\* The file f of a directory that holds, of key k, the files S and no others.
HasFile(c, f, S, k) ==
    IF f \in S
    THEN /\ c.st = "full"
         /\ f # "hmac" => c.ed = k
         /\ f \in {"hmac", "enc"} => c.hmac = k
    ELSE c = Absent

Has(dir, S, k) == \A f \in File : HasFile(dir[f], f, S, k)

\* A directory between calls, and one of the archive between rotations.
Filed(dir) ==
    \/ Has(dir, {}, 0)
    \/ \E k \in 1..fresh : Has(dir, PlainPair, k) \/ Has(dir, EncPair, k)

\* What is in the directory when a call is about to write the file f.
Ready(op, f) ==
    CASE f = "pem"  -> IF op = "decrypt" THEN EncPair ELSE {}
      [] f = "hmac" -> IF op = "decrypt" THEN EncPair \cup {"pem"} ELSE {"pem"}
      [] f = "enc"  -> IF op = "encrypt" THEN PlainPair ELSE {}
      [] OTHER      -> IF op = "encrypt" THEN PlainPair \cup {"enc"} ELSE {"enc"}

\* The key k has never been archived.
Unfiled(k) == \A s \in Stamp : archive[s]["pem"].ed # k /\ archive[s]["enc"].ed # k

\* The call holds one whole, generated pair.
WholeMem(p) == mem[p].ed \in Keys /\ mem[p].hmac = mem[p].ed

ReadStage(p) ==
    /\ pc[p] \in {"statPlain", "readPem", "readHmac"} =>
         /\ call[p].op \in {"load", "encrypt"} /\ Filed(disk) /\ disk["enc"] = Absent
    /\ pc[p] \in {"readPem", "readHmac"} => Present("pem")
    /\ pc[p] = "readHmac" => mem[p].ed = disk["pem"].ed
    /\ pc[p] = "readEnc" =>
         call[p].op \in {"load", "decrypt"} /\ Filed(disk) /\ Present("enc")

RotateStage(p) ==
    /\ pc[p] = "statActive" =>
         /\ call[p].op = "rotate" /\ Filed(disk)
         /\ file[p] = IF Present("enc") THEN "enc" ELSE "pem"
    /\ pc[p] = "archive" =>
         /\ call[p].op = "rotate"
         /\ \E k \in Keys :
              \/ file[p] = "pem"  /\ Has(disk, PlainPair, k) /\ Has(archive[stamp[p]], {}, 0)
              \/ file[p] = "hmac" /\ Has(disk, {"hmac"}, k)  /\ Has(archive[stamp[p]], {"pem"}, k)
              \/ file[p] = "enc"  /\ Has(disk, EncPair, k)   /\ Has(archive[stamp[p]], {}, 0)
              \/ file[p] = "pub"  /\ Has(disk, {"pub"}, k)   /\ Has(archive[stamp[p]], {"enc"}, k)

WriteStage(p) ==
    pc[p] \in {"trunc", "write"} =>
      /\ WholeMem(p)
      /\ call[p].op = "encrypt" => file[p] \in EncPair
      /\ call[p].op = "decrypt" => file[p] \in PlainPair
      /\ call[p].op \in {"load", "rotate"} => Unfiled(mem[p].ed)
      /\ \A f \in File :
           IF f = file[p] THEN disk[f] = IF pc[p] = "write" THEN Torn ELSE Absent
                          ELSE HasFile(disk[f], f, Ready(call[p].op, file[p]), mem[p].ed)

EndStage(p) ==
    /\ pc[p] = "remove" =>
         /\ WholeMem(p)
         /\ \/ call[p].op = "encrypt" /\ file[p] = "pem"
                 /\ Has(disk, PlainPair \cup EncPair, mem[p].ed)
            \/ call[p].op = "encrypt" /\ file[p] = "hmac"
                 /\ Has(disk, {"hmac"} \cup EncPair, mem[p].ed)
            \/ call[p].op = "decrypt" /\ file[p] = "enc"
                 /\ Has(disk, PlainPair \cup EncPair, mem[p].ed)
            \/ call[p].op = "decrypt" /\ file[p] = "pub"
                 /\ Has(disk, PlainPair \cup {"pub"}, mem[p].ed)
    /\ pc[p] = "return" =>
         /\ WholeMem(p)
         /\ Has(disk, PlainPair, mem[p].ed) \/ Has(disk, EncPair, mem[p].ed)
         /\ call[p].op = "rotate" => (file[p] \in EncPair <=> Present("enc"))

Stage(p) ==
    /\ Idle(p) => call[p].op = "load"
    /\ ReadStage(p) /\ RotateStage(p) /\ WriteStage(p) /\ EndStage(p)

\* A rotation of p has filed half of the pair.
Halfway(p) == pc[p] = "archive" /\ file[p] \in {"hmac", "pub"}

ArchiveInv ==
    \A s \in Stamp : Filed(archive[s]) \/ \E p \in Proc : Halfway(p) /\ stamp[p] = s

\* Where a key that was handed out is, in every state.
Kept(k) ==
    \/ Plaintext(disk, k) \/ Encrypted(disk, k)
    \/ \E s \in Stamp : HoldsKey(archive[s]["pem"], k) \/ Encrypted(archive[s], k)

BundlesKept == \A b \in issued : b.ed \in Keys /\ b.hmac = b.ed /\ Kept(b.ed)

QInv ==
    /\ TypeOK /\ Solo /\ ArchiveInv /\ BundlesKept
    /\ AllIdle => Filed(disk)
    /\ \A p \in Proc : Stage(p)

-----------------------------------------------------------------------------
(* The abstract state, read off a state in which QInv holds *)

ActiveNow ==
    IF disk["enc"].st = "full" THEN disk["enc"].ed
    ELSE IF disk["pem"].st = "full" /\ disk["hmac"].st = "full" THEN disk["pem"].ed
    ELSE 0

\* A rotation of p has filed ed25519.pem and not hmac.key.
HalfPlain(p) == pc[p] = "archive" /\ file[p] = "hmac"

Rotating(p) == call[p].op = "rotate" /\ pc[p] # "statActive"

Views ==
    /\ VaultActive = ActiveNow
    /\ \A p \in Proc : HalfPlain(p) => VaultLeaving = archive[stamp[p]]["pem"].ed
    /\ (\A p \in Proc : ~HalfPlain(p)) => VaultLeaving = 0
    /\ \A p \in Proc : Rotating(p) =>
         VaultMode = IF file[p] \in EncPair THEN "encrypted" ELSE "plaintext"
    /\ (\A p \in Proc : ~Rotating(p)) =>
         VaultMode = IF ActiveNow = 0 THEN "unset"
                     ELSE IF disk["enc"].st = "full" THEN "encrypted" ELSE "plaintext"

-----------------------------------------------------------------------------
(* What every step has in common *)

\* What TypeOK says of the parts the steps below use.
Typed ==
    /\ fresh \in Nat /\ {"pem", "hmac", "enc", "pub"} = File
    /\ \A f \in File : disk[f].ed \in Nat /\ disk[f].hmac \in Nat
    /\ \A p \in Proc : /\ mem[p].ed \in Nat /\ mem[p].hmac \in Nat
                       /\ file[p] \in File /\ stamp[p] \in Stamp
                       /\ call[p].op \in {"load", "encrypt", "decrypt", "rotate"}

LEMMA IsTyped == TypeOK => Typed
BY ContentTypes DEF Typed, TypeOK, File, Bundle, Call

\* A process outside a call is at no stage.
LEMMA IdleStagePrime == ASSUME NEW q \in Proc, Idle(q)', call'[q].op = "load" PROVE Stage(q)'
BY DEF Idle, Stage, ReadStage, RotateStage, WriteStage, EndStage

\* More keys generated, no fewer filed.
LEMMA FiledGrows ==
    ASSUME NEW dir, Filed(dir), fresh \in Nat, fresh' \in Nat, fresh' >= fresh
    PROVE  Has(dir, {}, 0) \/ \E k \in 1..fresh' : Has(dir, PlainPair, k) \/ Has(dir, EncPair, k)
BY DEF Filed

\* When only p is in a call, what is to show of its step is about p and the files.
LEMMA OneStep ==
    ASSUME QInv, TypeOK', NEW p \in Proc, NEW l \in Pc, NEW f \in File, Goto(p, l, f),
           ~Idle(p) \/ AllIdle, \A q \in Proc : q # p => call'[q] = call[q],
           ArchiveInv', BundlesKept', Stage(p)',
           l = "idle" => Filed(disk)'
    PROVE  QInv'
<1>1. \A q \in Proc : q # p => Idle(q) /\ Idle(q)'
  BY DEF QInv, Solo, AllIdle, Idle, Goto, TypeOK
<1>2. Solo'
  BY <1>1 DEF Solo
<1>3. \A q \in Proc : Stage(q)'
  BY <1>1, IdleStagePrime DEF QInv, Stage
<1>4. AllIdle' => l = "idle"
  BY DEF AllIdle, Idle, Goto, QInv, TypeOK
<1> QED
  BY <1>2, <1>3, <1>4 DEF QInv

\* A step of p that leaves the files alone, and is not in the middle of a rotation.
LEMMA QControl ==
    ASSUME QInv, TypeOK', NEW p \in Proc, NEW l \in Pc, NEW f \in File, Goto(p, l, f),
           ~Idle(p) \/ AllIdle, \A q \in Proc : q # p => call'[q] = call[q],
           ~Halfway(p),
           UNCHANGED <<store, issued>>, fresh' \in Nat, fresh' >= fresh,
           Stage(p)',
           l = "idle" => Filed(disk)'
    PROVE  QInv'
<1>1. fresh \in Nat /\ UNCHANGED <<disk, archive>>
  BY DEF QInv, TypeOK, store
<1>2. ASSUME NEW s \in Stamp PROVE Filed(archive[s])'
  <2>1. Filed(archive[s])
    <3>1. ASSUME NEW q \in Proc, Halfway(q) PROVE FALSE
      BY <3>1 DEF QInv, Solo, AllIdle, Idle, Halfway
    <3> QED
      BY <3>1 DEF QInv, ArchiveInv
  <2> QED
    BY <1>1, <2>1, FiledGrows DEF Filed
<1>3. ArchiveInv'
  BY <1>2 DEF ArchiveInv
<1>4. BundlesKept'
  BY <1>1 DEF QInv, BundlesKept, Kept, Plaintext, Encrypted, HoldsKey, Keys
<1> QED
  BY <1>3, <1>4, OneStep

-----------------------------------------------------------------------------
(* The abstract state *)

\* The one call there is.
LEMMA TheCall ==
    ASSUME QInv
    PROVE  \/ AllIdle /\ Filed(disk) /\ \A p \in Proc : call[p].op = "load"
           \/ \E p \in Proc : /\ ~Idle(p) /\ Stage(p)
                              /\ \A q \in Proc : q # p => Idle(q) /\ call[q].op = "load"
BY DEF QInv, Solo, AllIdle, Stage

\* A whole keystore.enc, or a whole plaintext pair, is of one generated key.
LEMMA OneKey ==
    ASSUME QInv
    PROVE  /\ disk["enc"].st = "full" => disk["enc"].ed \in Keys /\ disk["enc"].hmac = disk["enc"].ed
           /\ disk["pem"].st = "full" /\ disk["hmac"].st = "full" =>
                disk["pem"].ed \in Keys /\ disk["hmac"].hmac = disk["pem"].ed
<1> DEFINE Goal == /\ disk["enc"].st = "full" =>
                        disk["enc"].ed \in Keys /\ disk["enc"].hmac = disk["enc"].ed
                   /\ disk["pem"].st = "full" /\ disk["hmac"].st = "full" =>
                        disk["pem"].ed \in Keys /\ disk["hmac"].hmac = disk["pem"].ed
<1> USE DEF PlainPair, EncPair, HasFile, Absent, Torn
<1>1. Typed
  BY IsTyped DEF QInv
<1>2. ASSUME Filed(disk) PROVE Goal
  BY <1>1, <1>2 DEF Filed, Has, Keys, Typed
<1>3. ASSUME NEW p \in Proc, ~Idle(p), Stage(p) PROVE Goal
  <2>1. CASE pc[p] \in {"statPlain", "readPem", "readHmac", "readEnc", "statActive"}
    BY <1>2, <1>3, <2>1 DEF Stage, ReadStage, RotateStage
  <2>2. CASE pc[p] = "archive"
    BY <1>1, <1>3, <2>2 DEF Stage, RotateStage, Has, Typed
  <2>3. CASE pc[p] \in {"trunc", "write"}
    BY <1>1, <1>3, <2>3 DEF Stage, WriteStage, WholeMem, Ready, Typed
  <2>4. CASE pc[p] \in {"remove", "return"}
    BY <1>1, <1>3, <2>4 DEF Stage, EndStage, WholeMem, Has, Typed
  <2> QED
    BY <1>3, <2>1, <2>2, <2>3, <2>4 DEF QInv, TypeOK, Pc, Idle
<1> QED
  BY <1>2, <1>3, TheCall

LEMMA ActiveHolds == QInv => VaultActive = ActiveNow
<1> SUFFICES ASSUME QInv PROVE VaultActive = ActiveNow
  OBVIOUS
<1> DEFINE enc   == {k \in Keys : Encrypted(disk, k)}
           plain == {k \in Keys : Plaintext(disk, k)}
<1>1. enc = IF disk["enc"].st = "full" THEN {disk["enc"].ed} ELSE {}
  BY OneKey DEF Encrypted
<1>2. plain = IF disk["pem"].st = "full" /\ disk["hmac"].st = "full" THEN {disk["pem"].ed} ELSE {}
  BY OneKey DEF Plaintext
<1>3. VaultActive = TheKey(IF enc # {} THEN enc ELSE plain)
  BY DEF VaultActive
<1> HIDE DEF enc, plain
<1>4. TheKey({}) = 0 /\ \A k : TheKey({k}) = k
  BY DEF TheKey
<1> QED
  BY <1>1, <1>2, <1>3, <1>4 DEF ActiveNow

LEMMA LeavingHolds ==
    ASSUME QInv
    PROVE  /\ \A p \in Proc : HalfPlain(p) => VaultLeaving = archive[stamp[p]]["pem"].ed
           /\ (\A p \in Proc : ~HalfPlain(p)) => VaultLeaving = 0
<1> DEFINE Half(s, k) == HoldsKey(archive[s]["pem"], k) /\ archive[s]["hmac"].st = "absent"
           left == {k \in Keys : \E s \in Stamp : Half(s, k)}
<1> USE DEF PlainPair, EncPair, HasFile, Absent, HoldsKey
<1>1. Typed
  BY IsTyped DEF QInv
<1>2. VaultLeaving = TheKey(left) /\ TheKey({}) = 0 /\ \A k : TheKey({k}) = k
  BY DEF VaultLeaving, TheKey
<1>3. ASSUME NEW s \in Stamp, Filed(archive[s]), NEW k PROVE ~Half(s, k)
  BY <1>1, <1>3 DEF Filed, Has, Typed
<1>4. ASSUME NEW p \in Proc, Halfway(p)
      PROVE  IF HalfPlain(p) THEN /\ archive[stamp[p]]["pem"].ed \in Keys
                                  /\ \A k : Half(stamp[p], k) <=> k = archive[stamp[p]]["pem"].ed
                             ELSE \A k : ~Half(stamp[p], k)
  BY <1>1, <1>4 DEF QInv, Stage, RotateStage, Has, Halfway, HalfPlain, Typed
<1>5. ASSUME NEW p \in Proc, NEW q \in Proc, Halfway(p), Halfway(q) PROVE p = q
  BY <1>5 DEF QInv, Solo, Halfway, Idle
<1>6. ASSUME NEW p \in Proc, HalfPlain(p) PROVE left = {archive[stamp[p]]["pem"].ed}
  <2>1. Halfway(p) /\ stamp[p] \in Stamp
    BY <1>1, <1>6 DEF Halfway, HalfPlain, Typed
  <2>2. \A s \in Stamp : s # stamp[p] => \A k : ~Half(s, k)
    BY <1>3, <1>5, <2>1 DEF QInv, ArchiveInv
  <2> HIDE DEF Half
  <2> QED
    BY <1>4, <1>6, <2>1, <2>2
<1>7. ASSUME \A p \in Proc : ~HalfPlain(p) PROVE left = {}
  <2>1. ASSUME NEW s \in Stamp PROVE \A k : ~Half(s, k)
    <3>1. CASE Filed(archive[s])
      BY <1>3, <3>1
    <3>2. ASSUME NEW p \in Proc, Halfway(p), stamp[p] = s PROVE \A k : ~Half(s, k)
      <4> HIDE DEF Half
      <4> QED
        BY <1>4, <1>7, <3>2
    <3> QED
      BY <3>1, <3>2 DEF QInv, ArchiveInv
  <2> HIDE DEF Half
  <2> QED
    BY <2>1
<1> HIDE DEF left
<1> QED
  BY <1>2, <1>6, <1>7

LEMMA ModeHolds ==
    ASSUME QInv
    PROVE  /\ \A p \in Proc : Rotating(p) =>
                VaultMode = IF file[p] \in EncPair THEN "encrypted" ELSE "plaintext"
           /\ (\A p \in Proc : ~Rotating(p)) =>
                VaultMode = IF ActiveNow = 0 THEN "unset"
                            ELSE IF disk["enc"].st = "full" THEN "encrypted" ELSE "plaintext"
<1> DEFINE rotating == {p \in Proc : Rotating(p)}
<1>1. VaultMode = IF rotating # {}
                  THEN IF \E p \in rotating : file[p] \in EncPair THEN "encrypted" ELSE "plaintext"
                  ELSE IF VaultActive = 0 THEN "unset"
                  ELSE IF disk["enc"].st = "full" THEN "encrypted" ELSE "plaintext"
  BY DEF VaultMode, Rotating, EncPair
<1>2. ASSUME NEW p \in Proc, Rotating(p) PROVE rotating = {p}
  BY <1>2, TheCall DEF Rotating
<1>3. (\A p \in Proc : ~Rotating(p)) => rotating = {}
  OBVIOUS
<1> HIDE DEF rotating
<1> QED
  BY <1>1, <1>2, <1>3, ActiveHolds

LEMMA ViewsHold == QInv => Views
BY ActiveHolds, LeavingHolds, ModeHolds DEF Views

LEMMA ViewsHoldNext == QInv' => Views'
BY ViewsHold, PTL

-----------------------------------------------------------------------------
(* The invariant, step by step *)

LEMMA QStart ==
    ASSUME QuietUse, QInv, TypeOK', NEW p \in Proc, Start(p)
    PROVE  QInv'
<1>1. PICK w \in Args : StartLoad(p, w) \/ StartEncrypt(p, w)
                          \/ StartDecrypt(p, w) \/ StartRotate(p, w)
  BY DEF Start
<1>2. AllIdle /\ UNCHANGED <<store, fresh, mem, issued>>
  BY <1>1 DEF StartLoad, StartEncrypt, StartDecrypt, StartRotate, Begin, QuietUse, AllIdle
<1>3. PICK l \in {"statPlain", "readEnc", "statActive"}, f \in {"pem", "enc"},
           op \in {"load", "encrypt", "decrypt", "rotate"} :
        /\ Goto(p, l, f)
        /\ call' = [call EXCEPT ![p] = [op |-> op, pass |-> w]]
        /\ l = "statPlain" => op \in {"load", "encrypt"} /\ ~Present("enc")
        /\ l = "readEnc" => op \in {"load", "decrypt"} /\ Present("enc")
        /\ l = "statActive" => op = "rotate" /\ (f = "enc" <=> Present("enc"))
  BY <1>1 DEF StartLoad, StartEncrypt, StartDecrypt, StartRotate, Begin
<1>4. pc'[p] = l /\ file'[p] = f /\ call'[p].op = op /\ l \in Pc /\ f \in File
  BY <1>3 DEF Goto, QInv, TypeOK, Pc, File
<1>5. /\ ~Halfway(p) /\ fresh \in Nat /\ disk' = disk
      /\ \A q \in Proc : q # p => call'[q] = call[q]
  BY <1>2, <1>3 DEF AllIdle, Idle, Halfway, QInv, TypeOK, store
<1>6. Filed(disk) /\ Filed(disk)'
  BY <1>2, <1>5 DEF QInv, Filed
<1>7. ~Present("enc") => disk["enc"] = Absent
  <2>1. Typed
    BY IsTyped DEF QInv
  <2> QED
    BY <1>6, <2>1 DEF Filed, Has, HasFile, PlainPair, EncPair, Present, Typed
<1>8. Stage(p)'
  BY <1>3, <1>4, <1>5, <1>6, <1>7
  DEF Stage, ReadStage, RotateStage, WriteStage, EndStage, Idle, Present
<1> QED
  BY <1>2, <1>3, <1>4, <1>5, <1>8, QControl

\* Ending a call that has changed nothing.
LEMMA QFinish ==
    ASSUME QInv, TypeOK', NEW p \in Proc, ~Idle(p), ~Halfway(p), Finish(p), Filed(disk),
           UNCHANGED <<store, fresh, issued>>
    PROVE  QInv'
<1>1. Goto(p, "idle", "pem") /\ "idle" \in Pc /\ "pem" \in File
  BY DEF Finish, Pc, File
<1>2. /\ Idle(p)' /\ call'[p].op = "load" /\ fresh \in Nat
      /\ \A q \in Proc : q # p => call'[q] = call[q]
  BY <1>1 DEF Finish, Goto, Idle, NoCall, QInv, TypeOK
<1>3. Stage(p)' /\ Filed(disk)'
  BY <1>2, IdleStagePrime DEF Filed, store
<1> QED
  BY <1>1, <1>2, <1>3, QControl

\* The archive holds no key that is still to be generated.
LEMMA ArchiveBound ==
    ASSUME QInv, NEW s \in Stamp
    PROVE  /\ archive[s]["pem"].ed \in 0..fresh /\ archive[s]["enc"].ed \in 0..fresh
           /\ \A k : Plaintext(archive[s], k) \/ Encrypted(archive[s], k) => k \in Keys
<1> USE DEF Has, HasFile, PlainPair, EncPair, Absent, Keys, Plaintext, Encrypted
<1>1. Typed
  BY IsTyped DEF QInv
<1>2. CASE Filed(archive[s])
  BY <1>1, <1>2 DEF Filed, Typed
<1>3. ASSUME NEW p \in Proc, Halfway(p), stamp[p] = s
      PROVE  \E k \in Keys : Has(archive[s], {"pem"}, k) \/ Has(archive[s], {"enc"}, k)
  BY <1>3 DEF QInv, Stage, RotateStage, Halfway
<1>4. ASSUME NEW k \in Keys, Has(archive[s], {"pem"}, k) \/ Has(archive[s], {"enc"}, k)
      PROVE  /\ archive[s]["pem"].ed \in 0..fresh /\ archive[s]["enc"].ed \in 0..fresh
             /\ \A j : Plaintext(archive[s], j) \/ Encrypted(archive[s], j) => j \in Keys
  BY <1>1, <1>4 DEF Typed
<1> QED
  BY <1>2, <1>3, <1>4 DEF QInv, ArchiveInv

LEMMA QRead ==
    ASSUME QInv, TypeOK', NEW p \in Proc,
           \/ FoundPlain(p) \/ MissingPlain(p) \/ ReadPem(p) \/ ReadHmac(p) \/ ReadEnc(p)
    PROVE  QInv'
<1> USE DEF Stage, ReadStage, RotateStage, WriteStage, EndStage, Has, HasFile, PlainPair, EncPair,
            Absent, Present, Keys
<1>1. ~Idle(p) /\ ~Halfway(p) /\ Stage(p) /\ Filed(disk)
  BY DEF FoundPlain, MissingPlain, ReadPem, ReadHmac, ReadEnc, Idle, Halfway, QInv
<1>2. Typed /\ TypeOK
  BY IsTyped DEF QInv
<1>3. {"readPem", "readHmac", "return", "trunc"} \subseteq Pc
  BY DEF Pc
<1>4. CASE Finish(p)
  <2>1. UNCHANGED <<store, fresh, issued>>
    BY <1>2, <1>4 DEF FoundPlain, MissingPlain, ReadPem, ReadHmac, ReadEnc, Finish, Goto, Generate,
                      TypeOK
  <2> QED
    BY <1>1, <1>4, <2>1, QFinish
<1>5. CASE FoundPlain(p)
  <2>1. Goto(p, "readPem", "pem") /\ UNCHANGED <<store, fresh, call, mem, issued>>
        /\ pc[p] = "statPlain" /\ Present("pem")
    BY <1>5 DEF FoundPlain
  <2>2. Stage(p)'
    BY <1>1, <1>2, <2>1 DEF Goto, TypeOK, Idle, store, Filed
  <2> QED
    BY <1>1, <1>2, <1>3, <2>1, <2>2, QControl DEF Typed
<1>6. CASE MissingPlain(p) /\ ~Finish(p)
  <2>1. PICK f \in {"pem", "enc"} : Generate(p, f) /\ UNCHANGED <<store, issued, call>>
    BY <1>6 DEF MissingPlain
  <2>2. /\ fresh' = fresh + 1 /\ mem'[p] = [ed |-> fresh + 1, hmac |-> fresh + 1]
        /\ pc'[p] = "trunc" /\ file'[p] = f /\ Goto(p, "trunc", f) /\ call[p].op = "load"
    BY <1>6, <2>1 DEF Generate, Goto, TypeOK, QInv, MissingPlain, Finish
  <2>3. Has(disk, {}, 0)
    BY <1>1, <1>2, <1>6 DEF MissingPlain, Filed, Typed
  <2>4. Unfiled(mem[p].ed)'
    BY <1>2, <2>1, <2>2, ArchiveBound DEF Unfiled, Typed, store
  <2>5. Stage(p)'
    BY <1>2, <2>1, <2>2, <2>3, <2>4 DEF Idle, WholeMem, Ready, Typed, store
  <2> QED
    BY <1>1, <1>2, <1>3, <2>1, <2>2, <2>5, QControl DEF Typed
<1>7. CASE ReadPem(p) /\ ~Finish(p)
  <2>1. /\ Goto(p, "readHmac", "hmac") /\ UNCHANGED <<store, fresh, call, issued>>
        /\ mem' = [mem EXCEPT ![p] = [ed |-> disk["pem"].ed, hmac |-> 0]] /\ pc[p] = "readPem"
    BY <1>7 DEF ReadPem
  <2>2. Stage(p)'
    BY <1>1, <1>2, <2>1 DEF Goto, TypeOK, Idle, store, Filed
  <2> QED
    BY <1>1, <1>2, <1>3, <2>1, <2>2, QControl DEF Typed
<1>8. CASE ReadHmac(p) /\ ~Finish(p)
  <2>1. PICK l \in {"return", "trunc"} :
           /\ Goto(p, l, "enc") /\ UNCHANGED <<store, fresh, call, issued>>
           /\ mem' = [mem EXCEPT ![p] = [ed |-> mem[p].ed, hmac |-> disk["hmac"].hmac]]
           /\ pc[p] = "readHmac"
           /\ l = IF call[p].op = "load" THEN "return" ELSE "trunc"
    BY <1>8 DEF ReadHmac
  <2>2. mem[p].ed \in Keys /\ disk["hmac"].hmac = mem[p].ed /\ Has(disk, PlainPair, mem[p].ed)
    BY <1>1, <1>2, <2>1 DEF Filed, Typed
  <2>3. pc'[p] = l /\ file'[p] = "enc" /\ mem'[p].ed = mem[p].ed /\ WholeMem(p)'
    BY <1>2, <2>1, <2>2 DEF Goto, TypeOK, WholeMem
  <2>4. Stage(p)'
    BY <1>1, <1>2, <2>1, <2>2, <2>3 DEF Idle, store, Ready, Typed
  <2> QED
    BY <1>1, <1>2, <1>3, <2>1, <2>4, QControl DEF Typed
<1>9. CASE ReadEnc(p) /\ ~Finish(p)
  <2>1. PICK l \in {"return", "trunc"} :
           /\ Goto(p, l, "pem") /\ UNCHANGED <<store, fresh, call, issued>>
           /\ mem' = [mem EXCEPT ![p] = [ed |-> disk["enc"].ed, hmac |-> disk["enc"].hmac]]
           /\ pc[p] = "readEnc"
           /\ l = IF call[p].op = "load" THEN "return" ELSE "trunc"
    BY <1>9 DEF ReadEnc
  <2>2. disk["enc"].ed \in Keys /\ Has(disk, EncPair, disk["enc"].ed)
    BY <1>1, <1>2, <2>1 DEF Filed, Typed
  <2>3. pc'[p] = l /\ file'[p] = "pem" /\ mem'[p].ed = disk["enc"].ed /\ WholeMem(p)'
    BY <1>2, <2>1, <2>2 DEF Goto, TypeOK, WholeMem, Typed
  <2>4. Stage(p)'
    BY <1>1, <1>2, <2>1, <2>2, <2>3 DEF Idle, store, Ready, Typed
  <2> QED
    BY <1>1, <1>2, <1>3, <2>1, <2>4, QControl DEF Typed
<1> QED
  BY <1>4, <1>5, <1>6, <1>7, <1>8, <1>9

LEMMA QStatActive ==
    ASSUME QuietUse, QInv, TypeOK', NEW p \in Proc, StatActive(p)
    PROVE  QInv'
<1> USE DEF Has, HasFile, PlainPair, EncPair, Absent, Present, Keys
<1>1. ~Idle(p) /\ ~Halfway(p) /\ Stage(p) /\ Filed(disk) /\ Typed
  BY IsTyped DEF StatActive, Idle, Halfway, QInv, Stage, RotateStage
<1>2. CASE Finish(p)
  BY <1>1, <1>2, QFinish DEF StatActive
<1>3. CASE ~Finish(p)
  <2>1. /\ Goto(p, "archive", file[p]) /\ UNCHANGED <<store, fresh, call, mem, issued>>
        /\ stamp' = [stamp EXCEPT ![p] = clock] /\ archive[clock] = EmptyDir
        /\ Present(file[p]) \/ Present(Companion(file[p]))
        /\ pc[p] = "statActive" /\ call[p].op = "rotate"
        /\ file[p] = IF Present("enc") THEN "enc" ELSE "pem"
    BY <1>1, <1>3 DEF StatActive, QuietUse, Stage, RotateStage
  <2>2. /\ pc'[p] = "archive" /\ file'[p] = file[p] /\ stamp'[p] = clock /\ clock \in Stamp
        /\ disk' = disk /\ archive' = archive
    BY <2>1 DEF Goto, QInv, TypeOK, store
  <2>3. Has(archive[clock], {}, 0)
    BY <2>1 DEF EmptyDir
  <2>4. \E k \in Keys : IF file[p] = "pem" THEN Has(disk, PlainPair, k) ELSE Has(disk, EncPair, k)
    BY <1>1, <2>1 DEF Filed, Typed, Companion
  <2>5. Stage(p)'
    BY <2>1, <2>2, <2>3, <2>4 DEF Idle, Stage, ReadStage, RotateStage, WriteStage, EndStage
  <2> QED
    BY <1>1, <2>1, <2>5, QControl DEF Typed, Pc
<1> QED
  BY <1>2, <1>3

\* The files of a rotation, before and after it moves one.
LEMMA Moved ==
    ASSUME QInv, NEW p \in Proc, ArchiveFile(p)
    PROVE  /\ Typed /\ pc[p] = "archive" /\ call[p].op = "rotate"
           /\ \A g \in File : disk'[g] = IF g = file[p] THEN Absent ELSE disk[g]
           /\ \A s \in Stamp, g \in File :
                archive'[s][g] = IF s = stamp[p] /\ g = file[p] THEN disk[file[p]] ELSE archive[s][g]
           /\ \A s \in Stamp : s # stamp[p] => archive'[s] = archive[s] /\ Filed(archive[s])
           /\ \E k \in Keys :
                \/ file[p] = "pem"  /\ Has(disk, PlainPair, k) /\ Has(archive[stamp[p]], {}, 0)
                \/ file[p] = "hmac" /\ Has(disk, {"hmac"}, k)  /\ Has(archive[stamp[p]], {"pem"}, k)
                \/ file[p] = "enc"  /\ Has(disk, EncPair, k)   /\ Has(archive[stamp[p]], {}, 0)
                \/ file[p] = "pub"  /\ Has(disk, {"pub"}, k)   /\ Has(archive[stamp[p]], {"enc"}, k)
<1>1. Typed /\ pc[p] = "archive" /\ Stage(p)
  BY IsTyped DEF QInv, ArchiveFile
<1>2. stamp[p] \in Stamp /\ file[p] \in File /\ archive[stamp[p]] \in [File -> Content]
  BY <1>1 DEF Typed, QInv, TypeOK
<1>3. \A g \in File : disk'[g] = IF g = file[p] THEN Absent ELSE disk[g]
  BY <1>2 DEF ArchiveFile, QInv, TypeOK
<1>4. /\ \A s \in Stamp : s # stamp[p] => archive'[s] = archive[s]
      /\ archive'[stamp[p]] = [archive[stamp[p]] EXCEPT ![file[p]] = disk[file[p]]]
  BY <1>2 DEF ArchiveFile, QInv, TypeOK
<1>5. \A s \in Stamp, g \in File :
        archive'[s][g] = IF s = stamp[p] /\ g = file[p] THEN disk[file[p]] ELSE archive[s][g]
  BY <1>2, <1>4
<1>6. \A q \in Proc : Halfway(q) => q = p
  BY <1>1 DEF QInv, Solo, Halfway, Idle
<1>7. \A s \in Stamp : s # stamp[p] => Filed(archive[s])
  BY <1>6 DEF QInv, ArchiveInv
<1> QED
  BY <1>1, <1>3, <1>4, <1>5, <1>7 DEF Stage, RotateStage

LEMMA QArchive ==
    ASSUME QInv, TypeOK', NEW p \in Proc, ArchiveFile(p)
    PROVE  QInv'
<1> USE DEF HasFile, PlainPair, EncPair, Absent, Keys
<1>1. /\ Typed /\ pc[p] = "archive" /\ call[p].op = "rotate" /\ ~Idle(p)
      /\ call' = call /\ stamp' = stamp /\ issued' = issued
      /\ AfterArchive(p, file[p])
  BY Moved DEF ArchiveFile, Idle
<1>2. PICK f \in File, s0 \in Stamp : f = file[p] /\ s0 = stamp[p]
  BY <1>1 DEF Typed
<1>3. PICK k \in Keys :
        \/ f = "pem"  /\ Has(disk, PlainPair, k) /\ Has(archive[s0], {}, 0)
        \/ f = "hmac" /\ Has(disk, {"hmac"}, k)  /\ Has(archive[s0], {"pem"}, k)
        \/ f = "enc"  /\ Has(disk, EncPair, k)   /\ Has(archive[s0], {}, 0)
        \/ f = "pub"  /\ Has(disk, {"pub"}, k)   /\ Has(archive[s0], {"enc"}, k)
  BY <1>2, Moved
<1>4. \A g \in File : /\ disk'[g] = IF g = f THEN Absent ELSE disk[g]
                      /\ archive'[s0][g] = IF g = f THEN disk[f] ELSE archive[s0][g]
  BY <1>2, Moved
<1>5. \A s \in Stamp : s # s0 => archive'[s] = archive[s] /\ Filed(archive[s])
  BY <1>2, Moved
<1>6. fresh' \in Nat /\ fresh' >= fresh /\ fresh \in Nat
  BY <1>1 DEF AfterArchive, Generate, Typed
<1> DEFINE l == IF f \in {"pem", "enc"} THEN "archive" ELSE "trunc"
           g == IF f = "pem" THEN "hmac" ELSE IF f = "enc" THEN "pub"
                ELSE IF f = "hmac" THEN "pem" ELSE "enc"
<1>7. Goto(p, l, g) /\ l \in Pc /\ g \in File
  BY <1>1, <1>2 DEF AfterArchive, Generate, Companion, Typed, Pc
<1>8. pc'[p] = l /\ file'[p] = g /\ stamp'[p] = s0 /\ call'[p].op = "rotate"
  BY <1>1, <1>2, <1>7 DEF Goto, QInv, TypeOK
<1>9. /\ f = "pem"  => Has(disk', {"hmac"}, k) /\ Has(archive'[s0], {"pem"}, k)
      /\ f = "hmac" => Has(disk', {}, 0) /\ Has(archive'[s0], PlainPair, k)
      /\ f = "enc"  => Has(disk', {"pub"}, k) /\ Has(archive'[s0], {"enc"}, k)
      /\ f = "pub"  => Has(disk', {}, 0) /\ Has(archive'[s0], EncPair, k)
  BY <1>1, <1>3, <1>4 DEF Has, Typed
<1>10. k \in 1..fresh'
  BY <1>6
<1>11. ArchiveInv'
  <2>1. ASSUME NEW s \in Stamp, s # s0 PROVE Filed(archive[s])'
    BY <1>5, <1>6, <2>1, FiledGrows DEF Filed
  <2>2. CASE f \in {"pem", "enc"}
    BY <1>8, <2>1, <2>2 DEF ArchiveInv, Halfway
  <2>3. CASE f \in {"hmac", "pub"}
    <3>1. Filed(archive[s0])'
      BY <1>9, <1>10, <2>3 DEF Filed
    <3> QED
      BY <2>1, <3>1 DEF ArchiveInv
  <2> QED
    BY <1>1, <2>2, <2>3 DEF Typed
<1>12. BundlesKept'
  <2>1. ASSUME NEW b \in issued PROVE b.ed \in Keys' /\ b.hmac = b.ed
    BY <1>6 DEF QInv, BundlesKept
  <2>2. ASSUME NEW j, Kept(j) PROVE Kept(j)'
    <3>1. CASE f \in {"pem", "hmac"}
      BY <1>1, <1>3, <1>4, <1>5, <2>2, <3>1
      DEF Kept, Plaintext, Encrypted, HoldsKey, Has, Typed
    <3>2. CASE f \in {"enc", "pub"}
      BY <1>1, <1>3, <1>4, <1>5, <2>2, <3>2
      DEF Kept, Plaintext, Encrypted, HoldsKey, Has, Typed
    <3> QED
      BY <1>1, <3>1, <3>2 DEF Typed
  <2> QED
    BY <1>1, <2>1, <2>2 DEF QInv, BundlesKept
<1>13. Stage(p)'
  <2>1. CASE f \in {"pem", "enc"}
    BY <1>8, <1>9, <1>10, <2>1 DEF Stage, ReadStage, RotateStage, WriteStage, EndStage, Idle
  <2>2. CASE f \in {"hmac", "pub"}
    <3>1. /\ fresh' = fresh + 1 /\ mem'[p] = [ed |-> fresh + 1, hmac |-> fresh + 1]
      BY <1>1, <1>2, <2>2 DEF AfterArchive, Generate, QInv, TypeOK
    <3>2. Unfiled(mem[p].ed)'
      <4>1. ASSUME NEW s \in Stamp
            PROVE  archive'[s]["pem"].ed \in 0..fresh /\ archive'[s]["enc"].ed \in 0..fresh
        <5>1. archive'[s]["pem"] = archive[s]["pem"] /\ archive'[s]["enc"] = archive[s]["enc"]
          BY <1>1, <1>4, <1>5, <2>2 DEF Typed
        <5> QED
          BY <5>1, ArchiveBound
      <4> QED
        BY <1>6, <3>1, <4>1 DEF Unfiled
    <3>3. \A h \in File : disk'[h] = Absent
      BY <1>9, <2>2 DEF Has
    <3>4. \A h \in File : g # h => HasFile(disk'[h], h, Ready("rotate", g), mem'[p].ed)
      BY <1>1, <2>2, <3>3 DEF Ready, Typed
    <3> QED
      BY <1>6, <1>8, <2>2, <3>1, <3>2, <3>3, <3>4
      DEF Stage, ReadStage, RotateStage, WriteStage, EndStage, Idle, WholeMem
  <2> QED
    BY <1>1, <2>1, <2>2 DEF Typed
<1> QED
  BY <1>1, <1>7, <1>11, <1>12, <1>13, OneStep

\* A step of p on the files of the directory alone.
LEMMA QFile ==
    ASSUME QInv, TypeOK', NEW p \in Proc, ~Idle(p), ~Halfway(p),
           NEW l \in Pc, NEW g \in File, Goto(p, l, g), l # "idle",
           UNCHANGED <<archive, fresh, call, mem, stamp, issued>>,
           \A k : Kept(k) => Kept(k)',
           Stage(p)'
    PROVE  QInv'
<1>1. \A q \in Proc : ~Halfway(q)
  BY DEF QInv, Solo, Halfway, Idle
<1>2. ArchiveInv'
  BY <1>1 DEF QInv, ArchiveInv, Filed
<1>3. BundlesKept'
  BY DEF QInv, BundlesKept, Keys
<1> QED
  BY <1>2, <1>3, OneStep

LEMMA QWrite ==
    ASSUME QInv, TypeOK', NEW p \in Proc, Truncate(p) \/ Write(p)
    PROVE  QInv'
<1> USE DEF HasFile, PlainPair, EncPair, Absent, Torn, Keys
<1>1. /\ Typed /\ ~Idle(p) /\ ~Halfway(p) /\ Stage(p) /\ pc[p] \in {"trunc", "write"}
      /\ UNCHANGED <<archive, fresh, call, mem, stamp, issued>>
  BY IsTyped DEF Truncate, Write, Idle, Halfway, QInv
<1>2. PICK f \in File, op \in {"load", "encrypt", "decrypt", "rotate"}, k \in Keys :
        f = file[p] /\ op = call[p].op /\ k = mem[p].ed
  BY <1>1 DEF Typed, Stage, WriteStage, WholeMem
<1>3. /\ mem[p].hmac = k
      /\ op = "encrypt" => f \in {"enc", "pub"}
      /\ op = "decrypt" => f \in {"pem", "hmac"}
      /\ op \in {"load", "rotate"} => Unfiled(k)
      /\ disk[f] = IF pc[p] = "write" THEN Torn ELSE Absent
      /\ \A g \in File : g # f => HasFile(disk[g], g, Ready(op, f), k)
  BY <1>1, <1>2 DEF Stage, WriteStage, WholeMem
<1>4. \A g \in File : g # f => disk'[g] = disk[g]
  BY <1>2 DEF Truncate, Write, QInv, TypeOK
<1>5. \A j : Kept(j) => Kept(j)'
  <2>1. \A j : Plaintext(disk, j) => Plaintext(disk', j)
    BY <1>1, <1>3, <1>4 DEF Plaintext, Typed
  <2>2. \A j : Encrypted(disk, j) => Encrypted(disk', j)
    BY <1>1, <1>3, <1>4 DEF Encrypted, Typed
  <2> QED
    BY <1>1, <2>1, <2>2 DEF Kept
<1>6. CASE Truncate(p)
  <2>1. Goto(p, "write", f) /\ disk'[f] = Torn /\ "write" \in Pc
    BY <1>2, <1>6 DEF Truncate, QInv, TypeOK, Pc
  <2>2. pc'[p] = "write" /\ file'[p] = f
    BY <2>1 DEF Goto, QInv, TypeOK
  <2>3. /\ mem'[p].ed = k /\ mem'[p].hmac = k /\ call'[p].op = op /\ fresh' = fresh
        /\ Unfiled(k) => Unfiled(mem[p].ed)'
    BY <1>1, <1>2, <1>3 DEF Unfiled
  <2>4. Stage(p)'
    BY <1>2, <1>3, <1>4, <2>1, <2>2, <2>3
    DEF Stage, ReadStage, RotateStage, WriteStage, EndStage, Idle, WholeMem
  <2> QED
    BY <1>1, <1>2, <1>5, <2>1, <2>4, QFile
<1>7. CASE Write(p)
  <2> DEFINE l == IF f \in {"pem", "enc"} THEN "trunc"
                  ELSE IF (f = "pub" /\ op = "encrypt") \/ (f = "hmac" /\ op = "decrypt")
                       THEN "remove" ELSE "return"
             g == IF f \in {"pem", "enc"} THEN Companion(f)
                  ELSE IF f = "pub" /\ op = "encrypt" THEN "pem"
                  ELSE IF f = "hmac" /\ op = "decrypt" THEN "enc" ELSE f
  <2>1. Goto(p, l, g) /\ l \in Pc /\ g \in File
    BY <1>1, <1>2, <1>7 DEF Write, AfterWrite, Companion, Typed, Pc
  <2>2. /\ pc'[p] = l /\ file'[p] = g /\ mem'[p].ed = k /\ mem'[p].hmac = k
        /\ call'[p].op = op /\ fresh' = fresh
        /\ Unfiled(k) => Unfiled(mem[p].ed)'
    BY <1>1, <1>2, <1>3, <2>1 DEF Goto, QInv, TypeOK, Unfiled
  <2>3. HasFile(disk'[f], f, {f}, k)
    BY <1>1, <1>2, <1>3, <1>7 DEF Write, NewContent, Full, QInv, TypeOK
  <2>4. \A h \in File : HasFile(disk'[h], h, Ready(op, f) \cup {f}, k)
    BY <1>3, <1>4, <2>3
  <2>5. CASE l = "trunc"
    <3>1. Ready(op, f) \cup {f} = Ready(op, g) /\ g \notin Ready(op, g)
      BY <1>1, <1>3, <2>5 DEF Ready, Companion, Typed
    <3>2. disk'[g] = Absent
      BY <2>1, <2>4, <3>1
    <3>3. (op = "encrypt" => g \in EncPair) /\ (op = "decrypt" => g \in PlainPair)
      BY <1>1, <1>3, <2>5 DEF Companion, Typed
    <3> HIDE DEF l, g
    <3>4. Stage(p)'
      BY <1>2, <1>3, <2>2, <2>4, <2>5, <3>1, <3>2, <3>3
      DEF Stage, ReadStage, RotateStage, WriteStage, EndStage, Idle, WholeMem
    <3> QED
      BY <1>1, <1>5, <2>1, <2>5, <3>4, QFile
  <2>6. CASE l = "remove"
    <3>1. /\ (op = "encrypt" /\ g = "pem") \/ (op = "decrypt" /\ g = "enc")
          /\ Ready(op, f) \cup {f} = PlainPair \cup EncPair
      BY <1>1, <1>3, <2>6 DEF Ready, Typed
    <3>2. Has(disk, PlainPair \cup EncPair, mem[p].ed)'
      BY <2>2, <2>4, <3>1 DEF Has
    <3> HIDE DEF l, g
    <3> QED
      BY <1>1, <1>2, <1>5, <2>1, <2>2, <2>6, <3>1, <3>2, QFile
      DEF Stage, ReadStage, RotateStage, WriteStage, EndStage, Idle, WholeMem
  <2>7. CASE l = "return"
    <3>1. /\ \/ f = "hmac" /\ Ready(op, f) \cup {f} = PlainPair
             \/ f = "pub" /\ Ready(op, f) \cup {f} = EncPair
          /\ g = f
      BY <1>1, <1>3, <2>7 DEF Ready, Typed
    <3>2. IF f = "hmac" THEN Has(disk', PlainPair, k) ELSE Has(disk', EncPair, k)
      BY <2>4, <3>1 DEF Has
    <3>3. f = "pub" <=> Present("enc")'
      BY <1>1, <3>1, <3>2 DEF Has, Present, Typed
    <3> HIDE DEF l, g
    <3> QED
      BY <1>1, <1>2, <1>5, <2>1, <2>2, <2>7, <3>1, <3>2, <3>3, QFile
      DEF Stage, ReadStage, RotateStage, WriteStage, EndStage, Idle, WholeMem
  <2> QED
    BY <2>5, <2>6, <2>7
<1> QED
  BY <1>6, <1>7

LEMMA QRemove ==
    ASSUME QInv, TypeOK', NEW p \in Proc, Remove(p)
    PROVE  QInv'
<1> USE DEF HasFile, PlainPair, EncPair, Absent, Keys, Has
<1>1. /\ Typed /\ ~Idle(p) /\ ~Halfway(p) /\ Stage(p) /\ pc[p] = "remove"
      /\ UNCHANGED <<archive, fresh, call, mem, stamp, issued>>
  BY IsTyped DEF Remove, Idle, Halfway, QInv
<1>2. PICK f \in File, op \in {"load", "encrypt", "decrypt", "rotate"}, k \in Keys :
        f = file[p] /\ op = call[p].op /\ k = mem[p].ed
  BY <1>1 DEF Typed, Stage, EndStage, WholeMem
<1>3. /\ mem[p].hmac = k
      /\ \/ op = "encrypt" /\ f = "pem"  /\ Has(disk, PlainPair \cup EncPair, k)
         \/ op = "encrypt" /\ f = "hmac" /\ Has(disk, {"hmac"} \cup EncPair, k)
         \/ op = "decrypt" /\ f = "enc"  /\ Has(disk, PlainPair \cup EncPair, k)
         \/ op = "decrypt" /\ f = "pub"  /\ Has(disk, PlainPair \cup {"pub"}, k)
  BY <1>1, <1>2 DEF Stage, EndStage, WholeMem
<1>4. \A g \in File : disk'[g] = IF g = f THEN Absent ELSE disk[g]
  BY <1>2 DEF Remove, QInv, TypeOK
<1> DEFINE l == IF f \in {"pem", "enc"} THEN "remove" ELSE "return"
           g == IF f = "pem" THEN "hmac" ELSE IF f = "enc" THEN "pub" ELSE f
<1>5. Goto(p, l, g) /\ l \in Pc /\ g \in File /\ l # "idle"
  BY <1>1, <1>2 DEF Remove, Companion, Typed, Pc
<1>6. /\ pc'[p] = l /\ file'[p] = g /\ mem'[p].ed = k /\ mem'[p].hmac = k
      /\ call'[p].op = op /\ fresh' = fresh
  BY <1>1, <1>2, <1>3, <1>5 DEF Goto, QInv, TypeOK
<1>7. /\ f = "pem"  => Has(disk', {"hmac"} \cup EncPair, k)
      /\ f = "hmac" => Has(disk', EncPair, k)
      /\ f = "enc"  => Has(disk', PlainPair \cup {"pub"}, k)
      /\ f = "pub"  => Has(disk', PlainPair, k)
  BY <1>1, <1>3, <1>4 DEF Typed
<1>8. \A j : Kept(j) => Kept(j)'
  <2>1. \A j : Plaintext(disk, j) \/ Encrypted(disk, j) => Plaintext(disk', j) \/ Encrypted(disk', j)
    BY <1>1, <1>3, <1>7 DEF Plaintext, Encrypted, Typed
  <2> QED
    BY <1>1, <2>1 DEF Kept
<1>9. Stage(p)'
  BY <1>2, <1>3, <1>6, <1>7
  DEF Stage, ReadStage, RotateStage, WriteStage, EndStage, Idle, WholeMem
<1> QED
  BY <1>1, <1>5, <1>8, <1>9, QFile

LEMMA QReturn ==
    ASSUME QInv, TypeOK', NEW p \in Proc, Return(p)
    PROVE  QInv'
<1> USE DEF HasFile, PlainPair, EncPair, Absent, Keys, Has
<1>1. /\ Typed /\ ~Idle(p) /\ ~Halfway(p) /\ Finish(p) /\ UNCHANGED <<store, fresh>>
      /\ issued' = issued \cup {mem[p]}
  BY IsTyped DEF Return, Idle, Halfway, QInv
<1>2. Goto(p, "idle", "pem") /\ "idle" \in Pc /\ "pem" \in File /\ UNCHANGED <<disk, archive>>
  BY <1>1 DEF Finish, Pc, File, store
<1>3. /\ Idle(p)' /\ call'[p].op = "load"
      /\ \A q \in Proc : q # p => call'[q] = call[q]
  BY <1>1, <1>2 DEF Finish, Goto, Idle, NoCall, QInv, TypeOK
<1>4. WholeMem(p) /\ (Has(disk, PlainPair, mem[p].ed) \/ Has(disk, EncPair, mem[p].ed))
  BY <1>1 DEF Return, QInv, Stage, EndStage
<1>5. Filed(disk)' /\ Stage(p)'
  BY <1>1, <1>2, <1>3, <1>4, IdleStagePrime DEF Filed, WholeMem
<1>6. ArchiveInv'
  <2>1. \A q \in Proc : ~Halfway(q)
    BY <1>1 DEF QInv, Solo, Halfway, Idle
  <2> QED
    BY <1>1, <1>2, <2>1 DEF QInv, ArchiveInv, Filed
<1>7. BundlesKept'
  <2>1. Kept(mem[p].ed)
    BY <1>1, <1>4 DEF Kept, Plaintext, Encrypted, Typed
  <2>2. \A j : Kept(j) => Kept(j)'
    BY <1>2 DEF Kept
  <2>3. \A b \in issued : b.ed \in Keys /\ b.hmac = b.ed /\ Kept(b.ed)
    BY DEF QInv, BundlesKept
  <2> QED
    BY <1>1, <1>4, <2>1, <2>2, <2>3 DEF BundlesKept, WholeMem
<1> QED
  BY <1>1, <1>2, <1>3, <1>5, <1>6, <1>7, OneStep

\* Quietly used, a rotation finds both files of the pair.
LEMMA NeverSkips == ASSUME QInv, NEW p \in Proc PROVE ~SkipFile(p)
BY IsTyped DEF QInv, Stage, RotateStage, SkipFile, Has, HasFile, PlainPair, EncPair, Present, Typed

LEMMA QStep ==
    ASSUME QuietUse, QInv, TypeOK', NEW p \in Proc, Step(p)
    PROVE  QInv'
BY QRead, QStatActive, QArchive, QWrite, QRemove, QReturn, NeverSkips DEF Step

LEMMA QNext == ASSUME QuietUse, QInv, [Next]_vars PROVE QInv'
<1>1. TypeOK'
  BY TypeStep DEF QInv
<1>2. ASSUME NEW p \in Proc, Start(p) PROVE QInv'
  BY <1>1, <1>2, QStart
<1>3. ASSUME NEW p \in Proc, Step(p) PROVE QInv'
  BY <1>1, <1>3, QStep
<1>4. ASSUME NEW p \in Proc, Abort(p) PROVE QInv'
  BY <1>4 DEF Abort, QuietUse
<1>5. CASE Tick \/ UNCHANGED vars
  <2>1. UNCHANGED <<disk, archive, fresh, pc, file, call, mem, stamp, issued>>
    BY <1>5 DEF Tick, vars, store
  <2>2. Filed(disk) => Filed(disk)'
    BY <2>1 DEF Filed
  <2>3. ArchiveInv'
    BY <2>1 DEF QInv, ArchiveInv, Filed, Halfway
  <2>4. BundlesKept'
    BY <2>1 DEF QInv, BundlesKept, Kept, Plaintext, Encrypted, HoldsKey, Keys
  <2>5. ASSUME NEW p \in Proc PROVE Stage(p)'
    <3>1. Stage(p)
      BY DEF QInv
    <3> QED
      BY <2>1, <2>2, <3>1
      DEF Stage, Idle, ReadStage, RotateStage, WriteStage, EndStage, Present, Unfiled, WholeMem, Keys
  <2> QED
    BY <1>1, <2>1, <2>2, <2>3, <2>4, <2>5 DEF QInv, Solo, AllIdle, Idle
<1> QED
  BY <1>2, <1>3, <1>4, <1>5 DEF Next

LEMMA QInit == Init => QInv
<1> SUFFICES ASSUME Init PROVE QInv
  OBVIOUS
<1>1. TypeOK /\ AllIdle /\ Solo
  BY InitInv DEF IInv, Init, AllIdle, Idle
<1>2. Filed(disk) /\ \A s \in Stamp : Filed(archive[s])
  BY DEF Init, Filed, Has, HasFile, EmptyDir
<1>3. \A p \in Proc : Stage(p)
  BY <1>1 DEF Init, AllIdle, Idle, NoCall, Stage, ReadStage, RotateStage, WriteStage, EndStage
<1>4. BundlesKept
  BY DEF Init, BundlesKept
<1> QED
  BY <1>1, <1>2, <1>3, <1>4 DEF QInv, ArchiveInv

\* The one call there is, uninterrupted, is always at one of its stages.
THEOREM QuietInvariance == ASSUME QuietUse PROVE Spec => []QInv
<1>1. QInv /\ [Next]_vars => QInv'
  BY QNext
<1> QED
  BY QInit, <1>1, PTL DEF Spec

-----------------------------------------------------------------------------
(* Nothing is lost, and `key list' shows it *)

\* Both halves of every bundle handed out stay in the store, half way through a
\* conversion or a rotation as well.
THEOREM BundlesAreKept == ASSUME QuietUse PROVE Spec => []IssuedBundleKept
<1>1. ASSUME QInv PROVE IssuedBundleKept
  <2>1. Typed
    BY <1>1, IsTyped DEF QInv
  <2>2. ASSUME NEW k, Kept(k) PROVE ActiveKey(k) \/ ArchivedKey(k)
    BY <2>2 DEF Kept, Plaintext, Encrypted, ActiveKey, ArchivedKey, HoldsKey
  <2>3. ASSUME NEW k, Kept(k) PROVE HmacKept(k)
    <3>1. CASE Plaintext(disk, k) \/ Encrypted(disk, k)
      BY <3>1 DEF Plaintext, Encrypted, HmacKept
    <3>2. ASSUME NEW s \in Stamp, Encrypted(archive[s], k) PROVE HmacKept(k)
      BY <3>2 DEF Encrypted, HmacKept
    <3>3. ASSUME NEW s \in Stamp, HoldsKey(archive[s]["pem"], k) PROVE HmacKept(k)
      <4>1. CASE Filed(archive[s])
        <5>1. archive[s]["hmac"].st = "full" /\ archive[s]["hmac"].hmac = k
          BY <2>1, <3>3, <4>1
          DEF Filed, Has, HasFile, PlainPair, EncPair, Absent, HoldsKey, Typed
        <5> QED
          BY <5>1 DEF HmacKept
      <4>2. ASSUME NEW p \in Proc, Halfway(p), stamp[p] = s PROVE HmacKept(k)
        <5>1. disk["hmac"].st = "full" /\ disk["hmac"].hmac = k
          BY <1>1, <2>1, <3>3, <4>2
          DEF QInv, Stage, RotateStage, Halfway, Has, HasFile, Absent, HoldsKey, Typed
        <5> QED
          BY <5>1 DEF HmacKept
      <4> QED
        BY <1>1, <4>1, <4>2 DEF QInv, ArchiveInv
    <3> QED
      BY <2>3, <3>1, <3>2, <3>3 DEF Kept
  <2> QED
    BY <1>1, <2>2, <2>3 DEF QInv, BundlesKept, IssuedBundleKept, IssuedKeyKept
<1> QED
  BY <1>1, QuietInvariance, PTL

\* Between calls `key list' shows the key load returns, and the key of every
\* bundle handed out.
THEOREM IssuedKeysAreListed == ASSUME QuietUse PROVE Spec => []IssuedKeyListed
<1>1. ASSUME QInv PROVE IssuedKeyListed
  <2> SUFFICES ASSUME AllIdle
               PROVE  /\ \A b \in issued : ActiveShows(b.ed) \/ \E s \in Stamp : DirShows(archive[s], b.ed)
                      /\ \A k \in Keys : LoadReturns(k, k) <=> ActiveShows(k)
    BY DEF IssuedKeyListed, Keys
  <2> USE DEF Has, HasFile, PlainPair, EncPair, Absent
  <2>1. Typed
    BY <1>1, IsTyped DEF QInv
  <2>2. Filed(disk) /\ \A s \in Stamp : Filed(archive[s])
    BY <1>1 DEF QInv, ArchiveInv, Halfway, AllIdle, Idle
  <2>3. ASSUME NEW k \in Keys PROVE LoadReturns(k, k) <=> ActiveShows(k)
    BY <2>1, <2>2 DEF Filed, LoadReturns, ActiveShows, Present, Typed
  <2>4. ASSUME NEW k, Plaintext(disk, k) \/ Encrypted(disk, k) PROVE ActiveShows(k)
    BY <2>1, <2>2, <2>4 DEF Filed, Plaintext, Encrypted, ActiveShows, Present, Typed
  <2>5. ASSUME NEW k, NEW s \in Stamp, HoldsKey(archive[s]["pem"], k) \/ Encrypted(archive[s], k)
        PROVE  DirShows(archive[s], k)
    BY <2>1, <2>2, <2>5 DEF Filed, HoldsKey, Encrypted, DirShows, Typed
  <2> QED
    BY <1>1, <2>3, <2>4, <2>5 DEF QInv, BundlesKept, Kept
<1> QED
  BY <1>1, QuietInvariance, PTL

-----------------------------------------------------------------------------
(* The refinement: every step of the files is one of the vault or none *)

\* Nobody but the caller rotates.
LEMMA Others ==
    ASSUME QInv, NEW p \in Proc, ~Idle(p) \/ AllIdle, \E l, f : Goto(p, l, f),
           \A q \in Proc : q # p => call'[q] = call[q]
    PROVE  \A q \in Proc : q # p => /\ ~Rotating(q) /\ ~HalfPlain(q)
                                    /\ ~Rotating(q)' /\ ~HalfPlain(q)'
<1>1. ASSUME NEW q \in Proc, q # p
      PROVE  /\ Idle(q) /\ call[q].op = "load" /\ Idle(q)' /\ call'[q].op = "load"
  BY <1>1 DEF QInv, Solo, AllIdle, Idle, Goto, TypeOK, Stage
<1> QED
  BY <1>1 DEF Rotating, HalfPlain, Idle

\* The archived keys stay the same when no directory of the archive becomes whole.
LEMMA SameRetired ==
    ASSUME QInv, fresh' \in Nat, fresh' >= fresh,
           \A s \in Stamp : \A k :
              Plaintext(archive'[s], k) \/ Encrypted(archive'[s], k)
                <=> Plaintext(archive[s], k) \/ Encrypted(archive[s], k)
    PROVE  VaultRetired' = VaultRetired
<1>1. \A s \in Stamp : \A k : Plaintext(archive[s], k) \/ Encrypted(archive[s], k) => k \in Keys
  BY ArchiveBound
<1>2. Keys \subseteq Keys'
  BY DEF QInv, TypeOK, Keys
<1> QED
  BY <1>1, <1>2 DEF VaultRetired

\* A step of p that leaves the archive, and what the directory shows, as they are.
LEMMA Stutters ==
    ASSUME QInv, QInv', NEW p \in Proc, ~Idle(p) \/ AllIdle, \E l, f : Goto(p, l, f),
           \A q \in Proc : q # p => call'[q] = call[q],
           archive' = archive, fresh' >= fresh, ActiveNow' = ActiveNow,
           ~HalfPlain(p), ~HalfPlain(p)',
           VaultMode' = VaultMode
    PROVE  UNCHANGED Vault!vars
<1>1. VaultActive' = VaultActive /\ VaultLeaving' = 0 /\ VaultLeaving = 0
  BY ViewsHold, ViewsHoldNext, Others DEF Views
<1>2. VaultRetired' = VaultRetired
  BY SameRetired DEF QInv, TypeOK
<1> QED
  BY <1>1, <1>2 DEF Vault!vars

\* A step of a call that is not a rotation, or of one not yet begun in earnest.
LEMMA StuttersOutside ==
    ASSUME QInv, QInv', NEW p \in Proc, ~Idle(p) \/ AllIdle, \E l, f : Goto(p, l, f),
           \A q \in Proc : q # p => call'[q] = call[q],
           archive' = archive, fresh' >= fresh, ActiveNow' = ActiveNow,
           disk'["enc"].st = "full" <=> disk["enc"].st = "full",
           ~HalfPlain(p), ~HalfPlain(p)',
           ~Rotating(p), ~Rotating(p)'
    PROVE  UNCHANGED Vault!vars
<1>1. VaultMode' = VaultMode
  BY ViewsHold, ViewsHoldNext, Others DEF Views
<1> QED
  BY <1>1, Stutters

LEMMA VStart ==
    ASSUME QuietUse, QInv, QInv', NEW p \in Proc, Start(p)
    PROVE  UNCHANGED Vault!vars
<1>1. AllIdle /\ UNCHANGED <<store, fresh>>
  BY DEF Start, StartLoad, StartEncrypt, StartDecrypt, StartRotate, Begin, QuietUse, AllIdle
<1>2. PICK l, f, op, w :
        /\ l \in {"statPlain", "readEnc", "statActive"} /\ Goto(p, l, f)
        /\ call' = [call EXCEPT ![p] = [op |-> op, pass |-> w]]
        /\ op = "rotate" => l = "statActive"
  BY DEF Start, StartLoad, StartEncrypt, StartDecrypt, StartRotate, Begin
<1>3. /\ archive' = archive /\ disk' = disk /\ fresh' >= fresh
      /\ \A q \in Proc : q # p => call'[q] = call[q]
  BY <1>1, <1>2 DEF store, QInv, TypeOK
<1>4. ~HalfPlain(p) /\ ~HalfPlain(p)' /\ ~Rotating(p) /\ ~Rotating(p)'
  BY <1>1, <1>2 DEF HalfPlain, Rotating, AllIdle, Idle, Goto, QInv, TypeOK, Stage
<1> QED
  BY <1>1, <1>2, <1>3, <1>4, StuttersOutside DEF ActiveNow

LEMMA VRead ==
    ASSUME QInv, QInv', NEW p \in Proc,
           \/ FoundPlain(p) \/ MissingPlain(p) \/ ReadPem(p) \/ ReadHmac(p) \/ ReadEnc(p)
    PROVE  UNCHANGED Vault!vars
<1>1. /\ ~Idle(p) /\ ~HalfPlain(p) /\ call[p].op # "rotate"
      /\ UNCHANGED store
  BY DEF FoundPlain, MissingPlain, ReadPem, ReadHmac, ReadEnc, Idle, HalfPlain, QInv, Stage, ReadStage
<1>2. PICK l, f : l \in {"idle", "readPem", "readHmac", "return", "trunc"} /\ Goto(p, l, f)
  BY DEF FoundPlain, MissingPlain, Generate, ReadPem, ReadHmac, ReadEnc, Finish
<1>3. fresh' >= fresh
  BY DEF FoundPlain, MissingPlain, Generate, ReadPem, ReadHmac, ReadEnc, QInv, TypeOK
<1>4. call' = call \/ call' = [call EXCEPT ![p] = NoCall]
  BY DEF FoundPlain, MissingPlain, ReadPem, ReadHmac, ReadEnc, Finish
<1>5. /\ archive' = archive /\ disk' = disk
      /\ \A q \in Proc : q # p => call'[q] = call[q]
  BY <1>1, <1>4 DEF store, QInv, TypeOK
<1>6. ~HalfPlain(p)' /\ ~Rotating(p) /\ ~Rotating(p)'
  BY <1>1, <1>2, <1>4 DEF HalfPlain, Rotating, Goto, NoCall, QInv, TypeOK
<1> QED
  BY <1>1, <1>2, <1>3, <1>5, <1>6, StuttersOutside DEF ActiveNow

\* The mode that a rotation carries on with is the one it found.
LEMMA VStatActive ==
    ASSUME QInv, QInv', NEW p \in Proc, StatActive(p)
    PROVE  UNCHANGED Vault!vars
<1>1. /\ ~Idle(p) /\ ~HalfPlain(p) /\ ~Rotating(p) /\ UNCHANGED store /\ fresh' = fresh
      /\ Filed(disk) /\ file[p] = (IF Present("enc") THEN "enc" ELSE "pem") /\ Typed
  BY IsTyped DEF StatActive, Idle, HalfPlain, Rotating, QInv, Stage, RotateStage
<1>2. archive' = archive /\ disk' = disk /\ fresh' >= fresh
  BY <1>1 DEF store, Typed
<1>3. CASE Finish(p)
  <2>1. /\ Goto(p, "idle", "pem") /\ ~HalfPlain(p)' /\ ~Rotating(p)'
        /\ \A q \in Proc : q # p => call'[q] = call[q]
    BY <1>3 DEF Finish, Goto, NoCall, HalfPlain, Rotating, QInv, TypeOK
  <2> QED
    BY <1>1, <1>2, <2>1, StuttersOutside DEF ActiveNow
<1>4. CASE ~Finish(p)
  <2>1. /\ Goto(p, "archive", file[p]) /\ call' = call
        /\ Present(file[p]) \/ Present(Companion(file[p]))
    BY <1>4 DEF StatActive
  <2>2. pc'[p] = "archive" /\ file'[p] = file[p] /\ ~HalfPlain(p)'
    BY <1>1, <2>1 DEF Goto, QInv, TypeOK, HalfPlain
  <2>3. Rotating(p)'
    BY <2>1, <2>2 DEF Rotating, QInv, Stage, RotateStage
  <2>4. /\ file[p] = "pem" => ActiveNow # 0 /\ disk["enc"].st # "full"
        /\ file[p] = "enc" => ActiveNow # 0 /\ disk["enc"].st = "full"
    BY <1>1, <2>1
    DEF Filed, Has, HasFile, PlainPair, EncPair, Absent, Present, Companion, ActiveNow, Typed
  <2>5. \A q \in Proc : ~Rotating(q)
    BY <1>1, <2>1, Others
  <2>6. VaultMode' = VaultMode
    BY <1>1, <2>2, <2>3, <2>4, <2>5, ViewsHold, ViewsHoldNext DEF Views, EncPair
  <2> QED
    BY <1>1, <1>2, <2>1, <2>2, <2>6, Stutters DEF ActiveNow
<1> QED
  BY <1>3, <1>4

\* ed25519.pem leaves, then hmac.key is filed with it; keystore.enc does both at
\* once, and its public file follows.
LEMMA VArchive ==
    ASSUME QInv, QInv', NEW p \in Proc, ArchiveFile(p)
    PROVE  [Vault!Next]_(Vault!vars)
<1> USE DEF HasFile, PlainPair, EncPair, Absent
<1>1. /\ Typed /\ pc[p] = "archive" /\ call[p].op = "rotate" /\ ~Idle(p)
      /\ call' = call /\ stamp' = stamp /\ AfterArchive(p, file[p])
  BY Moved DEF ArchiveFile, Idle
<1>2. PICK f \in File, s0 \in Stamp : f = file[p] /\ s0 = stamp[p]
  BY <1>1 DEF Typed
<1>3. PICK k \in Keys :
        \/ f = "pem"  /\ Has(disk, PlainPair, k) /\ Has(archive[s0], {}, 0)
        \/ f = "hmac" /\ Has(disk, {"hmac"}, k)  /\ Has(archive[s0], {"pem"}, k)
        \/ f = "enc"  /\ Has(disk, EncPair, k)   /\ Has(archive[s0], {}, 0)
        \/ f = "pub"  /\ Has(disk, {"pub"}, k)   /\ Has(archive[s0], {"enc"}, k)
  BY <1>2, Moved
<1>4. \A g \in File : /\ disk'[g] = IF g = f THEN Absent ELSE disk[g]
                      /\ archive'[s0][g] = IF g = f THEN disk[f] ELSE archive[s0][g]
  BY <1>2, Moved
<1>5. \A s \in Stamp : s # s0 => archive'[s] = archive[s]
  BY <1>2, Moved
<1>6. fresh' \in Nat /\ fresh' >= fresh /\ fresh \in Nat /\ k \in Nat \ {0} /\ k \in 1..fresh'
  BY <1>1 DEF AfterArchive, Generate, Typed, Keys
<1> DEFINE l == IF f \in {"pem", "enc"} THEN "archive" ELSE "trunc"
           g == IF f = "pem" THEN "hmac" ELSE IF f = "enc" THEN "pub"
                ELSE IF f = "hmac" THEN "pem" ELSE "enc"
<1>7. Goto(p, l, g)
  BY <1>1, <1>2 DEF AfterArchive, Generate, Companion, Typed
<1>8. pc'[p] = l /\ file'[p] = g /\ stamp'[p] = s0 /\ Rotating(p) /\ Rotating(p)'
  BY <1>1, <1>2, <1>7 DEF Goto, Rotating, QInv, TypeOK
<1>9. /\ \A q \in Proc : HalfPlain(q) <=> q = p /\ f = "hmac"
      /\ \A q \in Proc : HalfPlain(q)' <=> q = p /\ f = "pem"
  <2>1. \A q \in Proc : q # p => ~HalfPlain(q) /\ ~HalfPlain(q)'
    BY <1>1, <1>7, Others
  <2> QED
    BY <1>1, <1>2, <1>8, <2>1 DEF HalfPlain
<1>10. /\ VaultMode = IF f \in {"enc", "pub"} THEN "encrypted" ELSE "plaintext"
       /\ VaultMode' = VaultMode
  BY <1>1, <1>2, <1>8, ViewsHold, ViewsHoldNext DEF Views, Typed
<1>11. /\ VaultActive = IF f \in {"pem", "enc"} THEN k ELSE 0
       /\ VaultActive' = 0
  <2>1. ActiveNow = (IF f \in {"pem", "enc"} THEN k ELSE 0) /\ ActiveNow' = 0
    BY <1>1, <1>3, <1>4 DEF ActiveNow, Has, Typed
  <2> QED
    BY <2>1, ViewsHold, ViewsHoldNext DEF Views
<1>12. /\ VaultLeaving = IF f = "hmac" THEN k ELSE 0
       /\ VaultLeaving' = IF f = "pem" THEN k ELSE 0
  <2>1. /\ f = "hmac" => archive[s0]["pem"].ed = k
        /\ f = "pem" => archive'[s0]["pem"].ed = k
    BY <1>1, <1>3, <1>4 DEF Has, Typed
  <2>2. VaultLeaving = IF f = "hmac" THEN archive[s0]["pem"].ed ELSE 0
    BY <1>2, <1>9, ViewsHold DEF Views
  <2>3. VaultLeaving' = IF f = "pem" THEN archive'[s0]["pem"].ed ELSE 0
    BY <1>8, <1>9, ViewsHoldNext DEF Views
  <2> QED
    BY <2>1, <2>2, <2>3
<1> DEFINE Whole(dir, j) == Plaintext(dir, j) \/ Encrypted(dir, j)
<1>13. /\ \A j : Whole(archive[s0], j) <=> f = "pub" /\ j = k
       /\ \A j : Whole(archive'[s0], j) <=> f # "pem" /\ j = k
  BY <1>1, <1>3, <1>4 DEF Has, Plaintext, Encrypted, Typed
<1>14. VaultRetired' = IF f \in {"hmac", "enc"} THEN VaultRetired \cup {k} ELSE VaultRetired
  <2>1. CASE f \in {"pem", "pub"}
    BY <1>5, <1>6, <1>13, <2>1, SameRetired
  <2>2. CASE f \in {"hmac", "enc"}
    <3>1. VaultRetired' = {j \in 1..fresh' : \E s \in Stamp : Whole(archive'[s], j)}
      BY DEF VaultRetired, Keys
    <3>2. VaultRetired = {j \in 1..fresh : \E s \in Stamp : Whole(archive[s], j)}
      BY DEF VaultRetired, Keys
    <3>3. \A s \in Stamp : \A j : Whole(archive[s], j) => j \in 1..fresh
      BY ArchiveBound DEF Keys
    <3> HIDE DEF Whole
    <3>4. \A j : (\E s \in Stamp : Whole(archive'[s], j))
                   <=> (\E s \in Stamp : Whole(archive[s], j)) \/ j = k
      BY <1>5, <1>13, <2>2
    <3> QED
      BY <1>6, <2>2, <3>1, <3>2, <3>3, <3>4
  <2> QED
    BY <1>1, <2>1, <2>2 DEF Typed
<1>15. CASE f = "pem"
  <2>1. Vault!Detach
    BY <1>6, <1>10, <1>11, <1>12, <1>14, <1>15 DEF Vault!Detach
  <2> QED
    BY <2>1 DEF Vault!Next
<1>16. CASE f = "hmac"
  <2>1. Vault!Archive
    BY <1>6, <1>10, <1>11, <1>12, <1>14, <1>16 DEF Vault!Archive
  <2> QED
    BY <2>1 DEF Vault!Next
<1>17. CASE f = "enc"
  <2>1. Vault!DetachAndArchive
    BY <1>6, <1>10, <1>11, <1>12, <1>14, <1>17 DEF Vault!DetachAndArchive
  <2> QED
    BY <2>1 DEF Vault!Next
<1>18. CASE f = "pub"
  BY <1>10, <1>11, <1>12, <1>14, <1>18 DEF Vault!vars
<1> QED
  BY <1>1, <1>15, <1>16, <1>17, <1>18 DEF Typed

\* A torn file counts for nothing, and neither did the absent one.
LEMMA VTruncate ==
    ASSUME QInv, QInv', NEW p \in Proc, Truncate(p)
    PROVE  UNCHANGED Vault!vars
<1> USE DEF HasFile, PlainPair, EncPair, Absent, Torn
<1>1. /\ Typed /\ ~Idle(p) /\ ~HalfPlain(p) /\ Stage(p) /\ pc[p] = "trunc"
      /\ UNCHANGED <<archive, fresh, call, mem, stamp, issued>> /\ Goto(p, "write", file[p])
  BY IsTyped DEF Truncate, Idle, HalfPlain, QInv
<1>2. pc'[p] = "write" /\ file'[p] = file[p] /\ ~HalfPlain(p)'
  BY <1>1 DEF Goto, HalfPlain, QInv, TypeOK
<1>3. /\ disk[file[p]] = Absent
      /\ \A g \in File : disk'[g] = IF g = file[p] THEN Torn ELSE disk[g]
  BY <1>1 DEF Truncate, Stage, WriteStage, QInv, TypeOK
<1>4. ActiveNow' = ActiveNow /\ (disk'["enc"].st = "full" <=> disk["enc"].st = "full")
  BY <1>1, <1>3 DEF ActiveNow, Typed
<1>5. VaultMode' = VaultMode
  <2>1. Rotating(p) <=> Rotating(p)'
    BY <1>1, <1>2 DEF Rotating
  <2>2. \A q \in Proc : q # p => ~Rotating(q) /\ ~Rotating(q)'
    BY <1>1, Others
  <2> QED
    BY <1>2, <1>4, <2>1, <2>2, ViewsHold, ViewsHoldNext DEF Views
<1> QED
  BY <1>1, <1>2, <1>4, <1>5, Stutters DEF Typed

\* The second file of a new pair makes it active, the first one if it is
\* keystore.enc; for encrypt, that file is the conversion.
LEMMA VWrite ==
    ASSUME QInv, QInv', NEW p \in Proc, Write(p)
    PROVE  [Vault!Next]_(Vault!vars)
<1> USE DEF HasFile, PlainPair, EncPair, Absent, Torn, Keys
<1>1. /\ Typed /\ ~Idle(p) /\ ~HalfPlain(p) /\ Stage(p) /\ pc[p] = "write"
      /\ UNCHANGED <<archive, fresh, call, mem, stamp, issued>>
  BY IsTyped DEF Write, Idle, HalfPlain, QInv
<1>2. PICK f \in File, op \in {"load", "encrypt", "decrypt", "rotate"}, k \in Keys :
        f = file[p] /\ op = call[p].op /\ k = mem[p].ed
  BY <1>1 DEF Typed, Stage, WriteStage, WholeMem
<1>3. /\ mem[p].hmac = k
      /\ op = "encrypt" => f \in {"enc", "pub"}
      /\ op = "decrypt" => f \in {"pem", "hmac"}
      /\ op \in {"load", "rotate"} => Unfiled(k)
      /\ disk[f] = Torn
      /\ \A g \in File : g # f => HasFile(disk[g], g, Ready(op, f), k)
  BY <1>1, <1>2 DEF Stage, WriteStage, WholeMem
<1>4. /\ \A g \in File : g # f => disk'[g] = disk[g]
      /\ HasFile(disk'[f], f, {f}, k)
  BY <1>1, <1>2, <1>3 DEF Write, NewContent, Full, QInv, TypeOK
<1>5. PICK l \in {"trunc", "remove", "return"}, g \in File :
        /\ Goto(p, l, g)
        /\ op = "rotate" => (g \in EncPair <=> f \in EncPair)
  BY <1>1, <1>2, CompanionType DEF Write, AfterWrite, Companion, Typed
<1>6. /\ pc'[p] = l /\ file'[p] = g /\ call'[p].op = op /\ ~HalfPlain(p)'
      /\ Rotating(p) <=> op = "rotate"
      /\ Rotating(p)' <=> op = "rotate"
  BY <1>1, <1>2, <1>5 DEF Goto, HalfPlain, Rotating, QInv, TypeOK
<1>7. /\ \A q \in Proc : q # p => ~Rotating(q) /\ ~Rotating(q)' /\ ~HalfPlain(q) /\ ~HalfPlain(q)'
      /\ VaultLeaving = 0 /\ VaultLeaving' = 0
  <2>1. \A q \in Proc : q # p => ~Rotating(q) /\ ~Rotating(q)' /\ ~HalfPlain(q) /\ ~HalfPlain(q)'
    BY <1>1, <1>5, Others
  <2> QED
    BY <1>1, <1>6, <2>1, ViewsHold, ViewsHoldNext DEF Views
<1>8. VaultRetired' = VaultRetired
  BY <1>1, SameRetired DEF Typed
<1>9. VaultActive = ActiveNow /\ VaultActive' = ActiveNow'
  BY ViewsHold, ViewsHoldNext DEF Views
<1>10. op = "rotate" => /\ VaultMode = (IF f \in EncPair THEN "encrypted" ELSE "plaintext")
                        /\ VaultMode' = VaultMode
  BY <1>2, <1>5, <1>6, ViewsHold, ViewsHoldNext DEF Views
<1>11. op # "rotate" =>
         /\ VaultMode = IF ActiveNow = 0 THEN "unset"
                        ELSE IF disk["enc"].st = "full" THEN "encrypted" ELSE "plaintext"
         /\ VaultMode' = IF ActiveNow' = 0 THEN "unset"
                         ELSE IF disk'["enc"].st = "full" THEN "encrypted" ELSE "plaintext"
  BY <1>6, <1>7, ViewsHold, ViewsHoldNext DEF Views
<1>12. k \in Nat \ {0}
  BY <1>1 DEF Typed
<1>13. CASE op \in {"load", "rotate"} /\ f \in {"hmac", "enc"}
  <2>1. ActiveNow = 0 /\ ActiveNow' = k /\ (disk'["enc"].st = "full" <=> f = "enc")
    BY <1>1, <1>3, <1>4, <1>12, <1>13 DEF ActiveNow, Ready, Typed
  <2>2. k \notin VaultRetired
    BY <1>3, <1>13 DEF Unfiled, VaultRetired, Plaintext, Encrypted
  <2>3. VaultMode' \in IF VaultMode = "unset" THEN {"plaintext", "encrypted"} ELSE {VaultMode}
    BY <1>10, <1>11, <1>12, <1>13, <2>1
  <2>4. Vault!Generate
    BY <1>7, <1>8, <1>9, <1>12, <2>1, <2>2, <2>3 DEF Vault!Generate
  <2> QED
    BY <2>4 DEF Vault!Next
<1>14. CASE op = "encrypt" /\ f = "enc"
  <2>1. ActiveNow = k /\ ActiveNow' = k /\ disk["enc"].st # "full" /\ disk'["enc"].st = "full"
    BY <1>1, <1>3, <1>4, <1>14 DEF ActiveNow, Ready, Typed
  <2>2. Vault!Convert
    BY <1>7, <1>8, <1>9, <1>11, <1>12, <1>14, <2>1 DEF Vault!Convert
  <2> QED
    BY <2>2 DEF Vault!Next
<1>15. CASE \/ op \in {"load", "rotate"} /\ f \in {"pem", "pub"}
            \/ op = "encrypt" /\ f = "pub"
            \/ op = "decrypt"
  <2>1. ActiveNow' = ActiveNow /\ (disk'["enc"].st = "full" <=> disk["enc"].st = "full")
    BY <1>1, <1>3, <1>4, <1>15 DEF ActiveNow, Ready, Typed
  <2>2. VaultMode' = VaultMode
    BY <1>10, <1>11, <2>1
  <2> QED
    BY <1>7, <1>8, <1>9, <2>1, <2>2 DEF Vault!vars
<1> QED
  BY <1>1, <1>3, <1>13, <1>14, <1>15 DEF Typed

\* For decrypt, the conversion is the removal of keystore.enc.
LEMMA VRemove ==
    ASSUME QInv, QInv', NEW p \in Proc, Remove(p)
    PROVE  [Vault!Next]_(Vault!vars)
<1> USE DEF HasFile, PlainPair, EncPair, Absent, Keys, Has
<1>1. /\ Typed /\ ~Idle(p) /\ ~HalfPlain(p) /\ Stage(p) /\ pc[p] = "remove"
      /\ UNCHANGED <<archive, fresh, call>>
  BY IsTyped DEF Remove, Idle, HalfPlain, QInv
<1>2. PICK f \in File, op \in {"encrypt", "decrypt"}, k \in Keys :
        /\ f = file[p] /\ op = call[p].op
        /\ \/ op = "encrypt" /\ f = "pem"  /\ Has(disk, PlainPair \cup EncPair, k)
           \/ op = "encrypt" /\ f = "hmac" /\ Has(disk, {"hmac"} \cup EncPair, k)
           \/ op = "decrypt" /\ f = "enc"  /\ Has(disk, PlainPair \cup EncPair, k)
           \/ op = "decrypt" /\ f = "pub"  /\ Has(disk, PlainPair \cup {"pub"}, k)
  BY <1>1 DEF Typed, Stage, EndStage, WholeMem
<1>3. \A g \in File : disk'[g] = IF g = f THEN Absent ELSE disk[g]
  BY <1>2 DEF Remove, QInv, TypeOK
<1>4. PICK l, g : l \in {"remove", "return"} /\ Goto(p, l, g)
  BY DEF Remove
<1>5. ~HalfPlain(p)' /\ ~Rotating(p) /\ ~Rotating(p)'
  BY <1>1, <1>2, <1>4 DEF Goto, HalfPlain, Rotating, QInv, TypeOK
<1>6. CASE f # "enc"
  <2>1. ActiveNow' = ActiveNow /\ (disk'["enc"].st = "full" <=> disk["enc"].st = "full")
    BY <1>1, <1>2, <1>3, <1>6 DEF ActiveNow, Typed
  <2> QED
    BY <1>1, <1>4, <1>5, <2>1, StuttersOutside DEF Typed
<1>7. CASE f = "enc"
  <2>1. ActiveNow = k /\ ActiveNow' = k /\ disk["enc"].st = "full" /\ disk'["enc"].st # "full" /\ k # 0
    BY <1>1, <1>2, <1>3, <1>7 DEF ActiveNow, Typed
  <2>2. \A q \in Proc : ~Rotating(q) /\ ~Rotating(q)' /\ ~HalfPlain(q) /\ ~HalfPlain(q)'
    BY <1>1, <1>4, <1>5, Others
  <2>3. /\ VaultActive = k /\ VaultActive' = k /\ VaultLeaving = 0 /\ VaultLeaving' = 0
        /\ VaultMode = "encrypted" /\ VaultMode' = "plaintext"
    BY <2>1, <2>2, ViewsHold, ViewsHoldNext DEF Views
  <2>4. VaultRetired' = VaultRetired
    BY <1>1, SameRetired DEF Typed
  <2>5. Vault!Convert
    BY <2>1, <2>3, <2>4 DEF Vault!Convert
  <2> QED
    BY <2>5 DEF Vault!Next
<1> QED
  BY <1>6, <1>7

\* What a rotation leaves on disk is in the mode it had all along.
LEMMA VReturn ==
    ASSUME QInv, QInv', NEW p \in Proc, Return(p)
    PROVE  UNCHANGED Vault!vars
<1> USE DEF HasFile, PlainPair, EncPair, Absent, Keys, Has
<1>1. /\ Typed /\ ~Idle(p) /\ ~HalfPlain(p) /\ Stage(p) /\ pc[p] = "return" /\ Finish(p)
      /\ UNCHANGED <<disk, archive, fresh>>
  BY IsTyped DEF Return, Idle, HalfPlain, QInv, store
<1>2. /\ Goto(p, "idle", "pem") /\ ~HalfPlain(p)' /\ ~Rotating(p)'
      /\ \A q \in Proc : q # p => call'[q] = call[q]
  BY <1>1 DEF Finish, Goto, NoCall, HalfPlain, Rotating, QInv, TypeOK
<1>3. VaultMode' = VaultMode
  <2>1. \A q \in Proc : q # p => ~Rotating(q) /\ ~Rotating(q)'
    BY <1>1, <1>2, Others
  <2>2. VaultMode' = IF ActiveNow' = 0 THEN "unset"
                     ELSE IF disk'["enc"].st = "full" THEN "encrypted" ELSE "plaintext"
    BY <1>2, <2>1, ViewsHoldNext DEF Views
  <2>3. ActiveNow' # 0
    BY <1>1 DEF Stage, EndStage, WholeMem, ActiveNow, Typed
  <2>4. CASE ~Rotating(p)
    BY <1>1, <2>1, <2>2, <2>4, ViewsHold DEF Views, ActiveNow
  <2>5. CASE Rotating(p)
    <3>1. file[p] \in EncPair <=> disk["enc"].st = "full"
      BY <1>1, <2>5 DEF Rotating, Stage, EndStage, Present, Typed
    <3> QED
      BY <1>1, <2>2, <2>3, <2>5, <3>1, ViewsHold DEF Views
  <2> QED
    BY <2>4, <2>5
<1> QED
  BY <1>1, <1>2, <1>3, Stutters DEF ActiveNow, Typed

LEMMA VNext ==
    ASSUME QuietUse, QInv, QInv', [Next]_vars
    PROVE  [Vault!Next]_(Vault!vars)
<1>1. ASSUME NEW p \in Proc, Start(p) PROVE UNCHANGED Vault!vars
  BY <1>1, VStart
<1>2. ASSUME NEW p \in Proc, Step(p) PROVE [Vault!Next]_(Vault!vars)
  BY <1>2, VRead, VStatActive, VArchive, VTruncate, VWrite, VRemove, VReturn, NeverSkips DEF Step
<1>3. ASSUME NEW p \in Proc PROVE ~Abort(p)
  BY DEF Abort, QuietUse
<1>4. CASE Tick \/ UNCHANGED vars
  <2>1. UNCHANGED <<disk, archive, fresh, pc, file, call>>
    BY <1>4 DEF Tick, vars, store
  <2> QED
    BY <2>1 DEF Vault!vars, VaultActive, VaultMode, VaultLeaving, VaultRetired, Plaintext, Encrypted,
                HoldsKey, TheKey, Keys
<1> QED
  BY <1>1, <1>2, <1>3, <1>4 DEF Next

LEMMA VInit == Init => Vault!Init
<1> SUFFICES ASSUME Init PROVE Vault!Init
  OBVIOUS
<1>1. QInv
  BY QInit
<1>2. ActiveNow = 0 /\ \A p \in Proc : ~HalfPlain(p) /\ ~Rotating(p)
  BY DEF Init, ActiveNow, EmptyDir, Absent, File, HalfPlain, Rotating, NoCall
<1>3. VaultActive = 0 /\ VaultLeaving = 0 /\ VaultMode = "unset"
  BY <1>1, <1>2, ViewsHold DEF Views
<1>4. VaultRetired = {}
  BY DEF Init, VaultRetired, Keys
<1> QED
  BY <1>3, <1>4 DEF Vault!Init

\* One caller at a time, uninterrupted, sees a vault: one active key in one mode,
\* converted in place and retired whole, for any number of keys, passphrases and
\* rotations, at every file-system step.
THEOREM KeystoreImplementsVault == ASSUME QuietUse PROVE Spec => ImplementsVault
<1>1. QInv /\ [Next]_vars => QInv'
  BY QNext
<1>2. QInv /\ QInv' /\ [Next]_vars => [Vault!Next]_(Vault!vars)
  BY VNext
<1> QED
  BY QInit, VInit, <1>1, <1>2, PTL DEF Spec, ImplementsVault, Vault!Spec
=============================================================================
