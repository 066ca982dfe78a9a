--------------------------- MODULE KeystoreProofs ---------------------------
(***************************************************************************)
(* Keystore keeps its types, and no interrupted call destroys a signing    *)
(* key that was handed out, for any number of processes, passphrases,      *)
(* keys and seconds, when calls do not overlap, no two rotations share a   *)
(* second, and `key encrypt' runs to its end.                              *)
(***************************************************************************)
EXTENDS Keystore, TLAPS

-----------------------------------------------------------------------------
(* The inductive invariant *)

\* Calls do not overlap.
Solo == \A p, q \in Proc : ~Idle(p) /\ ~Idle(q) => p = q

IssuedKey(k) == \E b \in issued : b.ed = k

\* The keys in sight were all generated before the next one is.
FreshIsFresh ==
    /\ \A b \in issued : b.ed <= fresh
    /\ \A p \in Proc : mem[p].ed <= fresh
    /\ \A f \in File : disk[f].ed <= fresh

\* Losing ed25519.pem would lose nothing.
PemSpare ==
    disk["pem"].st = "full" /\ IssuedKey(disk["pem"].ed) => ArchivedKey(disk["pem"].ed)

\* A store that load would fill with a new pair holds no unarchived key that was issued.
LonePemSpare == ~Present("enc") /\ ~Present("hmac") => PemSpare

\* `key encrypt' has truncated keystore.enc and not written it yet.
Encrypting == \E p \in Proc : /\ call[p].op = "encrypt" /\ pc[p] = "write"
                              /\ file[p] = "enc"

\* A plaintext key left beside an encrypted keystore, where decrypt would
\* overwrite it, is the encrypted key itself or is archived.
PemBesideEnc ==
    Present("enc") /\ ~Encrypting =>
        PemSpare \/ HoldsKey(disk["enc"], disk["pem"].ed)

\* What a call relies on at each of its steps.
PlainInv(p) ==
    /\ pc[p] \in {"statPlain", "readPem", "readHmac"} =>
         call[p].op \in {"load", "encrypt"} /\ ~Present("enc")
    /\ pc[p] \in {"readPem", "readHmac"} => Present("hmac")
    /\ pc[p] = "readHmac" => HoldsKey(disk["pem"], mem[p].ed)
    /\ pc[p] = "readEnc" => call[p].op \in {"load", "decrypt"} /\ Present("enc")

RotateInv(p) ==
    /\ pc[p] \in {"statActive", "archive"} => call[p].op = "rotate"
    /\ pc[p] = "statActive" => file[p] \in {"pem", "enc"} /\ (Present("enc") <=> file[p] = "enc")
    /\ pc[p] = "archive" =>
         /\ file[p] \in {"pem", "enc"} => archive[stamp[p]] = EmptyDir
         /\ file[p] = "enc" <=> Present("enc")
         /\ file[p] = "hmac" => ~Present("pem")
         /\ file[p] = "pub" => PemSpare

WriteInv(p) ==
    pc[p] \in {"trunc", "write"} =>
      /\ pc[p] = "write" => disk[file[p]].st = "torn"
      /\ call[p].op \in {"load", "rotate"} =>
           /\ ~IssuedKey(mem[p].ed)
           /\ file[p] \in {"pem", "hmac"} => ~Present("enc")
           /\ file[p] = "pem" /\ pc[p] = "trunc" => PemSpare
           /\ file[p] = "hmac" => HoldsKey(disk["pem"], mem[p].ed)
           /\ file[p] = "enc" => PemSpare
      /\ file[p] = "enc" /\ pc[p] = "trunc" => ~Present("enc")
      /\ file[p] = "pub" => HoldsKey(disk["enc"], mem[p].ed)
      /\ call[p].op = "encrypt" => file[p] \in {"enc", "pub"} /\ HoldsKey(disk["pem"], mem[p].ed)
      /\ call[p].op = "decrypt" =>
           /\ file[p] \in {"pem", "hmac"} /\ HoldsKey(disk["enc"], mem[p].ed)
           /\ file[p] = "hmac" => HoldsKey(disk["pem"], mem[p].ed)

EndInv(p) ==
    /\ pc[p] = "remove" =>
         \/ call[p].op = "encrypt" /\ file[p] \in {"pem", "hmac"} /\ HoldsKey(disk["enc"], mem[p].ed)
         \/ /\ call[p].op = "decrypt" /\ file[p] \in {"enc", "pub"}
            /\ HoldsKey(disk["pem"], mem[p].ed) /\ Present("hmac")
            /\ IF file[p] = "enc" THEN HoldsKey(disk["enc"], mem[p].ed) ELSE ~Present("enc")
    /\ pc[p] = "return" =>
         IF Present("enc") THEN HoldsKey(disk["enc"], mem[p].ed)
                           ELSE HoldsKey(disk["pem"], mem[p].ed) /\ Present("hmac")

CallInv(p) ==
    PlainInv(p) /\ RotateInv(p) /\ WriteInv(p) /\ EndInv(p)

\* The files and the archive are safe.
StoreInv == FreshIsFresh /\ IssuedKeyKept /\ LonePemSpare /\ PemBesideEnc

IInv == TypeOK /\ Solo /\ StoreInv /\ \A p \in Proc : CallInv(p)

\* How the keystore has to be used for IInv to hold.
SafeUse == Serial = TRUE /\ UniqueStamps = TRUE /\ "encrypt" \notin AbortOps

-----------------------------------------------------------------------------
(* Type correctness *)

\* The file contents the code writes are contents.
LEMMA ContentTypes ==
    /\ Absent \in Content
    /\ Torn \in Content
    /\ \A e, h \in Nat, w \in Pass \cup {NoPass} : Full(e, h, w) \in Content
    /\ \A c \in Content : c.ed \in Nat /\ c.hmac \in Nat /\ c.pass \in Pass \cup {NoPass}
BY DEF Absent, Torn, Full, Content

\* A step to any line on any file keeps the types of pc and file.
LEMMA GotoType ==
    ASSUME TypeOK, NEW p \in Proc, NEW l \in Pc, NEW f \in File, Goto(p, l, f)
    PROVE  pc' \in [Proc -> Pc] /\ file' \in [Proc -> File]
BY DEF TypeOK, Goto

\* The local state after a call is over has its types.
LEMMA FinishType ==
    ASSUME TypeOK, NEW p \in Proc, Finish(p)
    PROVE  /\ pc' \in [Proc -> Pc] /\ file' \in [Proc -> File]
           /\ call' \in [Proc -> Call] /\ mem' \in [Proc -> Bundle]
           /\ stamp' \in [Proc -> Stamp]
<1>1. "idle" \in Pc /\ "pem" \in File
  BY DEF Pc, File
<1>2. NoCall \in Call /\ NoBundle \in Bundle /\ 0 \in Stamp
  BY KeystoreAssumption DEF NoCall, Call, NoBundle, Bundle, Stamp
<1>3. pc' \in [Proc -> Pc] /\ file' \in [Proc -> File]
  BY <1>1, GotoType DEF Finish
<1> QED
  BY <1>2, <1>3 DEF TypeOK, Finish

\* Generating a pair keeps the types it touches.
LEMMA GenerateType ==
    ASSUME TypeOK, NEW p \in Proc, NEW f \in File, Generate(p, f)
    PROVE  /\ pc' \in [Proc -> Pc] /\ file' \in [Proc -> File]
           /\ mem' \in [Proc -> Bundle] /\ fresh' \in Nat
<1>1. "trunc" \in Pc
  BY DEF Pc
<1>2. pc' \in [Proc -> Pc] /\ file' \in [Proc -> File]
  BY <1>1, GotoType DEF Generate
<1>3. fresh' \in Nat /\ [ed |-> fresh + 1, hmac |-> fresh + 1] \in Bundle
  BY DEF TypeOK, Generate, Bundle
<1> QED
  BY <1>2, <1>3 DEF TypeOK, Generate

\* Starting a call keeps the types.
LEMMA BeginType ==
    ASSUME TypeOK, NEW p \in Proc, NEW op \in {"load", "encrypt", "decrypt", "rotate"},
           NEW pass \in Args, NEW l \in Pc, NEW f \in File, Begin(p, op, pass, l, f)
    PROVE  TypeOK'
<1>1. pc' \in [Proc -> Pc] /\ file' \in [Proc -> File]
  BY GotoType DEF Begin
<1>2. [op |-> op, pass |-> pass] \in Call
  BY KeystoreAssumption DEF Call
<1> QED
  BY <1>1, <1>2 DEF TypeOK, Begin, store

LEMMA StartType == ASSUME TypeOK, NEW p \in Proc, Start(p) PROVE TypeOK'
<1>1. PICK w \in Args : StartLoad(p, w) \/ StartEncrypt(p, w)
                          \/ StartDecrypt(p, w) \/ StartRotate(p, w)
  BY DEF Start
<1>2. {"statPlain", "readEnc", "statActive"} \subseteq Pc /\ "enc" \in File /\ "pem" \in File
  BY DEF Pc, File
<1> QED
  BY <1>1, <1>2, BeginType DEF StartLoad, StartEncrypt, StartDecrypt, StartRotate

LEMMA ReadType ==
    ASSUME TypeOK, NEW p \in Proc,
           \/ FoundPlain(p) \/ MissingPlain(p) \/ ReadPem(p) \/ ReadHmac(p) \/ ReadEnc(p)
    PROVE  TypeOK'
<1>1. {"readPem", "readHmac", "return", "trunc"} \subseteq Pc /\ "enc" \in File
        /\ "pem" \in File /\ "hmac" \in File
  BY DEF Pc, File
<1>2. CASE FoundPlain(p)
  <2>1. pc' \in [Proc -> Pc] /\ file' \in [Proc -> File]
    BY <1>1, <1>2, GotoType DEF FoundPlain
  <2> QED
    BY <1>2, <2>1 DEF FoundPlain, TypeOK, store
<1>3. CASE MissingPlain(p)
  BY <1>1, <1>3, GenerateType, FinishType DEF MissingPlain, TypeOK, store
<1>4. CASE ReadPem(p) \/ ReadHmac(p) \/ ReadEnc(p)
  <2>1. CASE Finish(p)
    BY <1>4, <2>1, FinishType DEF ReadPem, ReadHmac, ReadEnc, TypeOK, store
  <2>2. CASE ~Finish(p)
    <3>1. pc' \in [Proc -> Pc] /\ file' \in [Proc -> File]
      BY <1>1, <1>4, <2>2, GotoType DEF ReadPem, ReadHmac, ReadEnc
    <3>2. \A f \in File : disk[f].ed \in Nat /\ disk[f].hmac \in Nat
      BY ContentTypes DEF TypeOK
    <3>3. mem[p].ed \in Nat
      BY DEF TypeOK, Bundle
    <3>4. \E e, h \in Nat : mem' = [mem EXCEPT ![p] = [ed |-> e, hmac |-> h]]
      BY <1>1, <1>4, <2>2, <3>2, <3>3 DEF ReadPem, ReadHmac, ReadEnc
    <3>5. mem' \in [Proc -> Bundle]
      BY <3>4 DEF TypeOK, Bundle
    <3> QED
      BY <1>4, <2>2, <3>1, <3>5 DEF ReadPem, ReadHmac, ReadEnc, TypeOK, store
  <2> QED
    BY <2>1, <2>2
<1> QED
  BY <1>2, <1>3, <1>4

LEMMA CompanionType == ASSUME NEW f \in File PROVE Companion(f) \in File
BY DEF File, Companion

LEMMA ArchiveType ==
    ASSUME TypeOK, NEW p \in Proc, StatActive(p) \/ ArchiveFile(p) \/ SkipFile(p)
    PROVE  TypeOK'
<1>1. "archive" \in Pc /\ "enc" \in File /\ "pem" \in File /\ file[p] \in File
  BY DEF Pc, File, TypeOK
<1>2. CASE StatActive(p)
  <2>1. CASE Finish(p)
    BY <1>2, <2>1, FinishType DEF StatActive, TypeOK, store
  <2>2. CASE ~Finish(p)
    <3>1. pc' \in [Proc -> Pc] /\ file' \in [Proc -> File]
      BY <1>1, <1>2, <2>2, GotoType DEF StatActive
    <3> QED
      BY <1>2, <2>2, <3>1 DEF StatActive, TypeOK, store
  <2> QED
    BY <2>1, <2>2
<1>3. CASE ArchiveFile(p) \/ SkipFile(p)
  <2>1. AfterArchive(p, file[p])
    BY <1>3 DEF ArchiveFile, SkipFile
  <2>2. /\ pc' \in [Proc -> Pc] /\ file' \in [Proc -> File]
        /\ mem' \in [Proc -> Bundle] /\ fresh' \in Nat
    <3>1. CASE Generate(p, "pem") \/ Generate(p, "enc")
      BY <1>1, <3>1, GenerateType
    <3>2. CASE Goto(p, "archive", Companion(file[p])) /\ UNCHANGED <<fresh, mem>>
      BY <1>1, <3>2, GotoType, CompanionType DEF TypeOK
    <3> QED
      BY <2>1, <3>1, <3>2 DEF AfterArchive
  <2>3. disk' \in [File -> Content] /\ archive' \in [Stamp -> [File -> Content]]
    <3>1. CASE SkipFile(p)
      BY <3>1 DEF SkipFile, TypeOK, store
    <3>2. CASE ArchiveFile(p)
      <4>1. disk[file[p]] \in Content /\ stamp[p] \in Stamp
        BY <1>1 DEF TypeOK
      <4>2. archive[stamp[p]] \in [File -> Content]
        BY <4>1 DEF TypeOK
      <4>3. [archive[stamp[p]] EXCEPT ![file[p]] = disk[file[p]]] \in [File -> Content]
        BY <4>1, <4>2
      <4>4. archive' \in [Stamp -> [File -> Content]]
        BY <3>2, <4>1, <4>3 DEF ArchiveFile, TypeOK
      <4>5. disk' \in [File -> Content]
        BY <1>1, <3>2, ContentTypes DEF ArchiveFile, TypeOK
      <4> QED
        BY <4>4, <4>5
    <3> QED
      BY <1>3, <3>1, <3>2
  <2> QED
    BY <1>3, <2>2, <2>3 DEF ArchiveFile, SkipFile, TypeOK, store
<1> QED
  BY <1>2, <1>3

LEMMA WriteType ==
    ASSUME TypeOK, NEW p \in Proc, Truncate(p) \/ Write(p) \/ Remove(p)
    PROVE  TypeOK'
<1>1. {"write", "trunc", "remove", "return"} \subseteq Pc /\ "enc" \in File
        /\ "pem" \in File /\ file[p] \in File /\ Companion(file[p]) \in File
  BY CompanionType DEF Pc, File, TypeOK
<1>2. NewContent(p, file[p]) \in Content
  <2>1. mem[p].ed \in Nat /\ mem[p].hmac \in Nat /\ call[p].pass \in Pass \cup {NoPass}
    BY DEF TypeOK, Bundle, Call
  <2> QED
    BY <2>1, ContentTypes DEF NewContent
<1>3. disk' \in [File -> Content]
  BY <1>1, <1>2, ContentTypes DEF Truncate, Write, Remove, TypeOK
<1>4. pc' \in [Proc -> Pc] /\ file' \in [Proc -> File]
  <2>1. \E l \in Pc, f \in File : Goto(p, l, f)
    BY <1>1 DEF Truncate, Write, AfterWrite, Remove
  <2> QED
    BY <2>1, GotoType
<1> QED
  BY <1>3, <1>4 DEF Truncate, Write, Remove, TypeOK

LEMMA TypeStep == TypeOK /\ [Next]_vars => TypeOK'
<1> SUFFICES ASSUME TypeOK, [Next]_vars PROVE TypeOK'
  OBVIOUS
<1>1. ASSUME NEW p \in Proc, Start(p) PROVE TypeOK'
  BY <1>1, StartType
<1>2. ASSUME NEW p \in Proc, Step(p) PROVE TypeOK'
  <2>1. CASE Return(p)
    BY <2>1, FinishType DEF Return, TypeOK, store
  <2> QED
    BY <1>2, <2>1, ReadType, ArchiveType, WriteType DEF Step
<1>3. ASSUME NEW p \in Proc, Abort(p) PROVE TypeOK'
  BY <1>3, FinishType DEF Abort, TypeOK, store
<1>4. CASE Tick
  BY <1>4, KeystoreAssumption DEF Tick, TypeOK, store, Stamp
<1>5. CASE UNCHANGED vars
  BY <1>5 DEF vars, TypeOK
<1> QED
  BY <1>1, <1>2, <1>3, <1>4, <1>5 DEF Next

\* Every variable keeps its type, whatever is concurrent or interrupted.
THEOREM TypeCorrect == Spec => []TypeOK
<1>1. Init => TypeOK
  BY KeystoreAssumption DEF Init, TypeOK, EmptyDir, Absent, Content, Pc, Call, Bundle,
                            NoCall, NoBundle, File, Stamp
<1> QED
  BY <1>1, TypeStep, PTL DEF Spec

-----------------------------------------------------------------------------
(* One step at a time *)

\* A process outside a call relies on nothing.
LEMMA IdleCall == ASSUME NEW q \in Proc, Idle(q) PROVE CallInv(q)
BY DEF Idle, CallInv, PlainInv, RotateInv, WriteInv, EndInv

LEMMA IdleCallPrime == ASSUME NEW q \in Proc, Idle(q)' PROVE CallInv(q)'
BY DEF Idle, CallInv, PlainInv, RotateInv, WriteInv, EndInv

\* When only p is in a call, before a step of p and after it, Solo holds and
\* the other processes' invariants with it.
LEMMA OnlyOne ==
    ASSUME TypeOK, Solo, NEW p \in Proc, NEW l \in Pc, NEW f \in File, Goto(p, l, f),
           ~Idle(p) \/ AllIdle
    PROVE  Solo' /\ \A q \in Proc : q # p => Idle(q) /\ CallInv(q)'
<1>1. \A q \in Proc : q # p => Idle(q) /\ Idle(q)'
  BY DEF Solo, AllIdle, Idle, Goto, TypeOK
<1>2. Solo'
  BY <1>1 DEF Solo
<1> QED
  BY <1>1, <1>2, IdleCallPrime

\* Unless p itself is at that point of encrypt, nobody is.
LEMMA NotEncrypting ==
    ASSUME TypeOK, Solo, NEW p \in Proc, ~Idle(p) \/ AllIdle,
           ~(call[p].op = "encrypt" /\ pc[p] = "write" /\ file[p] = "enc")
    PROVE  ~Encrypting
BY DEF Solo, AllIdle, Idle, Encrypting

LEMMA NotEncryptingPrime ==
    ASSUME Solo', NEW p \in Proc, \A q \in Proc : q # p => Idle(q)',
           ~(call[p].op = "encrypt" /\ pc[p] = "write" /\ file[p] = "enc")'
    PROVE  ~Encrypting'
BY DEF Idle, Encrypting

\* A step of p that touches neither the files nor `issued', and leads to a
\* point of p's call whose own invariant holds, preserves IInv.
LEMMA ControlStep ==
    ASSUME IInv, TypeOK', NEW p \in Proc, NEW l \in Pc, NEW f \in File, Goto(p, l, f),
           ~Idle(p) \/ AllIdle,
           UNCHANGED <<store, issued>>,
           fresh' >= fresh,
           \A q \in Proc : mem'[q].ed <= fresh',
           ~(call[p].op = "encrypt" /\ pc[p] = "write" /\ file[p] = "enc"),
           ~(l = "write" /\ f = "enc"),
           CallInv(p)'
    PROVE  IInv'
<1>1. Solo' /\ \A q \in Proc : q # p => CallInv(q)'
  BY OnlyOne DEF IInv
<1>2. FreshIsFresh'
  <2>1. (\A b \in issued : b.ed \in Nat) /\ (\A g \in File : disk[g].ed \in Nat)
          /\ fresh \in Nat /\ fresh' \in Nat
    BY ContentTypes DEF IInv, TypeOK, Bundle
  <2> QED
    BY <2>1 DEF IInv, StoreInv, FreshIsFresh, store
<1>3. IssuedKeyKept' /\ LonePemSpare'
  BY DEF IInv, StoreInv, IssuedKeyKept, LonePemSpare, PemSpare, IssuedKey, ActiveKey,
         ArchivedKey, HoldsKey, Present, store
<1>4. PemBesideEnc'
  <2>1. ~Encrypting
    BY NotEncrypting DEF IInv
  <2> QED
    BY <2>1 DEF IInv, StoreInv, PemBesideEnc, PemSpare, IssuedKey, ArchivedKey, HoldsKey,
                Present, store
<1> QED
  BY <1>1, <1>2, <1>3, <1>4 DEF IInv, StoreInv

LEMMA StartStep ==
    ASSUME SafeUse, IInv, TypeOK', NEW p \in Proc, Start(p)
    PROVE  IInv'
<1>1. PICK w \in Args : StartLoad(p, w) \/ StartEncrypt(p, w)
                          \/ StartDecrypt(p, w) \/ StartRotate(p, w)
  BY DEF Start
<1>2. AllIdle /\ UNCHANGED <<store, fresh, mem, issued>>
  BY <1>1 DEF StartLoad, StartEncrypt, StartDecrypt, StartRotate, Begin, SafeUse, AllIdle
<1>3. PICK l \in {"statPlain", "readEnc", "statActive"}, f \in {"pem", "enc"} : Goto(p, l, f)
  BY <1>1 DEF StartLoad, StartEncrypt, StartDecrypt, StartRotate, Begin
<1>4. pc'[p] = l /\ file'[p] = f /\ pc[p] = "idle" /\ l \in Pc /\ f \in File
  BY <1>2, <1>3 DEF Goto, IInv, TypeOK, Pc, File, AllIdle, Idle
<1>5. CallInv(p)'
  <2>1. CASE l = "statPlain"
    <3>1. ~Present("enc") /\ call'[p].op \in {"load", "encrypt"}
      BY <1>1, <1>4, <2>1
      DEF StartLoad, StartEncrypt, StartDecrypt, StartRotate, Begin, Goto, IInv, TypeOK
    <3> QED
      BY <1>2, <1>4, <2>1, <3>1
      DEF CallInv, PlainInv, RotateInv, WriteInv, EndInv, Present, store
  <2>2. CASE l = "readEnc"
    <3>1. Present("enc") /\ call'[p].op \in {"load", "decrypt"}
      BY <1>1, <1>4, <2>2
      DEF StartLoad, StartEncrypt, StartDecrypt, StartRotate, Begin, Goto, IInv, TypeOK
    <3> QED
      BY <1>2, <1>4, <2>2, <3>1
      DEF CallInv, PlainInv, RotateInv, WriteInv, EndInv, Present, store
  <2>3. CASE l = "statActive"
    <3>1. (Present("enc") <=> f = "enc") /\ call'[p].op = "rotate"
      BY <1>1, <1>4, <2>3
      DEF StartLoad, StartEncrypt, StartDecrypt, StartRotate, Begin, Goto, IInv, TypeOK
    <3> QED
      BY <1>2, <1>4, <2>3, <3>1
      DEF CallInv, PlainInv, RotateInv, WriteInv, EndInv, Present, store
  <2> QED
    BY <1>3, <2>1, <2>2, <2>3
<1>6. fresh' >= fresh /\ \A q \in Proc : mem'[q].ed <= fresh'
  BY <1>2 DEF IInv, StoreInv, FreshIsFresh, TypeOK
<1> QED
  BY <1>2, <1>3, <1>4, <1>5, <1>6, ControlStep

\* Ending a call without touching the files, at any point but the one where
\* encrypt has truncated keystore.enc.
LEMMA FinishStep ==
    ASSUME IInv, TypeOK', NEW p \in Proc, ~Idle(p), Finish(p),
           UNCHANGED <<store, fresh, issued>>,
           ~(call[p].op = "encrypt" /\ pc[p] = "write" /\ file[p] = "enc")
    PROVE  IInv'
<1>1. Goto(p, "idle", "pem") /\ "idle" \in Pc /\ "pem" \in File
  BY DEF Finish, Pc, File
<1>2. CallInv(p)'
  BY <1>1, IdleCallPrime DEF IInv, TypeOK, Goto, Idle
<1>3. fresh' >= fresh /\ \A q \in Proc : mem'[q].ed <= fresh'
  <2>1. \A q \in Proc : mem'[q] = mem[q] \/ mem'[q] = NoBundle
    BY DEF Finish, IInv, TypeOK
  <2>2. fresh \in Nat /\ NoBundle.ed = 0 /\ \A q \in Proc : mem[q].ed <= fresh
    BY DEF IInv, StoreInv, FreshIsFresh, TypeOK, NoBundle
  <2> QED
    BY <2>1, <2>2
<1> QED
  BY <1>1, <1>2, <1>3, ControlStep

LEMMA AbortStep ==
    ASSUME SafeUse, IInv, TypeOK', NEW p \in Proc, Abort(p)
    PROVE  IInv'
BY FinishStep DEF Abort, SafeUse

LEMMA ReadStep ==
    ASSUME IInv, TypeOK', NEW p \in Proc,
           \/ FoundPlain(p) \/ MissingPlain(p) \/ ReadPem(p) \/ ReadHmac(p) \/ ReadEnc(p)
    PROVE  IInv'
<1> DEFINE Here(l, f) == /\ Goto(p, l, f) /\ pc'[p] = l /\ file'[p] = f
                         /\ call'[p] = call[p] /\ UNCHANGED <<store, issued>>
<1> USE DEF CallInv, PlainInv, RotateInv, WriteInv, EndInv, Present, store, HoldsKey
<1>1. ~Idle(p) /\ pc[p] \notin {"write"} /\ CallInv(p)
  BY DEF FoundPlain, MissingPlain, ReadPem, ReadHmac, ReadEnc, Idle, IInv
<1>2. CASE Finish(p)
  <2>1. pc'[p] = "idle"
    BY <1>2 DEF Finish, Goto, IInv, TypeOK
  <2>2. UNCHANGED <<store, issued>>
    BY DEF FoundPlain, MissingPlain, ReadPem, ReadHmac, ReadEnc
  <2>3. UNCHANGED fresh
    BY <2>1 DEF FoundPlain, MissingPlain, ReadPem, ReadHmac, ReadEnc, Generate, Goto, IInv, TypeOK
  <2> QED
    BY <1>1, <1>2, <2>2, <2>3, FinishStep
<1>3. \A g \in File : disk[g].ed \in Nat /\ disk[g].ed <= fresh
  BY ContentTypes DEF IInv, StoreInv, FreshIsFresh, TypeOK
<1>4. {"readPem", "readHmac", "return", "trunc"} \subseteq Pc /\ {"enc", "pem", "hmac"} \subseteq File
  BY DEF Pc, File
<1>5. fresh \in Nat /\ \A q \in Proc : mem[q].ed \in Nat /\ mem[q].ed <= fresh
  BY DEF IInv, StoreInv, FreshIsFresh, TypeOK, Bundle
<1>6. CASE FoundPlain(p)
  <2>1. Here("readPem", "pem") /\ UNCHANGED <<fresh, mem>>
    BY <1>6 DEF FoundPlain, Goto, IInv, TypeOK
  <2>2. CallInv(p)'
    BY <1>1, <1>6, <2>1 DEF FoundPlain
  <2> QED
    BY <1>1, <1>4, <1>5, <2>1, <2>2, ControlStep
<1>7. CASE ReadPem(p) /\ ~Finish(p)
  <2>1. Here("readHmac", "hmac") /\ UNCHANGED fresh
    BY <1>7 DEF ReadPem, Goto, IInv, TypeOK
  <2>2. /\ mem'[p].ed = disk["pem"].ed /\ disk["pem"].st = "full"
        /\ \A q \in Proc : q # p => mem'[q] = mem[q]
    BY <1>7 DEF ReadPem, IInv, TypeOK
  <2>3. CallInv(p)'
    BY <1>1, <1>7, <2>1, <2>2 DEF ReadPem
  <2> QED
    BY <1>1, <1>3, <1>4, <1>5, <2>1, <2>2, <2>3, ControlStep
<1>8. CASE ReadHmac(p) /\ ~Finish(p)
  <2>1. Here(IF call[p].op = "load" THEN "return" ELSE "trunc", "enc") /\ UNCHANGED fresh
    BY <1>8 DEF ReadHmac, Goto, IInv, TypeOK
  <2>2. mem'[p].ed = mem[p].ed /\ \A q \in Proc : q # p => mem'[q] = mem[q]
    BY <1>8 DEF ReadHmac, IInv, TypeOK
  <2>3. CallInv(p)'
    BY <1>1, <1>8, <2>1, <2>2 DEF ReadHmac
  <2> QED
    BY <1>1, <1>3, <1>4, <1>5, <2>1, <2>2, <2>3, ControlStep
<1>9. CASE ReadEnc(p) /\ ~Finish(p)
  <2>1. Here(IF call[p].op = "load" THEN "return" ELSE "trunc", "pem") /\ UNCHANGED fresh
    BY <1>9 DEF ReadEnc, Goto, IInv, TypeOK
  <2>2. /\ mem'[p].ed = disk["enc"].ed /\ disk["enc"].st = "full"
        /\ \A q \in Proc : q # p => mem'[q] = mem[q]
    BY <1>9 DEF ReadEnc, Opens, IInv, TypeOK
  <2>3. CallInv(p)'
    BY <1>1, <1>9, <2>1, <2>2 DEF ReadEnc
  <2> QED
    BY <1>1, <1>3, <1>4, <1>5, <2>1, <2>2, <2>3, ControlStep
<1>10. CASE MissingPlain(p) /\ ~Finish(p)
  <2>1. PICK f \in {"pem", "enc"} : Generate(p, f)
    BY <1>10 DEF MissingPlain
  <2>2. Here("trunc", f) /\ call[p].op = "load"
    BY <1>10, <2>1 DEF MissingPlain, Generate, Goto, IInv, TypeOK
  <2>3. /\ fresh' = fresh + 1 /\ mem'[p].ed = fresh + 1
        /\ \A q \in Proc : q # p => mem'[q] = mem[q]
    BY <2>1 DEF Generate, IInv, TypeOK
  <2>4. PemSpare' /\ ~Present("enc")
    BY <1>1, <1>10 DEF MissingPlain, PemSpare, IInv, StoreInv, LonePemSpare, IssuedKey, ArchivedKey
  <2>5. ~IssuedKey(mem[p].ed)'
    BY <1>5, <2>2, <2>3 DEF IssuedKey, IInv, StoreInv, FreshIsFresh, TypeOK, Bundle
  <2>6. CallInv(p)'
    BY <2>2, <2>3, <2>4, <2>5
  <2> QED
    BY <1>1, <1>4, <1>5, <2>2, <2>3, <2>6, ControlStep
<1> QED
  BY <1>2, <1>6, <1>7, <1>8, <1>9, <1>10

\* ArchivedKey survives a step that changes the archive in the place a rotation
\* of p is about to fill, and what is moved there is archived.
LEMMA ArchiveKeeps ==
    ASSUME TypeOK, NEW p \in Proc, ArchiveFile(p),
           file[p] \in {"pem", "enc"} => archive[stamp[p]] = EmptyDir
    PROVE  /\ \A k : ArchivedKey(k) => ArchivedKey(k)'
           /\ \A k : file[p] \in {"pem", "enc"} /\ HoldsKey(disk[file[p]], k) => ArchivedKey(k)'
<1>1. stamp[p] \in Stamp /\ file[p] \in File /\ "pem" \in File /\ "enc" \in File
  BY DEF TypeOK, File
<1>2. \A s \in Stamp, g \in File :
         archive'[s][g] = IF s = stamp[p] /\ g = file[p] THEN disk[file[p]] ELSE archive[s][g]
  <2>1. archive[stamp[p]] \in [File -> Content]
    BY <1>1 DEF TypeOK
  <2> QED
    BY <1>1, <2>1 DEF ArchiveFile, TypeOK
<1>3. file[p] \in {"pem", "enc"} =>
         archive[stamp[p]]["pem"].st = "absent" /\ archive[stamp[p]]["enc"].st = "absent"
  BY <1>1 DEF EmptyDir, Absent
<1> QED
  BY <1>1, <1>2, <1>3 DEF ArchivedKey, HoldsKey

LEMMA RotateStep ==
    ASSUME SafeUse, IInv, TypeOK', NEW p \in Proc,
           StatActive(p) \/ ArchiveFile(p) \/ SkipFile(p)
    PROVE  IInv'
<1> USE DEF CallInv, PlainInv, RotateInv, WriteInv, EndInv, Present, store
<1>1. ~Idle(p) /\ pc[p] # "write" /\ CallInv(p) /\ ~Encrypting
  <2>1. ~Idle(p) /\ pc[p] # "write" /\ CallInv(p)
    BY DEF StatActive, ArchiveFile, SkipFile, Idle, IInv
  <2> QED
    BY <2>1, NotEncrypting DEF IInv
<1>2. {"archive", "trunc"} \subseteq Pc /\ {"enc", "pem", "hmac", "pub"} = File /\ file[p] \in File
  BY DEF Pc, File, IInv, TypeOK
<1>3. fresh \in Nat /\ \A q \in Proc : mem[q].ed \in Nat /\ mem[q].ed <= fresh
  BY DEF IInv, StoreInv, FreshIsFresh, TypeOK, Bundle
<1>4. CASE StatActive(p)
  <2>1. CASE Finish(p)
    BY <1>1, <1>4, <2>1, FinishStep DEF StatActive
  <2>2. CASE ~Finish(p)
    <3>1. /\ Goto(p, "archive", file[p]) /\ pc'[p] = "archive" /\ file'[p] = file[p]
          /\ call'[p] = call[p] /\ stamp'[p] = clock
          /\ UNCHANGED <<store, fresh, mem, issued>>
      BY <1>4, <2>2 DEF StatActive, Goto, IInv, TypeOK
    <3>2. archive[clock] = EmptyDir
      BY <1>4, <2>2 DEF StatActive, SafeUse
    <3>3. CallInv(p)'
      BY <1>1, <1>4, <3>1, <3>2 DEF StatActive, EmptyDir
    <3> QED
      BY <1>1, <1>2, <1>3, <3>1, <3>3, ControlStep
  <2> QED
    BY <2>1, <2>2
<1>5. CASE ArchiveFile(p) \/ SkipFile(p)
  <2> DEFINE l == IF file[p] \in {"pem", "enc"} THEN "archive" ELSE "trunc"
             f == IF file[p] = "pub" THEN "enc"
                  ELSE IF file[p] = "hmac" THEN "pem" ELSE Companion(file[p])
  <2>1. Goto(p, l, f) /\ pc'[p] = l /\ file'[p] = f /\ l \in Pc /\ f \in File
    BY <1>2, <1>5 DEF ArchiveFile, SkipFile, AfterArchive, Generate, Goto, Companion, IInv, TypeOK
  <2>2. call' = call /\ stamp' = stamp /\ issued' = issued /\ pc[p] = "archive"
    BY <1>5 DEF ArchiveFile, SkipFile
  <2>3. IF l = "archive"
        THEN fresh' = fresh /\ mem' = mem
        ELSE fresh' = fresh + 1 /\ mem'[p].ed = fresh + 1
               /\ \A q \in Proc : q # p => mem'[q] = mem[q]
    BY <1>2, <1>5 DEF ArchiveFile, SkipFile, AfterArchive, Generate, IInv, TypeOK
  <2>4. fresh' >= fresh /\ fresh' \in Nat /\ \A q \in Proc : mem'[q].ed <= fresh'
    BY <1>3, <2>3
  <2>5. l = "trunc" => ~IssuedKey(mem[p].ed)'
    BY <1>3, <2>2, <2>3 DEF IssuedKey, IInv, StoreInv, FreshIsFresh, TypeOK, Bundle
  <2>6. CASE SkipFile(p)
    <3>1. ~Present(file[p]) /\ file[p] # "enc" /\ UNCHANGED store
      BY <1>1, <2>2, <2>6 DEF SkipFile
    <3>2. CallInv(p)'
      <4>1. l = "trunc" => PemSpare'
        BY <1>1, <1>2, <2>2, <3>1 DEF PemSpare, IssuedKey, ArchivedKey
      <4> QED
        BY <1>1, <1>2, <2>1, <2>2, <2>5, <3>1, <4>1 DEF Companion
    <3> QED
      BY <1>1, <2>1, <2>2, <2>4, <3>1, <3>2, ControlStep
  <2>7. CASE ArchiveFile(p)
    <3>1. /\ Present(file[p]) /\ disk'[file[p]].st = "absent" /\ disk'[file[p]].ed = 0
          /\ \A g \in File : g # file[p] => disk'[g] = disk[g]
      BY <1>2, <2>7 DEF ArchiveFile, IInv, TypeOK, Absent
    <3>2. /\ \A k : ArchivedKey(k) => ArchivedKey(k)'
          /\ \A k : file[p] \in {"pem", "enc"} /\ HoldsKey(disk[file[p]], k) => ArchivedKey(k)'
      BY <1>1, <2>2, <2>7, ArchiveKeeps DEF IInv
    <3>3. Solo' /\ \A q \in Proc : q # p => CallInv(q)'
      BY <1>1, <2>1, OnlyOne DEF IInv
    <3>4. FreshIsFresh'
      <4>1. (\A b \in issued : b.ed \in Nat) /\ (\A g \in File : disk[g].ed \in Nat)
        BY ContentTypes DEF IInv, TypeOK, Bundle
      <4> QED
        BY <1>3, <2>2, <2>4, <3>1, <4>1 DEF IInv, StoreInv, FreshIsFresh
    <3>5. IssuedKeyKept'
      BY <1>2, <2>2, <3>1, <3>2 DEF IInv, StoreInv, IssuedKeyKept, ActiveKey, HoldsKey
    <3>6. PemSpare'
      <4>1. CASE file[p] \in {"pem", "hmac"}
        BY <1>1, <1>2, <2>2, <3>1, <4>1 DEF PemSpare
      <4>2. CASE file[p] = "enc"
        BY <1>1, <1>2, <2>2, <3>1, <3>2, <4>2
        DEF PemSpare, IssuedKey, PemBesideEnc, IInv, StoreInv
      <4>3. CASE file[p] = "pub"
        BY <1>1, <1>2, <2>2, <3>1, <3>2, <4>3 DEF PemSpare, IssuedKey
      <4> QED
        BY <1>2, <4>1, <4>2, <4>3
    <3>7. CallInv(p)'
      BY <1>1, <1>2, <2>1, <2>2, <2>5, <3>1, <3>6 DEF Companion
    <3> QED
      BY <3>3, <3>4, <3>5, <3>6, <3>7 DEF IInv, StoreInv, LonePemSpare, PemBesideEnc
  <2> QED
    BY <1>5, <2>6, <2>7
<1> QED
  BY <1>4, <1>5

\* A step of p on the files alone, to a point of p's call whose own invariant
\* holds: what is left to show is about the store.
LEMMA FileStep ==
    ASSUME IInv, TypeOK', NEW p \in Proc, ~Idle(p), NEW l \in Pc, NEW f \in File, Goto(p, l, f),
           UNCHANGED <<fresh, issued, mem>>,
           \A g \in File : disk'[g] = disk[g] \/ disk'[g].ed = 0 \/ disk'[g].ed = mem[p].ed,
           IssuedKeyKept', LonePemSpare', PemBesideEnc', CallInv(p)'
    PROVE  IInv'
<1>1. Solo' /\ \A q \in Proc : q # p => CallInv(q)'
  BY OnlyOne DEF IInv
<1>2. FreshIsFresh'
  <2>1. fresh \in Nat /\ mem[p].ed <= fresh
    BY DEF IInv, StoreInv, FreshIsFresh, TypeOK
  <2> QED
    BY <2>1 DEF IInv, StoreInv, FreshIsFresh
<1> QED
  BY <1>1, <1>2 DEF IInv, StoreInv

LEMMA WriteStep ==
    ASSUME IInv, TypeOK', NEW p \in Proc, Truncate(p) \/ Write(p)
    PROVE  IInv'
<1> USE DEF CallInv, PlainInv, RotateInv, WriteInv, EndInv, Present, HoldsKey
<1> DEFINE f == file[p]
           opn == call[p].op
<1>1. ~Idle(p) /\ CallInv(p) /\ UNCHANGED <<archive, fresh, call, mem, issued>>
  BY DEF Truncate, Write, Idle, IInv
<1>2. {"write", "trunc", "remove", "return"} \subseteq Pc /\ {"enc", "pem", "hmac", "pub"} = File
        /\ f \in File /\ Companion(f) \in File /\ opn \in {"load", "encrypt", "decrypt", "rotate"}
  BY CompanionType DEF Pc, File, IInv, TypeOK, Call
<1>3. \A g \in File : g # f => disk'[g] = disk[g]
  BY DEF Truncate, Write, IInv, TypeOK
<1>4. ~Encrypting \/ (pc[p] = "write" /\ f = "enc" /\ opn = "encrypt")
  BY <1>1, NotEncrypting DEF IInv
<1>5. IssuedKeyKept /\ LonePemSpare /\ PemBesideEnc
  BY DEF IInv, StoreInv
<1>6. CASE Truncate(p)
  <2>1. /\ Goto(p, "write", f) /\ pc'[p] = "write" /\ file'[p] = f /\ pc[p] = "trunc"
        /\ disk'[f].st = "torn" /\ disk'[f].ed = 0
    BY <1>2, <1>6 DEF Truncate, Goto, Torn, IInv, TypeOK
  <2>2. CallInv(p)'
    BY <1>1, <1>2, <1>3, <2>1 DEF PemSpare, IssuedKey, ArchivedKey
  <2>3. IssuedKeyKept'
    <3>1. CASE f \in {"hmac", "pub", "enc"}
      BY <1>1, <1>2, <1>3, <1>5, <2>1, <3>1 DEF IssuedKeyKept, ActiveKey, ArchivedKey
    <3>2. CASE f = "pem"
      <4>1. PemSpare \/ HoldsKey(disk["enc"], disk["pem"].ed)
        BY <1>1, <1>2, <1>4, <1>5, <2>1, <3>2 DEF PemBesideEnc
      <4> QED
        BY <1>1, <1>2, <1>3, <1>5, <2>1, <3>2, <4>1
        DEF IssuedKeyKept, ActiveKey, ArchivedKey, PemSpare, IssuedKey
    <3> QED
      BY <1>2, <3>1, <3>2
  <2>4. LonePemSpare'
    BY <1>1, <1>2, <1>3, <1>5, <2>1 DEF LonePemSpare, PemSpare, IssuedKey, ArchivedKey
  <2>5. PemBesideEnc'
    <3>1. CASE f = "pem"
      BY <2>1, <3>1 DEF PemBesideEnc, PemSpare
    <3>2. CASE f = "enc"
      <4>1. CASE opn = "encrypt"
        BY <1>1, <2>1, <3>2, <4>1 DEF PemBesideEnc, Encrypting
      <4>2. CASE opn # "encrypt"
        BY <1>1, <1>2, <1>3, <2>1, <3>2, <4>2
        DEF PemBesideEnc, PemSpare, IssuedKey, ArchivedKey
      <4> QED
        BY <4>1, <4>2
    <3>3. CASE f \in {"hmac", "pub"}
      BY <1>1, <1>2, <1>3, <1>4, <1>5, <3>3 DEF PemBesideEnc, PemSpare, IssuedKey, ArchivedKey
    <3> QED
      BY <1>2, <3>1, <3>2, <3>3
  <2> QED
    BY <1>1, <1>2, <1>3, <2>1, <2>2, <2>3, <2>4, <2>5, FileStep
<1>7. CASE Write(p)
  <2> DEFINE l == IF f \in {"pem", "enc"} THEN "trunc"
                  ELSE IF (f = "pub" /\ opn = "encrypt") \/ (f = "hmac" /\ opn = "decrypt")
                       THEN "remove" ELSE "return"
             g == IF f \in {"pem", "enc"} THEN Companion(f)
                  ELSE IF f = "pub" /\ opn = "encrypt" THEN "pem"
                  ELSE IF f = "hmac" /\ opn = "decrypt" THEN "enc" ELSE f
  <2>1. Goto(p, l, g) /\ pc'[p] = l /\ file'[p] = g /\ pc[p] = "write" /\ l \in Pc /\ g \in File
    BY <1>2, <1>7 DEF Write, AfterWrite, Goto, IInv, TypeOK
  <2>2. /\ disk'[f].st = "full" /\ disk'[f].ed = (IF f = "hmac" THEN 0 ELSE mem[p].ed)
        /\ disk[f].st = "torn"
    BY <1>1, <1>2, <1>7 DEF Write, NewContent, Full, IInv, TypeOK
  <2>3. CallInv(p)'
    BY <1>1, <1>2, <1>3, <2>1, <2>2 DEF Companion, PemSpare, IssuedKey, ArchivedKey
  <2>4. IssuedKeyKept'
    BY <1>1, <1>2, <1>3, <1>5, <2>2 DEF IssuedKeyKept, ActiveKey, ArchivedKey
  <2>5. LonePemSpare'
    BY <1>1, <1>2, <1>3, <1>5, <2>1, <2>2 DEF LonePemSpare, PemSpare, IssuedKey, ArchivedKey
  <2>6. PemBesideEnc'
    <3>1. CASE f \in {"pem", "enc"}
      BY <1>1, <1>2, <1>3, <2>1, <2>2, <3>1 DEF PemBesideEnc, PemSpare, IssuedKey, ArchivedKey
    <3>2. CASE f \in {"hmac", "pub"}
      BY <1>1, <1>2, <1>3, <1>4, <1>5, <3>2 DEF PemBesideEnc, PemSpare, IssuedKey, ArchivedKey
    <3> QED
      BY <1>2, <3>1, <3>2
  <2> QED
    BY <1>1, <1>2, <1>3, <2>1, <2>2, <2>3, <2>4, <2>5, <2>6, FileStep
<1> QED
  BY <1>6, <1>7

LEMMA RemoveStep ==
    ASSUME IInv, TypeOK', NEW p \in Proc, Remove(p)
    PROVE  IInv'
<1> USE DEF CallInv, PlainInv, RotateInv, WriteInv, EndInv, Present, HoldsKey
<1> DEFINE f == file[p]
           l == IF f \in {"pem", "enc"} THEN "remove" ELSE "return"
           g == IF f \in {"pem", "enc"} THEN Companion(f) ELSE f
<1>1. /\ ~Idle(p) /\ pc[p] = "remove" /\ CallInv(p)
      /\ UNCHANGED <<archive, fresh, call, mem, issued>>
  BY DEF Remove, Idle, IInv
<1>2. {"remove", "return"} \subseteq Pc /\ {"enc", "pem", "hmac", "pub"} = File
        /\ f \in File /\ Companion(f) \in File
  BY CompanionType DEF Pc, File, IInv, TypeOK
<1>3. /\ disk'[f].st = "absent" /\ disk'[f].ed = 0
      /\ \A h \in File : h # f => disk'[h] = disk[h]
  BY <1>2 DEF Remove, Absent, IInv, TypeOK
<1>4. IssuedKeyKept /\ LonePemSpare /\ PemBesideEnc /\ ~Encrypting
  BY <1>1, NotEncrypting DEF IInv, StoreInv
<1>5. Goto(p, l, g) /\ pc'[p] = l /\ file'[p] = g /\ l \in Pc /\ g \in File
  BY <1>2 DEF Remove, Goto, IInv, TypeOK
<1>6. CallInv(p)'
  BY <1>1, <1>2, <1>3, <1>5 DEF Companion
<1>7. IssuedKeyKept'
  BY <1>1, <1>2, <1>3, <1>4
  DEF IssuedKeyKept, ActiveKey, ArchivedKey, PemBesideEnc, PemSpare, IssuedKey
<1>8. LonePemSpare' /\ PemBesideEnc'
  BY <1>1, <1>2, <1>3, <1>4 DEF LonePemSpare, PemBesideEnc, PemSpare, IssuedKey, ArchivedKey
<1> QED
  BY <1>1, <1>2, <1>3, <1>5, <1>6, <1>7, <1>8, FileStep

LEMMA ReturnStep ==
    ASSUME IInv, TypeOK', NEW p \in Proc, Return(p)
    PROVE  IInv'
<1> USE DEF Present, HoldsKey, store
<1>1. /\ ~Idle(p) /\ pc[p] = "return" /\ Finish(p) /\ UNCHANGED <<store, fresh>>
      /\ issued' = issued \cup {mem[p]}
      /\ IF Present("enc") THEN HoldsKey(disk["enc"], mem[p].ed)
                           ELSE HoldsKey(disk["pem"], mem[p].ed) /\ Present("hmac")
  BY DEF Return, Idle, IInv, CallInv, EndInv
<1>2. "idle" \in Pc /\ "pem" \in File
  BY DEF Pc, File
<1>3. Solo' /\ \A q \in Proc : CallInv(q)'
  <2>1. Idle(p)'
    BY <1>1 DEF Finish, Goto, Idle, IInv, TypeOK
  <2> QED
    BY <1>1, <1>2, <2>1, OnlyOne, IdleCallPrime DEF Finish, IInv
<1>4. FreshIsFresh'
  <2>1. \A q \in Proc : mem'[q] = mem[q] \/ mem'[q].ed = 0
    BY <1>1 DEF Finish, NoBundle, IInv, TypeOK
  <2>2. fresh \in Nat /\ FreshIsFresh
    BY DEF IInv, StoreInv, TypeOK
  <2> QED
    BY <1>1, <2>1, <2>2 DEF FreshIsFresh
<1>5. IssuedKeyKept' /\ LonePemSpare'
  BY <1>1 DEF IInv, StoreInv, IssuedKeyKept, LonePemSpare, PemSpare, IssuedKey, ActiveKey, ArchivedKey
<1>6. PemBesideEnc'
  <2>1. ~Encrypting
    BY <1>1, NotEncrypting DEF IInv
  <2> QED
    BY <1>1, <2>1 DEF IInv, StoreInv, PemBesideEnc, PemSpare, IssuedKey, ArchivedKey
<1> QED
  BY <1>3, <1>4, <1>5, <1>6 DEF IInv, StoreInv

-----------------------------------------------------------------------------
(* No issued signing key is lost *)

LEMMA InitInv == Init => IInv
<1> SUFFICES ASSUME Init PROVE IInv
  OBVIOUS
<1>1. TypeOK
  BY KeystoreAssumption DEF Init, TypeOK, EmptyDir, Absent, Content, Pc, Call, Bundle,
                            NoCall, NoBundle, File, Stamp
<1>2. \A p \in Proc : Idle(p)
  BY DEF Init, Idle
<1>3. StoreInv
  BY DEF Init, StoreInv, FreshIsFresh, IssuedKeyKept, LonePemSpare, PemBesideEnc, PemSpare,
         Present, NoBundle, EmptyDir, Absent, File
<1> QED
  BY <1>1, <1>2, <1>3, IdleCall DEF IInv, Solo

LEMMA InvStep == SafeUse /\ IInv /\ [Next]_vars => IInv'
<1> SUFFICES ASSUME SafeUse, IInv, [Next]_vars PROVE IInv'
  OBVIOUS
<1>1. TypeOK'
  BY TypeStep DEF IInv
<1>2. ASSUME NEW p \in Proc, Start(p) PROVE IInv'
  BY <1>1, <1>2, StartStep
<1>3. ASSUME NEW p \in Proc, Step(p) PROVE IInv'
  BY <1>1, <1>3, ReadStep, RotateStep, WriteStep, RemoveStep, ReturnStep DEF Step
<1>4. ASSUME NEW p \in Proc, Abort(p) PROVE IInv'
  BY <1>1, <1>4, AbortStep
<1>5. CASE Tick \/ UNCHANGED vars
  <2>1. UNCHANGED <<store, fresh, pc, file, call, mem, stamp, issued>>
    BY <1>5 DEF Tick, vars, store
  <2> QED
    BY <1>1, <2>1 DEF IInv, Solo, Idle, StoreInv, FreshIsFresh, IssuedKeyKept, LonePemSpare,
         PemBesideEnc, PemSpare, IssuedKey, ActiveKey, ArchivedKey, Encrypting, HoldsKey,
         Present, CallInv, PlainInv, RotateInv, WriteInv, EndInv, store
<1> QED
  BY <1>2, <1>3, <1>4, <1>5 DEF Next

\* With calls that do not overlap, rotations in different seconds and a `key
\* encrypt' that is not interrupted, every signing key ever handed out stays in
\* the store or in its archive, wherever load, decrypt and rotate stop.
THEOREM IssuedKeysAreKept == ASSUME SafeUse PROVE Spec => []IssuedKeyKept
<1>1. IInv /\ [Next]_vars => IInv'
  BY InvStep
<1>2. IInv => IssuedKeyKept
  BY DEF IInv, StoreInv
<1> QED
  BY InitInv, <1>1, <1>2, PTL DEF Spec
=============================================================================
