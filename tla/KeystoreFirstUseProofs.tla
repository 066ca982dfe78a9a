----------------------- MODULE KeystoreFirstUseProofs -----------------------
(***************************************************************************)
(* Keystore, used by any number of concurrent callers that only load: the  *)
(* first use of a config directory.  However the file writes of several    *)
(* generating loads interleave, the encrypted store pairs the halves of    *)
(* one key only; and if every call runs to its end, what they leave behind *)
(* can be loaded, with a whole HMAC secret.                                *)
(***************************************************************************)
EXTENDS KeystoreProofs

LoadsOnly == Ops = {"load"}

Generated(k) == k \in 1..fresh

\* The store has the files that a load does not regenerate.
Usable == Present("enc") \/ (Present("pem") /\ Present("hmac"))

\* What each file holds when it is not torn.
FilesInv ==
    /\ disk["pem"].st = "full" => Generated(disk["pem"].ed)
    /\ disk["hmac"].st = "full" => Generated(disk["hmac"].hmac)
    /\ disk["enc"].st = "full" =>
         Generated(disk["enc"].ed) /\ disk["enc"].hmac = disk["enc"].ed

\* A loading process: it never moves or removes a file; what it writes is one
\* generated pair; and it has seen to the files that its return relies on.
LoadInv(p) ==
    /\ call[p].op = "load"
    /\ pc[p] \notin {"statActive", "archive", "remove"}
    /\ pc[p] \in {"trunc", "write"} =>
         /\ Generated(mem[p].ed) /\ mem[p].hmac = mem[p].ed
         /\ file[p] = "hmac" => Present("pem")
         /\ file[p] = "pub" => Present("enc")
    /\ pc[p] = "readHmac" => Present("pem")
    /\ pc[p] = "return" => Usable

IssuedInv == issued # {} => Usable

FirstInv == TypeOK /\ FilesInv /\ IssuedInv /\ \A p \in Proc : LoadInv(p)

\* A half-written file has its writer.
Attended ==
    \A f \in File : disk[f].st = "torn" => \E p \in Proc : pc[p] = "write" /\ file[p] = f

-----------------------------------------------------------------------------
(* What every step of a load has in common *)

\* A step of p leaves the other calls alone, removes no file and forgets no key.
Grows(p) ==
    /\ \A q \in Proc : q # p => /\ pc'[q] = pc[q] /\ file'[q] = file[q]
                                /\ call'[q] = call[q] /\ mem'[q] = mem[q]
    /\ fresh' \in Nat /\ fresh' >= fresh
    /\ \A f \in File : Present(f) => Present(f)'

\* What TypeOK says of the parts the steps below use.
Typed ==
    /\ fresh \in Nat /\ {"pem", "hmac", "enc", "pub"} = File
    /\ \A f \in File : disk[f].ed \in Nat /\ disk[f].hmac \in Nat
    /\ \A p \in Proc : mem[p].ed \in Nat /\ mem[p].hmac \in Nat /\ file[p] \in File

LEMMA IsTyped == TypeOK => Typed
BY ContentTypes DEF Typed, TypeOK, File, Bundle

LEMMA OthersKept ==
    ASSUME FirstInv, NEW p \in Proc, Grows(p), NEW q \in Proc, q # p
    PROVE  LoadInv(q)'
<1>1. LoadInv(q)
  BY DEF FirstInv
<1>2. \A k : Generated(k) => Generated(k)'
  BY IsTyped DEF FirstInv, Generated, Grows, Typed
<1>3. Usable => Usable'
  BY IsTyped DEF FirstInv, Usable, Grows, Typed
<1>4. Typed
  BY IsTyped DEF FirstInv
<1> QED
  BY <1>1, <1>2, <1>3, <1>4 DEF Typed, LoadInv, Grows, Present

\* A step of p that neither writes nor returns.
LEMMA QuietStep ==
    ASSUME FirstInv, TypeOK', NEW p \in Proc, Grows(p), UNCHANGED <<store, issued>>, LoadInv(p)'
    PROVE  FirstInv'
<1>1. \A k : Generated(k) => Generated(k)'
  BY IsTyped DEF FirstInv, Generated, Grows, Typed
<1>2. FilesInv' /\ IssuedInv'
  BY <1>1 DEF FirstInv, FilesInv, IssuedInv, Usable, Present, store
<1>3. \A q \in Proc : LoadInv(q)'
  BY OthersKept
<1> QED
  BY <1>2, <1>3 DEF FirstInv

-----------------------------------------------------------------------------
(* Step by step *)

LEMMA FirstStart ==
    ASSUME LoadsOnly, FirstInv, TypeOK', NEW p \in Proc, Start(p)
    PROVE  FirstInv'
<1>1. PICK w \in Args : StartLoad(p, w)
  BY DEF Start, StartEncrypt, StartDecrypt, StartRotate, Begin, LoadsOnly
<1>2. PICK l \in {"readEnc", "statPlain"}, f \in {"enc", "pem"} : Begin(p, "load", w, l, f)
  BY <1>1 DEF StartLoad
<1>3. /\ Goto(p, l, f) /\ UNCHANGED <<store, fresh, mem, issued>>
      /\ call' = [call EXCEPT ![p] = [op |-> "load", pass |-> w]]
  BY <1>2 DEF Begin
<1>4. Grows(p)
  BY <1>3, IsTyped DEF Typed, Grows, Goto, FirstInv, TypeOK, Present, store
<1>5. LoadInv(p)'
  BY <1>3 DEF LoadInv, Goto, FirstInv, TypeOK
<1> QED
  BY <1>3, <1>4, <1>5, QuietStep

LEMMA FirstFinish ==
    ASSUME FirstInv, TypeOK', NEW p \in Proc, Finish(p), UNCHANGED <<store, fresh, issued>>
    PROVE  FirstInv'
<1>1. Grows(p)
  BY IsTyped DEF Typed, Finish, Goto, Grows, FirstInv, TypeOK, Present, store
<1>2. LoadInv(p)'
  BY DEF Finish, Goto, LoadInv, FirstInv, TypeOK, NoCall
<1> QED
  BY <1>1, <1>2, QuietStep

LEMMA FirstRead ==
    ASSUME FirstInv, TypeOK', NEW p \in Proc,
           \/ FoundPlain(p) \/ MissingPlain(p) \/ ReadPem(p) \/ ReadHmac(p) \/ ReadEnc(p)
    PROVE  FirstInv'
<1>1. LoadInv(p) /\ call[p].op = "load"
  BY DEF FirstInv, LoadInv
<1>2. Typed
  BY IsTyped DEF FirstInv
<1>3. CASE Finish(p)
  <2>1. UNCHANGED <<store, fresh, issued>>
    BY <1>1, <1>3 DEF FoundPlain, MissingPlain, ReadPem, ReadHmac, ReadEnc, Finish, Goto, Generate,
                      FirstInv, TypeOK
  <2> QED
    BY <1>3, <2>1, FirstFinish
<1>4. CASE FoundPlain(p)
  <2>1. Goto(p, "readPem", "pem") /\ UNCHANGED <<store, fresh, call, mem, issued>>
    BY <1>4 DEF FoundPlain
  <2>2. Grows(p) /\ LoadInv(p)'
    BY <1>1, <1>2, <2>1 DEF Typed, Grows, LoadInv, Goto, FirstInv, TypeOK, Present, store
  <2> QED
    BY <2>1, <2>2, QuietStep
<1>5. CASE MissingPlain(p) /\ ~Finish(p)
  <2>1. PICK f \in {"pem", "enc"} : Generate(p, f) /\ UNCHANGED <<store, issued, call>>
    BY <1>1, <1>5 DEF MissingPlain
  <2>2. /\ fresh' = fresh + 1 /\ mem'[p] = [ed |-> fresh + 1, hmac |-> fresh + 1]
        /\ pc'[p] = "trunc" /\ file'[p] = f
    BY <2>1 DEF Generate, Goto, FirstInv, TypeOK
  <2>3. Grows(p)
    BY <1>2, <2>1, <2>2 DEF Typed, Grows, Generate, Goto, FirstInv, TypeOK, Present, store
  <2>4. LoadInv(p)'
    BY <1>1, <1>2, <2>1, <2>2 DEF Typed, LoadInv, Generated
  <2> QED
    BY <2>1, <2>3, <2>4, QuietStep
<1>6. CASE ReadPem(p) /\ ~Finish(p)
  <2>1. /\ Present("pem") /\ Goto(p, "readHmac", "hmac") /\ UNCHANGED <<store, fresh, call, issued>>
        /\ mem' = [mem EXCEPT ![p] = [ed |-> disk["pem"].ed, hmac |-> 0]]
    BY <1>6 DEF ReadPem, Present
  <2>2. Grows(p) /\ LoadInv(p)'
    BY <1>1, <1>2, <2>1 DEF Typed, Grows, LoadInv, Goto, FirstInv, TypeOK, Present, store
  <2> QED
    BY <2>1, <2>2, QuietStep
<1>7. CASE ReadHmac(p) /\ ~Finish(p)
  <2>1. /\ Present("pem") /\ Present("hmac") /\ Goto(p, "return", "enc")
        /\ UNCHANGED <<store, fresh, call, issued>>
        /\ mem' = [mem EXCEPT ![p] = [ed |-> mem[p].ed, hmac |-> disk["hmac"].hmac]]
    BY <1>1, <1>7 DEF ReadHmac, LoadInv
  <2>2. Grows(p) /\ LoadInv(p)'
    BY <1>1, <1>2, <2>1 DEF Typed, Grows, LoadInv, Goto, FirstInv, TypeOK, Present, store, Usable
  <2> QED
    BY <2>1, <2>2, QuietStep
<1>8. CASE ReadEnc(p) /\ ~Finish(p)
  <2>1. /\ disk["enc"].st = "full" /\ Goto(p, "return", "pem")
        /\ UNCHANGED <<store, fresh, call, issued>>
        /\ mem' = [mem EXCEPT ![p] = [ed |-> disk["enc"].ed, hmac |-> disk["enc"].hmac]]
    BY <1>1, <1>8 DEF ReadEnc, Opens
  <2>2. disk["enc"].hmac = disk["enc"].ed /\ Present("enc")
    BY <2>1 DEF FirstInv, FilesInv, Present
  <2>3. Grows(p) /\ LoadInv(p)'
    BY <1>1, <1>2, <2>1, <2>2 DEF Typed, Grows, LoadInv, Goto, FirstInv, TypeOK, Present, store, Usable
  <2> QED
    BY <2>1, <2>3, QuietStep
<1> QED
  BY <1>3, <1>4, <1>5, <1>6, <1>7, <1>8

LEMMA FirstWrite ==
    ASSUME FirstInv, TypeOK', NEW p \in Proc, Truncate(p) \/ Write(p)
    PROVE  FirstInv'
<1>0. PICK f \in File : f = file[p]
  BY DEF FirstInv, TypeOK
<1>1. /\ LoadInv(p) /\ call[p].op = "load" /\ Generated(mem[p].ed) /\ mem[p].hmac = mem[p].ed
      /\ f = "hmac" => Present("pem")
      /\ f = "pub" => Present("enc")
  BY <1>0 DEF FirstInv, LoadInv, Truncate, Write
<1>2. Typed
  BY IsTyped DEF FirstInv
<1>3. /\ UNCHANGED <<fresh, call, mem, issued>>
      /\ \A g \in File : g # f => disk'[g] = disk[g]
      /\ disk'[f].st = "torn" \/ disk'[f] = NewContent(p, f)
  BY <1>0, <1>2 DEF Typed, Truncate, Write, Torn, FirstInv, TypeOK
<1>4. /\ disk'[f].st \in {"torn", "full"}
      /\ disk'[f].st = "full" /\ f \in {"pem", "enc"} => disk'[f].ed = mem[p].ed
      /\ disk'[f].st = "full" /\ f \in {"hmac", "enc"} => disk'[f].hmac = mem[p].hmac
  BY <1>0, <1>3 DEF NewContent, Full
<1>5. PICK l \in {"trunc", "write", "return"}, g \in File :
        /\ Goto(p, l, g)
        /\ l = "write" => g = f
        /\ l = "trunc" => f \in {"pem", "enc"} /\ g = Companion(f)
        /\ l = "return" => f \in {"hmac", "pub"}
  BY <1>0, <1>1, <1>2, CompanionType DEF Typed, Truncate, Write, AfterWrite, File
<1>6. pc'[p] = l /\ file'[p] = g
  BY <1>5 DEF Goto, FirstInv, TypeOK
<1>7. Grows(p)
  <2>1. \A h \in File : Present(h) => Present(h)'
    BY <1>3, <1>4 DEF Present
  <2>2. \A q \in Proc : q # p => pc'[q] = pc[q] /\ file'[q] = file[q]
    BY <1>5 DEF Goto, FirstInv, TypeOK
  <2> QED
    BY <1>2, <1>3, <2>1, <2>2 DEF Typed, Grows
<1>8. FilesInv'
  BY <1>1, <1>2, <1>3, <1>4 DEF Typed, FirstInv, FilesInv, Generated
<1>9. (\A h \in File : Present(h) => Present(h)') /\ Present(f)'
  BY <1>4, <1>7 DEF Grows, Present
<1>10. IssuedInv'
  BY <1>2, <1>3, <1>9 DEF Typed, FirstInv, IssuedInv, Usable
<1>11. LoadInv(p)'
  <2>1. l = "return" => Usable'
    BY <1>1, <1>2, <1>5, <1>9 DEF Typed, Usable
  <2>2. l \in {"trunc", "write"} => (g = "hmac" => Present("pem")') /\ (g = "pub" => Present("enc")')
    BY <1>1, <1>2, <1>5, <1>9 DEF Typed, Companion
  <2>3. Generated(mem[p].ed)' /\ mem'[p].hmac = mem'[p].ed /\ call'[p].op = "load"
    BY <1>1, <1>3 DEF Generated
  <2> QED
    BY <1>5, <1>6, <2>1, <2>2, <2>3 DEF LoadInv
<1> QED
  BY <1>7, <1>8, <1>10, <1>11, OthersKept DEF FirstInv

LEMMA FirstReturn ==
    ASSUME FirstInv, TypeOK', NEW p \in Proc, Return(p)
    PROVE  FirstInv'
<1>1. /\ Finish(p) /\ UNCHANGED <<store, fresh>> /\ issued' = issued \cup {mem[p]}
      /\ Usable
  BY DEF Return, FirstInv, LoadInv
<1>2. Grows(p)
  BY <1>1, IsTyped DEF Typed, Finish, Goto, Grows, FirstInv, TypeOK, Present, store
<1>3. LoadInv(p)'
  BY <1>1 DEF Finish, Goto, LoadInv, FirstInv, TypeOK, NoCall
<1>4. FilesInv' /\ IssuedInv'
  BY <1>1 DEF FirstInv, FilesInv, IssuedInv, Usable, Present, Generated, store
<1> QED
  BY <1>2, <1>3, <1>4, OthersKept DEF FirstInv

LEMMA FirstStep == LoadsOnly /\ FirstInv /\ [Next]_vars => FirstInv'
<1> SUFFICES ASSUME LoadsOnly, FirstInv, [Next]_vars PROVE FirstInv'
  OBVIOUS
<1>1. TypeOK'
  BY TypeStep DEF FirstInv
<1>2. ASSUME NEW p \in Proc, Start(p) PROVE FirstInv'
  BY <1>1, <1>2, FirstStart
<1>3. ASSUME NEW p \in Proc, Step(p) PROVE FirstInv'
  <2>1. pc[p] \notin {"statActive", "archive", "remove"}
    BY DEF FirstInv, LoadInv
  <2>2. ~(StatActive(p) \/ ArchiveFile(p) \/ SkipFile(p) \/ Remove(p))
    BY <2>1 DEF StatActive, ArchiveFile, SkipFile, Remove
  <2> QED
    BY <1>1, <1>3, <2>2, FirstRead, FirstWrite, FirstReturn DEF Step
<1>4. ASSUME NEW p \in Proc, Abort(p) PROVE FirstInv'
  BY <1>1, <1>4, FirstFinish DEF Abort
<1>5. CASE Tick \/ UNCHANGED vars
  <2>1. UNCHANGED <<disk, fresh, pc, file, call, mem, issued>>
    BY <1>5 DEF Tick, vars, store
  <2> QED
    BY <1>1, <2>1 DEF FirstInv, FilesInv, IssuedInv, LoadInv, Usable, Present,
                      Generated
<1> QED
  BY <1>2, <1>3, <1>4, <1>5 DEF Next

LEMMA FirstInit == Init => FirstInv
<1> SUFFICES ASSUME Init PROVE FirstInv
  OBVIOUS
<1>1. TypeOK
  BY InitInv DEF IInv
<1>2. FilesInv /\ IssuedInv
  BY DEF Init, FilesInv, IssuedInv, EmptyDir, Absent, File
<1>3. \A p \in Proc : LoadInv(p)
  BY DEF Init, LoadInv, NoCall
<1> QED
  BY <1>1, <1>2, <1>3 DEF FirstInv

\* What a step makes a call hold is a whole pair, unless it reads plaintext files.
LEMMA WholePairs ==
    FirstInv /\ [Next]_vars =>
        [\A p \in Proc :
           mem'[p] # mem[p] /\ mem'[p].ed # mem'[p].hmac => pc[p] \in {"readPem", "readHmac"}]_vars
<1> SUFFICES ASSUME FirstInv, Next, NEW p \in Proc,
                    mem'[p] # mem[p], mem'[p].ed # mem'[p].hmac, pc[p] \notin {"readPem", "readHmac"}
             PROVE  FALSE
  OBVIOUS
<1>1. mem \in [Proc -> Bundle] /\ Typed
  BY IsTyped DEF FirstInv, TypeOK
<1>2. ASSUME NEW q \in Proc, Finish(q) PROVE FALSE
  BY <1>1, <1>2 DEF Finish, NoBundle
<1>3. ASSUME NEW q \in Proc, NEW f, Generate(q, f) PROVE FALSE
  BY <1>1, <1>3 DEF Generate
<1>4. ASSUME NEW q \in Proc, ReadEnc(q) PROVE FALSE
  <2>1. disk["enc"].hmac = disk["enc"].ed /\ mem' = [mem EXCEPT ![q] = [ed |-> disk["enc"].ed, hmac |-> disk["enc"].hmac]]
    BY <1>2, <1>4 DEF ReadEnc, Opens, FirstInv, FilesInv
  <2> QED
    BY <1>1, <2>1
<1>5. ASSUME NEW q \in Proc, ReadPem(q) \/ ReadHmac(q) PROVE FALSE
  <2>1. q # p
    BY <1>5 DEF ReadPem, ReadHmac
  <2>2. \E b : mem' = [mem EXCEPT ![q] = b]
    BY <1>5 DEF ReadPem, ReadHmac, Finish
  <2> QED
    BY <1>1, <2>1, <2>2
<1>6. ASSUME NEW q \in Proc, Step(q) PROVE FALSE
  <2>1. pc[q] \notin {"statActive", "archive", "remove"}
    BY DEF FirstInv, LoadInv
  <2>2. mem' # mem
    OBVIOUS
  <2>3. \/ MissingPlain(q) \/ ReadPem(q) \/ ReadHmac(q) \/ ReadEnc(q) \/ Return(q)
    BY <1>6, <2>1, <2>2 DEF Step, FoundPlain, StatActive, ArchiveFile, SkipFile, Truncate, Write, Remove
  <2> QED
    BY <1>2, <1>3, <1>4, <1>5, <2>3 DEF MissingPlain, Return
<1>7. ASSUME NEW q \in Proc, Start(q) PROVE FALSE
  BY <1>7 DEF Start, StartLoad, StartEncrypt, StartDecrypt, StartRotate, Begin
<1> QED
  BY <1>2, <1>6, <1>7 DEF Next, Abort, Tick

\* Callers that race on the first use of a directory, even if some of them are
\* killed, are never given halves of two pairs out of an encrypted keystore: only
\* the reading of ed25519.pem and hmac.key brings such halves together.
THEOREM MixedPairsArePlaintext == ASSUME LoadsOnly PROVE Spec => MixedOnlyFromPlaintext
<1>1. FirstInv /\ [Next]_vars => FirstInv'
  BY FirstStep
<1> QED
  BY FirstInit, <1>1, WholePairs, PTL DEF Spec, MixedOnlyFromPlaintext

-----------------------------------------------------------------------------
(* A store that nobody is writing is whole *)

\* A step of p that writes no file, from a point where p owes none.
LEMMA StillAttended ==
    ASSUME TypeOK, Attended, NEW p \in Proc, pc[p] # "write", disk' = disk,
           \A q \in Proc : q # p => pc'[q] = pc[q] /\ file'[q] = file[q]
    PROVE  Attended'
BY DEF Attended

LEMMA AttendedStep ==
    ASSUME LoadsOnly, AbortOps = {}, FirstInv, Attended, [Next]_vars
    PROVE  Attended'
<1>1. TypeOK
  BY DEF FirstInv
<1>2. ASSUME NEW p \in Proc, Start(p) PROVE Attended'
  <2>1. pc[p] # "write" /\ UNCHANGED store /\ \E l, f : Goto(p, l, f)
    BY <1>2 DEF Start, StartLoad, StartEncrypt, StartDecrypt, StartRotate, Begin, Idle
  <2>2. disk' = disk /\ \A q \in Proc : q # p => pc'[q] = pc[q] /\ file'[q] = file[q]
    BY <1>1, <2>1 DEF Goto, TypeOK, store
  <2> QED
    BY <1>1, <2>1, <2>2, StillAttended
<1>3. ASSUME NEW p \in Proc,
             \/ FoundPlain(p) \/ MissingPlain(p) \/ ReadPem(p) \/ ReadHmac(p) \/ ReadEnc(p)
             \/ Return(p)
      PROVE  Attended'
  <2>1. pc[p] # "write" /\ UNCHANGED store /\ \E l, f : Goto(p, l, f)
    BY <1>3 DEF FoundPlain, MissingPlain, Generate, ReadPem, ReadHmac, ReadEnc, Return, Finish
  <2>2. disk' = disk /\ \A q \in Proc : q # p => pc'[q] = pc[q] /\ file'[q] = file[q]
    BY <1>1, <2>1 DEF Goto, TypeOK, store
  <2> QED
    BY <1>1, <2>1, <2>2, StillAttended
<1>4. ASSUME NEW p \in Proc, Truncate(p) PROVE Attended'
  <2>1. /\ \A g \in File : g # file[p] => disk'[g] = disk[g]
        /\ \A q \in Proc : q # p => pc'[q] = pc[q] /\ file'[q] = file[q]
        /\ pc[p] = "trunc" /\ pc'[p] = "write" /\ file'[p] = file[p]
    BY <1>1, <1>4 DEF Truncate, Goto, TypeOK
  <2> QED
    BY <2>1 DEF Attended
<1>5. ASSUME NEW p \in Proc, Write(p) PROVE Attended'
  <2>1. /\ \A g \in File : g # file[p] => disk'[g] = disk[g]
        /\ \E l, f : Goto(p, l, f)
    BY <1>1, <1>5 DEF Write, AfterWrite, TypeOK
  <2>2. \A q \in Proc : q # p => pc'[q] = pc[q] /\ file'[q] = file[q]
    BY <1>1, <2>1 DEF Goto, TypeOK
  <2>3. disk'[file[p]].st = "full"
    BY <1>1, <1>5 DEF Write, NewContent, Full, TypeOK
  <2> QED
    BY <2>1, <2>2, <2>3 DEF Attended
<1>6. ASSUME NEW p \in Proc, Step(p) PROVE Attended'
  <2>1. ~(StatActive(p) \/ ArchiveFile(p) \/ SkipFile(p) \/ Remove(p))
    BY DEF FirstInv, LoadInv, StatActive, ArchiveFile, SkipFile, Remove
  <2> QED
    BY <1>3, <1>4, <1>5, <1>6, <2>1 DEF Step
<1>7. CASE Tick \/ UNCHANGED vars
  BY <1>7 DEF Tick, vars, store, Attended
<1> QED
  BY <1>2, <1>6, <1>7 DEF Next, Abort

LEMMA QuietIsUsable == FirstInv /\ Attended => UsableOnceQuiet
<1> SUFFICES ASSUME FirstInv, Attended, AllIdle, issued # {}
             PROVE  \E ed, hmac \in 1..fresh : LoadReturns(ed, hmac)
  BY DEF UsableOnceQuiet
<1>1. \A f \in File : disk[f].st \in {"absent", "full"}
  BY DEF Attended, AllIdle, Idle, FirstInv, TypeOK, Content
<1>2. Usable /\ FilesInv
  BY DEF FirstInv, IssuedInv
<1>3. CASE Present("enc")
  <2>1. disk["enc"].st = "full"
    BY <1>1, <1>3 DEF Present, File
  <2> QED
    BY <1>2, <1>3, <2>1 DEF FilesInv, Generated, LoadReturns
<1>4. CASE ~Present("enc")
  <2>1. disk["pem"].st = "full" /\ disk["hmac"].st = "full" /\ Present("hmac")
    BY <1>1, <1>2, <1>4 DEF Usable, Present, File
  <2> QED
    BY <1>2, <1>4, <2>1 DEF FilesInv, Generated, LoadReturns
<1> QED
  BY <1>3, <1>4

\* However the writes of racing first uses interleave, when all the calls have
\* returned the directory can be loaded, and the HMAC secret is a whole one.
THEOREM FirstUseIsUsable ==
    ASSUME LoadsOnly, AbortOps = {} PROVE Spec => []UsableOnceQuiet
<1>1. Init => FirstInv /\ Attended
  BY FirstInit DEF Init, Attended, EmptyDir, Absent
<1>2. FirstInv /\ Attended /\ [Next]_vars => (FirstInv /\ Attended)'
  BY FirstStep, AttendedStep
<1> QED
  BY <1>1, <1>2, QuietIsUsable, PTL DEF Spec
=============================================================================
