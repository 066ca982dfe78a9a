------------------------------ MODULE Keystore ------------------------------
(***************************************************************************)
(* The signing keystore of apohara-sealchain-core (src/keystore.rs): the   *)
(* files of a config directory, its archive, and the four operations that  *)
(* change them.  The code takes no lock and writes files in place, so a    *)
(* call is a sequence of file-system steps that other calls, or the death  *)
(* of the process, may come between.                                       *)
(*                                                                         *)
(* Keys are numbered in the order they are generated; key k stands for     *)
(* both halves, the Ed25519 signing key and the HMAC secret drawn with it. *)
(* The number 0 is "no key": as an HMAC secret it is the empty byte string *)
(* that reading a truncated hmac.key returns.                              *)
(***************************************************************************)
EXTENDS Naturals

CONSTANTS
    Proc,           \* the processes (or MCP worker threads) using the directory
    Pass,           \* the passphrases in use
    NoPass,         \* no --passphrase and no SEALCHAIN_PASSPHRASE
    Args,           \* the passphrase arguments callers give: a set of Pass and NoPass
    Ops,            \* the operations callers use
    AbortOps,       \* the operations that may stop half way (I/O error, kill, crash)
    Serial,         \* TRUE: nobody starts a call while another one runs
    UniqueStamps,   \* TRUE: no two rotations read the same second
    MaxKeys,        \* bound: keys generated
    MaxClock        \* bound: seconds

ASSUME KeystoreAssumption ==
    /\ NoPass \notin Pass
    /\ Args \subseteq Pass \cup {NoPass}
    /\ Ops \subseteq {"load", "encrypt", "decrypt", "rotate"}
    /\ AbortOps \subseteq Ops
    /\ Serial \in BOOLEAN
    /\ UniqueStamps \in BOOLEAN
    \* Concurrent calls are modelled where files keep their names: load alone.
    /\ Serial \/ Ops = {"load"}
    /\ MaxKeys \in Nat
    /\ MaxClock \in Nat

VARIABLES
    disk,       \* the config directory: file name -> content
    archive,    \* archive/<stamp>/: stamp -> file name -> content
    clock,      \* the wall clock, in the whole seconds a stamp shows
    fresh,      \* how many keys have been generated
    pc,         \* what each process does next, "idle" outside a call
    file,       \* the file that step is about
    call,       \* the operation being executed and its passphrase argument
    mem,        \* the bundle the call has loaded or generated
    stamp,      \* the archive stamp the call has formatted
    issued      \* history: the bundles returned to a caller, who may seal with them

store == <<disk, archive>>
vars == <<disk, archive, clock, fresh, pc, file, call, mem, stamp, issued>>

-----------------------------------------------------------------------------
(* Files and their contents *)

\* ED25519_FILE, HMAC_FILE, ENC_FILE and PUBLIC_FILE
File == {"pem", "hmac", "enc", "pub"}

Stamp == 0..MaxClock

\* A content is the keys a file holds; "torn" is a file that fs::write has
\* created or truncated and not yet written.
Content == [st : {"absent", "torn", "full"}, ed : Nat, hmac : Nat,
            pass : Pass \cup {NoPass}]

Absent == [st |-> "absent", ed |-> 0, hmac |-> 0, pass |-> NoPass]
Torn   == [st |-> "torn", ed |-> 0, hmac |-> 0, pass |-> NoPass]
Full(ed, hmac, pass) == [st |-> "full", ed |-> ed, hmac |-> hmac, pass |-> pass]

EmptyDir == [f \in File |-> Absent]

Present(f) == disk[f].st # "absent"

-----------------------------------------------------------------------------
(* Calls *)

Pc == {"idle", "statPlain", "readPem", "readHmac", "readEnc", "statActive",
       "archive", "trunc", "write", "remove", "return"}

Call == [op : {"load", "encrypt", "decrypt", "rotate"}, pass : Pass \cup {NoPass}]

\* A Keys value: the signing key and the HMAC secret.
Bundle == [ed : Nat, hmac : Nat]

NoCall == [op |-> "load", pass |-> NoPass]
NoBundle == [ed |-> 0, hmac |-> 0]

Idle(p) == pc[p] = "idle"

Init ==
    /\ disk = EmptyDir
    /\ archive = [s \in Stamp |-> EmptyDir]
    /\ clock = 0
    /\ fresh = 0
    /\ pc = [p \in Proc |-> "idle"]
    /\ file = [p \in Proc |-> "pem"]
    /\ call = [p \in Proc |-> NoCall]
    /\ mem = [p \in Proc |-> NoBundle]
    /\ stamp = [p \in Proc |-> 0]
    /\ issued = {}

\* The next step of p's call is step l on file f.
Goto(p, l, f) ==
    /\ pc' = [pc EXCEPT ![p] = l]
    /\ file' = [file EXCEPT ![p] = f]

\* p's call is over; its local state is gone.
Finish(p) ==
    /\ Goto(p, "idle", "pem")
    /\ call' = [call EXCEPT ![p] = NoCall]
    /\ mem' = [mem EXCEPT ![p] = NoBundle]
    /\ stamp' = [stamp EXCEPT ![p] = 0]

\* p generates a key pair and is about to write it, the file f first.
Generate(p, f) ==
    /\ fresh < MaxKeys
    /\ fresh' = fresh + 1
    /\ mem' = [mem EXCEPT ![p] = [ed |-> fresh + 1, hmac |-> fresh + 1]]
    /\ Goto(p, "trunc", f)

\* A caller starts a call.  Every operation first tests whether keystore.enc
\* is a file; l and f are where the outcome of that test leads.
Begin(p, op, pass, l, f) ==
    /\ op \in Ops
    /\ Idle(p)
    /\ Serial => \A q \in Proc : Idle(q)
    /\ call' = [call EXCEPT ![p] = [op |-> op, pass |-> pass]]
    /\ Goto(p, l, f)
    /\ UNCHANGED <<store, clock, fresh, mem, stamp, issued>>

-----------------------------------------------------------------------------
(* The first step of each operation.  A start the code refuses (a missing  *)
(* passphrase, a keystore already in the mode asked for) changes nothing   *)
(* and is left out.                                                        *)

\* load_or_generate_with_passphrase
StartLoad(p, pass) ==
    \/ /\ Present("enc")
       /\ pass # NoPass
       /\ Begin(p, "load", pass, "readEnc", "enc")
    \/ /\ ~Present("enc")
       /\ Begin(p, "load", pass, "statPlain", "pem")

\* encrypt_keystore
StartEncrypt(p, pass) ==
    /\ pass # NoPass
    /\ ~Present("enc")
    /\ Begin(p, "encrypt", pass, "statPlain", "pem")

\* decrypt_keystore
StartDecrypt(p, pass) ==
    /\ pass # NoPass
    /\ Present("enc")
    /\ Begin(p, "decrypt", pass, "readEnc", "enc")

\* rotate.  The mode found here decides which files every later step is about.
StartRotate(p, pass) ==
    \/ /\ Present("enc")
       /\ pass # NoPass
       /\ Begin(p, "rotate", pass, "statActive", "enc")
    \/ /\ ~Present("enc")
       /\ Begin(p, "rotate", pass, "statActive", "pem")

-----------------------------------------------------------------------------
(* Tests and reads *)

\* ed25519.pem and hmac.key are both files: load them.  (The two tests are
\* one step: whatever falls between them, one of the two orders explains.)
FoundPlain(p) ==
    /\ pc[p] = "statPlain"
    /\ Present("pem") /\ Present("hmac")
    /\ Goto(p, "readPem", "pem")
    /\ UNCHANGED <<store, clock, fresh, call, mem, stamp, issued>>

\* One is missing: load generates a pair, encrypted if it has a passphrase;
\* encrypt has nothing to encrypt.
MissingPlain(p) ==
    /\ pc[p] = "statPlain"
    /\ ~(Present("pem") /\ Present("hmac"))
    /\ \/ /\ call[p].op = "load"
          /\ Generate(p, IF call[p].pass = NoPass THEN "pem" ELSE "enc")
          /\ UNCHANGED <<call, stamp>>
       \/ /\ call[p].op = "encrypt"
          /\ Finish(p)
          /\ UNCHANGED fresh
    /\ UNCHANGED <<store, clock, issued>>

\* load_plaintext, the PEM: a missing or truncated file does not parse.
ReadPem(p) ==
    /\ pc[p] = "readPem"
    /\ \/ /\ disk["pem"].st = "full"
          /\ mem' = [mem EXCEPT ![p] = [ed |-> disk["pem"].ed, hmac |-> 0]]
          /\ Goto(p, "readHmac", "hmac")
          /\ UNCHANGED <<call, stamp>>
       \/ /\ disk["pem"].st # "full"
          /\ Finish(p)
    /\ UNCHANGED <<store, clock, fresh, issued>>

\* load_plaintext, the HMAC secret: whatever bytes the file has, none included.
ReadHmac(p) ==
    /\ pc[p] = "readHmac"
    /\ \/ /\ Present("hmac")
          /\ mem' = [mem EXCEPT ![p] = [ed |-> mem[p].ed, hmac |-> disk["hmac"].hmac]]
          /\ Goto(p, IF call[p].op = "load" THEN "return" ELSE "trunc", "enc")
          /\ UNCHANGED <<call, stamp>>
       \/ /\ ~Present("hmac")
          /\ Finish(p)
    /\ UNCHANGED <<store, clock, fresh, issued>>

\* decrypt_secret: a truncated blob or another passphrase fails authentication.
Opens(p) == disk["enc"].st = "full" /\ disk["enc"].pass = call[p].pass

\* Mutant: decrypt removes the encrypted pair before it writes the plaintext one.
ReadEnc_RemovesFirst(p) ==
    /\ pc[p] = "readEnc"
    /\ Opens(p)
    /\ mem' = [mem EXCEPT ![p] = [ed |-> disk["enc"].ed, hmac |-> disk["enc"].hmac]]
    /\ IF call[p].op = "load" THEN Goto(p, "return", "pem") ELSE Goto(p, "remove", "enc")
    /\ UNCHANGED <<store, clock, fresh, call, stamp, issued>>

\* Mutant: the HMAC secret is that of hmac.key if there is one.
ReadEnc_PlainHmac(p) ==
    /\ pc[p] = "readEnc"
    /\ \/ /\ Opens(p)
          /\ mem' = [mem EXCEPT ![p] = [ed |-> disk["enc"].ed,
                       hmac |-> disk[IF Present("hmac") THEN "hmac" ELSE "enc"].hmac]]
          /\ Goto(p, IF call[p].op = "load" THEN "return" ELSE "trunc", "pem")
          /\ UNCHANGED <<call, stamp>>
       \/ /\ ~Opens(p)
          /\ Finish(p)
    /\ UNCHANGED <<store, clock, fresh, issued>>

\* load_encrypted
ReadEnc(p) ==
    /\ pc[p] = "readEnc"
    /\ \/ /\ Opens(p)
          /\ mem' = [mem EXCEPT ![p] = [ed |-> disk["enc"].ed, hmac |-> disk["enc"].hmac]]
          /\ Goto(p, IF call[p].op = "load" THEN "return" ELSE "trunc", "pem")
          /\ UNCHANGED <<call, stamp>>
       \/ /\ ~Opens(p)
          /\ Finish(p)
    /\ UNCHANGED <<store, clock, fresh, issued>>

-----------------------------------------------------------------------------
(* rotate: the archive *)

\* The second file of a storage mode.
Companion(f) == IF f \in {"pem", "hmac"} THEN "hmac" ELSE "pub"

\* Mutant: the stamp is rounded up to the next second.
StatActive_RoundsUp(p) ==
    /\ pc[p] = "statActive"
    /\ fresh < MaxKeys
    /\ Present(file[p]) \/ Present(Companion(file[p]))
    /\ stamp' = [stamp EXCEPT ![p] = clock + 1]
    /\ Goto(p, "archive", file[p])
    /\ UNCHANGED <<store, clock, fresh, call, mem, issued>>

\* At least one file of the mode is there.  Format the stamp and make its
\* directory.
StatActive(p) ==
    /\ pc[p] = "statActive"
    /\ fresh < MaxKeys
    /\ \/ /\ Present(file[p]) \/ Present(Companion(file[p]))
          /\ UniqueStamps => archive[clock] = EmptyDir
          /\ stamp' = [stamp EXCEPT ![p] = clock]
          /\ Goto(p, "archive", file[p])
          /\ UNCHANGED <<call, mem>>
       \/ /\ ~(Present(file[p]) \/ Present(Companion(file[p])))
          /\ Finish(p)
    /\ UNCHANGED <<store, clock, fresh, issued>>

\* Mutant: rotate archives ed25519.pem and not hmac.key.
AfterArchive_LeavesHmac(p, f) ==
    \/ f = "pem" /\ Generate(p, "pem")
    \/ f = "enc" /\ Goto(p, "archive", "pub") /\ UNCHANGED <<fresh, mem>>
    \/ f = "pub" /\ Generate(p, "enc")

\* Mutant: rotate writes the new pair in plaintext whatever the mode was.
AfterArchive_Plaintext(p, f) ==
    \/ /\ f \in {"pem", "enc"}
       /\ Goto(p, "archive", Companion(f))
       /\ UNCHANGED <<fresh, mem>>
    \/ f \in {"hmac", "pub"} /\ Generate(p, "pem")

\* After both files, generate the new pair in the same mode.
AfterArchive(p, f) ==
    \/ /\ f \in {"pem", "enc"}
       /\ Goto(p, "archive", Companion(f))
       /\ UNCHANGED <<fresh, mem>>
    \/ f = "hmac" /\ Generate(p, "pem")
    \/ f = "pub" /\ Generate(p, "enc")

\* fs::rename into the archive directory replaces what has that name there.
ArchiveFile(p) ==
    LET f == file[p] IN
    /\ pc[p] = "archive"
    /\ Present(f)
    /\ archive' = [archive EXCEPT ![stamp[p]][f] = disk[f]]
    /\ disk' = [disk EXCEPT ![f] = Absent]
    /\ AfterArchive(p, f)
    /\ UNCHANGED <<clock, call, stamp, issued>>

\* A file of the mode that is not there is skipped.
SkipFile(p) ==
    /\ pc[p] = "archive"
    /\ ~Present(file[p])
    /\ AfterArchive(p, file[p])
    /\ UNCHANGED <<store, clock, call, stamp, issued>>

-----------------------------------------------------------------------------
(* Writes and removals *)

\* fs::write opens with O_CREAT and O_TRUNC ...
Truncate(p) ==
    /\ pc[p] = "trunc"
    /\ disk' = [disk EXCEPT ![file[p]] = Torn]
    /\ Goto(p, "write", file[p])
    /\ UNCHANGED <<archive, clock, fresh, call, mem, stamp, issued>>

\* What the call writes into the file f.
NewContent(p, f) ==
    CASE f = "hmac" -> Full(0, mem[p].hmac, NoPass)
      [] f = "enc"  -> Full(mem[p].ed, mem[p].hmac, call[p].pass)
      [] OTHER      -> Full(mem[p].ed, 0, NoPass)

\* Mutant: write_encrypted does not refresh ed25519.pub.pem.
AfterWrite_NoPub(p, f) ==
    CASE f = "pem" -> Goto(p, "trunc", "hmac")
      [] f = "enc" /\ call[p].op = "encrypt"  -> Goto(p, "remove", "pem")
      [] f = "hmac" /\ call[p].op = "decrypt" -> Goto(p, "remove", "enc")
      [] OTHER -> Goto(p, "return", f)

\* Mutant: write_plaintext writes no hmac.key.
AfterWrite_NoHmac(p, f) ==
    IF f = "enc" THEN Goto(p, "trunc", "pub") ELSE Goto(p, "return", f)

\* write_plaintext and write_encrypted write two files; then encrypt removes
\* the plaintext pair and decrypt the encrypted one.
AfterWrite(p, f) ==
    CASE f \in {"pem", "enc"} -> Goto(p, "trunc", Companion(f))
      [] f = "pub" /\ call[p].op = "encrypt"  -> Goto(p, "remove", "pem")
      [] f = "hmac" /\ call[p].op = "decrypt" -> Goto(p, "remove", "enc")
      [] OTHER -> Goto(p, "return", f)

\* ... and then writes the bytes, a few hundred at most, in one call.
Write(p) ==
    LET f == file[p] IN
    /\ pc[p] = "write"
    /\ disk' = [disk EXCEPT ![f] = NewContent(p, f)]
    /\ AfterWrite(p, f)
    /\ UNCHANGED <<archive, clock, fresh, call, mem, stamp, issued>>

\* fs::remove_file (an error here is an Abort; ed25519.pub.pem may be missing).
Remove(p) ==
    LET f == file[p] IN
    /\ pc[p] = "remove"
    /\ disk' = [disk EXCEPT ![f] = Absent]
    /\ IF f \in {"pem", "enc"} THEN Goto(p, "remove", Companion(f))
                               ELSE Goto(p, "return", f)
    /\ UNCHANGED <<archive, clock, fresh, call, mem, stamp, issued>>

\* The caller gets the bundle.
Return(p) ==
    /\ pc[p] = "return"
    /\ issued' = issued \cup {mem[p]}
    /\ Finish(p)
    /\ UNCHANGED <<store, clock, fresh>>

-----------------------------------------------------------------------------
(* The environment *)

\* The call stops between two of its steps: an I/O error the `?' operator
\* returns, or the death of the process.  What it did to the disk stays.
Abort(p) ==
    /\ ~Idle(p)
    /\ call[p].op \in AbortOps
    /\ Finish(p)
    /\ UNCHANGED <<store, clock, fresh, issued>>

Tick ==
    /\ clock < MaxClock
    /\ clock' = clock + 1
    /\ UNCHANGED <<store, fresh, pc, file, call, mem, stamp, issued>>

Start(p) ==
    \E pass \in Args : StartLoad(p, pass) \/ StartEncrypt(p, pass)
                         \/ StartDecrypt(p, pass) \/ StartRotate(p, pass)

Step(p) ==
    \/ FoundPlain(p) \/ MissingPlain(p)
    \/ ReadPem(p) \/ ReadHmac(p) \/ ReadEnc(p)
    \/ StatActive(p) \/ ArchiveFile(p) \/ SkipFile(p)
    \/ Truncate(p) \/ Write(p) \/ Remove(p)
    \/ Return(p)

Next ==
    \/ \E p \in Proc : Start(p) \/ Step(p) \/ Abort(p)
    \/ Tick

Spec == Init /\ [][Next]_vars

-----------------------------------------------------------------------------
(* Reading the directory as a user of `key list' does *)

\* archived_fingerprint and, without encryption, active_fingerprint: the key
\* a directory shows, from the public PEM or else from the private one.
DirShows(dir, k) ==
    \/ dir["pub"].st = "full" /\ dir["pub"].ed = k
    \/ dir["pub"].st = "absent" /\ dir["pem"].st = "full" /\ dir["pem"].ed = k

\* active_fingerprint: an encrypted keystore shows its public PEM, a plaintext
\* one its private PEM whatever other file is left there.
ActiveShows(k) ==
    LET f == IF Present("enc") THEN "pub" ELSE "pem" IN
    disk[f].st = "full" /\ disk[f].ed = k

\* load_or_generate, called now with the right passphrase, returns <<ed, hmac>>.
LoadReturns(ed, hmac) ==
    IF Present("enc")
    THEN disk["enc"].st = "full" /\ disk["enc"].ed = ed /\ disk["enc"].hmac = hmac
    ELSE /\ disk["pem"].st = "full" /\ disk["pem"].ed = ed
         /\ Present("hmac") /\ disk["hmac"].hmac = hmac

AllIdle == \A p \in Proc : Idle(p)

-----------------------------------------------------------------------------
(* Properties *)

\* Every variable keeps its type.
TypeOK ==
    /\ disk \in [File -> Content]
    /\ archive \in [Stamp -> [File -> Content]]
    /\ clock \in Stamp
    /\ fresh \in Nat
    /\ pc \in [Proc -> Pc]
    /\ file \in [Proc -> File]
    /\ call \in [Proc -> Call]
    /\ mem \in [Proc -> Bundle]
    /\ stamp \in [Proc -> Stamp]
    /\ issued \subseteq Bundle

\* A file that holds the private signing key k.
HoldsKey(c, k) == c.st = "full" /\ c.ed = k

ActiveKey(k) == HoldsKey(disk["pem"], k) \/ HoldsKey(disk["enc"], k)

ArchivedKey(k) ==
    \E s \in Stamp : HoldsKey(archive[s]["pem"], k) \/ HoldsKey(archive[s]["enc"], k)

\* Neither rotation nor conversion, interrupted anywhere, destroys the only
\* copy of a signing key that a caller was given (rotate archives before it
\* generates; encrypt and decrypt write before they remove).
IssuedKeyKept == \A b \in issued : ActiveKey(b.ed) \/ ArchivedKey(b.ed)

\* An HMAC secret the store still holds.
HmacKept(h) ==
    \E dir \in {disk} \cup {archive[s] : s \in Stamp}, f \in {"hmac", "enc"} :
        dir[f].st = "full" /\ dir[f].hmac = h

\* Uninterrupted, the operations keep both halves of every bundle, in all
\* the states in between as well.
IssuedBundleKept == IssuedKeyKept /\ \A b \in issued : HmacKept(b.hmac)

\* Between calls, `key list' shows the active key that load would return, and
\* among the active and archived keys the key of every receipt ever sealed
\* (docs/key-management.md:121-122).
IssuedKeyListed ==
    AllIdle =>
        /\ \A b \in issued : ActiveShows(b.ed) \/ \E s \in Stamp : DirShows(archive[s], b.ed)
        /\ \A k \in 1..fresh : LoadReturns(k, k) <=> ActiveShows(k)

\* Whatever calls race on first use, once they have all returned the store
\* can be loaded, and the HMAC secret is a whole one.
UsableOnceQuiet ==
    AllIdle /\ issued # {} =>
        \E ed, hmac \in 1..fresh : LoadReturns(ed, hmac)

\* Halves of two key pairs get together only in a plaintext store, of which a racing
\* reader takes ed25519.pem and hmac.key one after the other.  Out of keystore.enc,
\* however many first uses overwrite it, and out of its own generation, a call gets
\* one whole pair or none.
MixedOnlyFromPlaintext ==
    [][\A p \in Proc :
         mem'[p] # mem[p] /\ mem'[p].ed # mem'[p].hmac => pc[p] \in {"readPem", "readHmac"}]_vars

=============================================================================
