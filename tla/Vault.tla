------------------------------- MODULE Vault -------------------------------
(* Payload encryption on the owner's devices (internal/client/crypto/crypto.go):
   the salt file of a data directory, the processes that read or create it, and
   the payloads they encrypt with the key derived from master password and salt.

   A key is the pair it is derived from; AES-GCM opens a payload with the key it
   was sealed with and no other.  A process is a CLI command that needs crypto,
   or a terminal UI whose master password has been set.  Sync carries payloads
   between directories as they are, and is one step here: SecretSync has the
   rest of it.

   loadOrCreateSalt reads the file, and when that fails draws a salt and writes
   it with os.WriteFile, which truncates first: three steps that other processes
   on the directory and crashes may come between. *)
EXTENDS Integers, FiniteSets

CONSTANTS
  Device,     \* data directories
  Process,    \* processes that may use them at once
  Home,       \* Home[p]: the directory process p works on
  Overlap,    \* directories that several processes may be using at once
  Flaky,      \* directories whose files cannot always be read
  Password,   \* master passwords typed
  Id,         \* secrets
  MaxDraws    \* bound: salts drawn

ASSUME VaultAssumption ==
  /\ Home \in [Process -> Device]
  /\ Overlap \subseteq Device /\ Flaky \subseteq Device
  /\ MaxDraws \in Nat

VARIABLES
  salt,     \* salt[d]: the file; a number once it has all its bytes
  draws,    \* salts drawn so far; the numbers they go by
  pc,       \* pc[p]: what process p does
  key,      \* key[p]: the key it has, or is about to have
  cipher    \* cipher[d][x]: how secret x is encrypted on d, if it is there

vars == <<salt, draws, pc, key, cipher>>

\* The file before it is created, and while it is shorter than a salt.
None == 0
Short == -1

Key == [password : Password, salt : Nat]

\* A payload with the key it was sealed with and the directory that was on.
Sealed == [key : Key, at : Device]

TypeOK ==
  /\ salt \in [Device -> Nat \cup {Short}]
  /\ draws \in Nat
  /\ pc \in [Process -> {"idle", "create", "write", "ready"}]
  /\ key \in [Process -> SUBSET Key]
  /\ cipher \in [Device -> [Id -> SUBSET Sealed]]

Init ==
  /\ salt = [d \in Device |-> None]
  /\ draws = 0
  /\ pc = [p \in Process |-> "idle"]
  /\ key = [p \in Process |-> {}]
  /\ cipher = [d \in Device |-> [x \in Id |-> {}]]

SetPc(p, l) == pc' = [pc EXCEPT ![p] = l]
SetKey(p, k) == key' = [key EXCEPT ![p] = k]

Whole(d) == salt[d] > 0

\* May process p begin to use its directory now?
Free(p) ==
  \/ Home[p] \in Overlap
  \/ \A q \in Process \ {p} : Home[q] = Home[p] => pc[q] = "idle"

-----------------------------------------------------------------------------
\* Mutant of Open: the length of what is there is not looked at, so that a new
\* salt is drawn although the file has one.
OpenAnew(p, w) ==
  /\ pc[p] \in {"idle", "ready"}
  /\ Free(p)
  /\ SetPc(p, "create")
  /\ SetKey(p, {[password |-> w, salt |-> 0]})
  /\ UNCHANGED <<salt, draws, cipher>>

(* NewCrypto with password w reads the salt.  A file of another length is an
   error: the process goes on with the key it had, if any.  Any error of the
   read is taken for a file that is not there. *)
Open(p, w) ==
  /\ pc[p] \in {"idle", "ready"}
  /\ Free(p)
  /\ \/ /\ Whole(Home[p])
        /\ SetPc(p, "ready")
        /\ SetKey(p, {[password |-> w, salt |-> salt[Home[p]]]})
     \/ /\ salt[Home[p]] = None \/ Home[p] \in Flaky
        /\ SetPc(p, "create")
        /\ SetKey(p, {[password |-> w, salt |-> 0]})
     \/ /\ salt[Home[p]] = Short
        /\ UNCHANGED <<pc, key>>
  /\ UNCHANGED <<salt, draws, cipher>>

\* Mutant of Create: the key is used before the salt has been written.
CreateAndUse(p) ==
  /\ pc[p] = "create"
  /\ draws < MaxDraws
  /\ draws' = draws + 1
  /\ \E k \in key[p] : SetKey(p, {[k EXCEPT !.salt = draws']})
  /\ SetPc(p, "ready")
  /\ UNCHANGED <<salt, cipher>>

\* No salt was found: one is drawn, and the file is created or truncated.
Create(p) ==
  /\ pc[p] = "create"
  /\ draws < MaxDraws
  /\ draws' = draws + 1
  /\ \E k \in key[p] : SetKey(p, {[k EXCEPT !.salt = draws']})
  /\ salt' = [salt EXCEPT ![Home[p]] = Short]
  /\ SetPc(p, "write")
  /\ UNCHANGED cipher

\* The salt is in the file and the key derived from it.
WriteSalt(p) ==
  /\ pc[p] = "write"
  /\ \E k \in key[p] : salt' = [salt EXCEPT ![Home[p]] = k.salt]
  /\ SetPc(p, "ready")
  /\ UNCHANGED <<draws, key, cipher>>

\* Mutant of Encrypt: the key is kept without the place it was used at.
EncryptBare(p, x) ==
  /\ pc[p] = "ready"
  /\ cipher' = [cipher EXCEPT ![Home[p]][x] = key[p]]
  /\ UNCHANGED <<salt, draws, pc, key>>

\* Add and Update seal a new payload with the key of the process.
Encrypt(p, x) ==
  /\ pc[p] = "ready"
  /\ \E k \in key[p] :
       cipher' = [cipher EXCEPT ![Home[p]][x] = {[key |-> k, at |-> Home[p]]}]
  /\ UNCHANGED <<salt, draws, pc, key>>

\* A sync brings secret x from directory e to d, by way of the server.
Receive(d, e, x) ==
  /\ cipher[e][x] # {}
  /\ cipher' = [cipher EXCEPT ![d][x] = cipher[e][x]]
  /\ UNCHANGED <<salt, draws, pc, key>>

\* The process is over, at any point: its end, a crash, or a write that fails.
Exit(p) ==
  /\ pc[p] # "idle"
  /\ SetPc(p, "idle")
  /\ SetKey(p, {})
  /\ UNCHANGED <<salt, draws, cipher>>

Next ==
  \/ \E p \in Process :
       \/ \E w \in Password : Open(p, w)
       \/ Create(p) \/ WriteSalt(p) \/ Exit(p)
       \/ \E x \in Id : Encrypt(p, x)
  \/ \E d, e \in Device, x \in Id : Receive(d, e, x)

Spec == Init /\ [][Next]_vars

-----------------------------------------------------------------------------
(* Properties. *)

\* Decrypt succeeds for the key that sealed the payload.
Decrypts(k, sealed) == sealed.key = k

\* Directories that can be read and that no two processes use at once.
Sound == Device \ (Overlap \cup Flaky)

(* What was encrypted in a directory that can be read and that no two processes
   use at once is readable there to every process with the same master
   password, and the salt that takes is in its file, whatever crashes there
   were (crypto.go:99-122). *)
ReadableHere ==
  \A d \in Sound, e \in Device, x \in Id :
    \A c \in {s \in cipher[e][x] : s.at = d} :
      /\ c.key.salt = salt[d]
      /\ \A p \in Process : \A k \in key[p] :
           Home[p] = d /\ pc[p] = "ready" /\ k.password = c.key.password =>
             Decrypts(k, c)

Creating(d) == \E p \in Process : Home[p] = d /\ pc[p] \in {"create", "write"}

(* Once a directory that can be read has a whole salt and nobody is creating one, that salt is
   kept for good and nobody ever draws another, however many processes come and
   go (crypto.go:101-106). *)
SaltSettles ==
  [][\A d \in Device \ Flaky : Whole(d) /\ ~Creating(d) =>
       salt'[d] = salt[d] /\ ~Creating(d)']_vars

(* The owner, with the one master password, reads on every device what was
   written on any: data is synchronised between the owner's clients
   (REQUIREMENTS.md:10) and accessible on request (REQUIREMENTS.md:15). *)
ReadableEverywhere ==
  \A d \in Device, x \in Id : \A c \in cipher[d][x] :
    \A p \in Process : \A k \in key[p] :
      Home[p] = d /\ pc[p] = "ready" /\ k.password = c.key.password =>
        Decrypts(k, c)

-----------------------------------------------------------------------------
(* The inductive invariant behind ReadableHere, for the directories it is about. *)

ProcessesApart ==
  \A p, q \in Process :
    Home[p] = Home[q] /\ Home[p] \in Sound
      /\ pc[p] # "idle" /\ pc[q] # "idle" => p = q

\* A process has one key at most.
OneKey == \A p \in Process : \A j, k \in key[p] : j = k

\* While a salt is being created there is none, and nothing encrypted with it.
CreatedOnce ==
  \A p \in Process : Home[p] \in Sound =>
    /\ pc[p] = "create" => salt[Home[p]] = None
    /\ pc[p] = "write" => salt[Home[p]] = Short
    /\ pc[p] = "write" => \A k \in key[p] : k.salt > 0

\* A process that is ready has the salt of the file.
ReadyHasSalt ==
  \A p \in Process : Home[p] \in Sound /\ pc[p] = "ready" =>
    Whole(Home[p]) /\ \A k \in key[p] : k.salt = salt[Home[p]]

\* So has everything that was encrypted there, wherever it is now.
SealedWithSalt ==
  \A e \in Device, x \in Id : \A c \in cipher[e][x] :
    c.at \in Sound => Whole(c.at) /\ c.key.salt = salt[c.at]

VaultInv ==
  /\ TypeOK
  /\ OneKey
  /\ ProcessesApart
  /\ CreatedOnce
  /\ ReadyHasSalt
  /\ SealedWithSalt

=============================================================================
