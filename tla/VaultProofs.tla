---------------------------- MODULE VaultProofs ----------------------------
(* Theorems about Vault for every set of directories, processes, passwords and
   secrets and any number of salts. *)
EXTENDS Vault, TLAPS

USE VaultAssumption

(* The invariant holds of directories without a salt. *)
LEMMA InitInv == Init => VaultInv
BY DEF Init, VaultInv, TypeOK, OneKey, ProcessesApart, CreatedOnce, ReadyHasSalt,
       SealedWithSalt, None, Short

(* NewCrypto on a directory that nobody else uses, or that does not matter:
   the key of a whole file, or none yet (crypto.go:32-48, 101-106). *)
LEMMA OpenInv ==
  ASSUME VaultInv, NEW p \in Process, NEW w \in Password, Open(p, w)
  PROVE  VaultInv'
<1>1. /\ pc[p] \in {"idle", "ready"} /\ Free(p)
      /\ UNCHANGED <<salt, draws, cipher>>
      /\ salt \in [Device -> Nat \cup {Short}] /\ draws \in Nat
      /\ pc \in [Process -> {"idle", "create", "write", "ready"}]
      /\ key \in [Process -> SUBSET Key]
      /\ Home[p] \in Device
  BY DEF Open, VaultInv, TypeOK
<1>2. CASE /\ Whole(Home[p])
           /\ pc' = [pc EXCEPT ![p] = "ready"]
           /\ key' = [key EXCEPT ![p] = {[password |-> w, salt |-> salt[Home[p]]]}]
  <2> DEFINE k0 == [password |-> w, salt |-> salt[Home[p]]]
  <2>1. salt[Home[p]] \in Nat /\ k0 \in Key /\ k0.salt = salt[Home[p]]
    BY <1>1, <1>2 DEF Whole, Short, Key
  <2> HIDE DEF k0
  <2>2. key' \in [Process -> SUBSET Key]
    BY <1>1, <1>2, <2>1 DEF k0
  <2>3. TypeOK'
    BY <1>1, <1>2, <2>2 DEF VaultInv, TypeOK
  <2>4. ProcessesApart'
    BY <1>1, <1>2 DEF VaultInv, ProcessesApart, Free, Sound
  <2>5. CreatedOnce'
    BY <1>1, <1>2 DEF VaultInv, CreatedOnce
  <2>6. key'[p] = {k0} /\ \A q \in Process \ {p} : key'[q] = key[q]
    BY <1>1, <1>2 DEF k0
  <2>7. OneKey'
    BY <2>6 DEF VaultInv, OneKey
  <2>8. ReadyHasSalt'
    BY <1>1, <1>2, <2>1, <2>6 DEF VaultInv, ReadyHasSalt, Whole
  <2>9. SealedWithSalt'
    BY <1>1 DEF VaultInv, SealedWithSalt, Whole
  <2> QED
    BY <2>3, <2>4, <2>5, <2>7, <2>8, <2>9 DEF VaultInv
<1>3. CASE /\ salt[Home[p]] = None \/ Home[p] \in Flaky
           /\ pc' = [pc EXCEPT ![p] = "create"]
           /\ key' = [key EXCEPT ![p] = {[password |-> w, salt |-> 0]}]
  <2>1. [password |-> w, salt |-> 0] \in Key
    BY DEF Key
  <2>2. key' \in [Process -> SUBSET Key]
    BY <1>1, <1>3, <2>1
  <2>3. TypeOK'
    BY <1>1, <1>3, <2>2 DEF VaultInv, TypeOK
  <2>4. OneKey'
    BY <1>1, <1>3 DEF VaultInv, OneKey
  <2>5. ProcessesApart'
    BY <1>1, <1>3 DEF VaultInv, ProcessesApart, Free, Sound
  <2>6. CreatedOnce'
    BY <1>1, <1>3 DEF VaultInv, CreatedOnce, Sound
  <2>7. ReadyHasSalt'
    BY <1>1, <1>3 DEF VaultInv, ReadyHasSalt, Whole
  <2>8. SealedWithSalt'
    BY <1>1 DEF VaultInv, SealedWithSalt, Whole
  <2> QED
    BY <2>3, <2>4, <2>5, <2>6, <2>7, <2>8 DEF VaultInv
<1>4. CASE UNCHANGED <<pc, key>>
  BY <1>1, <1>4 DEF VaultInv, TypeOK, OneKey, ProcessesApart, CreatedOnce, ReadyHasSalt,
                    SealedWithSalt, Whole
<1> QED
  BY <1>2, <1>3, <1>4 DEF Open, SetPc, SetKey

(* A salt is drawn where there is none, so nothing depends on the file that is
   truncated (crypto.go:112-117). *)
LEMMA CreateInv ==
  ASSUME VaultInv, NEW p \in Process, Create(p)
  PROVE  VaultInv'
<1>1. /\ pc[p] = "create" /\ draws' = draws + 1
      /\ salt' = [salt EXCEPT ![Home[p]] = Short]
      /\ pc' = [pc EXCEPT ![p] = "write"]
      /\ UNCHANGED cipher
      /\ salt \in [Device -> Nat \cup {Short}] /\ draws \in Nat
      /\ pc \in [Process -> {"idle", "create", "write", "ready"}]
      /\ key \in [Process -> SUBSET Key]
      /\ Home \in [Process -> Device]
  BY DEF Create, VaultInv, TypeOK, SetPc
<1>2. PICK k \in key[p] : key' = [key EXCEPT ![p] = {[k EXCEPT !.salt = draws']}]
  BY DEF Create, SetKey
<1> DEFINE k0 == [k EXCEPT !.salt = draws']
<1>3. k \in Key /\ k0 \in Key /\ k0.salt = draws' /\ draws' > 0
  BY <1>1, <1>2 DEF Key
<1> HIDE DEF k0
<1>4. key' = [key EXCEPT ![p] = {k0}]
  BY <1>2 DEF k0
<1>5. TypeOK'
  BY <1>1, <1>3, <1>4 DEF VaultInv, TypeOK
<1>6. ProcessesApart'
  BY <1>1 DEF VaultInv, ProcessesApart
<1>7. \A q \in Process : Home[q] = Home[p] /\ Home[p] \in Sound /\ q # p =>
        pc[q] = "idle"
  BY <1>1 DEF VaultInv, ProcessesApart, Sound
<1>8. Home[p] \in Sound => ~Whole(Home[p])
  BY <1>1 DEF VaultInv, CreatedOnce, Whole, None
<1>9. \A d \in Device : d # Home[p] => salt'[d] = salt[d]
  BY <1>1
<1>10. CreatedOnce'
  <2> SUFFICES ASSUME NEW q \in Process, Home[q] \in Sound
      PROVE  /\ pc'[q] = "create" => salt'[Home[q]] = None
             /\ pc'[q] = "write" => salt'[Home[q]] = Short
             /\ pc'[q] = "write" => \A c \in key'[q] : c.salt > 0
    BY DEF CreatedOnce
  <2>1. CASE q = p
    BY <2>1, <1>1, <1>3, <1>4
  <2>2. CASE q # p /\ Home[q] = Home[p]
    BY <2>2, <1>1, <1>7
  <2>3. CASE q # p /\ Home[q] # Home[p]
    BY <2>3, <1>1, <1>4, <1>9 DEF VaultInv, CreatedOnce
  <2> QED
    BY <2>1, <2>2, <2>3
<1>11. ReadyHasSalt'
  <2> SUFFICES ASSUME NEW q \in Process, Home[q] \in Sound, pc'[q] = "ready"
      PROVE  salt'[Home[q]] > 0 /\ \A c \in key'[q] : c.salt = salt'[Home[q]]
    BY DEF ReadyHasSalt, Whole
  <2>1. q # p /\ pc[q] = "ready"
    BY <1>1
  <2>2. Home[q] # Home[p]
    BY <2>1, <1>7
  <2> QED
    BY <2>1, <2>2, <1>1, <1>4, <1>9 DEF VaultInv, ReadyHasSalt, Whole
<1>12. SealedWithSalt'
  <2> SUFFICES ASSUME NEW e \in Device, NEW x \in Id, NEW c \in cipher[e][x],
                      c.at \in Sound
      PROVE  salt'[c.at] > 0 /\ c.key.salt = salt'[c.at]
    BY <1>1 DEF SealedWithSalt, Whole
  <2>1. Whole(c.at) /\ c.key.salt = salt[c.at] /\ c.at \in Device
    BY DEF VaultInv, SealedWithSalt, Sound
  <2>2. c.at # Home[p]
    BY <2>1, <1>8
  <2> QED
    BY <2>1, <2>2, <1>9 DEF Whole
<1>13. OneKey'
  BY <1>1, <1>4 DEF VaultInv, OneKey
<1> QED
  BY <1>5, <1>6, <1>10, <1>11, <1>12, <1>13 DEF VaultInv

(* The salt reaches the file that was created for it, and only then the key is
   used (crypto.go:117-121). *)
LEMMA WriteInv ==
  ASSUME VaultInv, NEW p \in Process, WriteSalt(p)
  PROVE  VaultInv'
<1>1. /\ pc[p] = "write"
      /\ pc' = [pc EXCEPT ![p] = "ready"]
      /\ UNCHANGED <<draws, key, cipher>>
      /\ salt \in [Device -> Nat \cup {Short}] /\ draws \in Nat
      /\ pc \in [Process -> {"idle", "create", "write", "ready"}]
      /\ key \in [Process -> SUBSET Key]
      /\ Home \in [Process -> Device]
  BY DEF WriteSalt, VaultInv, TypeOK, SetPc
<1>2. PICK k \in key[p] : salt' = [salt EXCEPT ![Home[p]] = k.salt]
  BY DEF WriteSalt
<1>3. k.salt \in Nat
  BY <1>1 DEF Key
<1>4. TypeOK'
  BY <1>1, <1>2, <1>3 DEF VaultInv, TypeOK
<1>5. ProcessesApart'
  BY <1>1 DEF VaultInv, ProcessesApart
<1>6. \A q \in Process : Home[q] = Home[p] /\ Home[p] \in Sound /\ q # p =>
        pc[q] = "idle"
  BY <1>1 DEF VaultInv, ProcessesApart, Sound
<1>7. Home[p] \in Sound => ~Whole(Home[p]) /\ k.salt > 0
  BY <1>1 DEF VaultInv, CreatedOnce, Whole, Short
<1>8. \A d \in Device : d # Home[p] => salt'[d] = salt[d]
  BY <1>2
<1>9. CreatedOnce'
  BY <1>1, <1>6, <1>8 DEF VaultInv, CreatedOnce
<1>10. (\A c \in key[p] : c = k) /\ OneKey'
  BY <1>1, <1>2 DEF VaultInv, OneKey
<1>11. ReadyHasSalt'
  <2> SUFFICES ASSUME NEW q \in Process, Home[q] \in Sound, pc'[q] = "ready"
      PROVE  salt'[Home[q]] > 0 /\ \A c \in key[q] : c.salt = salt'[Home[q]]
    BY <1>1 DEF ReadyHasSalt, Whole
  <2>1. CASE q = p
    BY <2>1, <1>1, <1>2, <1>7, <1>10
  <2>2. CASE q # p
    <3>1. pc[q] = "ready"
      BY <2>2, <1>1
    <3>2. Home[q] # Home[p]
      BY <2>2, <3>1, <1>6
    <3> QED
      BY <3>1, <3>2, <1>1, <1>8 DEF VaultInv, ReadyHasSalt, Whole
  <2> QED
    BY <2>1, <2>2
<1>12. SealedWithSalt'
  BY <1>1, <1>7, <1>8 DEF VaultInv, SealedWithSalt, Whole, Sound
<1> QED
  BY <1>4, <1>5, <1>9, <1>10, <1>11, <1>12 DEF VaultInv

(* What is encrypted has the salt of the file, because the process has
   (crypto.go:51-70). *)
LEMMA EncryptInv ==
  ASSUME VaultInv, NEW p \in Process, NEW x \in Id, Encrypt(p, x)
  PROVE  VaultInv'
<1>1. /\ pc[p] = "ready"
      /\ UNCHANGED <<salt, draws, pc, key>>
      /\ key \in [Process -> SUBSET Key]
      /\ cipher \in [Device -> [Id -> SUBSET Sealed]]
      /\ Home \in [Process -> Device]
  BY DEF Encrypt, VaultInv, TypeOK
<1>2. PICK k \in key[p] :
        cipher' = [cipher EXCEPT ![Home[p]][x] = {[key |-> k, at |-> Home[p]]}]
  BY DEF Encrypt
<1> DEFINE c0 == [key |-> k, at |-> Home[p]]
<1>3. c0 \in Sealed /\ c0.at = Home[p] /\ c0.key = k
  BY <1>1, <1>2 DEF Sealed
<1> HIDE DEF c0
<1>4. cipher' = [cipher EXCEPT ![Home[p]][x] = {c0}]
  BY <1>2 DEF c0
<1>5. TypeOK'
  BY <1>1, <1>3, <1>4 DEF VaultInv, TypeOK
<1>6. OneKey' /\ ProcessesApart' /\ CreatedOnce' /\ ReadyHasSalt'
  BY <1>1 DEF VaultInv, OneKey, ProcessesApart, CreatedOnce, ReadyHasSalt, Whole
<1>7. SealedWithSalt'
  <2> SUFFICES ASSUME NEW e \in Device, NEW y \in Id, NEW c \in cipher'[e][y],
                      c.at \in Sound
      PROVE  Whole(c.at) /\ c.key.salt = salt[c.at]
    BY <1>1 DEF SealedWithSalt, Whole
  <2>1. CASE c = c0
    BY <2>1, <1>1, <1>2, <1>3 DEF VaultInv, ReadyHasSalt
  <2>2. CASE c \in cipher[e][y]
    BY <2>2 DEF VaultInv, SealedWithSalt
  <2>3. c = c0 \/ c \in cipher[e][y]
    BY <1>1, <1>4
  <2> QED
    BY <2>1, <2>2, <2>3
<1> QED
  BY <1>5, <1>6, <1>7 DEF VaultInv

(* A sync carries payloads as they are (service.go:264-279). *)
LEMMA ReceiveInv ==
  ASSUME VaultInv, NEW d \in Device, NEW e \in Device, NEW x \in Id,
         Receive(d, e, x)
  PROVE  VaultInv'
<1>1. /\ cipher' = [cipher EXCEPT ![d][x] = cipher[e][x]]
      /\ UNCHANGED <<salt, draws, pc, key>>
      /\ cipher \in [Device -> [Id -> SUBSET Sealed]]
  BY DEF Receive, VaultInv, TypeOK
<1>2. TypeOK'
  BY <1>1 DEF VaultInv, TypeOK
<1>3. OneKey' /\ ProcessesApart' /\ CreatedOnce' /\ ReadyHasSalt'
  BY <1>1 DEF VaultInv, OneKey, ProcessesApart, CreatedOnce, ReadyHasSalt, Whole
<1>4. \A f \in Device, y \in Id :
        cipher'[f][y] = cipher[f][y] \/ cipher'[f][y] = cipher[e][x]
  BY <1>1
<1>5. SealedWithSalt'
  BY <1>1, <1>4 DEF VaultInv, SealedWithSalt, Whole
<1> QED
  BY <1>2, <1>3, <1>5 DEF VaultInv

(* A process may stop at any point: a salt it was writing stays short, and
   nothing had been encrypted with it (main.go:138-150). *)
LEMMA ExitInv ==
  ASSUME VaultInv, NEW p \in Process, Exit(p)
  PROVE  VaultInv'
<1>1. /\ pc' = [pc EXCEPT ![p] = "idle"]
      /\ key' = [key EXCEPT ![p] = {}]
      /\ UNCHANGED <<salt, draws, cipher>>
      /\ pc \in [Process -> {"idle", "create", "write", "ready"}]
      /\ key \in [Process -> SUBSET Key]
  BY DEF Exit, SetPc, SetKey, VaultInv, TypeOK
<1>2. TypeOK' /\ OneKey' /\ ProcessesApart'
  BY <1>1 DEF VaultInv, TypeOK, OneKey, ProcessesApart
<1>3. CreatedOnce' /\ ReadyHasSalt'
  BY <1>1 DEF VaultInv, CreatedOnce, ReadyHasSalt, Whole
<1>4. SealedWithSalt'
  BY <1>1 DEF VaultInv, SealedWithSalt, Whole
<1> QED
  BY <1>2, <1>3, <1>4 DEF VaultInv

(* Every step keeps the invariant. *)
LEMMA StepInv == VaultInv /\ [Next]_vars => VaultInv'
<1> SUFFICES ASSUME VaultInv, [Next]_vars
    PROVE  VaultInv'
  OBVIOUS
<1>1. CASE UNCHANGED vars
  BY <1>1 DEF vars, VaultInv, TypeOK, OneKey, ProcessesApart, CreatedOnce,
              ReadyHasSalt, SealedWithSalt, Whole
<1>2. CASE Next
  BY <1>2, OpenInv, CreateInv, WriteInv, EncryptInv, ReceiveInv, ExitInv DEF Next
<1> QED
  BY <1>1, <1>2

(* The invariant holds in every behaviour. *)
LEMMA Invariant == Spec => []VaultInv
BY InitInv, StepInv, PTL DEF Spec

-----------------------------------------------------------------------------
(* Salt files, processes, keys and payloads keep their types in every behaviour,
   also in directories that processes share or cannot always read. *)
THEOREM VaultTypeCorrect == Spec => []TypeOK
<1>1. VaultInv => TypeOK
  BY DEF VaultInv
<1> QED
  BY <1>1, Invariant, PTL

(* Whatever crashes and restarts there are, what was encrypted in a directory
   that can be read and is used by one process at a time is readable there with
   the same master password, for any number of processes (crypto.go:99-122). *)
THEOREM OwnSecretsAreReadable == Spec => []ReadableHere
<1>1. VaultInv => ReadableHere
  <2> SUFFICES ASSUME VaultInv, NEW d \in Sound, NEW e \in Device, NEW x \in Id,
                      NEW c \in cipher[e][x], c.at = d
      PROVE  /\ c.key.salt = salt[d]
             /\ \A p \in Process : \A k \in key[p] :
                  Home[p] = d /\ pc[p] = "ready" /\ k.password = c.key.password =>
                    k = c.key
    BY DEF ReadableHere, Decrypts
  <2>1. c.key.salt = salt[d] /\ c.key \in Key
    BY DEF VaultInv, SealedWithSalt, TypeOK, Sealed, Sound
  <2>2. ASSUME NEW p \in Process, NEW k \in key[p], Home[p] = d,
               pc[p] = "ready", k.password = c.key.password
        PROVE  k = c.key
    <3>1. k.salt = salt[d]
      BY <2>2 DEF VaultInv, ReadyHasSalt
    <3>2. k \in Key
      BY DEF VaultInv, TypeOK
    <3> QED
      BY <2>1, <2>2, <3>1, <3>2 DEF Key
  <2> QED
    BY <2>1, <2>2
<1> QED
  BY <1>1, Invariant, PTL

(* Keys that are in use come from the salt of their directory, and what is
   sealed there as well, through every crash and first use (crypto.go:32-48,
   99-121). *)
THEOREM KeysComeFromTheSalt == Spec => []VaultInv
  BY Invariant, PTL

(* A salt that is whole and that nobody is about to replace is there for good,
   in every directory that can be read, shared or not: who opens it finds it
   (crypto.go:101-106). *)
THEOREM SettledSaltsStay == Spec => SaltSettles
<1> DEFINE A == \A d \in Device \ Flaky : Whole(d) /\ ~Creating(d) =>
                  salt'[d] = salt[d] /\ ~Creating(d)'
<1>1. TypeOK /\ [Next]_vars => [A]_vars
  <2> SUFFICES ASSUME TypeOK, Next, NEW d \in Device \ Flaky,
                      Whole(d), ~Creating(d)
      PROVE  salt'[d] = salt[d] /\ ~Creating(d)'
    OBVIOUS
  <2>1. /\ \A q \in Process : Home[q] = d => pc[q] \notin {"create", "write"}
        /\ salt \in [Device -> Nat \cup {Short}]
        /\ pc \in [Process -> {"idle", "create", "write", "ready"}]
        /\ Home \in [Process -> Device]
    BY DEF Creating, TypeOK
  <2>2. ASSUME NEW p \in Process, NEW w \in Password, Open(p, w)
        PROVE  salt'[d] = salt[d] /\ ~Creating(d)'
    <3>1. CASE Home[p] = d
      BY <2>1, <2>2, <3>1 DEF Open, SetPc, Creating, Whole, None, Short
    <3>2. CASE Home[p] # d
      BY <2>1, <2>2, <3>2 DEF Open, SetPc, Creating
    <3> QED
      BY <3>1, <3>2
  <2>3. ASSUME NEW p \in Process, Create(p) \/ WriteSalt(p) \/ Exit(p)
        PROVE  salt'[d] = salt[d] /\ ~Creating(d)'
    <3>1. Home[p] # d \/ Exit(p)
      BY <2>1, <2>3 DEF Create, WriteSalt
    <3> QED
      BY <2>1, <2>3, <3>1 DEF Create, WriteSalt, Exit, SetPc, Creating
  <2>4. ASSUME UNCHANGED <<salt, pc>>
        PROVE  salt'[d] = salt[d] /\ ~Creating(d)'
    BY <2>1, <2>4 DEF Creating
  <2> QED
    BY <2>2, <2>3, <2>4 DEF Next, Encrypt, Receive
<1> QED
  BY <1>1, VaultTypeCorrect, PTL DEF Spec, SaltSettles

=============================================================================
