--------------------------- MODULE SecretServerProofs ---------------------------
(* Theorems about SecretServer for every set of accounts and secrets, any number
   of requests and any number of them in progress. *)
EXTENDS SecretServer, TLAPS

USE NoUserAssumption, ServerAssumption

(* A request that a handler admits is well typed and says who made it: the
   fields of Content are those of an item (handlers/secret.go, sync.go). *)
LEMMA AdmitStep ==
  ASSUME TypeOK, ContentIsOwn,
         NEW op \in {"create", "update", "delete", "upsert"}, NEW u \in User,
         NEW it \in Item, it.payload = admitted + 1, Admit(op, u, it)
  PROVE  TypeOK' /\ ContentIsOwn'
<1> DEFINE r0 == [op |-> op, user |-> u, item |-> it]
<1>1. /\ admitted \in Nat /\ admitted < MaxRequests
      /\ admitted' = admitted + 1
      /\ author' = [author EXCEPT ![admitted + 1] = u]
      /\ waiting' = waiting \cup {r0}
      /\ UNCHANGED <<rows, owner, now, lives, deletions>>
  BY DEF Admit, TypeOK, storeVars, historyVars
<1>2. author \in [1..MaxRequests -> User \cup {NoUser}]
  BY DEF TypeOK
<1>3. admitted + 1 \in 1..MaxRequests
  BY <1>1
<1>4. author' \in [1..MaxRequests -> User \cup {NoUser}]
  BY <1>1, <1>2
<1>5. r0 \in Request
  BY DEF Request
<1>6. TypeOK'
  BY <1>1, <1>4, <1>5 DEF TypeOK, StoreTypeOK
<1>7. author'[admitted + 1] = u
  BY <1>1, <1>2, <1>3
<1>8. \A n \in 1..admitted : author'[n] = author[n] /\ n \in 1..admitted'
  BY <1>1, <1>2
<1>9. \A r \in waiting' :
        r.item.payload \in 1..admitted' /\ author'[r.item.payload] = r.user
  <2> TAKE r \in waiting'
  <2>1. CASE r = r0
    <3>1. r.item.payload = admitted + 1 /\ r.user = u
      BY <2>1
    <3>2. admitted + 1 \in 1..admitted'
      BY <1>1
    <3> QED
      BY <3>1, <3>2, <1>7
  <2>2. CASE r \in waiting
    BY <2>2, <1>8 DEF ContentIsOwn
  <2> QED
    BY <2>1, <2>2, <1>1
<1>10. \A x \in Id : Present(rows[x])' =>
         rows'[x].payload \in 1..admitted' /\ author'[rows'[x].payload] = owner'[x]
  BY <1>1, <1>8 DEF ContentIsOwn, Present
<1>11. admitted' <= MaxRequests
  BY <1>1
<1> QED
  BY <1>6, <1>9, <1>10, <1>11 DEF ContentIsOwn

(* What the contents of rows and owners are after any of the four statements: a
   row is untouched, or holds the request's content for the request's account,
   or is the owner's content still (postgres_secret_store.go:26-47, 175-266). *)
LEMMA StatementStep ==
  ASSUME TypeOK, NEW r \in waiting, Execute(r)
  PROVE  /\ StoreTypeOK'
         /\ \A x \in Id :
              \/ rows'[x].payload = rows[x].payload /\ owner'[x] = owner[x]
                 /\ (Present(rows'[x]) => Present(rows[x]))
              \/ rows'[x].payload = r.item.payload /\ owner'[x] = r.user
<1> DEFINE x0 == r.item.id
           it == r.item
<1>1. /\ r.user \in User /\ r.item \in Item
      /\ rows \in [Id -> Item] /\ owner \in [Id -> User \cup {NoUser}]
  BY DEF TypeOK, StoreTypeOK, Request
<1>2. /\ x0 \in Id /\ it.type \in SecretType /\ it.payload \in Nat
      /\ it.deleted \in BOOLEAN /\ it.stamp \in Nat
  BY <1>1 DEF Item
<1>3. /\ rows[x0].id \in Id /\ rows[x0].type \in SecretType
      /\ rows[x0].payload \in Nat /\ rows[x0].deleted \in BOOLEAN
      /\ rows[x0].stamp \in Nat
  BY <1>1, <1>2 DEF Item
<1>4. CASE \/ CreateRow(r.user, it)
           \/ Accepts(r.user, it) /\ UpsertRow(r.user, it)
  <2>1. /\ rows' = [rows EXCEPT ![x0] = it]
        /\ owner' = [owner EXCEPT ![x0] = r.user]
    BY <1>4 DEF CreateRow, UpsertRow
  <2> QED
    BY <2>1, <1>1, <1>2 DEF StoreTypeOK
<1>5. CASE UpdateRow(r.user, it)
  <2> DEFINE new == [rows[x0] EXCEPT !.type = it.type, !.payload = it.payload,
                                     !.stamp = it.stamp]
  <2>1. rows' = [rows EXCEPT ![x0] = new] /\ owner' = owner /\ owner[x0] = r.user
    BY <1>5, <1>1, <1>2 DEF UpdateRow, Live, Item
  <2>2. new \in Item /\ new.payload = it.payload
    BY <1>1, <1>2 DEF Item
  <2> HIDE DEF new
  <2> QED
    BY <2>1, <2>2, <1>1, <1>2 DEF StoreTypeOK
<1>6. CASE DeleteRow(r.user, it)
  <2> DEFINE new == [rows[x0] EXCEPT !.deleted = TRUE, !.stamp = it.stamp]
  <2>1. /\ rows' = [rows EXCEPT ![x0] = new] /\ owner' = owner
        /\ Present(rows[x0])
    BY <1>6, <1>1, <1>2 DEF DeleteRow, Live, Item
  <2>2. new \in Item /\ new.payload = rows[x0].payload
    BY <1>1, <1>2 DEF Item
  <2> HIDE DEF new
  <2> QED
    BY <2>1, <2>2, <1>1, <1>2 DEF StoreTypeOK
<1>7. CASE ~Accepts(r.user, it) /\ UpsertRow(r.user, it)
  BY <1>7, <1>1 DEF UpsertRow, storeVars, StoreTypeOK
<1> QED
  BY <1>4, <1>5, <1>6, <1>7 DEF Execute

(* Executing a request keeps types and contents: nobody's content gets into a
   row of somebody else. *)
LEMMA ExecuteStep ==
  ASSUME TypeOK, ContentIsOwn, NEW r \in waiting, Execute(r)
  PROVE  TypeOK' /\ ContentIsOwn'
<1>1. /\ waiting' = waiting \ {r}
      /\ UNCHANGED <<now, admitted, author>>
      /\ lives' = [x \in Id |->
           lives[x] + IF (Present(rows[x]) => rows[x].deleted)
                  /\ Present(rows'[x]) /\ ~rows'[x].deleted THEN 1 ELSE 0]
      /\ deletions' = [deletions EXCEPT ![r.item.id] =
                     @ + IF r.op = "delete" THEN 1 ELSE 0]
  BY DEF Execute, Leave, CountLives
<1>2. /\ lives \in [Id -> Nat] /\ deletions \in [Id -> Nat]
      /\ waiting \subseteq Request
  BY DEF TypeOK
<1>3. lives' \in [Id -> Nat]
  BY <1>1, <1>2
<1>4. deletions' \in [Id -> Nat]
  <2> DEFINE k == IF r.op = "delete" THEN 1 ELSE 0
  <2>1. deletions' = [deletions EXCEPT ![r.item.id] = @ + k] /\ k \in Nat
    BY <1>1
  <2>2. r.item.id \in Id
    BY <1>2 DEF Request, Item
  <2>3. deletions[r.item.id] \in Nat
    BY <1>2, <2>2
  <2> HIDE DEF k
  <2>4. deletions[r.item.id] + k \in Nat
    BY <2>1, <2>3
  <2> QED
    BY <2>1, <2>4, <1>2
<1>5. TypeOK'
  BY <1>1, <1>2, <1>3, <1>4, StatementStep DEF TypeOK
<1>6. \A x \in Id : Present(rows'[x]) =>
        rows'[x].payload \in 1..admitted /\ author[rows'[x].payload] = owner'[x]
  BY StatementStep DEF ContentIsOwn
<1> QED
  BY <1>1, <1>5, <1>6 DEF ContentIsOwn, Present

(* A statement other than DELETE leaves the count of deletions alone and never
   ends a life that CountLives does not know of; DELETE ends one
   (postgres_secret_store.go:213). *)
LEMMA LivesStep ==
  ASSUME TypeOK, LivesCount, NEW r \in waiting, Execute(r)
  PROVE  LivesCount'
<1> DEFINE alive(x) == Present(rows[x]) /\ ~rows[x].deleted
           alive2(x) == Present(rows'[x]) /\ ~rows'[x].deleted
           x0 == r.item.id
           k == IF r.op = "delete" THEN 1 ELSE 0
<1>1. lives' = [x \in Id |-> lives[x] + IF ~alive(x) /\ alive2(x) THEN 1 ELSE 0]
  BY DEF Execute, CountLives
<1>2. deletions' = [deletions EXCEPT ![x0] = @ + k] /\ k \in Nat
  BY DEF Execute
<1>3. /\ lives \in [Id -> Nat] /\ deletions \in [Id -> Nat]
      /\ r.item \in Item /\ x0 \in Id
      /\ rows \in [Id -> Item]
  BY DEF TypeOK, StoreTypeOK, Request, Item
<1>4. r.op = "delete" => alive(x0) /\ ~alive2(x0)
  <2> SUFFICES ASSUME r.op = "delete" PROVE alive(x0) /\ ~alive2(x0)
    OBVIOUS
  <2>1. DeleteRow(r.user, r.item)
    BY DEF Execute
  <2>2. alive(x0)
    BY <2>1 DEF DeleteRow, Live
  <2>3. rows'[x0].deleted = TRUE
    BY <2>1, <1>3 DEF DeleteRow, Item
  <2> QED
    BY <2>2, <2>3
<1>5. \A x \in Id : x # x0 => rows'[x] = rows[x]
  BY <1>3 DEF Execute, CreateRow, UpdateRow, DeleteRow, UpsertRow, storeVars
<1> SUFFICES ASSUME NEW x \in Id
             PROVE  deletions'[x] + (IF alive2(x) THEN 1 ELSE 0) <= lives'[x]
  BY DEF LivesCount, Present
<1>6. deletions[x] + (IF alive(x) THEN 1 ELSE 0) <= lives[x]
  BY DEF LivesCount
<1>7. lives'[x] = lives[x] + IF ~alive(x) /\ alive2(x) THEN 1 ELSE 0
  BY <1>1
<1>8. lives[x] \in Nat /\ deletions[x] \in Nat
  BY <1>3
<1>9. CASE x # x0
  <2>1. deletions'[x] = deletions[x]
    BY <1>9, <1>2, <1>3
  <2>2. alive2(x) <=> alive(x)
    BY <1>9, <1>5
  <2> HIDE DEF alive, alive2
  <2> QED
    BY <2>1, <2>2, <1>6, <1>7, <1>8
<1>10. CASE x = x0
  <2>1. deletions'[x] = deletions[x] + k
    BY <1>10, <1>2, <1>3
  <2>2. r.op = "delete" => alive(x) /\ ~alive2(x)
    BY <1>10, <1>4
  <2> HIDE DEF alive, alive2
  <2> QED
    BY <2>1, <2>2, <1>6, <1>7, <1>8
<1> QED
  BY <1>9, <1>10

(* The invariant holds at first. *)
LEMMA InitInv == Init => TypeOK /\ ContentIsOwn
<1> SUFFICES ASSUME Init PROVE TypeOK /\ ContentIsOwn
  OBVIOUS
<1>1. \A x \in Id : NoItem(x) \in Item /\ ~Present(NoItem(x))
  BY DEF NoItem, Item, SecretType, Present
<1>2. StoreTypeOK /\ \A x \in Id : ~Present(rows[x])
  BY <1>1 DEF Init, StoreInit, StoreTypeOK
<1> QED
  BY <1>2 DEF Init, TypeOK, ContentIsOwn

(* Every step keeps the invariant: one case per action of Next. *)
LEMMA NextInv ==
  TypeOK /\ ContentIsOwn /\ [Next]_serverVars => (TypeOK /\ ContentIsOwn)'
<1> SUFFICES ASSUME TypeOK, ContentIsOwn, [Next]_serverVars
             PROVE  TypeOK' /\ ContentIsOwn'
  OBVIOUS
<1>1. CASE Tick
  BY <1>1 DEF Tick, TypeOK, ContentIsOwn, storeVars, historyVars, StoreTypeOK,
              Present
<1>2. ASSUME NEW u \in User, NEW x \in Id, NEW op, NEW type \in SecretType,
             NEW gone \in BOOLEAN, NEW t \in Nat,
             op \in {"create", "update", "delete", "upsert"},
             Admit(op, u, Content(x, type, gone, t))
      PROVE  TypeOK' /\ ContentIsOwn'
  <2>1. admitted + 1 \in Nat
    BY DEF TypeOK
  <2>2. /\ Content(x, type, gone, t) \in Item
        /\ Content(x, type, gone, t).payload = admitted + 1
    BY <2>1 DEF Content, Item
  <2> QED
    BY <1>2, <2>2, AdmitStep
<1>3. "text" \in SecretType /\ "deleted" \in SecretType /\ now \in Nat
  BY DEF SecretType, TypeOK
<1>4. ASSUME NEW u \in User, NEW x \in Id, Create(u, x)
      PROVE  TypeOK' /\ ContentIsOwn'
  BY <1>4, <1>2, <1>3 DEF Create
<1>5. ASSUME NEW u \in User, NEW x \in Id, Update(u, x)
      PROVE  TypeOK' /\ ContentIsOwn'
  BY <1>5, <1>2, <1>3 DEF Update
<1>6. ASSUME NEW u \in User, NEW x \in Id, Delete(u, x)
      PROVE  TypeOK' /\ ContentIsOwn'
  BY <1>6, <1>2, <1>3 DEF Delete
<1>7. ASSUME NEW u \in User, NEW x \in Id, NEW gone \in BOOLEAN,
             NEW t \in 1..MaxTime, Push(u, x, gone, t)
      PROVE  TypeOK' /\ ContentIsOwn'
  <2>1. t \in Nat
    OBVIOUS
  <2> QED
    BY <1>7, <2>1, <1>2, <1>3 DEF Push
<1>8. ASSUME NEW r \in waiting, Execute(r)
      PROVE  TypeOK' /\ ContentIsOwn'
  BY <1>8, ExecuteStep
<1>9. ASSUME NEW r \in waiting, Abandon(r)
      PROVE  TypeOK' /\ ContentIsOwn'
  BY <1>9 DEF Abandon, Leave, TypeOK, ContentIsOwn, storeVars, historyVars,
              StoreTypeOK, Present
<1>10. CASE UNCHANGED serverVars
  BY <1>10 DEF serverVars, requestVars, storeVars, historyVars, TypeOK,
               ContentIsOwn, StoreTypeOK, Present
<1> QED
  BY <1>1, <1>4, <1>5, <1>6, <1>7, <1>8, <1>9, <1>10 DEF Next

(* The server's state keeps its types through every interleaving of requests
   (handlers/secret.go, handlers/sync.go). *)
THEOREM ServerTypeCorrect == Spec => []TypeOK
<1>1. Spec => [](TypeOK /\ ContentIsOwn)
  BY InitInv, NextInv, PTL DEF Spec
<1> QED
  BY <1>1, PTL

(* No account ever reads what another wrote, for any number of accounts,
   secrets and requests in progress (postgres_secret_store.go:53-252). *)
THEOREM AccountsAreApart == Spec => []ReadsAreOwn
<1>1. Spec => [](TypeOK /\ ContentIsOwn)
  BY InitInv, NextInv, PTL DEF Spec
<1>2. TypeOK /\ ContentIsOwn => ReadsAreOwn
  <2> SUFFICES ASSUME TypeOK, ContentIsOwn, NEW u \in User,
                      NEW it \in ListByOwner(u) \cup ListUpdatedSince(u, 0)
               PROVE  author[it.payload] = u
    BY DEF ReadsAreOwn
  <2>1. CASE it \in ListByOwner(u)
    <3>1. PICK x \in Id : it = rows[x] /\ Live(u, x)
      BY <2>1 DEF ListByOwner, GetByID
    <3> QED
      BY <3>1 DEF Live, ContentIsOwn
  <2>2. CASE it \in ListUpdatedSince(u, 0)
    <3>1. PICK x \in Id : it = rows[x] /\ owner[x] = u /\ rows[x].stamp > 0
      BY <2>2 DEF ListUpdatedSince
    <3> QED
      BY <3>1 DEF ContentIsOwn, Present
  <2> QED
    BY <2>1, <2>2
<1> QED
  BY <1>1, <1>2, PTL

(* However DELETE requests race each other and pushes, one is answered 204 for
   each time a secret came to life (postgres_secret_store.go:208-231). *)
THEOREM DeletesAreAnsweredOnce == Spec => []DeletedOncePerLife
<1>1. Spec => [](TypeOK /\ ContentIsOwn)
  BY InitInv, NextInv, PTL DEF Spec
<1>2. Init => LivesCount
  <2> SUFFICES ASSUME Init PROVE LivesCount
    OBVIOUS
  <2>0. \A x \in Id : ~Present(NoItem(x))
    BY DEF NoItem, Present
  <2>1. \A x \in Id : ~Present(rows[x]) /\ lives[x] = 0 /\ deletions[x] = 0
    BY <2>0 DEF Init, StoreInit, Present
  <2> QED
    BY <2>1 DEF LivesCount
<1>3. TypeOK /\ LivesCount /\ [Next]_serverVars => LivesCount'
  <2> SUFFICES ASSUME TypeOK, LivesCount, [Next]_serverVars PROVE LivesCount'
    OBVIOUS
  <2>1. CASE \E r \in waiting : Execute(r)
    BY <2>1, LivesStep
  <2>2. CASE UNCHANGED <<rows, owner, lives, deletions>>
    BY <2>2 DEF LivesCount, Present
  <2> QED
    BY <2>1, <2>2 DEF Next, Tick, Create, Update, Delete, Push, Admit, Abandon,
       storeVars, historyVars, serverVars
<1>4. TypeOK /\ LivesCount => DeletedOncePerLife
  <2> SUFFICES ASSUME TypeOK, LivesCount, NEW x \in Id
               PROVE  /\ deletions[x] <= lives[x]
                      /\ Present(rows[x]) /\ ~rows[x].deleted =>
                           deletions[x] < lives[x]
    BY DEF DeletedOncePerLife
  <2>1. lives[x] \in Nat /\ deletions[x] \in Nat
    BY DEF TypeOK
  <2>2. deletions[x] + (IF Present(rows[x]) /\ ~rows[x].deleted THEN 1 ELSE 0)
          <= lives[x]
    BY DEF LivesCount
  <2>3. CASE Present(rows[x]) /\ ~rows[x].deleted
    BY <2>1, <2>2, <2>3
  <2>4. CASE ~(Present(rows[x]) /\ ~rows[x].deleted)
    BY <2>1, <2>2, <2>4
  <2> QED
    BY <2>3, <2>4
<1> QED
  BY <1>1, <1>2, <1>3, <1>4, PTL DEF Spec

(* Every write on its way has a stamp: the server's clock, or what a device sent
   (service/secret.go:71, postgres_secret_store.go:212). *)
Stamped == \A r \in waiting : r.item.stamp > 0

(* Admission stamps, and nothing restamps. *)
LEMMA StampedStep == TypeOK /\ Stamped /\ [Next]_serverVars => Stamped'
<1> SUFFICES ASSUME TypeOK, Stamped, [Next]_serverVars PROVE Stamped'
  OBVIOUS
<1>1. ASSUME NEW u \in User, NEW x \in Id, NEW op, NEW type,
             NEW gone, NEW t \in Nat \ {0},
             Admit(op, u, Content(x, type, gone, t))
      PROVE  Stamped'
  BY <1>1 DEF Admit, Content, Stamped
<1>2. now \in Nat \ {0}
  BY DEF TypeOK
<1>3. ASSUME NEW u \in User, NEW x \in Id,
             Create(u, x) \/ Update(u, x) \/ Delete(u, x)
      PROVE  Stamped'
  BY <1>1, <1>2, <1>3 DEF Create, Update, Delete
<1>4. ASSUME NEW u \in User, NEW x \in Id, NEW gone \in BOOLEAN,
             NEW t \in 1..MaxTime, Push(u, x, gone, t)
      PROVE  Stamped'
  <2>1. t \in Nat \ {0}
    OBVIOUS
  <2> QED
    BY <1>1, <1>4, <2>1 DEF Push
<1>5. ASSUME NEW r \in waiting, Execute(r) \/ Abandon(r) PROVE Stamped'
  BY <1>5 DEF Execute, Abandon, Leave, Stamped
<1>6. CASE Tick \/ UNCHANGED serverVars
  BY <1>6 DEF Tick, serverVars, requestVars, Stamped
<1> QED
  BY <1>3, <1>4, <1>5, <1>6 DEF Next

(* A row is never lost and keeps its owner, and a tombstone gives way to a later
   version only, whatever requests were admitted before it and are executed
   after (postgres_secret_store.go:187, 213, 252). *)
THEOREM TombstonesAreKept == Spec => TombstonesHold
<1> DEFINE A == \A x \in Id : Present(rows[x]) =>
                  /\ Present(rows'[x]) /\ owner'[x] = owner[x]
                  /\ rows[x].deleted /\ rows'[x] # rows[x] =>
                       rows'[x].stamp > rows[x].stamp
<1>1. TypeOK /\ Stamped /\ [Next]_serverVars => [A]_serverVars
  <2> SUFFICES ASSUME TypeOK, Stamped, Next, NEW x \in Id, Present(rows[x])
      PROVE  /\ Present(rows'[x]) /\ owner'[x] = owner[x]
             /\ rows[x].deleted /\ rows'[x] # rows[x] =>
                  rows'[x].stamp > rows[x].stamp
    OBVIOUS
  <2>1. CASE UNCHANGED storeVars
    BY <2>1 DEF storeVars
  <2>2. ASSUME NEW r \in waiting, Execute(r)
        PROVE  /\ Present(rows'[x]) /\ owner'[x] = owner[x]
               /\ rows[x].deleted /\ rows'[x] # rows[x] =>
                    rows'[x].stamp > rows[x].stamp
    <3>1. /\ r.item \in Item /\ r.item.id \in Id /\ r.item.stamp > 0
          /\ rows \in [Id -> Item] /\ owner \in [Id -> User \cup {NoUser}]
      BY DEF TypeOK, StoreTypeOK, Request, Item, Stamped
    <3>2. CASE x # r.item.id
      BY <2>2, <3>1, <3>2
         DEF Execute, CreateRow, UpdateRow, DeleteRow, UpsertRow, storeVars
    <3>3. CASE x = r.item.id /\ UpdateRow(r.user, r.item)
      BY <3>1, <3>3 DEF UpdateRow, Live, Present, Item
    <3>4. CASE x = r.item.id /\ DeleteRow(r.user, r.item)
      BY <3>1, <3>4 DEF DeleteRow, Live, Present, Item
    <3>5. CASE x = r.item.id /\ UpsertRow(r.user, r.item)
      BY <3>1, <3>5 DEF UpsertRow, Accepts, Present, storeVars
    <3> QED
      BY <2>2, <3>2, <3>3, <3>4, <3>5 DEF Execute
  <2> QED
    BY <2>1, <2>2 DEF Next, Tick, Create, Update, Delete, Push, Admit, Abandon
<1>2. Init => Stamped
  BY DEF Init, Stamped
<1>3. Spec => [](TypeOK /\ Stamped)
  BY <1>2, StampedStep, ServerTypeCorrect, PTL DEF Spec
<1> QED
  BY <1>1, <1>3, PTL DEF Spec, TombstonesHold

(* The row of a secret is filed under that secret's id: every statement takes
   the id it writes from the item it writes (postgres_secret_store.go:26-47). *)
FiledById == \A x \in Id : rows[x].id = x

LEMMA FiledByIdStep == TypeOK /\ FiledById /\ [Next]_serverVars => FiledById'
<1> SUFFICES ASSUME TypeOK, FiledById, [Next]_serverVars, NEW x \in Id
             PROVE  rows'[x].id = x
  BY DEF FiledById
<1>1. CASE UNCHANGED storeVars
  BY <1>1 DEF storeVars, FiledById
<1>2. ASSUME NEW r \in waiting, Execute(r) PROVE rows'[x].id = x
  <2>1. /\ r.item \in Item /\ r.item.id \in Id /\ rows \in [Id -> Item]
        /\ rows[x].id = x
    BY DEF TypeOK, StoreTypeOK, Request, Item, FiledById
  <2>2. CASE UpdateRow(r.user, r.item)
    BY <2>1, <2>2 DEF UpdateRow, Item
  <2>3. CASE DeleteRow(r.user, r.item)
    BY <2>1, <2>3 DEF DeleteRow, Item
  <2>4. CASE CreateRow(r.user, r.item) \/ UpsertRow(r.user, r.item)
    BY <2>1, <2>4 DEF CreateRow, UpsertRow, storeVars
  <2> QED
    BY <1>2, <2>2, <2>3, <2>4 DEF Execute
<1> QED
  BY <1>1, <1>2 DEF Next, Tick, Create, Update, Delete, Push, Admit, Abandon,
                    serverVars, storeVars

(* When one row of an account is written and the others are left alone, the
   version written takes the place of the version there was, if any. *)
LEMMA WriteIsPut ==
  ASSUME TypeOK, TypeOK', FiledById, FiledById', NEW u \in User,
         NEW x \in Id, NEW it, rows'[x] = it, owner'[x] = u, it.stamp > 0,
         \A y \in Id \ {x} : rows'[y] = rows[y] /\ owner'[y] = owner[y]
  PROVE  Shelf(u)!Put(it)
<1> DEFINE shelf == ListUpdatedSince(u, 0)
           shelf2 == {rows'[y] : y \in {z \in Id : owner'[z] = u /\ rows'[z].stamp > 0}}
<1>1. it.id = x
  BY DEF FiledById
<1>2. ASSUME NEW o \in shelf2 PROVE o \in {p \in shelf : p.id # it.id} \cup {it}
  <2>1. PICK y \in Id : o = rows'[y] /\ owner'[y] = u /\ rows'[y].stamp > 0
    OBVIOUS
  <2>2. CASE y = x
    BY <2>1, <2>2
  <2>3. CASE y # x
    <3>1. o = rows[y] /\ owner[y] = u /\ rows[y].stamp > 0
      BY <2>1, <2>3
    <3>2. o \in shelf
      BY <3>1 DEF ListUpdatedSince
    <3>3. o.id = y
      BY <3>1 DEF FiledById
    <3> QED
      BY <3>2, <3>3, <2>3, <1>1
  <2> QED
    BY <2>2, <2>3
<1>3. ASSUME NEW o \in {p \in shelf : p.id # it.id} \cup {it} PROVE o \in shelf2
  <2>1. CASE o = it
    BY <2>1
  <2>2. CASE o \in shelf /\ o.id # it.id
    <3>1. PICK y \in Id : o = rows[y] /\ owner[y] = u /\ rows[y].stamp > 0
      BY <2>2 DEF ListUpdatedSince
    <3>2. y # x
      BY <3>1, <2>2, <1>1 DEF FiledById
    <3> QED
      BY <3>1, <3>2
  <2> QED
    BY <2>1, <2>2, <1>3
<1>4. shelf2 = {p \in shelf : p.id # it.id} \cup {it}
  BY <1>2, <1>3
<1> QED
  BY <1>4 DEF Shelf!Put, ListUpdatedSince

(* When the only row written is another account's, and was not the account's
   before, its shelf is as it was. *)
LEMMA OthersWriteIsUnseen ==
  ASSUME TypeOK, NEW u \in User, NEW x \in Id,
         owner[x] = u => ~Present(rows[x]), owner'[x] # u,
         \A y \in Id \ {x} : rows'[y] = rows[y] /\ owner'[y] = owner[y]
  PROVE  ListUpdatedSince(u, 0)' = ListUpdatedSince(u, 0)
<1>1. \A y \in Id : owner'[y] = u /\ rows'[y].stamp > 0 <=>
                    owner[y] = u /\ rows[y].stamp > 0
  BY DEF Present
<1>2. \A y \in Id : owner[y] = u /\ rows[y].stamp > 0 => rows'[y] = rows[y]
  BY DEF Present
<1> QED
  BY <1>1, <1>2 DEF ListUpdatedSince

(* A statement run for the account is the one its request asks for. *)
LEMMA OwnStatement ==
  ASSUME TypeOK, TypeOK', FiledById, FiledById', Stamped,
         NEW r \in waiting, Execute(r)
  PROVE  Shelf(r.user)!Perform(r) \/ Shelf(r.user)!Drop(r)
<1> DEFINE u == r.user
           it == r.item
           x == it.id
           shelf == ListUpdatedSince(u, 0)
<1>1. /\ u \in User /\ it \in Item /\ x \in Id /\ it.stamp > 0
      /\ rows \in [Id -> Item] /\ owner \in [Id -> User \cup {NoUser}]
  BY DEF TypeOK, StoreTypeOK, Request, Item, Stamped
<1>2. {q \in waiting : q.user = u}' = {q \in waiting : q.user = u} \ {r}
  BY DEF Execute, Leave
<1>3. \A y \in Id \ {x} : rows'[y] = rows[y] /\ owner'[y] = owner[y]
  BY <1>1 DEF Execute, CreateRow, UpdateRow, DeleteRow, UpsertRow, storeVars
<1>4. \A o \in shelf : o.id = x => owner[x] = u /\ Present(rows[x]) /\ o = rows[x]
  BY DEF ListUpdatedSince, FiledById, Present
<1>5. owner[x] = u /\ Present(rows[x]) => rows[x] \in shelf
  BY <1>1 DEF ListUpdatedSince, Present
<1>6. CASE r.op = "create" /\ ~Present(rows[x]) /\ CreateRow(u, it)
  <2>1. rows'[x] = it /\ owner'[x] = u
    BY <1>6, <1>1 DEF CreateRow
  <2>2. Shelf(u)!Put(it)
    BY <2>1, <1>1, <1>3, WriteIsPut
  <2>3. \A o \in shelf : o.id # x
    BY <1>4, <1>6
  <2> QED
    BY <2>2, <2>3, <1>2, <1>6 DEF Shelf!Perform
<1>7. CASE r.op = "update" /\ UpdateRow(u, it)
  <2> DEFINE new == [rows[x] EXCEPT !.type = it.type, !.payload = it.payload,
                                    !.stamp = it.stamp]
  <2>1. rows'[x] = new /\ owner'[x] = u /\ new.stamp > 0
    BY <1>7, <1>1 DEF UpdateRow, Live, Item
  <2>2. Shelf(u)!Put(new)
    <3> HIDE DEF new
    <3> QED
      BY <2>1, <1>1, <1>3, WriteIsPut
  <2>3. rows[x] \in shelf /\ Shelf(u)!Found(rows[x], x)
    BY <1>5, <1>7, <1>1 DEF UpdateRow, Live, Shelf!Found, FiledById
  <2> QED
    BY <2>2, <2>3, <1>2, <1>7 DEF Shelf!Perform
<1>8. CASE r.op = "delete" /\ DeleteRow(u, it)
  <2> DEFINE new == [rows[x] EXCEPT !.deleted = TRUE, !.stamp = it.stamp]
  <2>1. rows'[x] = new /\ owner'[x] = u /\ new.stamp > 0
    BY <1>8, <1>1 DEF DeleteRow, Live, Item
  <2>2. Shelf(u)!Put(new)
    <3> HIDE DEF new
    <3> QED
      BY <2>1, <1>1, <1>3, WriteIsPut
  <2>3. rows[x] \in shelf /\ Shelf(u)!Found(rows[x], x)
    BY <1>5, <1>8, <1>1 DEF DeleteRow, Live, Shelf!Found, FiledById
  <2> QED
    BY <2>2, <2>3, <1>2, <1>8 DEF Shelf!Perform
<1>9. CASE r.op = "upsert" /\ Accepts(u, it) /\ UpsertRow(u, it)
  <2>1. rows'[x] = it /\ owner'[x] = u
    BY <1>9, <1>1 DEF UpsertRow
  <2>2. Shelf(u)!Put(it)
    BY <2>1, <1>1, <1>3, WriteIsPut
  <2>3. \A o \in shelf : o.id = it.id => o.stamp < it.stamp
    BY <1>4, <1>9 DEF Accepts
  <2> QED
    BY <2>2, <2>3, <1>2, <1>9 DEF Shelf!Perform
<1>10. CASE ~Accepts(u, it) /\ UpsertRow(u, it)
  <2>1. ListUpdatedSince(u, 0)' = ListUpdatedSince(u, 0)
    BY <1>10 DEF UpsertRow, storeVars, ListUpdatedSince
  <2> QED
    BY <2>1, <1>2 DEF Shelf!Drop
<1> QED
  BY <1>6, <1>7, <1>8, <1>9, <1>10 DEF Execute

(* A statement run for another account does not touch the shelf: UPDATE and
   DELETE name the owner in their WHERE, the upsert's DO UPDATE does too, and a
   new row is on nobody else's shelf. *)
LEMMA OthersStatement ==
  ASSUME TypeOK, NEW r \in waiting, Execute(r), NEW u \in User, r.user # u
  PROVE  UNCHANGED Shelf(u)!shelfVars
<1> DEFINE x == r.item.id
<1>1. /\ r.item \in Item /\ x \in Id
      /\ rows \in [Id -> Item] /\ owner \in [Id -> User \cup {NoUser}]
  BY DEF TypeOK, StoreTypeOK, Request, Item
<1>2. {q \in waiting : q.user = u}' = {q \in waiting : q.user = u}
  BY DEF Execute, Leave
<1>3. \A y \in Id \ {x} : rows'[y] = rows[y] /\ owner'[y] = owner[y]
  BY <1>1 DEF Execute, CreateRow, UpdateRow, DeleteRow, UpsertRow, storeVars
<1>4. CASE UNCHANGED storeVars
  BY <1>4, <1>2 DEF storeVars, ListUpdatedSince, Shelf!shelfVars
<1>5. CASE ~ UNCHANGED storeVars
  <2>1. owner[x] = u => ~Present(rows[x])
    BY <1>5 DEF Execute, CreateRow, UpdateRow, DeleteRow, UpsertRow, Live,
                Accepts
  <2>2. owner'[x] # u
    BY <1>5, <1>1 DEF Execute, CreateRow, UpdateRow, DeleteRow, UpsertRow, Live
  <2>3. ListUpdatedSince(u, 0)' = ListUpdatedSince(u, 0)
    BY <1>1, <1>3, <2>1, <2>2, OthersWriteIsUnseen
  <2> QED
    BY <2>3, <1>2 DEF Shelf!shelfVars
<1> QED
  BY <1>4, <1>5

(* A request an account sends is asked on its own shelf only. *)
LEMMA AdmitIsAsk ==
  ASSUME NEW op, NEW v \in User, NEW it, it.stamp > 0, Admit(op, v, it),
         NEW u \in User
  PROVE  [Shelf(u)!Next]_(Shelf(u)!shelfVars)
<1> DEFINE r0 == [op |-> op, user |-> v, item |-> it]
<1>1. waiting' = waiting \cup {r0} /\ UNCHANGED <<rows, owner>>
  BY DEF Admit, storeVars
<1>2. ListUpdatedSince(u, 0)' = ListUpdatedSince(u, 0)
  BY <1>1 DEF ListUpdatedSince
<1>3. CASE u = v
  <2>1. {q \in waiting : q.user = u}' = {q \in waiting : q.user = u} \cup {r0}
    BY <1>1, <1>3
  <2>2. r0 \in {q \in waiting : q.user = u}' /\ r0.item.stamp > 0
    BY <1>1, <1>3
  <2>3. Shelf(u)!Ask
    BY <2>1, <2>2, <1>2 DEF Shelf!Ask
  <2> QED
    BY <2>3 DEF Shelf!Next
<1>4. CASE u # v
  <2>1. {q \in waiting : q.user = u}' = {q \in waiting : q.user = u}
    BY <1>1, <1>4
  <2> QED
    BY <2>1, <1>2 DEF Shelf!shelfVars
<1> QED
  BY <1>3, <1>4

(* Whatever the accounts ask at the same time and in whatever order it is
   executed, the server is to each of them one that nobody else uses: for any
   number of accounts, secrets and requests (postgres_secret_store.go:26-47,
   129, 187, 213, 252). *)
THEOREM EachAccountHasItsOwnServer == Spec => ImplementsShelf
<1> DEFINE Inv == TypeOK /\ FiledById /\ Stamped
           B == \A u \in User : [Shelf(u)!Next]_(Shelf(u)!shelfVars)
<1>1. Spec => []Inv
  <2>1. Init => FiledById /\ Stamped
    <3>1. \A x \in Id : NoItem(x).id = x
      BY DEF NoItem
    <3> QED
      BY <3>1 DEF Init, StoreInit, FiledById, Stamped
  <2> QED
    BY <2>1, FiledByIdStep, StampedStep, ServerTypeCorrect, PTL DEF Spec
<1>2. Init => \A u \in User : Shelf(u)!Init
  <2> SUFFICES ASSUME Init, NEW u \in User PROVE Shelf(u)!Init
    OBVIOUS
  <2>1. \A x \in Id : NoItem(x).stamp = 0
    BY DEF NoItem
  <2>2. \A x \in Id : ~(rows[x].stamp > 0)
    BY <2>1 DEF Init, StoreInit
  <2>3. ListUpdatedSince(u, 0) = {}
    BY <2>2 DEF ListUpdatedSince
  <2> QED
    BY <2>3 DEF Init, Shelf!Init
<1>3. Inv /\ Inv' /\ [Next]_serverVars => [B]_serverVars
  <2> SUFFICES ASSUME Inv, Inv', Next, NEW u \in User
               PROVE  [Shelf(u)!Next]_(Shelf(u)!shelfVars)
    OBVIOUS
  <2>1. CASE Tick
    BY <2>1 DEF Tick, storeVars, ListUpdatedSince, Shelf!shelfVars
  <2>2. ASSUME NEW v \in User, NEW x \in Id, NEW op, NEW type, NEW gone,
               NEW t \in Nat \ {0}, Admit(op, v, Content(x, type, gone, t))
        PROVE  [Shelf(u)!Next]_(Shelf(u)!shelfVars)
    <3>1. Content(x, type, gone, t).stamp > 0
      BY DEF Content
    <3> QED
      BY <2>2, <3>1, AdmitIsAsk
  <2>3. now \in Nat \ {0}
    BY DEF TypeOK
  <2>4. ASSUME NEW v \in User, NEW x \in Id,
               Create(v, x) \/ Update(v, x) \/ Delete(v, x)
        PROVE  [Shelf(u)!Next]_(Shelf(u)!shelfVars)
    BY <2>2, <2>3, <2>4 DEF Create, Update, Delete
  <2>5. ASSUME NEW v \in User, NEW x \in Id, NEW gone \in BOOLEAN,
               NEW t \in 1..MaxTime, Push(v, x, gone, t)
        PROVE  [Shelf(u)!Next]_(Shelf(u)!shelfVars)
    <3>1. t \in Nat \ {0}
      OBVIOUS
    <3> QED
      BY <2>2, <2>5, <3>1 DEF Push
  <2>6. ASSUME NEW r \in waiting, Execute(r)
        PROVE  [Shelf(u)!Next]_(Shelf(u)!shelfVars)
    <3>1. CASE r.user = u
      BY <2>6, <3>1, OwnStatement DEF Shelf!Next
    <3>2. CASE r.user # u
      BY <2>6, <3>2, OthersStatement
    <3> QED
      BY <3>1, <3>2
  <2>7. ASSUME NEW r \in waiting, Abandon(r)
        PROVE  [Shelf(u)!Next]_(Shelf(u)!shelfVars)
    <3>1. ListUpdatedSince(u, 0)' = ListUpdatedSince(u, 0)
      BY <2>7 DEF Abandon, storeVars, ListUpdatedSince
    <3>2. {q \in waiting : q.user = u}' = {q \in waiting : q.user = u} \ {r}
      BY <2>7 DEF Abandon, Leave
    <3>3. CASE r.user = u
      BY <3>1, <3>2, <3>3 DEF Shelf!Next, Shelf!Drop
    <3>4. CASE r.user # u
      <4>1. {q \in waiting : q.user = u}' = {q \in waiting : q.user = u}
        BY <3>2, <3>4
      <4> QED
        BY <3>1, <4>1 DEF Shelf!shelfVars
    <3> QED
      BY <3>3, <3>4
  <2> QED
    BY <2>1, <2>4, <2>5, <2>6, <2>7 DEF Next
<1> QED
  BY <1>1, <1>2, <1>3, PTL DEF Spec, ImplementsShelf

=============================================================================
