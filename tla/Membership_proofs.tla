-------------------------- MODULE Membership_proofs --------------------------
(***************************************************************************)
(* Whatever the number of workers, users, datasets, organizations and      *)
(* rows, and whoever dies: the state is of its type, and a purged          *)
(* organization leaves no row of the member table behind.  Where one       *)
(* request is served after another, the table of members is right.         *)
(* Whatever the number of resources of a dataset, races and deaths lose    *)
(* none of them; where one request is served after another, their flags    *)
(* tell which have a table.                                                *)
(***************************************************************************)
EXTENDS MCParts, FiniteSetTheorems, SequenceTheorems, TLAPS

\* What a request carries by its kind.
Proper(r) ==
    /\ r.kind = "update" => r.object \in Datasets /\ r.state # "none"
    /\ r.kind = "delete_dataset" => r.object \in Datasets
    /\ r.kind \in {"delete_org", "purge_org", "create_org", "add", "remove"}
         => r.org \in Orgs
    /\ r.kind \in {"create_org", "add", "remove"} => r.object \in Users
    /\ r.kind \in {"create_org", "add"} => r.capacity # "none"

\* Rows are marked as purged in the model, and never become unused again: a
\* row that a request has loaded was inserted.
SeenInserted(r, rows) == \A i \in Rows : r.seen[i] # Unused => rows[i] # Unused

\* The invariant behind RowsHaveOrg.
Typed ==
    /\ TypeOK
    /\ \A w \in Workers : Proper(request[w]) /\ SeenInserted(request[w], member)

\* A step keeps the rows that exist in the table.
RowsKept == \A i \in Rows : member[i] # Unused => member'[i] # Unused

-----------------------------------------------------------------------------
(* What a step does to the requests and the rows. *)

LEMMA MembersAreUsed == Unused \notin Member
  BY DEF Member, Unused

\* Worker w goes on with record r.
LEMMA RequestStep ==
    ASSUME Typed, NEW w \in Workers, NEW r \in Request,
           request' = [request EXCEPT ![w] = r],
           Proper(r), SeenInserted(r, member'), RowsKept
    PROVE  /\ request' \in [Workers -> Request]
           /\ \A x \in Workers :
                Proper(request'[x]) /\ SeenInserted(request'[x], member')
  <1>1. request' \in [Workers -> Request]
    BY DEF Typed, TypeOK
  <1>2. ASSUME NEW x \in Workers
        PROVE  Proper(request'[x]) /\ SeenInserted(request'[x], member')
    <2>1. CASE x = w
      BY <2>1 DEF Typed, TypeOK
    <2>2. CASE x # w
      <3>1. request'[x] = request[x]
        BY <2>2 DEF Typed, TypeOK
      <3>. QED  BY <3>1 DEF Typed, SeenInserted, RowsKept
    <2>. QED  BY <2>1, <2>2
  <1>. QED  BY <1>1, <1>2

LEMMA RestingRequest ==
    Resting \in Request /\ Proper(Resting) /\ \A rows : SeenInserted(Resting, rows)
  <1>1. Unowned \in Dataset
    BY DEF Unowned, Dataset
  <1>2. NothingSeen \in [Rows -> Member \cup {Unused}]
    BY DEF NothingSeen
  <1>. QED  BY <1>1, <1>2 DEF Resting, Request, Proper, SeenInserted, NothingSeen

LEMMA FinishStep ==
    ASSUME Typed, NEW w \in Workers, Finish(w), RowsKept
    PROVE  /\ request' \in [Workers -> Request]
           /\ \A x \in Workers :
                Proper(request'[x]) /\ SeenInserted(request'[x], member')
  BY RestingRequest, RequestStep DEF Finish

\* A request record with four fields replaced, in two steps of two.
LEMMA LoadedRequest ==
    ASSUME NEW q \in Request,
           NEW pc \in {"idle", "begin", "read", "committed"},
           NEW was \in Dataset,
           NEW seen \in [Rows -> Member \cup {Unused}],
           NEW owned \in SUBSET Datasets
    PROVE  [q EXCEPT !.pc = pc, !.was = was, !.seen = seen, !.owned = owned]
             \in Request
  <1>. DEFINE half == [q EXCEPT !.pc = pc, !.was = was]
  <1>1. half \in Request
    BY DEF Request
  <1>2. [half EXCEPT !.seen = seen, !.owned = owned] \in Request
    <2>. HIDE DEF half
    <2>. QED  BY <1>1 DEF Request
  <1>3. [q EXCEPT !.pc = pc, !.was = was, !.seen = seen, !.owned = owned]
          = [half EXCEPT !.seen = seen, !.owned = owned]
    BY DEF Request
  <1>. QED  BY <1>2, <1>3

\* A request goes on, with other rows loaded or datasets locked.
LEMMA GoOnStep ==
    ASSUME Typed, NEW w \in Workers, RowsKept,
           NEW pc \in {"idle", "begin", "read", "committed"},
           NEW was \in Dataset,
           NEW seen \in [Rows -> Member \cup {Unused}],
           \A i \in Rows : seen[i] # Unused => member'[i] # Unused,
           NEW owned \in SUBSET Datasets,
           request' = [request EXCEPT ![w].pc = pc, ![w].was = was,
                                      ![w].seen = seen, ![w].owned = owned]
    PROVE  /\ request' \in [Workers -> Request]
           /\ \A x \in Workers :
                Proper(request'[x]) /\ SeenInserted(request'[x], member')
  <1>. DEFINE r == [request[w] EXCEPT !.pc = pc, !.was = was,
                                      !.seen = seen, !.owned = owned]
  <1>1. r \in Request
    <2>1. request[w] \in Request
      BY DEF Typed, TypeOK
    <2>. QED  BY <2>1, LoadedRequest
  <1>2. Proper(r)
    <2>1. request[w] \in Request /\ Proper(request[w])
      BY DEF Typed, TypeOK
    <2>2. /\ r.kind = request[w].kind /\ r.object = request[w].object
          /\ r.org = request[w].org /\ r.state = request[w].state
          /\ r.capacity = request[w].capacity
      BY <2>1 DEF Request
    <2>. HIDE DEF r
    <2>. QED  BY <2>1, <2>2 DEF Proper
  <1>3. SeenInserted(r, member')
    BY DEF Typed, TypeOK, Request, SeenInserted
  <1>4. request' = [request EXCEPT ![w] = r]
    BY DEF Typed, TypeOK, Request
  <1>. HIDE DEF r
  <1>. QED  BY <1>1, <1>2, <1>3, <1>4, RequestStep

\* What is loaded was inserted.
LEMMA RowsetStep ==
    ASSUME Typed, NEW ids \in SUBSET Inserted
    PROVE  /\ Rowset(ids) \in [Rows -> Member \cup {Unused}]
           /\ \A i \in Rows : Rowset(ids)[i] # Unused => member[i] # Unused
  BY DEF Typed, TypeOK, Rowset, Inserted

LEMMA LoadStep ==
    ASSUME Typed, NEW w \in Workers, NEW ids \in SUBSET Inserted,
           Load(w, ids), member' = member
    PROVE  /\ request' \in [Workers -> Request]
           /\ \A x \in Workers :
                Proper(request'[x]) /\ SeenInserted(request'[x], member')
  <1>1. RowsKept
    BY DEF RowsKept
  <1>2. request[w].was \in Dataset /\ request[w].owned \in SUBSET Datasets
    BY DEF Typed, TypeOK, Request
  <1>3. request' = [request EXCEPT ![w].pc = "read", ![w].was = request[w].was,
                      ![w].seen = Rowset(ids), ![w].owned = request[w].owned]
    BY DEF Load, Typed, TypeOK, Request
  <1>4. /\ Rowset(ids) \in [Rows -> Member \cup {Unused}]
        /\ \A i \in Rows : Rowset(ids)[i] # Unused => member'[i] # Unused
    BY RowsetStep
  <1>. QED  BY <1>1, <1>2, <1>3, <1>4, GoOnStep

\* Rows that were inserted get another state.
LEMMA SetStep ==
    ASSUME Typed, NEW ids \in SUBSET Rows, \A i \in ids : member[i] # Unused,
           NEW state \in {"active", "deleted", "purged"}
    PROVE  /\ Set(ids, state) \in [Rows -> Member \cup {Unused}]
           /\ \A i \in Rows : Set(ids, state)[i] = Unused <=> member[i] = Unused
           /\ \A i \in Rows : member[i] # Unused
                => Set(ids, state)[i].org = member[i].org
           /\ \A i \in ids : Set(ids, state)[i].state = state
           /\ \A i \in Rows \ ids : Set(ids, state)[i] = member[i]
  <1>1. ASSUME NEW i \in Rows
        PROVE  /\ Set(ids, state)[i] \in Member \cup {Unused}
               /\ Set(ids, state)[i] = Unused <=> member[i] = Unused
               /\ member[i] # Unused => Set(ids, state)[i].org = member[i].org
               /\ i \in ids => Set(ids, state)[i].state = state
               /\ i \notin ids => Set(ids, state)[i] = member[i]
    <2>1. CASE i \in ids
      <3>1. member[i] \in Member
        BY <2>1 DEF Typed, TypeOK
      <3>2. Set(ids, state)[i] = [member[i] EXCEPT !.state = state]
        BY <2>1 DEF Set
      <3>3. /\ Set(ids, state)[i] \in Member
            /\ Set(ids, state)[i].org = member[i].org
            /\ Set(ids, state)[i].state = state
        BY <3>1, <3>2 DEF Member
      <3>. QED  BY <2>1, <3>1, <3>3, MembersAreUsed
    <2>2. CASE i \notin ids
      BY <2>2 DEF Set, Typed, TypeOK
    <2>. QED  BY <2>1, <2>2
  <1>2. Set(ids, state) = [i \in Rows |-> Set(ids, state)[i]]
    BY DEF Set
  <1>. QED  BY <1>1, <1>2

\* A row is inserted.
LEMMA InsertStep ==
    ASSUME Typed, NEW rows \in [Rows -> Member \cup {Unused}],
           \A i \in Rows : rows[i] = Unused <=> member[i] = Unused,
           NEW x \in Objects, NEW o \in Orgs, NEW c \in Capacities,
           Insert(rows, x, o, c)
    PROVE  /\ member' \in [Rows -> Member \cup {Unused}]
           /\ RowsKept
           /\ \A i \in Rows : member'[i] = rows[i] \/ member'[i].org = o
  <1>. DEFINE new == [object |-> x, org |-> o, capacity |-> c, state |-> "active"]
  <1>1. PICK i \in Rows : member[i] = Unused /\ member' = [rows EXCEPT ![i] = new]
    BY DEF Insert
  <1>2. new \in Member /\ new.org = o
    BY DEF Member
  <1>. HIDE DEF new
  <1>. QED  BY <1>1, <1>2, MembersAreUsed DEF RowsKept


-----------------------------------------------------------------------------
(* The steps. *)

LEMMA TypedInit == Init => Typed
  <1>. SUFFICES ASSUME Init PROVE Typed
    OBVIOUS
  <1>1. Unowned \in Dataset
    BY DEF Unowned, Dataset
  <1>2. 0 \in 0..MaxRequests
    BY BoundsAssumption
  <1>3. TypeOK
    BY <1>1, <1>2, RestingRequest DEF Init, TypeOK
  <1>4. ASSUME NEW w \in Workers
        PROVE  Proper(request[w]) /\ SeenInserted(request[w], member)
    BY RestingRequest DEF Init
  <1>. QED  BY <1>3, <1>4 DEF Typed

\* Some request is made: r is what was asked.
LEMMA BeginStep ==
    ASSUME Typed, NEW w \in Workers, NEW r \in Request, Begin(w, r),
           Proper(r), r.seen = NothingSeen
    PROVE  Typed'
  <1>1. member' = member /\ RowsKept
    BY DEF Begin, RowsKept
  <1>2. SeenInserted(r, member')
    BY DEF SeenInserted, NothingSeen
  <1>3. /\ request' \in [Workers -> Request]
        /\ \A x \in Workers :
             Proper(request'[x]) /\ SeenInserted(request'[x], member')
    BY <1>1, <1>2, RequestStep DEF Begin
  <1>4. requests' \in 0..MaxRequests
    BY BoundsAssumption DEF Begin, Typed, TypeOK
  <1>. QED  BY <1>3, <1>4 DEF Begin, Typed, TypeOK

LEMMA AskedRecord ==
    ASSUME NEW kind \in AllKinds
    PROVE  /\ Asked(kind) \in Request
           /\ Asked(kind).kind = kind
           /\ Asked(kind).seen = NothingSeen
  BY RestingRequest DEF Asked, Request, Resting

LEMMA AskStep ==
    ASSUME Typed, NEW w \in Workers,
           AskUpdate(w) \/ AskDatasetDelete(w) \/ AskOrg(w) \/ AskCreate(w)
             \/ AskMember(w)
    PROVE  Typed'
  <1>1. CASE AskUpdate(w)
    <2>1. PICK d \in Datasets, o \in Orgs \cup {NoOrg}, s \in {"active", "deleted"} :
            Begin(w, [Asked("update") EXCEPT !.object = d, !.org = o, !.state = s])
      BY <1>1 DEF AskUpdate
    <2>. DEFINE r == [Asked("update") EXCEPT !.object = d, !.org = o, !.state = s]
    <2>2. Asked("update") \in Request /\ Asked("update").kind = "update"
            /\ Asked("update").seen = NothingSeen
      BY AskedRecord DEF AllKinds
    <2>3. r \in Request /\ r.seen = NothingSeen
      BY <2>2 DEF Request, Objects
    <2>4. r.kind = "update" /\ r.object = d /\ r.state = s
      BY <2>2 DEF Request
    <2>. HIDE DEF r
    <2>5. Proper(r)
      BY <2>4 DEF Proper
    <2>6. Begin(w, r)
      BY <2>1 DEF r
    <2>. QED  BY <2>3, <2>5, <2>6, BeginStep
  <1>2. CASE AskDatasetDelete(w)
    <2>1. PICK d \in Datasets, n \in {FALSE, ByName} :
            Begin(w, [Asked("delete_dataset") EXCEPT !.object = d, !.byName = n])
      BY <1>2 DEF AskDatasetDelete
    <2>. DEFINE r == [Asked("delete_dataset") EXCEPT !.object = d, !.byName = n]
    <2>2. /\ Asked("delete_dataset") \in Request
          /\ Asked("delete_dataset").kind = "delete_dataset"
          /\ Asked("delete_dataset").seen = NothingSeen
      BY AskedRecord DEF AllKinds
    <2>3. n \in BOOLEAN
      BY ChoicesAssumption
    <2>4. r \in Request /\ r.seen = NothingSeen
      BY <2>2, <2>3 DEF Request, Objects
    <2>5. r.kind = "delete_dataset" /\ r.object = d
      BY <2>2 DEF Request
    <2>. HIDE DEF r
    <2>6. Proper(r)
      BY <2>5 DEF Proper
    <2>7. Begin(w, r)
      BY <2>1 DEF r
    <2>. QED  BY <2>4, <2>6, <2>7, BeginStep
  <1>3. CASE AskOrg(w)
    <2>1. PICK o \in Orgs, n \in {FALSE, ByName}, k \in {"delete_org", "purge_org"} :
            Begin(w, [Asked(k) EXCEPT !.org = o, !.byName = n])
      BY <1>3 DEF AskOrg
    <2>. DEFINE r == [Asked(k) EXCEPT !.org = o, !.byName = n]
    <2>2. Asked(k) \in Request /\ Asked(k).kind = k /\ Asked(k).seen = NothingSeen
      BY AskedRecord DEF AllKinds
    <2>3. n \in BOOLEAN
      BY ChoicesAssumption
    <2>4. r \in Request /\ r.seen = NothingSeen
      BY <2>2, <2>3 DEF Request
    <2>5. r.kind = k /\ r.org = o
      BY <2>2 DEF Request
    <2>. HIDE DEF r
    <2>6. Proper(r)
      BY <2>5 DEF Proper
    <2>7. Begin(w, r)
      BY <2>1 DEF r
    <2>. QED  BY <2>4, <2>6, <2>7, BeginStep
  <1>4. CASE AskCreate(w)
    <2>1. PICK u \in Users, o \in Orgs :
            Begin(w, [Asked("create_org") EXCEPT !.object = u, !.org = o,
                                                 !.capacity = "admin"])
      BY <1>4 DEF AskCreate
    <2>. DEFINE r == [Asked("create_org") EXCEPT !.object = u, !.org = o,
                                                 !.capacity = "admin"]
    <2>2. /\ Asked("create_org") \in Request
          /\ Asked("create_org").kind = "create_org"
          /\ Asked("create_org").seen = NothingSeen
      BY AskedRecord DEF AllKinds
    <2>3. r \in Request /\ r.seen = NothingSeen
      BY <2>2 DEF Request, Objects, Roles
    <2>4. /\ r.kind = "create_org" /\ r.object = u /\ r.org = o
          /\ r.capacity = "admin"
      BY <2>2 DEF Request
    <2>. HIDE DEF r
    <2>5. Proper(r)
      BY <2>4 DEF Proper
    <2>6. Begin(w, r)
      BY <2>1 DEF r
    <2>. QED  BY <2>3, <2>5, <2>6, BeginStep
  <1>5. CASE AskMember(w)
    <2>1. PICK u \in Users, o \in Orgs :
            \/ \E c \in Roles, s \in BOOLEAN :
                 Begin(w, [Asked("add") EXCEPT !.object = u, !.org = o,
                                               !.capacity = c, !.self = s])
            \/ Begin(w, [Asked("remove") EXCEPT !.object = u, !.org = o])
      BY <1>5 DEF AskMember
    <2>2. /\ Asked("add") \in Request /\ Asked("add").kind = "add"
          /\ Asked("add").seen = NothingSeen
          /\ Asked("remove") \in Request /\ Asked("remove").kind = "remove"
          /\ Asked("remove").seen = NothingSeen
      BY AskedRecord DEF AllKinds
    <2>3. ASSUME NEW c \in Roles, NEW s \in BOOLEAN,
                 Begin(w, [Asked("add") EXCEPT !.object = u, !.org = o,
                                               !.capacity = c, !.self = s])
          PROVE  Typed'
      <3>. DEFINE half == [Asked("add") EXCEPT !.object = u, !.org = o]
      <3>. DEFINE r == [half EXCEPT !.capacity = c, !.self = s]
      <3>1. /\ half \in Request /\ half.kind = "add" /\ half.object = u
            /\ half.org = o /\ half.seen = NothingSeen
        BY <2>2 DEF Request, Objects
      <3>2. Begin(w, r)
        <4>1. r = [Asked("add") EXCEPT !.object = u, !.org = o,
                                       !.capacity = c, !.self = s]
          BY <2>2 DEF Request
        <4>. HIDE DEF r
        <4>. QED  BY <4>1, <2>3
      <3>. HIDE DEF half
      <3>3. r \in Request /\ r.seen = NothingSeen
        BY <3>1 DEF Request
      <3>4. r.kind = "add" /\ r.object = u /\ r.org = o /\ r.capacity = c
        BY <3>1 DEF Request
      <3>. HIDE DEF r
      <3>5. Proper(r)
        BY <3>4 DEF Proper, Roles
      <3>. QED  BY <3>2, <3>3, <3>5, BeginStep
    <2>4. ASSUME Begin(w, [Asked("remove") EXCEPT !.object = u, !.org = o])
          PROVE  Typed'
      <3>. DEFINE r == [Asked("remove") EXCEPT !.object = u, !.org = o]
      <3>1. r \in Request /\ r.seen = NothingSeen
        BY <2>2 DEF Request, Objects
      <3>2. r.kind = "remove" /\ r.object = u /\ r.org = o
        BY <2>2 DEF Request
      <3>3. Begin(w, r)
        BY <2>4
      <3>. HIDE DEF r
      <3>4. Proper(r)
        BY <3>2 DEF Proper
      <3>. QED  BY <3>1, <3>3, <3>4, BeginStep
    <2>. QED  BY <2>1, <2>3, <2>4
  <1>. QED  BY <1>1, <1>2, <1>3, <1>4, <1>5

\* Steps that only read.
LEMMA ReadStep ==
    ASSUME Typed, NEW w \in Workers,
           \/ Missing(w) \/ Stale(w) \/ Stop(w) \/ ReadUpdate(w)
           \/ ReadDatasetDelete(w) \/ ReadOrg(w) \/ ReadAdd(w) \/ ReadRemove(w)
    PROVE  Typed'
  <1>1. /\ org' = org /\ dataset' = dataset /\ member' = member
        /\ requests' = requests /\ RowsKept
    BY DEF Missing, Stale, Stop, ReadUpdate, ReadDatasetDelete, ReadOrg,
           ReadAdd, ReadRemove, RowsKept
  <1>. DEFINE Good == /\ request' \in [Workers -> Request]
                      /\ \A x \in Workers :
                           Proper(request'[x]) /\ SeenInserted(request'[x], member')
  <1>2. ASSUME Finish(w) PROVE Good
    BY <1>1, <1>2, FinishStep
  <1>3. ASSUME NEW ids \in SUBSET Inserted, Load(w, ids) PROVE Good
    BY <1>1, <1>3, LoadStep
  <1>4. CASE Missing(w) \/ Stale(w) \/ Stop(w)
    BY <1>1, <1>2, <1>4 DEF Missing, Stale, Stop, Typed, TypeOK
  <1>5. CASE ReadUpdate(w)
    <2>. DEFINE ids == {i \in Inserted : member[i].object = request[w].object}
    <2>1. request[w].object \in Datasets
      BY <1>5 DEF ReadUpdate, At, Typed, Proper
    <2>2. dataset[request[w].object] \in Dataset
      BY <2>1 DEF Typed, TypeOK
    <2>3. request[w].owned \in SUBSET Datasets
      BY DEF Typed, TypeOK, Request
    <2>4. request' = [request EXCEPT ![w].pc = "read",
                        ![w].was = dataset[request[w].object],
                        ![w].seen = Rowset(ids), ![w].owned = request[w].owned]
      BY <1>5 DEF ReadUpdate, Typed, TypeOK, Request
    <2>5. /\ Rowset(ids) \in [Rows -> Member \cup {Unused}]
          /\ \A i \in Rows : Rowset(ids)[i] # Unused => member'[i] # Unused
      BY <1>1, RowsetStep
    <2>. HIDE DEF ids
    <2>6. Good
      BY <1>1, <2>2, <2>3, <2>4, <2>5, GoOnStep
    <2>. QED  BY <1>1, <2>6 DEF Typed, TypeOK
  <1>6. CASE ReadDatasetDelete(w)
    <2>. DEFINE ids == IF request[w].byName THEN {}
                       ELSE Active({i \in Inserted :
                                      member[i].object = request[w].object})
    <2>1. ids \in SUBSET Inserted /\ Load(w, ids)
      BY <1>6 DEF ReadDatasetDelete, Active
    <2>. HIDE DEF ids
    <2>. QED  BY <1>1, <1>3, <2>1 DEF Typed, TypeOK
  <1>7. CASE ReadOrg(w)
    <2>1. CASE Finish(w)
      BY <1>1, <1>2, <2>1 DEF Typed, TypeOK
    <2>2. CASE ~ Finish(w)
      <3>. DEFINE rows == {i \in Inserted : member[i].org = request[w].org}
      <3>. DEFINE ids == IF request[w].kind = "purge_org" THEN rows
                         ELSE IF request[w].byName THEN {} ELSE Active(rows)
      <3>1. request' = [request EXCEPT ![w].pc = "read",
                          ![w].owned = Owned(request[w].org),
                          ![w].seen = Rowset(ids)]
        BY <1>7, <2>2 DEF ReadOrg
      <3>2. ids \in SUBSET Inserted
        BY DEF Active
      <3>. HIDE DEF ids
      <3>3. request[w].was \in Dataset /\ Owned(request[w].org) \in SUBSET Datasets
        BY DEF Typed, TypeOK, Request, Owned
      <3>4. request' = [request EXCEPT ![w].pc = "read",
                          ![w].was = request[w].was, ![w].seen = Rowset(ids),
                          ![w].owned = Owned(request[w].org)]
        BY <3>1 DEF Typed, TypeOK, Request
      <3>5. /\ Rowset(ids) \in [Rows -> Member \cup {Unused}]
            /\ \A i \in Rows : Rowset(ids)[i] # Unused => member'[i] # Unused
        BY <1>1, <3>2, RowsetStep
      <3>6. Good
        BY <1>1, <3>3, <3>4, <3>5, GoOnStep
      <3>. QED  BY <1>1, <3>6 DEF Typed, TypeOK
    <2>. QED  BY <2>1, <2>2
  <1>8. CASE ReadAdd(w)
    <2>1. RowsOf(request[w].object, request[w].org) \in SUBSET Inserted
      BY DEF RowsOf
    <2>2. \/ Finish(w)
          \/ \E ids \in SUBSET Inserted : Load(w, ids)
      BY <1>8, <2>1 DEF ReadAdd, Active
    <2>. QED  BY <1>1, <1>2, <1>3, <2>2 DEF Typed, TypeOK
  <1>9. CASE ReadRemove(w)
    <2>1. RowsOf(request[w].object, request[w].org) \in SUBSET Inserted
      BY DEF RowsOf
    <2>2. \/ Finish(w)
          \/ \E ids \in SUBSET Inserted : Load(w, ids)
      BY <1>9, <2>1 DEF ReadRemove, Active
    <2>. QED  BY <1>1, <1>2, <1>3, <2>2 DEF Typed, TypeOK
  <1>. QED  BY <1>4, <1>5, <1>6, <1>7, <1>8, <1>9

\* Rows are set to another state, and the request is done.
LEMMA SetFinishStep ==
    ASSUME Typed, NEW w \in Workers, NEW ids \in SUBSET Rows,
           \A i \in ids : member[i] # Unused,
           NEW state \in {"active", "deleted", "purged"},
           member' = Set(ids, state), Finish(w)
    PROVE  /\ member' \in [Rows -> Member \cup {Unused}]
           /\ request' \in [Workers -> Request]
           /\ \A x \in Workers :
                Proper(request'[x]) /\ SeenInserted(request'[x], member')
  <1>1. member' \in [Rows -> Member \cup {Unused}] /\ RowsKept
    BY SetStep DEF RowsKept
  <1>. QED  BY <1>1, FinishStep

\* A request that does not fail updates rows that are in the table.
LEMMA WritesInserted ==
    ASSUME Typed, NEW w \in Workers, NEW kinds, Writes(w, kinds)
    PROVE  /\ Touched(request[w]) \subseteq Inserted
           /\ Inserts(request[w]) => Exists(request[w].org)
           /\ request[w].kind \in kinds
           /\ request[w].kind = "delete_org" => Exists(request[w].org)
           /\ Inserted \subseteq Rows
           /\ \A i \in Inserted : member[i] # Unused
  BY DEF Writes, Fails, At, Inserted

LEMMA DisownedStep ==
    ASSUME Typed, NEW ds \in SUBSET Datasets
    PROVE  Disowned(ds) \in [Datasets -> Dataset]
  BY DEF Typed, TypeOK, Disowned, Dataset

LEMMA WriteUpdateStep ==
    ASSUME Typed, NEW w \in Workers, WriteUpdate(w)
    PROVE  /\ Typed'
           /\ RowsHaveOrg => RowsHaveOrg'
  <1>. DEFINE q == request[w]
  <1>. DEFINE rows == Untouched(q)
  <1>1. /\ Touched(q) \subseteq Inserted
        /\ Inserts(q) => Exists(q.org)
        /\ Inserted \subseteq Rows
        /\ \A i \in Inserted : member[i] # Unused
        /\ q.kind = "update"
    BY WritesInserted DEF WriteUpdate
  <1>2. q.object \in Datasets /\ q.state \in {"active", "deleted"}
        /\ q.org \in Orgs \cup {NoOrg}
    <2>1. q \in Request /\ Proper(q)
      BY DEF Typed, TypeOK
    <2>. HIDE DEF q
    <2>. QED  BY <1>1, <2>1 DEF Request, Proper
  <1>3. /\ rows \in [Rows -> Member \cup {Unused}]
        /\ \A i \in Rows : rows[i] = Unused <=> member[i] = Unused
        /\ \A i \in Rows : member[i] # Unused => rows[i].org = member[i].org
        /\ \A i \in Touched(q) : rows[i].state = "deleted"
        /\ \A i \in Rows \ Touched(q) : rows[i] = member[i]
    BY <1>1, SetStep DEF Untouched
  <1>4. dataset' \in [Datasets -> Dataset]
    <2>. DEFINE d == q.object
    <2>1. d \in Datasets /\ dataset[d] \in Dataset
      BY <1>2 DEF Typed, TypeOK
    <2>2. /\ dataset' = [dataset EXCEPT ![d] =
               [owner |-> IF q.org = q.was.owner THEN @.owner ELSE q.org,
                state |-> IF q.state = q.was.state THEN @.state ELSE q.state]]
      BY DEF WriteUpdate
    <2>3. [owner |-> IF q.org = q.was.owner THEN dataset[d].owner ELSE q.org,
           state |-> IF q.state = q.was.state THEN dataset[d].state ELSE q.state]
             \in Dataset
      BY <1>2, <2>1 DEF Dataset
    <2>. QED  BY <2>2, <2>3 DEF Typed, TypeOK
  <1>5. /\ member' \in [Rows -> Member \cup {Unused}]
        /\ RowsKept
        /\ \A i \in Rows : member'[i] = rows[i] \/ Exists(member'[i].org)
    <2>. HIDE DEF rows, q
    <2>1. CASE Inserts(q)
      <3>1. Insert(rows, q.object, q.org, "organization")
        BY <2>1 DEF WriteUpdate, rows, q
      <3>2. q.org \in Orgs /\ q.object \in Objects /\ "organization" \in Capacities
        BY <1>1, <1>2, <2>1 DEF Inserts, Objects, Capacities
      <3>3. /\ member' \in [Rows -> Member \cup {Unused}]
            /\ RowsKept
            /\ \A i \in Rows : member'[i] = rows[i] \/ member'[i].org = q.org
        BY <1>3, <3>1, <3>2, InsertStep
      <3>. QED  BY <1>1, <2>1, <3>3
    <2>2. CASE ~ Inserts(q)
      <3>1. member' = rows
        BY <2>2 DEF WriteUpdate, rows, q
      <3>. QED  BY <1>3, <3>1 DEF RowsKept
    <2>. QED  BY <2>1, <2>2
  <1>6. /\ request' \in [Workers -> Request]
        /\ \A x \in Workers :
             Proper(request'[x]) /\ SeenInserted(request'[x], member')
    BY <1>5, FinishStep DEF WriteUpdate
  <1>7. org' = org /\ requests' = requests
    BY DEF WriteUpdate
  <1>8. Typed'
    BY <1>4, <1>5, <1>6, <1>7 DEF Typed, TypeOK
  <1>9. ASSUME RowsHaveOrg PROVE RowsHaveOrg'
    <2>. HIDE DEF rows, q
    <2>1. ASSUME NEW i \in Inserted' PROVE Exists(member'[i].org)
      <3>1. i \in Rows /\ member'[i] # Unused /\ member'[i].state # "purged"
        BY <2>1 DEF Inserted
      <3>2. CASE member'[i] = rows[i]
        <4>1. i \in Inserted /\ rows[i].org = member[i].org
          BY <1>1, <1>3, <3>1, <3>2 DEF Inserted
        <4>. QED  BY <1>9, <3>2, <4>1 DEF RowsHaveOrg
      <3>. QED  BY <1>5, <3>1, <3>2
    <2>. QED  BY <1>7, <2>1 DEF RowsHaveOrg, Exists
  <1>. QED  BY <1>8, <1>9

\* Rows of the table are deleted, and no organization disappears.
LEMMA DeletedRowsHaveOrg ==
    ASSUME Typed, RowsHaveOrg, NEW ids \in SUBSET Inserted,
           member' = Set(ids, "deleted"),
           \A o \in Orgs : Exists(o) => org'[o] \in {"active", "deleted"}
    PROVE  RowsHaveOrg'
  <1>1. /\ ids \subseteq Rows
        /\ \A i \in ids : member[i] # Unused
    BY DEF Inserted
  <1>2. ASSUME NEW i \in Inserted'
        PROVE  org'[member'[i].org] \in {"active", "deleted"}
    <2>1. i \in Rows /\ member'[i] # Unused /\ member'[i].state # "purged"
      BY <1>2 DEF Inserted
    <2>2. /\ member'[i] = Unused <=> member[i] = Unused
          /\ member[i] # Unused => member'[i].org = member[i].org
          /\ i \notin ids => member'[i] = member[i]
      BY <1>1, <2>1, SetStep
    <2>3. i \in Inserted /\ member'[i].org = member[i].org
      BY <2>1, <2>2 DEF Inserted
    <2>4. member[i].org \in Orgs
      BY <2>1, <2>2 DEF Typed, TypeOK, Member
    <2>. QED  BY <2>3, <2>4 DEF RowsHaveOrg
  <1>. QED  BY <1>2 DEF RowsHaveOrg, Exists

LEMMA WriteDeletedStep ==
    ASSUME Typed, NEW w \in Workers,
           WriteDatasetDelete(w) \/ WriteOrgDelete(w) \/ WriteRemove(w)
    PROVE  /\ Typed'
           /\ RowsHaveOrg => RowsHaveOrg'
  <1>. DEFINE q == request[w]
  <1>1. q \in Request /\ Proper(q)
    BY DEF Typed, TypeOK
  <1>2. /\ Touched(q) = Seen(q)
        /\ Seen(q) \subseteq Inserted
        /\ Inserted \subseteq Rows
        /\ \A i \in Inserted : member[i] # Unused
        /\ q.kind = "delete_org" => Exists(q.org)
        /\ q.kind \in {"delete_dataset", "delete_org", "remove"}
    <2>1. Writes(w, {"delete_dataset"}) \/ Writes(w, {"delete_org"})
            \/ Writes(w, {"remove"})
      BY DEF WriteDatasetDelete, WriteOrgDelete, WriteRemove
    <2>2. q.kind \in {"delete_dataset", "delete_org", "remove"}
      BY <2>1 DEF Writes, At
    <2>3. Touched(q) = Seen(q)
      BY <2>2 DEF Touched
    <2>. QED  BY <2>1, <2>2, <2>3, WritesInserted
  <1>3. member' = Set(Seen(q), "deleted") /\ Finish(w) /\ requests' = requests
    BY DEF WriteDatasetDelete, WriteOrgDelete, WriteRemove
  <1>4. /\ member' \in [Rows -> Member \cup {Unused}]
        /\ request' \in [Workers -> Request]
        /\ \A x \in Workers :
             Proper(request'[x]) /\ SeenInserted(request'[x], member')
    <2>. HIDE DEF q
    <2>1. Seen(q) \in SUBSET Rows /\ \A i \in Seen(q) : member[i] # Unused
      BY <1>2
    <2>. QED  BY <1>3, <2>1, SetFinishStep
  <1>5. dataset' \in [Datasets -> Dataset]
    <2>1. CASE WriteDatasetDelete(w)
      BY <2>1 DEF WriteDatasetDelete, Typed, TypeOK, Dataset
    <2>2. CASE WriteOrgDelete(w)
      <3>1. q.owned \in SUBSET Datasets
        BY <1>1 DEF Request
      <3>. QED  BY <2>2, <3>1, DisownedStep DEF WriteOrgDelete
    <2>3. CASE WriteRemove(w)
      BY <2>3 DEF WriteRemove, Typed, TypeOK
    <2>. QED  BY <2>1, <2>2, <2>3
  <1>6. /\ org' \in [Orgs -> {"new", "active", "deleted", "purged"}]
        /\ \A o \in Orgs : Exists(o) => org'[o] \in {"active", "deleted"}
    <2>1. CASE WriteOrgDelete(w)
      <3>1. q.org \in Orgs
        BY <1>1, <2>1 DEF Proper, WriteOrgDelete, Writes, At
      <3>. QED  BY <2>1, <3>1 DEF WriteOrgDelete, Exists, Typed, TypeOK
    <2>2. CASE ~ WriteOrgDelete(w)
      BY <2>2 DEF WriteDatasetDelete, WriteRemove, Exists, Typed, TypeOK
    <2>. QED  BY <2>1, <2>2
  <1>7. Typed'
    BY <1>3, <1>4, <1>5, <1>6 DEF Typed, TypeOK
  <1>8. ASSUME RowsHaveOrg PROVE RowsHaveOrg'
    BY <1>2, <1>3, <1>6, <1>8, DeletedRowsHaveOrg
  <1>. QED  BY <1>7, <1>8

LEMMA PurgeMembersStep ==
    ASSUME Typed, NEW w \in Workers, PurgeMembers(w)
    PROVE  /\ Typed'
           /\ RowsHaveOrg => RowsHaveOrg'
  <1>. DEFINE q == request[w]
  <1>1. q \in Request /\ SeenInserted(q, member)
    BY DEF Typed, TypeOK
  <1>2. /\ q.was \in Dataset /\ q.owned \in SUBSET Datasets
        /\ q.seen \in [Rows -> Member \cup {Unused}]
    BY <1>1 DEF Request
  <1>3. org' = org /\ requests' = requests
    BY DEF PurgeMembers
  <1>4. CASE Seen(q) = {}
    <2>1. member' = member /\ dataset' = dataset /\ RowsKept
      BY <1>4 DEF PurgeMembers, RowsKept
    <2>2. request' = [request EXCEPT ![w].pc = "committed", ![w].was = q.was,
                        ![w].seen = q.seen, ![w].owned = q.owned]
      BY <1>4 DEF PurgeMembers, Typed, TypeOK, Request
    <2>3. \A i \in Rows : q.seen[i] # Unused => member'[i] # Unused
      BY <1>1, <2>1 DEF SeenInserted
    <2>. HIDE DEF q
    <2>4. /\ request' \in [Workers -> Request]
          /\ \A x \in Workers :
               Proper(request'[x]) /\ SeenInserted(request'[x], member')
      BY <1>2, <2>1, <2>2, <2>3, GoOnStep
    <2>5. Typed'
      BY <1>3, <2>1, <2>4 DEF Typed, TypeOK
    <2>6. RowsHaveOrg => RowsHaveOrg'
      BY <1>3, <2>1 DEF RowsHaveOrg, Inserted, Exists
    <2>. QED  BY <2>5, <2>6
  <1>5. CASE Seen(q) # {}
    <2>1. /\ dataset' = Disowned(q.owned)
          /\ member' = Set(Seen(q), "purged")
          /\ request' = [request EXCEPT ![w].pc = "committed", ![w].owned = {}]
      BY <1>5 DEF PurgeMembers
    <2>2. Seen(q) \in SUBSET Rows /\ \A i \in Seen(q) : member[i] # Unused
      BY <1>1 DEF SeenInserted, Seen
    <2>3. request' = [request EXCEPT ![w].pc = "committed", ![w].was = q.was,
                        ![w].seen = q.seen, ![w].owned = {}]
      BY <2>1 DEF Typed, TypeOK, Request
    <2>4. /\ member' \in [Rows -> Member \cup {Unused}]
          /\ RowsKept
          /\ \A i \in Seen(q) : member'[i].state = "purged"
          /\ \A i \in Rows \ Seen(q) : member'[i] = member[i]
      <3>. HIDE DEF q
      <3>. QED  BY <2>1, <2>2, SetStep DEF RowsKept
    <2>5. \A i \in Rows : q.seen[i] # Unused => member'[i] # Unused
      BY <1>1, <2>4 DEF SeenInserted, RowsKept
    <2>. HIDE DEF q
    <2>6. /\ request' \in [Workers -> Request]
          /\ \A x \in Workers :
               Proper(request'[x]) /\ SeenInserted(request'[x], member')
      <3>. DEFINE none == {}
      <3>1. none \in SUBSET Datasets
        OBVIOUS
      <3>2. request' = [request EXCEPT ![w].pc = "committed", ![w].was = q.was,
                          ![w].seen = q.seen, ![w].owned = none]
        BY <2>3
      <3>. HIDE DEF none
      <3>. QED  BY <1>2, <2>4, <2>5, <3>1, <3>2, GoOnStep
    <2>7. dataset' \in [Datasets -> Dataset]
      BY <1>2, <2>1, DisownedStep
    <2>8. Typed'
      BY <1>3, <2>4, <2>6, <2>7 DEF Typed, TypeOK
    <2>9. RowsHaveOrg => RowsHaveOrg'
      BY <1>3, <2>4 DEF RowsHaveOrg, Inserted, Exists
    <2>. QED  BY <2>8, <2>9
  <1>. QED  BY <1>4, <1>5

\* The rows that are there when the organization goes go with it: this is
\* why the second transaction looks for them again.
LEMMA PurgeGroupStep ==
    ASSUME Typed, NEW w \in Workers, PurgeGroup(w)
    PROVE  /\ Typed'
           /\ RowsHaveOrg => RowsHaveOrg'
  <1>. DEFINE q == request[w]
  <1>. DEFINE rows == {i \in Inserted : member[i].org = q.org}
  <1>1. q \in Request /\ q.kind = "purge_org" /\ q.org \in Orgs
    BY DEF Typed, TypeOK, PurgeGroup, At, Proper
  <1>2. q.owned \in SUBSET Datasets
    BY <1>1 DEF Request
  <1>3. /\ org' = [org EXCEPT ![q.org] = "purged"]
        /\ dataset' = Disowned(q.owned)
        /\ member' = Set(rows, "purged")
        /\ Finish(w) /\ requests' = requests
    BY DEF PurgeGroup
  <1>4. rows \in SUBSET Rows /\ \A i \in rows : member[i] # Unused
    BY DEF Inserted
  <1>5. /\ \A i \in rows : member'[i].state = "purged"
        /\ \A i \in Rows \ rows : member'[i] = member[i]
    <2>. HIDE DEF rows, q
    <2>. QED  BY <1>3, <1>4, SetStep
  <1>6. /\ member' \in [Rows -> Member \cup {Unused}]
        /\ request' \in [Workers -> Request]
        /\ \A x \in Workers :
             Proper(request'[x]) /\ SeenInserted(request'[x], member')
    <2>. HIDE DEF rows, q
    <2>. QED  BY <1>3, <1>4, SetFinishStep
  <1>7. Typed'
    <2>. HIDE DEF rows, q
    <2>1. dataset' \in [Datasets -> Dataset]
      BY <1>2, <1>3, DisownedStep
    <2>. QED  BY <1>1, <1>3, <1>6, <2>1 DEF Typed, TypeOK
  <1>8. ASSUME RowsHaveOrg, NEW i \in Inserted'
        PROVE  org'[member'[i].org] \in {"active", "deleted"}
    <2>1. i \in Rows \ rows
      BY <1>5, <1>8 DEF Inserted
    <2>2. member'[i] = member[i] /\ i \in Inserted
      BY <1>5, <1>8, <2>1 DEF Inserted
    <2>3. member[i].org # q.org
      BY <2>1, <2>2
    <2>4. member[i].org \in Orgs
      BY <2>2 DEF Typed, TypeOK, Inserted, Member
    <2>. HIDE DEF rows, q
    <2>. QED  BY <1>3, <1>8, <2>2, <2>3, <2>4
              DEF RowsHaveOrg, Exists, Typed, TypeOK
  <1>. QED  BY <1>7, <1>8 DEF RowsHaveOrg, Exists

LEMMA CreateOrgStep ==
    ASSUME Typed, NEW w \in Workers, CreateOrg(w)
    PROVE  /\ Typed'
           /\ RowsHaveOrg => RowsHaveOrg'
  <1>. DEFINE q == request[w]
  <1>1. q \in Request /\ q.kind = "create_org" /\ q.org \in Orgs
    BY DEF Typed, TypeOK, CreateOrg, At, Proper
  <1>2. /\ q.was \in Dataset /\ q.owned \in SUBSET Datasets
        /\ q.seen \in [Rows -> Member \cup {Unused}]
    BY <1>1 DEF Request
  <1>3. /\ org' = [org EXCEPT ![q.org] = "active"]
        /\ member' = member /\ dataset' = dataset /\ requests' = requests
        /\ RowsKept
    BY DEF CreateOrg, RowsKept
  <1>4. request' = [request EXCEPT ![w].pc = "committed", ![w].was = q.was,
                      ![w].seen = q.seen, ![w].owned = q.owned]
    BY DEF CreateOrg, Typed, TypeOK, Request
  <1>5. \A i \in Rows : q.seen[i] # Unused => member'[i] # Unused
    BY <1>3 DEF Typed, SeenInserted
  <1>6. /\ request' \in [Workers -> Request]
        /\ \A x \in Workers :
             Proper(request'[x]) /\ SeenInserted(request'[x], member')
    <2>. HIDE DEF q
    <2>. QED  BY <1>2, <1>3, <1>4, <1>5, GoOnStep
  <1>7. Typed'
    <2>. HIDE DEF q
    <2>. QED  BY <1>1, <1>3, <1>6 DEF Typed, TypeOK
  <1>8. RowsHaveOrg => RowsHaveOrg'
    <2>1. ASSUME RowsHaveOrg, NEW i \in Inserted
          PROVE  org'[member[i].org] \in {"active", "deleted"}
      <3>1. member[i].org \in Orgs
        BY DEF Typed, TypeOK, Inserted, Member
      <3>. QED  BY <1>1, <1>3, <2>1, <3>1 DEF RowsHaveOrg, Exists, Typed, TypeOK
    <2>. QED  BY <1>3, <2>1 DEF RowsHaveOrg, Exists, Inserted
  <1>. QED  BY <1>7, <1>8

LEMMA WriteAddStep ==
    ASSUME Typed, NEW w \in Workers, WriteAdd(w)
    PROVE  /\ Typed'
           /\ RowsHaveOrg => RowsHaveOrg'
  <1>. DEFINE q == request[w]
  <1>1. /\ Touched(q) \subseteq Inserted
        /\ Inserts(q) => Exists(q.org)
        /\ Inserted \subseteq Rows
        /\ \A i \in Inserted : member[i] # Unused
        /\ q.kind \in {"add", "create_org"}
    BY WritesInserted DEF WriteAdd
  <1>2. q.object \in Users /\ q.org \in Orgs /\ q.capacity \in Roles
    <2>1. q \in Request /\ Proper(q)
      BY DEF Typed, TypeOK
    <2>. HIDE DEF q
    <2>. QED  BY <1>1, <2>1 DEF Request, Proper
  <1>3. /\ org' = org /\ dataset' = dataset /\ requests' = requests /\ Finish(w)
    BY DEF WriteAdd
  <1>4. /\ member' \in [Rows -> Member \cup {Unused}]
        /\ RowsKept
        /\ \A i \in Rows :
             \/ member'[i] = member[i]
             \/ i \in Inserted /\ member'[i].org = member[i].org
             \/ Exists(member'[i].org)
    <2>1. CASE Inserts(q)
      <3>. HIDE DEF q
      <3>1. Insert(member, q.object, q.org, q.capacity)
        BY <2>1 DEF WriteAdd, q
      <3>2. q.object \in Objects /\ q.capacity \in Capacities
        BY <1>2 DEF Objects, Capacities
      <3>3. member \in [Rows -> Member \cup {Unused}]
        BY DEF Typed, TypeOK
      <3>4. /\ member' \in [Rows -> Member \cup {Unused}]
            /\ RowsKept
            /\ \A i \in Rows : member'[i] = member[i] \/ member'[i].org = q.org
        BY <1>2, <3>1, <3>2, <3>3, InsertStep
      <3>. QED  BY <1>1, <2>1, <3>4
    <2>2. CASE ~ Inserts(q)
      <3>. DEFINE new(i) ==
              [member[i] EXCEPT
                 !.state = IF q.seen[i].state = "active" THEN @ ELSE "active",
                 !.capacity = IF q.seen[i].capacity = q.capacity
                              THEN @ ELSE q.capacity]
      <3>1. member' = [i \in Rows |-> IF i \in Touched(q) THEN new(i)
                                                          ELSE member[i]]
        BY <2>2 DEF WriteAdd
      <3>2. ASSUME NEW i \in Touched(q)
            PROVE  new(i) \in Member /\ new(i).org = member[i].org
        <4>1. member[i] \in Member
          BY <1>1 DEF Typed, TypeOK
        <4>. QED  BY <1>2, <4>1 DEF Member, Capacities
      <3>. HIDE DEF new, q
      <3>3. ASSUME NEW i \in Rows
            PROVE  /\ member'[i] \in Member \cup {Unused}
                   /\ member[i] # Unused => member'[i] # Unused
                   /\ \/ member'[i] = member[i]
                      \/ i \in Inserted /\ member'[i].org = member[i].org
        <4>1. CASE i \in Touched(q)
          BY <1>1, <3>1, <3>2, <4>1, MembersAreUsed
        <4>2. CASE i \notin Touched(q)
          BY <3>1, <4>2 DEF Typed, TypeOK
        <4>. QED  BY <4>1, <4>2
      <3>. QED  BY <3>1, <3>3 DEF RowsKept
    <2>. QED  BY <2>1, <2>2
  <1>5. /\ request' \in [Workers -> Request]
        /\ \A x \in Workers :
             Proper(request'[x]) /\ SeenInserted(request'[x], member')
    BY <1>3, <1>4, FinishStep
  <1>6. Typed'
    BY <1>3, <1>4, <1>5 DEF Typed, TypeOK
  <1>7. ASSUME RowsHaveOrg, NEW i \in Inserted'
        PROVE  Exists(member'[i].org)
    <2>. HIDE DEF q
    <2>1. i \in Rows /\ member'[i] # Unused /\ member'[i].state # "purged"
      BY <1>7 DEF Inserted
    <2>2. CASE member'[i] = member[i]
      BY <1>7, <2>1, <2>2 DEF RowsHaveOrg, Inserted
    <2>3. CASE i \in Inserted /\ member'[i].org = member[i].org
      BY <1>7, <2>3 DEF RowsHaveOrg
    <2>. QED  BY <1>4, <2>1, <2>2, <2>3
  <1>. QED  BY <1>3, <1>6, <1>7 DEF RowsHaveOrg, Exists

LEMMA TypedStep ==
    ASSUME Typed, [Next]_vars
    PROVE  /\ Typed'
           /\ RowsHaveOrg => RowsHaveOrg'
  <1>1. CASE UNCHANGED vars
    <2>1. /\ org' = org /\ dataset' = dataset /\ member' = member
          /\ request' = request /\ requests' = requests
      BY <1>1 DEF vars
    <2>2. Typed'
      BY <2>1 DEF Typed, TypeOK, SeenInserted
    <2>3. RowsHaveOrg => RowsHaveOrg'
      BY <2>1 DEF RowsHaveOrg, Inserted, Exists
    <2>. QED  BY <2>2, <2>3
  <1>2. ASSUME NEW w \in Workers,
               \/ AskUpdate(w) \/ AskDatasetDelete(w) \/ AskOrg(w)
               \/ AskCreate(w) \/ AskMember(w)
        PROVE  Typed' /\ (RowsHaveOrg => RowsHaveOrg')
    <2>1. Typed'
      BY <1>2, AskStep
    <2>2. member' = member /\ org' = org
      BY <1>2 DEF AskUpdate, AskDatasetDelete, AskOrg, AskCreate, AskMember, Begin
    <2>3. RowsHaveOrg => RowsHaveOrg'
      BY <2>2 DEF RowsHaveOrg, Inserted, Exists
    <2>. QED  BY <2>1, <2>3
  <1>3. ASSUME NEW w \in Workers,
               \/ Missing(w) \/ Stale(w) \/ Stop(w) \/ ReadUpdate(w)
               \/ ReadDatasetDelete(w) \/ ReadOrg(w) \/ ReadAdd(w)
               \/ ReadRemove(w)
        PROVE  Typed' /\ (RowsHaveOrg => RowsHaveOrg')
    <2>1. Typed'
      BY <1>3, ReadStep
    <2>2. member' = member /\ org' = org
      BY <1>3 DEF Missing, Stale, Stop, ReadUpdate, ReadDatasetDelete, ReadOrg,
                  ReadAdd, ReadRemove
    <2>3. RowsHaveOrg => RowsHaveOrg'
      BY <2>2 DEF RowsHaveOrg, Inserted, Exists
    <2>. QED  BY <2>1, <2>3
  <1>4. ASSUME NEW w \in Workers,
               \/ WriteUpdate(w) \/ WriteDatasetDelete(w) \/ WriteOrgDelete(w)
               \/ PurgeMembers(w) \/ PurgeGroup(w) \/ CreateOrg(w)
               \/ WriteAdd(w) \/ WriteRemove(w)
        PROVE  Typed' /\ (RowsHaveOrg => RowsHaveOrg')
    BY <1>4, WriteUpdateStep, WriteDeletedStep, PurgeMembersStep,
       PurgeGroupStep, CreateOrgStep, WriteAddStep
  <1>. QED  BY <1>1, <1>2, <1>3, <1>4 DEF Next

-----------------------------------------------------------------------------
(* The theorems. *)

\* Rows, requests, owners and organizations stay of their type: what a
\* request writes is made of what it loaded and of what it was asked.
THEOREM TypeCorrect == Spec => []TypeOK
  <1>1. Init => Typed
    BY TypedInit
  <1>2. Typed /\ [Next]_vars => Typed'
    BY TypedStep
  <1>3. Typed => TypeOK
    BY DEF Typed
  <1>. QED  BY <1>1, <1>2, <1>3, PTL DEF Spec

\* Rows never outlive the organization they are about, although a purge is
\* two transactions and rows may be inserted in between.
THEOREM RowsKeepOrg == Spec => []RowsHaveOrg
  <1>1. Init => Typed /\ RowsHaveOrg
    BY TypedInit DEF Init, RowsHaveOrg, Inserted
  <1>2. Typed /\ RowsHaveOrg /\ [Next]_vars => Typed' /\ RowsHaveOrg'
    BY TypedStep
  <1>. QED  BY <1>1, <1>2, PTL DEF Spec

-----------------------------------------------------------------------------
(* One request after another.                                              *)

\* What the request q that is served has read is what is there, ...
Reads(q) ==
    /\ \A i \in Seen(q) : i \in Inserted /\ q.seen[i] = member[i]
    /\ q.kind = "update" =>
         /\ Seen(q) = {i \in Inserted : member[i].object = q.object}
         /\ q.was = dataset[q.object]
    /\ q.kind = "delete_dataset" =>
         Seen(q) = Active({i \in Inserted : member[i].object = q.object})
    /\ q.kind = "delete_org" =>
         /\ Seen(q) = Active({i \in Inserted : member[i].org = q.org})
         /\ q.owned = Owned(q.org)
    /\ q.kind = "purge_org" =>
         /\ Seen(q) = {i \in Inserted : member[i].org = q.org}
         /\ q.owned = Owned(q.org)
    /\ q.kind \in {"add", "create_org"} =>
         /\ Seen(q) \subseteq RowsOf(q.object, q.org)
         /\ Seen(q) = {} => RowsOf(q.object, q.org) = {}
         /\ \A i, j \in Seen(q) : i = j
         /\ Seen(q) \subseteq Active(Seen(q)) \/ Active(RowsOf(q.object, q.org)) = {}
    /\ q.kind = "remove" =>
         Seen(q) # {} /\ Seen(q) \subseteq Active(RowsOf(q.object, q.org))

\* ... and nobody else undoes what it has done.
Knows(q) ==
    /\ q.pc = "idle" => q.kind = "none"
    /\ ~ q.byName
    /\ q.kind = "create_org" => ~ q.self
    /\ q.kind = "create_org" /\ q.pc \in {"read", "committed"} => Exists(q.org)
    /\ q.kind = "purge_org" /\ q.pc = "committed" =>
         \A d \in q.owned : dataset[d].owner = q.org
    /\ q.pc = "read" => Reads(q)

\* Two active rows do not join the same two.
Unique ==
    \A i, j \in Active(Inserted) :
        member[i].object = member[j].object /\ member[i].org = member[j].org => i = j

\* Request q has created organization o, or is about to end it.
Gives(q, o) ==
    /\ q.org = o
    /\ \/ q.kind = "create_org" /\ q.pc # "begin"
       \/ q.kind = "purge_org" /\ q.pc = "committed"

HasMember(o) == \E i \in Inserted : member[i].org = o /\ member[i].object \in Users

\* An organization has had somebody to administer it, but while it is created
\* or purged: after the transaction of the first step.
Settled ==
    \A o \in Orgs : Exists(o) => HasMember(o) \/ \E w \in Workers : Gives(request[w], o)

OneServes ==
    /\ \A w \in Workers \ {One} : request[w] = Resting
    /\ \A w \in Workers : Knows(request[w])
    /\ Settled /\ Unique /\ MemberIsOwner

\* The objects of requests are what they are by their kind.
LEMMA RequestTyped ==
    ASSUME Typed, NEW w \in Workers
    PROVE  request[w] \in Request /\ Proper(request[w]) /\ SeenInserted(request[w], member)
  BY DEF Typed, TypeOK

LEMMA InsertedTyped ==
    ASSUME Typed
    PROVE  /\ Inserted \subseteq Rows
           /\ \A i \in Inserted : member[i] \in Member /\ member[i] # Unused
  BY DEF Typed, TypeOK, Inserted

\* What a request has seen that has loaded the rows ids.
LEMMA SeenRowset ==
    ASSUME Typed, NEW ids \in SUBSET Inserted, NEW q, q.seen = Rowset(ids)
    PROVE  /\ Seen(q) = ids
           /\ \A i \in ids : q.seen[i] = member[i]
  <1>1. ids \subseteq Rows /\ \A i \in ids : member[i] # Unused
    BY InsertedTyped
  <1>. QED  BY <1>1 DEF Seen, Rowset

\* Where the rows ids of the table get another state.
LEMMA SetRows ==
    ASSUME Typed, NEW ids \in SUBSET Inserted, NEW state \in {"deleted", "purged"},
           member' = Set(ids, state)
    PROVE  /\ Inserted' = IF state = "purged" THEN Inserted \ ids ELSE Inserted
           /\ Active(Inserted)' = Active(Inserted) \ ids
           /\ \A i \in Inserted :
                member'[i].object = member[i].object /\ member'[i].org = member[i].org
  <1>1. ids \subseteq Rows /\ \A i \in ids : member[i] # Unused
    BY InsertedTyped
  <1>2. \A i \in ids : /\ member'[i] = [member[i] EXCEPT !.state = state]
                       /\ member[i] \in Member
    BY <1>1, InsertedTyped DEF Set
  <1>3. \A i \in ids : /\ member'[i] \in Member /\ member'[i].state = state
                       /\ member'[i].object = member[i].object
                       /\ member'[i].org = member[i].org
    BY <1>2 DEF Member
  <1>4. \A i \in Rows \ ids : member'[i] = member[i]
    BY DEF Set
  <1>5. Inserted' = IF state = "purged" THEN Inserted \ ids ELSE Inserted
    BY <1>1, <1>3, <1>4, MembersAreUsed DEF Inserted
  <1>6. Active(Inserted)' = Active(Inserted) \ ids
    BY <1>1, <1>3, <1>4, MembersAreUsed DEF Inserted, Active
  <1>7. \A i \in Inserted : member'[i].object = member[i].object /\ member'[i].org = member[i].org
    BY <1>3, <1>4, InsertedTyped
  <1>. QED  BY <1>5, <1>6, <1>7

\* Steps of the one that serves which leave the tables as they are.
LEMMA QuietStep ==
    ASSUME Typed, OneServes, One \in Workers, UNCHANGED <<org, dataset, member>>,
           \A x \in Workers \ {One} : request'[x] = request[x],
           Knows(request[One])',
           \A o \in Orgs : Gives(request[One], o) => Gives(request'[One], o) \/ ~ Exists(o)
    PROVE  OneServes'
  <1>1. \A x \in Workers \ {One} : request'[x] = Resting
    BY DEF OneServes
  <1>2. ASSUME NEW x \in Workers PROVE Knows(request[x])'
    <2>1. CASE x = One
      BY <2>1
    <2>2. CASE x # One
      BY <1>1, <2>2 DEF Knows, Resting
    <2>. QED  BY <2>1, <2>2
  <1>3. Unique' /\ MemberIsOwner'
    BY DEF OneServes, Unique, MemberIsOwner, Active, Inserted
  <1>4. Settled'
    <2>1. \A o \in Orgs : ~ \E x \in Workers \ {One} : Gives(request[x], o)
      BY DEF OneServes, Gives, Resting
    <2>2. \A o \in Orgs : /\ Exists(o)' => Exists(o)
                          /\ HasMember(o) => HasMember(o)'
      BY DEF Exists, HasMember, Inserted
    <2>3. \A o \in Orgs : Exists(o)' => HasMember(o)' \/ \E w \in Workers : Gives(request'[w], o)
      BY <2>1, <2>2 DEF OneServes, Settled
    <2>. QED  BY <2>3 DEF Settled, Gives
  <1>. QED  BY <1>1, <1>2, <1>3, <1>4 DEF OneServes

LEMMA QuietFinish ==
    ASSUME Typed, OneServes, One \in Workers, UNCHANGED <<org, dataset, member>>, Finish(One),
           \A o \in Orgs : Gives(request[One], o) => ~ Exists(o)
    PROVE  OneServes'
  <1>1. request'[One] = Resting /\ \A x \in Workers \ {One} : request'[x] = request[x]
    BY DEF Finish, Typed, TypeOK
  <1>2. Knows(request[One])'
    BY <1>1 DEF Knows, Resting
  <1>. QED  BY <1>1, <1>2, QuietStep

\* The request is done, and the tables are right.
LEMMA DoneStep ==
    ASSUME Typed, OneServes, One \in Workers, Finish(One),
           \A o \in Orgs : Exists(o)' => HasMember(o)',
           Unique', MemberIsOwner'
    PROVE  OneServes'
  <1>1. \A x \in Workers : request'[x] = Resting
    BY DEF Finish, Typed, TypeOK, OneServes
  <1>2. \A x \in Workers : Knows(request[x])'
    BY <1>1 DEF Knows, Resting
  <1>3. Settled'
    BY DEF Settled
  <1>. QED  BY <1>1, <1>2, <1>3 DEF OneServes

\* Requests that neither create nor purge an organization.
LEMMA OthersGive ==
    ASSUME OneServes, One \in Workers,
           request[One].kind \notin {"create_org", "purge_org"}
    PROVE  \A o \in Orgs : Exists(o) => HasMember(o)
  BY DEF OneServes, Settled, Gives, Resting

-----------------------------------------------------------------------------
(* The steps of the one that serves.                                       *)

LEMMA AskServes ==
    ASSUME Typed, OneServes, One \in Workers, ~ ByName,
           AskUpdate(One) \/ AskDatasetDelete(One) \/ AskOrg(One) \/ AskCreate(One)
             \/ AskMember(One)
    PROVE  OneServes'
  <1>0. \A n \in {FALSE, ByName} : n = FALSE
    BY ChoicesAssumption
  <1>1. PICK r : /\ Begin(One, r)
                 /\ r.pc = "begin" /\ ~ r.byName /\ (r.kind = "create_org" => ~ r.self)
    <2>1. \A k : /\ Asked(k) = [Resting EXCEPT !.pc = "begin", !.kind = k]
                 /\ Asked(k).pc = "begin" /\ Asked(k).kind = k
                 /\ Asked(k).byName = FALSE /\ Asked(k).self = FALSE
      BY DEF Asked, Resting
    <2>2. CASE AskUpdate(One)
      <3>1. PICK d \in Datasets, o \in Orgs \cup {NoOrg}, s \in {"active", "deleted"} :
              Begin(One, [Asked("update") EXCEPT !.object = d, !.org = o, !.state = s])
        BY <2>2 DEF AskUpdate
      <3>. DEFINE r == [Asked("update") EXCEPT !.object = d, !.org = o, !.state = s]
      <3>2. r.pc = "begin" /\ ~ r.byName /\ r.self = FALSE
        BY DEF Asked, Resting
      <3>. QED  BY <3>1, <3>2
    <2>3. CASE AskDatasetDelete(One)
      <3>1. PICK d \in Datasets, n \in {FALSE, ByName} :
              Begin(One, [Asked("delete_dataset") EXCEPT !.object = d, !.byName = n])
        BY <2>3 DEF AskDatasetDelete
      <3>. DEFINE r == [Asked("delete_dataset") EXCEPT !.object = d, !.byName = n]
      <3>2. r.pc = "begin" /\ ~ r.byName /\ r.self = FALSE
        BY <1>0 DEF Asked, Resting
      <3>. QED  BY <3>1, <3>2
    <2>4. CASE AskOrg(One)
      <3>1. PICK o \in Orgs, n \in {FALSE, ByName}, k \in {"delete_org", "purge_org"} :
              Begin(One, [Asked(k) EXCEPT !.org = o, !.byName = n])
        BY <2>4 DEF AskOrg
      <3>. DEFINE r == [Asked(k) EXCEPT !.org = o, !.byName = n]
      <3>2. r.pc = "begin" /\ ~ r.byName /\ r.self = FALSE
        BY <1>0 DEF Asked, Resting
      <3>. QED  BY <3>1, <3>2
    <2>5. CASE AskCreate(One)
      <3>1. PICK u \in Users, o \in Orgs :
              Begin(One, [Asked("create_org") EXCEPT !.object = u, !.org = o,
                                                     !.capacity = "admin"])
        BY <2>5 DEF AskCreate
      <3>. DEFINE r == [Asked("create_org") EXCEPT !.object = u, !.org = o,
                                                   !.capacity = "admin"]
      <3>2. r.pc = "begin" /\ ~ r.byName /\ r.self = FALSE
        BY DEF Asked, Resting
      <3>. QED  BY <3>1, <3>2
    <2>6. CASE AskMember(One)
      <3>1. PICK u \in Users, o \in Orgs :
              \/ \E c \in Roles, s \in BOOLEAN :
                   Begin(One, [Asked("add") EXCEPT !.object = u, !.org = o,
                                                   !.capacity = c, !.self = s])
              \/ Begin(One, [Asked("remove") EXCEPT !.object = u, !.org = o])
        BY <2>6 DEF AskMember
      <3>2. ASSUME NEW c \in Roles, NEW s \in BOOLEAN
            PROVE  LET r == [Asked("add") EXCEPT !.object = u, !.org = o,
                                                 !.capacity = c, !.self = s]
                   IN r.pc = "begin" /\ ~ r.byName /\ r.kind = "add"
        BY DEF Asked, Resting
      <3>3. LET r == [Asked("remove") EXCEPT !.object = u, !.org = o]
            IN r.pc = "begin" /\ ~ r.byName /\ r.kind = "remove"
        BY DEF Asked, Resting
      <3>. QED  BY <3>1, <3>2, <3>3
    <2>. QED  BY <2>2, <2>3, <2>4, <2>5, <2>6
  <1>2. /\ request'[One] = r /\ \A x \in Workers \ {One} : request'[x] = request[x]
        /\ UNCHANGED <<org, dataset, member>>
        /\ request[One].pc = "idle"
    BY <1>1 DEF Begin, Typed, TypeOK
  <1>3. Knows(request[One])'
    BY <1>1, <1>2 DEF Knows
  <1>4. \A o \in Orgs : ~ Gives(request[One], o)
    BY <1>2 DEF OneServes, Knows, Gives
  <1>. QED  BY <1>2, <1>3, <1>4, QuietStep

LEMMA FailServes ==
    ASSUME Typed, OneServes, One \in Workers, ~ MayStop,
           Missing(One) \/ Stale(One) \/ Stop(One)
    PROVE  OneServes'
  <1>1. UNCHANGED <<org, dataset, member>> /\ Finish(One)
    BY DEF Missing, Stale, Stop
  <1>. DEFINE q == request[One]
  <1>2. Knows(q)
    BY DEF OneServes
  <1>3. CASE Missing(One)
    BY <1>1, <1>3, QuietFinish DEF Missing, Gives
  <1>4. CASE Stale(One)
    <2>1. CASE q.kind = "create_org"
      <3>1. Touched(q) \subseteq Seen(q) /\ Seen(q) \subseteq Inserted
        BY <1>2, <1>4, <2>1 DEF Stale, Touched, Knows, Reads
      <3>2. Exists(q.org)
        BY <1>2, <1>4, <2>1 DEF Stale, Knows
      <3>. QED  BY <1>4, <2>1, <3>1, <3>2 DEF Stale, Fails
    <2>2. CASE q.kind # "create_org"
      <3>1. \A o \in Orgs : ~ Gives(q, o)
        BY <1>4, <2>2 DEF Stale, Gives
      <3>. QED  BY <1>1, <3>1, QuietFinish
    <2>. QED  BY <2>1, <2>2
  <1>5. CASE Stop(One)
    BY <1>5 DEF Stop
  <1>. QED  BY <1>3, <1>4, <1>5

\* A request that has begun loads rows.
LEMMA LoadServes ==
    ASSUME Typed, OneServes, One \in Workers, UNCHANGED <<org, dataset, member>>,
           \A x \in Workers \ {One} : request'[x] = request[x],
           request[One].kind = "create_org" => Exists(request[One].org),
           request'[One].kind = request[One].kind, request'[One].org = request[One].org,
           request'[One].byName = request[One].byName, request'[One].self = request[One].self,
           request'[One].pc = "read", request[One].pc \in {"begin", "committed"},
           request[One].kind = "purge_org" => request[One].pc = "begin",
           request[One].kind # "none",
           Reads(request'[One])
    PROVE  OneServes'
  <1>. DEFINE r == request'[One]
  <1>1. Reads(request[One])'
    BY DEF Reads, Seen, Inserted, Active, RowsOf, Owned
  <1>2. Knows(request[One])
    BY DEF OneServes
  <1>3. Knows(request[One])'
    BY <1>1, <1>2 DEF Knows, Exists
  <1>4. \A o \in Orgs : Gives(request[One], o) => Gives(request'[One], o)
    BY DEF Gives
  <1>. QED  BY <1>3, <1>4, QuietStep

LEMMA ReadServes ==
    ASSUME Typed, OneServes, One \in Workers,
           ReadUpdate(One) \/ ReadDatasetDelete(One) \/ ReadOrg(One) \/ ReadAdd(One)
             \/ ReadRemove(One)
    PROVE  OneServes'
  <1>. DEFINE q == request[One]
              r == request'[One]
  <1>1. UNCHANGED <<org, dataset, member>>
    BY DEF ReadUpdate, ReadDatasetDelete, ReadOrg, ReadAdd, ReadRemove
  <1>2. q \in Request /\ Proper(q) /\ Knows(q)
    BY RequestTyped DEF OneServes
  <1>3. ASSUME NEW ids \in SUBSET Inserted, Load(One, ids),
               q.kind \in {"delete_dataset", "add", "create_org", "remove"},
               q.pc = IF q.kind = "create_org" THEN "committed" ELSE "begin",
               q.kind = "delete_dataset" =>
                 ids = Active({i \in Inserted : member[i].object = q.object}),
               q.kind \in {"add", "create_org"} =>
                 /\ ids \subseteq RowsOf(q.object, q.org)
                 /\ ids = {} => RowsOf(q.object, q.org) = {}
                 /\ \A i, j \in ids : i = j
                 /\ ids \subseteq Active(ids) \/ Active(RowsOf(q.object, q.org)) = {},
               q.kind = "remove" => ids # {} /\ ids \subseteq Active(RowsOf(q.object, q.org))
        PROVE  OneServes'
    <2>1. /\ \A x \in Workers \ {One} : request'[x] = request[x]
          /\ r = [q EXCEPT !.pc = "read", !.seen = Rowset(ids)]
      BY <1>3 DEF Load, Typed, TypeOK
    <2>2. /\ r.kind = q.kind /\ r.org = q.org /\ r.object = q.object /\ r.byName = q.byName
          /\ r.self = q.self /\ r.pc = "read" /\ r.seen = Rowset(ids)
      BY <1>2, <2>1 DEF Request
    <2>. HIDE DEF r
    <2>3. Seen(r) = ids /\ \A i \in ids : r.seen[i] = member[i]
      BY <2>2, SeenRowset
    <2>4. Reads(r)
      BY <1>3, <2>2, <2>3 DEF Reads
    <2>5. q.kind = "create_org" => Exists(q.org)
      BY <1>2, <1>3 DEF Knows
    <2>. QED  BY <1>1, <1>3, <2>1, <2>2, <2>4, <2>5, LoadServes DEF r
  <1>4. CASE ReadUpdate(One)
    <2>. DEFINE ids == {i \in Inserted : member[i].object = q.object}
    <2>1. /\ \A x \in Workers \ {One} : request'[x] = request[x]
          /\ r = [q EXCEPT !.pc = "read", !.was = dataset[q.object], !.seen = Rowset(ids)]
          /\ q.kind = "update" /\ q.pc = "begin"
      BY <1>4 DEF ReadUpdate, At, Typed, TypeOK
    <2>. HIDE DEF ids
    <2>2. /\ r.kind = q.kind /\ r.org = q.org /\ r.object = q.object /\ r.byName = q.byName
          /\ r.self = q.self /\ r.pc = "read" /\ r.seen = Rowset(ids) /\ r.was = dataset[q.object]
      BY <1>2, <2>1 DEF Request
    <2>. HIDE DEF r
    <2>5. ids \in SUBSET Inserted
      BY DEF ids
    <2>3. Seen(r) = ids /\ \A i \in ids : r.seen[i] = member[i]
      BY <2>2, <2>5, SeenRowset
    <2>4. Reads(r)
      BY <2>1, <2>2, <2>3, <2>5 DEF Reads, ids
    <2>. QED  BY <1>1, <2>1, <2>2, <2>4, LoadServes DEF r
  <1>5. CASE ReadDatasetDelete(One)
    <2>. DEFINE ids == Active({i \in Inserted : member[i].object = q.object})
    <2>1. Load(One, ids) /\ q.kind = "delete_dataset" /\ q.pc = "begin"
      BY <1>2, <1>5 DEF ReadDatasetDelete, At, Knows
    <2>2. ids \in SUBSET Inserted
      BY DEF Active
    <2>. HIDE DEF ids
    <2>. QED  BY <1>3, <2>1, <2>2 DEF ids
  <1>6. CASE ReadOrg(One)
    <2>. DEFINE rows == {i \in Inserted : member[i].org = q.org}
                ids == IF q.kind = "purge_org" THEN rows ELSE Active(rows)
    <2>1. q.kind \in {"delete_org", "purge_org"} /\ q.pc = "begin"
      BY <1>6 DEF ReadOrg, At
    <2>2. CASE Finish(One)
      BY <1>1, <2>1, <2>2, QuietFinish DEF Gives
    <2>3. CASE ~ Finish(One)
      <3>1. /\ \A x \in Workers \ {One} : request'[x] = request[x]
            /\ r = [q EXCEPT !.pc = "read", !.owned = Owned(q.org), !.seen = Rowset(ids)]
        BY <1>2, <1>6, <2>3 DEF ReadOrg, Knows, Typed, TypeOK
      <3>2. ids \in SUBSET Inserted
        BY DEF Active
      <3>. HIDE DEF ids
      <3>3. /\ r.kind = q.kind /\ r.org = q.org /\ r.object = q.object /\ r.byName = q.byName
            /\ r.self = q.self /\ r.pc = "read" /\ r.seen = Rowset(ids) /\ r.owned = Owned(q.org)
        BY <1>2, <3>1 DEF Request
      <3>. HIDE DEF r
      <3>4. Seen(r) = ids /\ \A i \in ids : r.seen[i] = member[i]
        BY <3>2, <3>3, SeenRowset
      <3>5. Reads(r)
        BY <2>1, <3>2, <3>3, <3>4 DEF Reads, ids
      <3>. QED  BY <1>1, <2>1, <3>1, <3>3, <3>5, LoadServes DEF r
    <2>. QED  BY <2>2, <2>3
  <1>7. CASE ReadAdd(One)
    <2>. DEFINE all == RowsOf(q.object, q.org)
    <2>1. /\ q.kind \in {"add", "create_org"}
          /\ q.pc = IF q.kind = "create_org" THEN "committed" ELSE "begin"
          /\ Exists(q.org)
      BY <1>7 DEF ReadAdd, At
    <2>2. all \in SUBSET Inserted
      BY DEF RowsOf
    <2>3. CASE all = {}
      <3>1. Load(One, {})
        BY <1>7, <2>3 DEF ReadAdd
      <3>. QED  BY <1>3, <2>1, <2>3, <3>1
    <2>4. CASE all # {}
      <3>1. PICK i \in IF Active(all) = {} THEN all ELSE Active(all) :
                 IF Revokes(q, i) THEN Finish(One) ELSE Load(One, {i})
        BY <1>7, <2>4 DEF ReadAdd
      <3>2. i \in all /\ (Active(all) = {} \/ {i} \subseteq Active({i}))
        BY <3>1 DEF Active
      <3>3. CASE Load(One, {i})
        BY <1>3, <2>1, <2>2, <2>4, <3>2, <3>3
      <3>4. CASE Finish(One) /\ Revokes(q, i)
        <4>1. q.kind = "add"
          BY <1>2, <2>1, <3>4 DEF Revokes, Knows
        <4>. QED  BY <1>1, <3>4, <4>1, QuietFinish DEF Gives
      <3>. QED  BY <3>1, <3>3, <3>4
    <2>. QED  BY <2>3, <2>4
  <1>8. CASE ReadRemove(One)
    <2>. DEFINE all == Active(RowsOf(q.object, q.org))
    <2>1. q.kind = "remove" /\ q.pc = "begin"
      BY <1>8 DEF ReadRemove, At
    <2>2. all \in SUBSET Inserted
      BY DEF RowsOf, Active
    <2>3. CASE Finish(One)
      BY <1>1, <2>1, <2>3, QuietFinish DEF Gives
    <2>4. CASE \E i \in all : Load(One, {i})
      <3>1. PICK i \in all : Load(One, {i})
        BY <2>4
      <3>. HIDE DEF all
      <3>. QED  BY <1>3, <2>1, <2>2, <3>1 DEF all
    <2>. QED  BY <1>8, <2>3, <2>4 DEF ReadRemove
  <1>. QED  BY <1>4, <1>5, <1>6, <1>7, <1>8

\* Rows are deleted, owners and organizations stay.
LEMMA DeleteServes ==
    ASSUME Typed, OneServes, One \in Workers,
           WriteDatasetDelete(One) \/ WriteOrgDelete(One) \/ WriteRemove(One)
    PROVE  OneServes'
  <1>. DEFINE q == request[One]
  <1>1. q \in Request /\ Proper(q) /\ Knows(q)
    BY RequestTyped DEF OneServes
  <1>2. q.kind \in {"delete_dataset", "delete_org", "remove"} /\ q.pc = "read"
    BY DEF WriteDatasetDelete, WriteOrgDelete, WriteRemove, Writes, At
  <1>3. Reads(q) /\ Seen(q) \in SUBSET Inserted
    BY <1>1, <1>2 DEF Knows, Reads
  <1>4. member' = Set(Seen(q), "deleted") /\ Finish(One)
    BY DEF WriteDatasetDelete, WriteOrgDelete, WriteRemove
  <1>5. /\ Inserted' = Inserted
        /\ Active(Inserted)' = Active(Inserted) \ Seen(q)
        /\ \A i \in Inserted :
             member'[i].object = member[i].object /\ member'[i].org = member[i].org
    <2>. HIDE DEF q
    <2>. QED  BY <1>3, <1>4, SetRows
  <1>6. Unique'
    <2>1. Active(Inserted) \subseteq Inserted
      BY DEF Active
    <2>. QED  BY <1>5, <2>1 DEF OneServes, Unique
  <1>7. \A o \in Orgs : Exists(o)' => Exists(o)
    <2>1. CASE WriteOrgDelete(One)
      <3>1. q.kind = "delete_org" /\ Exists(q.org)
        BY <2>1, WritesInserted DEF WriteOrgDelete
      <3>. QED  BY <2>1, <3>1 DEF WriteOrgDelete, Exists, Typed, TypeOK
    <2>2. CASE ~ WriteOrgDelete(One)
      BY <2>2 DEF WriteDatasetDelete, WriteRemove, Exists
    <2>. QED  BY <2>1, <2>2
  <1>8. \A o \in Orgs : HasMember(o) => HasMember(o)'
    BY <1>5 DEF HasMember
  <1>9. \A o \in Orgs : Exists(o)' => HasMember(o)'
    BY <1>2, <1>7, <1>8, OthersGive
  <1>10. ASSUME NEW i \in Active(Inserted)', member'[i].object \in Datasets
         PROVE  dataset'[member'[i].object].owner = member'[i].org
    <2>. DEFINE d == member[i].object
    <2>1. /\ i \in Active(Inserted) /\ i \notin Seen(q) /\ i \in Inserted
          /\ member'[i].object = d /\ member'[i].org = member[i].org /\ d \in Datasets
      BY <1>5, <1>10 DEF Active
    <2>2. dataset[d].owner = member[i].org
      BY <2>1 DEF OneServes, MemberIsOwner
    <2>3. CASE WriteDatasetDelete(One)
      BY <2>1, <2>2, <2>3 DEF WriteDatasetDelete, Typed, TypeOK, Dataset
    <2>4. CASE WriteRemove(One)
      BY <2>1, <2>2, <2>4 DEF WriteRemove
    <2>5. CASE WriteOrgDelete(One)
      <3>1. q.kind = "delete_org"
        BY <2>5 DEF WriteOrgDelete, Writes, At
      <3>2. member[i].org # q.org
        BY <1>3, <2>1, <3>1 DEF Reads, Active
      <3>3. d \notin q.owned
        BY <1>3, <2>2, <3>1, <3>2 DEF Reads, Owned
      <3>. QED  BY <2>1, <2>2, <2>5, <3>3 DEF WriteOrgDelete, Disowned
    <2>. QED  BY <2>3, <2>4, <2>5
  <1>11. MemberIsOwner'
    BY <1>10 DEF MemberIsOwner
  <1>. QED  BY <1>4, <1>6, <1>9, <1>11, DoneStep

\* A row is inserted where there is none.
LEMMA InsertRows ==
    ASSUME Typed, NEW rows \in [Rows -> Member \cup {Unused}],
           NEW x \in Objects, NEW o \in Orgs, NEW c \in Capacities,
           Insert(rows, x, o, c)
    PROVE  \E k \in Rows :
             /\ member[k] = Unused /\ k \notin Inserted
             /\ member' = [rows EXCEPT ![k] = [object |-> x, org |-> o, capacity |-> c,
                                               state |-> "active"]]
             /\ member'[k] # Unused
             /\ member'[k].object = x /\ member'[k].org = o /\ member'[k].state = "active"
             /\ \A i \in Rows \ {k} : member'[i] = rows[i]
  <1>. DEFINE new == [object |-> x, org |-> o, capacity |-> c, state |-> "active"]
  <1>1. PICK k \in Rows : member[k] = Unused /\ member' = [rows EXCEPT ![k] = new]
    BY DEF Insert
  <1>2. new \in Member /\ new.object = x /\ new.org = o /\ new.state = "active"
    BY DEF Member
  <1>3. k \notin Inserted
    BY <1>1 DEF Inserted
  <1>. HIDE DEF new
  <1>4. member'[k] = new /\ \A i \in Rows \ {k} : member'[i] = rows[i]
    BY <1>1
  <1>5. member'[k] # Unused
    BY <1>2, <1>4, MembersAreUsed
  <1>. QED  BY <1>1, <1>2, <1>3, <1>4, <1>5 DEF new

LEMMA UpdateServes ==
    ASSUME Typed, OneServes, One \in Workers, WriteUpdate(One)
    PROVE  OneServes'
  <1>. DEFINE q == request[One]
              d == q.object
              T == Touched(q)
              rows == Untouched(q)
  <1>1. q \in Request /\ Proper(q) /\ Knows(q)
    BY RequestTyped DEF OneServes
  <1>2. q.kind = "update" /\ q.pc = "read" /\ Finish(One) /\ org' = org
    BY DEF WriteUpdate, Writes, At
  <1>3. d \in Datasets /\ d \in Objects /\ q.org \in Orgs \cup {NoOrg}
    BY <1>1, <1>2 DEF Proper, Request, Objects
  <1>4. Reads(q)
    BY <1>1, <1>2 DEF Knows
  <1>5. /\ Seen(q) = {i \in Inserted : member[i].object = d}
        /\ \A i \in Seen(q) : q.seen[i] = member[i]
        /\ q.was = dataset[d]
    BY <1>2, <1>4 DEF Reads
  <1>6. T = {i \in Active(Inserted) : member[i].object = d /\ member[i].org # q.org}
    BY <1>2, <1>5 DEF Touched, Ours, Active
  <1>7. T \in SUBSET Inserted
    BY <1>6 DEF Active
  <1>8. Inserted \subseteq Rows /\ \A i \in Inserted : member[i] \in Member /\ member[i] # Unused
    BY InsertedTyped
  <1>9. /\ rows \in [Rows -> Member \cup {Unused}]
        /\ \A i \in T : rows[i].state = "deleted" /\ rows[i] # Unused
                          /\ rows[i].object = member[i].object /\ rows[i].org = member[i].org
        /\ \A i \in Rows \ T : rows[i] = member[i]
    <2>1. \A i \in T : rows[i] = [member[i] EXCEPT !.state = "deleted"] /\ member[i] \in Member
      BY <1>7, <1>8 DEF Untouched, Set
    <2>2. \A i \in T : rows[i] \in Member /\ rows[i].state = "deleted"
                          /\ rows[i].object = member[i].object /\ rows[i].org = member[i].org
      BY <2>1 DEF Member
    <2>3. \A i \in Rows \ T : rows[i] = member[i]
      BY DEF Untouched, Set
    <2>4. rows = [i \in Rows |-> rows[i]] /\ \A i \in Rows : member[i] \in Member \cup {Unused}
      BY DEF Untouched, Set, Typed, TypeOK
    <2>. HIDE DEF rows, T
    <2>5. \A i \in Rows : rows[i] \in Member \cup {Unused}
      BY <2>2, <2>3, <2>4
    <2>. QED  BY <2>2, <2>3, <2>4, <2>5, MembersAreUsed
  <1>10. dataset'[d].owner = q.org
    <2>1. dataset'[d].owner = IF q.org = q.was.owner THEN dataset[d].owner ELSE q.org
      BY <1>3 DEF WriteUpdate, Typed, TypeOK
    <2>. QED  BY <1>5, <2>1
  <1>11. \A e \in Datasets \ {d} : dataset'[e] = dataset[e]
    BY DEF WriteUpdate, Typed, TypeOK
  <1>. HIDE DEF rows, T
  \* All rows of the table after the step: the old ones, and perhaps one.
  <1>12. \E new \in SUBSET Rows :
           /\ \A i, j \in new : i = j
           /\ \A i \in new : /\ member'[i].object = d /\ member'[i].org = q.org
                             /\ q.org \in Orgs
                             /\ \A j \in Inserted : ~ (member[j].object = d /\ member[j].org = q.org)
           /\ Inserted' = Inserted \cup new
           /\ Active(Inserted)' = (Active(Inserted) \ T) \cup new
           /\ \A i \in Inserted :
                /\ i \notin new
                /\ member'[i].object = member[i].object /\ member'[i].org = member[i].org
    <2>1. CASE Inserts(q)
      <3>1. q.org \in Orgs /\ Ours(q) = {} /\ "organization" \in Capacities
        BY <1>2, <1>3, <2>1 DEF Inserts, Capacities
      <3>2. Insert(rows, d, q.org, "organization")
        BY <2>1 DEF WriteUpdate, rows
      <3>3. PICK k \in Rows :
             /\ member[k] = Unused /\ k \notin Inserted
             /\ member'[k] # Unused
             /\ member'[k].object = d /\ member'[k].org = q.org /\ member'[k].state = "active"
             /\ \A i \in Rows \ {k} : member'[i] = rows[i]
        BY <1>3, <1>9, <3>1, <3>2, InsertRows
      <3>4. \A j \in Inserted : ~ (member[j].object = d /\ member[j].org = q.org)
        BY <1>5, <3>1 DEF Ours
      <3>5. Inserted' = Inserted \cup {k}
        BY <1>7, <1>8, <1>9, <3>3 DEF Inserted
      <3>6. Active(Inserted)' = (Active(Inserted) \ T) \cup {k}
        BY <1>7, <1>8, <1>9, <3>3, <3>5 DEF Active
      <3>7. \A i \in Inserted :
              member'[i].object = member[i].object /\ member'[i].org = member[i].org
        BY <1>8, <1>9, <3>3
      <3>. WITNESS {k} \in SUBSET Rows
      <3>. QED  BY <3>1, <3>3, <3>4, <3>5, <3>6, <3>7
    <2>2. CASE ~ Inserts(q)
      <3>1. member' = rows
        BY <2>2 DEF WriteUpdate, rows
      <3>2. Inserted' = Inserted
        BY <1>7, <1>8, <1>9, <3>1 DEF Inserted
      <3>3. Active(Inserted)' = Active(Inserted) \ T
        BY <1>7, <1>8, <1>9, <3>1, <3>2 DEF Active
      <3>4. \A i \in Inserted :
              member'[i].object = member[i].object /\ member'[i].org = member[i].org
        BY <1>8, <1>9, <3>1
      <3>. WITNESS {} \in SUBSET Rows
      <3>. QED  BY <3>2, <3>3, <3>4
    <2>. QED  BY <2>1, <2>2
  <1>13. PICK new \in SUBSET Rows :
           /\ \A i, j \in new : i = j
           /\ \A i \in new : /\ member'[i].object = d /\ member'[i].org = q.org
                             /\ q.org \in Orgs
                             /\ \A j \in Inserted : ~ (member[j].object = d /\ member[j].org = q.org)
           /\ Inserted' = Inserted \cup new
           /\ Active(Inserted)' = (Active(Inserted) \ T) \cup new
           /\ \A i \in Inserted :
                /\ i \notin new
                /\ member'[i].object = member[i].object /\ member'[i].org = member[i].org
    BY <1>12
  <1>14. Active(Inserted) \subseteq Inserted
    BY DEF Active
  <1>15. Unique'
    BY <1>13, <1>14 DEF OneServes, Unique
  <1>16. \A o \in Orgs : Exists(o)' => HasMember(o)'
    <2>1. \A o \in Orgs : HasMember(o) => HasMember(o)'
      BY <1>13 DEF HasMember
    <2>2. \A o \in Orgs : Exists(o)' => Exists(o)
      BY <1>2 DEF Exists
    <2>. QED  BY <1>2, <2>1, <2>2, OthersGive
  <1>17. ASSUME NEW i \in Active(Inserted)', member'[i].object \in Datasets
         PROVE  dataset'[member'[i].object].owner = member'[i].org
    <2>1. CASE i \in new
      BY <1>10, <1>13, <2>1
    <2>2. CASE i \in Active(Inserted) /\ i \notin T
      <3>1. /\ member'[i].object = member[i].object /\ member'[i].org = member[i].org
            /\ dataset[member[i].object].owner = member[i].org
        BY <1>13, <1>14, <1>17, <2>2 DEF OneServes, MemberIsOwner
      <3>2. CASE member[i].object = d
        BY <1>6, <1>10, <2>2, <3>1, <3>2
      <3>3. CASE member[i].object # d
        BY <1>11, <1>17, <3>1, <3>3
      <3>. QED  BY <3>2, <3>3
    <2>. QED  BY <1>13, <1>17, <2>1, <2>2
  <1>18. MemberIsOwner'
    BY <1>17 DEF MemberIsOwner
  <1>. QED  BY <1>2, <1>15, <1>16, <1>18, DoneStep

\* A purge gives its datasets and rows away in the first step, or in the second.
LEMMA PurgedRows ==
    ASSUME Typed, OneServes, NEW o \in Orgs, NEW owned \in SUBSET Datasets,
           \A d \in owned : dataset[d].owner = o,
           dataset' = Disowned(owned),
           member' = Set({i \in Inserted : member[i].org = o}, "purged")
    PROVE  /\ Unique' /\ MemberIsOwner'
           /\ \A p \in Orgs \ {o} : HasMember(p) => HasMember(p)'
  <1>. DEFINE rows == {i \in Inserted : member[i].org = o}
  <1>1. /\ Inserted' = Inserted \ rows
        /\ Active(Inserted)' = Active(Inserted) \ rows
        /\ \A i \in Inserted :
             member'[i].object = member[i].object /\ member'[i].org = member[i].org
    <2>1. rows \in SUBSET Inserted /\ member' = Set(rows, "purged")
      OBVIOUS
    <2>. HIDE DEF rows
    <2>. QED  BY <2>1, SetRows
  <1>2. Active(Inserted) \subseteq Inserted
    BY DEF Active
  <1>3. Unique'
    BY <1>1, <1>2 DEF OneServes, Unique
  <1>4. ASSUME NEW i \in Active(Inserted)', member'[i].object \in Datasets
        PROVE  dataset'[member'[i].object].owner = member'[i].org
    <2>1. /\ i \in Active(Inserted) /\ member[i].org # o
          /\ member'[i].object = member[i].object /\ member'[i].org = member[i].org
      BY <1>1, <1>2, <1>4
    <2>2. dataset[member[i].object].owner = member[i].org
      BY <1>4, <2>1 DEF OneServes, MemberIsOwner
    <2>3. member[i].object \notin owned
      BY <2>1, <2>2
    <2>. QED  BY <1>4, <2>1, <2>2, <2>3 DEF Disowned
  <1>5. MemberIsOwner'
    BY <1>4 DEF MemberIsOwner
  <1>6. \A p \in Orgs \ {o} : HasMember(p) => HasMember(p)'
    BY <1>1 DEF HasMember
  <1>. QED  BY <1>3, <1>5, <1>6

LEMMA PurgeMembersServes ==
    ASSUME Typed, OneServes, One \in Workers, PurgeMembers(One)
    PROVE  OneServes'
  <1>. DEFINE q == request[One]
              r == request'[One]
  <1>1. q \in Request /\ Proper(q) /\ Knows(q)
    BY RequestTyped DEF OneServes
  <1>2. q.kind = "purge_org" /\ q.pc = "read" /\ q.org \in Orgs /\ org' = org
    BY <1>1 DEF PurgeMembers, At, Proper
  <1>3. /\ Seen(q) = {i \in Inserted : member[i].org = q.org}
        /\ q.owned = Owned(q.org)
    BY <1>1, <1>2 DEF Knows, Reads
  <1>4. q.owned \in SUBSET Datasets /\ \A d \in q.owned : dataset[d].owner = q.org
    BY <1>3 DEF Owned
  <1>5. \A x \in Workers \ {One} : request'[x] = Resting
    BY DEF PurgeMembers, OneServes, Typed, TypeOK
  <1>6. /\ r.kind = q.kind /\ r.org = q.org /\ r.byName = q.byName /\ r.pc = "committed"
        /\ IF Seen(q) = {} THEN r.owned = q.owned ELSE r.owned = {}
    BY <1>1 DEF PurgeMembers, Typed, TypeOK, Request
  <1>7. Gives(r, q.org)
    BY <1>2, <1>6 DEF Gives
  <1>8. /\ Unique' /\ MemberIsOwner'
        /\ \A p \in Orgs \ {q.org} : HasMember(p) => HasMember(p)'
        /\ Seen(q) = {} => dataset' = dataset
    <2>1. CASE Seen(q) = {}
      BY <2>1 DEF PurgeMembers, OneServes, Unique, MemberIsOwner, Active, Inserted, HasMember
    <2>2. CASE Seen(q) # {}
      <3>1. dataset' = Disowned(q.owned) /\ member' = Set({i \in Inserted : member[i].org = q.org}, "purged")
        BY <1>3, <2>2 DEF PurgeMembers
      <3>. HIDE DEF q
      <3>. QED  BY <1>2, <1>4, <2>2, <3>1, PurgedRows
    <2>. QED  BY <2>1, <2>2
  <1>9. Knows(request[One])'
    BY <1>1, <1>2, <1>4, <1>6, <1>8 DEF Knows
  <1>10. \A x \in Workers : Knows(request[x])'
    <2>1. ASSUME NEW x \in Workers \ {One} PROVE Knows(request[x])'
      BY <1>5, <2>1 DEF Knows, Resting
    <2>. QED  BY <1>9, <2>1
  <1>11. Settled'
    <2>1. \A p \in Orgs \ {q.org} : Exists(p) => HasMember(p)
      BY <1>2 DEF OneServes, Settled, Gives, Resting
    <2>2. \A p \in Orgs : Exists(p)' => Exists(p)
      BY <1>2 DEF Exists
    <2>4. ASSUME NEW p \in Orgs, Exists(p)'
          PROVE  HasMember(p)' \/ \E w \in Workers : Gives(request[w], p)'
      <3>1. CASE p = q.org
        BY <1>7, <3>1 DEF Gives
      <3>2. CASE p # q.org
        BY <1>8, <2>1, <2>2, <2>4, <3>2
      <3>. QED  BY <3>1, <3>2
    <2>. QED  BY <2>4 DEF Settled
  <1>. QED  BY <1>5, <1>8, <1>10, <1>11 DEF OneServes

LEMMA PurgeGroupServes ==
    ASSUME Typed, OneServes, One \in Workers, PurgeGroup(One)
    PROVE  OneServes'
  <1>. DEFINE q == request[One]
  <1>1. q \in Request /\ Proper(q) /\ Knows(q)
    BY RequestTyped DEF OneServes
  <1>2. q.kind = "purge_org" /\ q.pc = "committed" /\ q.org \in Orgs /\ Finish(One)
    BY <1>1 DEF PurgeGroup, At, Proper
  <1>3. q.owned \in SUBSET Datasets /\ \A d \in q.owned : dataset[d].owner = q.org
    BY <1>1, <1>2 DEF Knows, Request
  <1>4. /\ dataset' = Disowned(q.owned)
        /\ member' = Set({i \in Inserted : member[i].org = q.org}, "purged")
    BY DEF PurgeGroup
  <1>5. /\ Unique' /\ MemberIsOwner'
        /\ \A p \in Orgs \ {q.org} : HasMember(p) => HasMember(p)'
    <2>. HIDE DEF q
    <2>. QED  BY <1>2, <1>3, <1>4, PurgedRows
  <1>6. \A p \in Orgs : Exists(p)' => Exists(p) /\ p # q.org
    BY <1>2 DEF PurgeGroup, Exists, Typed, TypeOK
  <1>7. \A p \in Orgs \ {q.org} : Exists(p) => HasMember(p)
    BY <1>2 DEF OneServes, Settled, Gives, Resting
  <1>. QED  BY <1>2, <1>5, <1>6, <1>7, DoneStep

LEMMA CreateServes ==
    ASSUME Typed, OneServes, One \in Workers, CreateOrg(One)
    PROVE  OneServes'
  <1>. DEFINE q == request[One]
              r == request'[One]
  <1>1. q \in Request /\ Proper(q) /\ Knows(q)
    BY RequestTyped DEF OneServes
  <1>2. /\ q.kind = "create_org" /\ q.pc = "begin" /\ q.org \in Orgs
        /\ org' = [org EXCEPT ![q.org] = "active"]
        /\ UNCHANGED <<dataset, member>>
    BY <1>1 DEF CreateOrg, At, Proper
  <1>3. \A x \in Workers \ {One} : request'[x] = Resting
    BY DEF CreateOrg, OneServes, Typed, TypeOK
  <1>4. /\ r.kind = q.kind /\ r.org = q.org /\ r.byName = q.byName /\ r.self = q.self
        /\ r.pc = "committed"
    BY <1>1 DEF CreateOrg, Typed, TypeOK, Request
  <1>6. Exists(request[One].org)'
    BY <1>2, <1>4 DEF Exists, Typed, TypeOK
  <1>7. Knows(request[One])'
    BY <1>1, <1>2, <1>4, <1>6 DEF Knows
  <1>8. \A x \in Workers : Knows(request[x])'
    <2>1. ASSUME NEW x \in Workers \ {One} PROVE Knows(request[x])'
      BY <1>3, <2>1 DEF Knows, Resting
    <2>. QED  BY <1>7, <2>1
  <1>9. Settled'
    <2>1. \A p \in Orgs \ {q.org} : Exists(p) => HasMember(p)
      BY <1>2 DEF OneServes, Settled, Gives, Resting
    <2>2. \A p \in Orgs \ {q.org} : (Exists(p)' => Exists(p)) /\ (HasMember(p) => HasMember(p)')
      BY <1>2 DEF Exists, HasMember, Inserted, Typed, TypeOK
    <2>3. Gives(r, q.org)
      BY <1>2, <1>4 DEF Gives
    <2>4. ASSUME NEW p \in Orgs, Exists(p)'
          PROVE  HasMember(p)' \/ \E w \in Workers : Gives(request[w], p)'
      <3>1. CASE p = q.org
        BY <2>3, <3>1 DEF Gives
      <3>2. CASE p # q.org
        BY <2>1, <2>2, <2>4, <3>2
      <3>. QED  BY <3>1, <3>2
    <2>. QED  BY <2>4 DEF Settled
  <1>10. Unique' /\ MemberIsOwner'
    BY <1>2 DEF OneServes, Unique, MemberIsOwner, Active, Inserted
  <1>. QED  BY <1>3, <1>8, <1>9, <1>10 DEF OneServes

LEMMA AddServes ==
    ASSUME Typed, OneServes, One \in Workers, WriteAdd(One)
    PROVE  OneServes'
  <1>. DEFINE q == request[One]
              u == q.object
              T == Touched(q)
  <1>1. q \in Request /\ Proper(q) /\ Knows(q)
    BY RequestTyped DEF OneServes
  <1>2. /\ q.kind \in {"add", "create_org"} /\ q.pc = "read" /\ Finish(One)
        /\ UNCHANGED <<org, dataset>>
    BY DEF WriteAdd, Writes, At
  <1>3. u \in Users /\ u \in Objects /\ u \notin Datasets /\ q.org \in Orgs /\ q.capacity \in Capacities
    BY <1>1, <1>2, ObjectsAssumption DEF Proper, Request, Objects, Capacities
  <1>4. /\ Seen(q) \subseteq RowsOf(u, q.org)
        /\ Seen(q) = {} => RowsOf(u, q.org) = {}
        /\ \A i, j \in Seen(q) : i = j
        /\ Seen(q) \subseteq Active(Seen(q)) \/ Active(RowsOf(u, q.org)) = {}
        /\ \A i \in Seen(q) : q.seen[i] = member[i]
    BY <1>1, <1>2 DEF Knows, Reads
  <1>5. T \subseteq Seen(q) /\ RowsOf(u, q.org) \subseteq Inserted
    BY <1>2 DEF Touched, RowsOf
  <1>6. Inserted \subseteq Rows /\ \A i \in Inserted : member[i] \in Member /\ member[i] # Unused
    BY InsertedTyped
  <1>7. Active(Inserted) \subseteq Inserted
    BY DEF Active
  <1>. HIDE DEF T
  \* The rows that are active then, and were not.
  <1>8. \E new \in SUBSET Rows :
           /\ \A i, j \in new : i = j
           /\ \A i \in new : /\ member'[i].object = u /\ member'[i].org = q.org
                             /\ new = {} \/ Active(RowsOf(u, q.org)) = {}
           /\ Inserted' = Inserted \cup new
           /\ Active(Inserted)' = Active(Inserted) \cup new
           /\ \A i \in Inserted :
                member'[i].object = member[i].object /\ member'[i].org = member[i].org
           /\ new # {} \/ RowsOf(u, q.org) # {}
    <2>1. CASE Inserts(q)
      <3>1. Seen(q) = {} /\ RowsOf(u, q.org) = {}
        BY <1>2, <1>4, <2>1 DEF Inserts
      <3>2. Insert(member, u, q.org, q.capacity) /\ member \in [Rows -> Member \cup {Unused}]
        BY <2>1 DEF WriteAdd, Typed, TypeOK
      <3>3. PICK k \in Rows :
             /\ member[k] = Unused /\ k \notin Inserted
             /\ member'[k] # Unused
             /\ member'[k].object = u /\ member'[k].org = q.org /\ member'[k].state = "active"
             /\ \A i \in Rows \ {k} : member'[i] = member[i]
        BY <1>3, <3>2, InsertRows
      <3>4. Inserted' = Inserted \cup {k}
        BY <1>6, <3>3 DEF Inserted
      <3>5. Active(Inserted)' = Active(Inserted) \cup {k}
        BY <1>6, <3>3, <3>4 DEF Active
      <3>6. Active(RowsOf(u, q.org)) = {}
        BY <3>1 DEF Active
      <3>. WITNESS {k} \in SUBSET Rows
      <3>. QED  BY <1>6, <3>3, <3>4, <3>5, <3>6
    <2>2. CASE ~ Inserts(q)
      <3>1. Seen(q) # {}
        BY <1>2, <2>2 DEF Inserts
      <3>2. member' = [i \in Rows |->
              IF i \in T
              THEN [member[i] EXCEPT
                      !.state = IF q.seen[i].state = "active" THEN @ ELSE "active",
                      !.capacity = IF q.seen[i].capacity = q.capacity
                                   THEN @ ELSE q.capacity]
              ELSE member[i]]
        BY <2>2 DEF WriteAdd, T
      <3>3. \A i \in T : /\ member[i] \in Member
                         /\ member'[i] = [member[i] EXCEPT !.state = "active", !.capacity = member'[i].capacity]
                         /\ member'[i].capacity \in Capacities
        <4> SUFFICES ASSUME NEW i \in T
                     PROVE  /\ member[i] \in Member
                            /\ member'[i] = [member[i] EXCEPT !.state = "active", !.capacity = member'[i].capacity]
                            /\ member'[i].capacity \in Capacities
          OBVIOUS
        <4>1. member[i] \in Member /\ i \in Rows /\ q.seen[i] = member[i]
          BY <1>4, <1>5, <1>6
        <4>. QED  BY <1>3, <3>2, <4>1 DEF Member
      <3>4. \A i \in T : /\ member'[i] \in Member /\ member'[i].state = "active"
                         /\ member'[i].object = member[i].object /\ member'[i].org = member[i].org
        <4>1. ASSUME NEW m \in Member, NEW c \in Capacities, NEW n,
                     n = [m EXCEPT !.state = "active", !.capacity = c]
              PROVE  n \in Member /\ n.state = "active" /\ n.object = m.object /\ n.org = m.org
          BY <4>1 DEF Member
        <4>2. ASSUME NEW i \in T
              PROVE  /\ member'[i] \in Member /\ member'[i].state = "active"
                     /\ member'[i].object = member[i].object /\ member'[i].org = member[i].org
          <5>. DEFINE m == member[i]
                      n == member'[i]
                      c == member'[i].capacity
          <5>1. m \in Member /\ c \in Capacities /\ n = [m EXCEPT !.state = "active", !.capacity = c]
            BY <3>3, <4>2
          <5>2. n \in Member /\ n.state = "active" /\ n.object = m.object /\ n.org = m.org
            <6>. HIDE DEF m, n, c
            <6>. QED  BY <4>1, <5>1
          <5>. QED  BY <5>2
        <4>. QED  BY <4>2
      <3>5. \A i \in Rows \ T : member'[i] = member[i]
        BY <3>2
      <3>6. T \subseteq Inserted
        BY <1>4, <1>5
      <3>. DEFINE new == T \ Active(Inserted)
      <3>7. Inserted' = Inserted
        BY <1>6, <3>4, <3>5, <3>6, MembersAreUsed DEF Inserted
      <3>8. Active(Inserted)' = Active(Inserted) \cup new
        BY <1>6, <3>4, <3>5, <3>6, <3>7 DEF Active
      <3>9. \A i \in Inserted :
              member'[i].object = member[i].object /\ member'[i].org = member[i].org
        BY <1>6, <3>4, <3>5
      <3>10. \A i \in new : /\ member'[i].object = u /\ member'[i].org = q.org
                            /\ Active(RowsOf(u, q.org)) = {}
        <4>1. \A i \in new : i \in RowsOf(u, q.org) /\ i \notin Active(Seen(q)) /\ i \in Seen(q)
          BY <1>4, <1>5, <3>6 DEF Active
        <4>2. \A i \in RowsOf(u, q.org) : member[i].object = u /\ member[i].org = q.org
          BY DEF RowsOf
        <4>. QED  BY <1>4, <3>6, <3>9, <4>1, <4>2
      <3>11. RowsOf(u, q.org) # {} /\ new \subseteq Inserted /\ new \in SUBSET Rows
        BY <1>4, <1>6, <3>1, <3>6
      <3>12. \A i, j \in new : i = j
        BY <1>4, <1>5
      <3>. HIDE DEF new
      <3>. USE <3>11
      <3>. WITNESS new \in SUBSET Rows
      <3>. QED  BY <3>7, <3>8, <3>9, <3>10, <3>11, <3>12
    <2>. QED  BY <2>1, <2>2
  <1>9. PICK new \in SUBSET Rows :
           /\ \A i, j \in new : i = j
           /\ \A i \in new : /\ member'[i].object = u /\ member'[i].org = q.org
                             /\ new = {} \/ Active(RowsOf(u, q.org)) = {}
           /\ Inserted' = Inserted \cup new
           /\ Active(Inserted)' = Active(Inserted) \cup new
           /\ \A i \in Inserted :
                member'[i].object = member[i].object /\ member'[i].org = member[i].org
           /\ new # {} \/ RowsOf(u, q.org) # {}
    BY <1>8
  <1>10. ASSUME NEW i \in new, NEW j \in Active(Inserted), member[j].object = u, member[j].org = q.org
         PROVE  FALSE
    <2>1. j \in Active(RowsOf(u, q.org))
      BY <1>7, <1>10 DEF Active, RowsOf
    <2>. QED  BY <1>9, <1>10, <2>1
  <1>11. Unique'
    BY <1>7, <1>9, <1>10 DEF OneServes, Unique
  <1>12. MemberIsOwner'
    <2>1. \A i \in Active(Inserted)' :
            member'[i].object \in Datasets => dataset'[member'[i].object].owner = member'[i].org
      BY <1>2, <1>3, <1>7, <1>9 DEF OneServes, MemberIsOwner
    <2>. QED  BY <2>1 DEF MemberIsOwner
  <1>13. \E i \in Inserted' : member'[i].org = q.org /\ member'[i].object \in Users
    <2>1. CASE new # {}
      BY <1>3, <1>9, <2>1
    <2>2. CASE RowsOf(u, q.org) # {}
      BY <1>3, <1>9, <2>2 DEF RowsOf
    <2>. QED  BY <1>9, <2>1, <2>2
  <1>14. \A p \in Orgs : Exists(p)' => HasMember(p)'
    <2>1. \A p \in Orgs \ {q.org} : Exists(p) => HasMember(p)
      BY <1>2 DEF OneServes, Settled, Gives, Resting
    <2>2. \A p \in Orgs : (Exists(p)' => Exists(p)) /\ (HasMember(p) => HasMember(p)')
      BY <1>2, <1>9 DEF Exists, HasMember
    <2>. QED  BY <1>13, <2>1, <2>2 DEF HasMember
  <1>. QED  BY <1>2, <1>11, <1>12, <1>14, DoneStep

\* Whoever is not served takes no step.
LEMMA OnlyOne ==
    ASSUME OneServes, Typed, OneByOne
    PROVE  /\ One \in Workers
           /\ \/ AskUpdate(One) \/ AskDatasetDelete(One) \/ AskOrg(One) \/ AskCreate(One)
              \/ AskMember(One)
              \/ Missing(One) \/ Stale(One) \/ Stop(One)
              \/ ReadUpdate(One) \/ WriteUpdate(One)
              \/ ReadDatasetDelete(One) \/ WriteDatasetDelete(One)
              \/ ReadOrg(One) \/ WriteOrgDelete(One) \/ PurgeMembers(One) \/ PurgeGroup(One)
              \/ CreateOrg(One) \/ ReadAdd(One) \/ WriteAdd(One)
              \/ ReadRemove(One) \/ WriteRemove(One)
  <1>1. PICK w \in Workers :
              \/ AskUpdate(w) \/ AskDatasetDelete(w) \/ AskOrg(w) \/ AskCreate(w)
              \/ AskMember(w)
              \/ Missing(w) \/ Stale(w) \/ Stop(w)
              \/ ReadUpdate(w) \/ WriteUpdate(w)
              \/ ReadDatasetDelete(w) \/ WriteDatasetDelete(w)
              \/ ReadOrg(w) \/ WriteOrgDelete(w) \/ PurgeMembers(w) \/ PurgeGroup(w)
              \/ CreateOrg(w) \/ ReadAdd(w) \/ WriteAdd(w)
              \/ ReadRemove(w) \/ WriteRemove(w)
    BY DEF OneByOne, Next
  <1>2. One \in Workers
    BY DEF One
  <1>3. CASE w # One
    <2>1. request[w] = Resting /\ request'[w] = Resting
      BY <1>3 DEF OneServes, OneByOne
    <2>2. Resting.pc = "idle" /\ Resting.kind = "none"
      BY DEF Resting
    <2>3. ASSUME NEW r, Begin(w, r) PROVE r = Resting
      BY <2>1, <2>3 DEF Begin, Typed, TypeOK
    <2>4. \A k : Asked(k).pc = "begin"
      BY DEF Asked, Resting
    <2>5. CASE AskUpdate(w) \/ AskDatasetDelete(w) \/ AskOrg(w) \/ AskCreate(w) \/ AskMember(w)
      <3>1. \E r : Begin(w, r) /\ r.pc = "begin"
        <4>2. \A k, x, n : [Asked(k) EXCEPT !.object = x, !.byName = n].pc = "begin"
          BY DEF Asked, Resting
        <4>3. \A k, o, n : [Asked(k) EXCEPT !.org = o, !.byName = n].pc = "begin"
          BY DEF Asked, Resting
        <4>7. CASE AskUpdate(w)
          <5>1. PICK d \in Datasets, o \in Orgs \cup {NoOrg}, s \in {"active", "deleted"} :
                  Begin(w, [Asked("update") EXCEPT !.object = d, !.org = o, !.state = s])
            BY <4>7 DEF AskUpdate
          <5>. DEFINE q == [Asked("update") EXCEPT !.object = d, !.org = o, !.state = s]
          <5>2. q.pc = "begin"
            BY DEF Asked, Resting
          <5>. QED  BY <5>1, <5>2
        <4>8. CASE AskDatasetDelete(w)
          BY <4>2, <4>8, Zenon DEF AskDatasetDelete
        <4>9. CASE AskOrg(w)
          BY <4>3, <4>9, Zenon DEF AskOrg
        <4>10. CASE AskCreate(w)
          <5>1. PICK u \in Users, o \in Orgs :
                  Begin(w, [Asked("create_org") EXCEPT !.object = u, !.org = o,
                                                       !.capacity = "admin"])
            BY <4>10 DEF AskCreate
          <5>. DEFINE q == [Asked("create_org") EXCEPT !.object = u, !.org = o,
                                                       !.capacity = "admin"]
          <5>2. q.pc = "begin"
            BY DEF Asked, Resting
          <5>. QED  BY <5>1, <5>2
        <4>11. CASE AskMember(w)
          <5>1. PICK u \in Users, o \in Orgs :
                  \/ \E c \in Roles, s \in BOOLEAN :
                       Begin(w, [Asked("add") EXCEPT !.object = u, !.org = o,
                                                     !.capacity = c, !.self = s])
                  \/ Begin(w, [Asked("remove") EXCEPT !.object = u, !.org = o])
            BY <4>11 DEF AskMember
          <5>2. CASE Begin(w, [Asked("remove") EXCEPT !.object = u, !.org = o])
            <6>. DEFINE q == [Asked("remove") EXCEPT !.object = u, !.org = o]
            <6>1. q.pc = "begin"
              BY DEF Asked, Resting
            <6>. QED  BY <5>2, <6>1
          <5>3. CASE \E c \in Roles, s \in BOOLEAN :
                       Begin(w, [Asked("add") EXCEPT !.object = u, !.org = o,
                                                     !.capacity = c, !.self = s])
            <6>1. PICK c \in Roles, s \in BOOLEAN :
                       Begin(w, [Asked("add") EXCEPT !.object = u, !.org = o,
                                                     !.capacity = c, !.self = s])
              BY <5>3
            <6>. DEFINE q == [Asked("add") EXCEPT !.object = u, !.org = o,
                                                  !.capacity = c, !.self = s]
            <6>2. q.pc = "begin"
              BY DEF Asked, Resting
            <6>. QED  BY <6>1, <6>2
          <5>. QED  BY <5>1, <5>2, <5>3
        <4>. QED  BY <2>5, <4>7, <4>8, <4>9, <4>10, <4>11
      <3>. QED  BY <2>2, <2>3, <3>1
    <2>. QED  BY <1>1, <2>1, <2>2, <2>5
              DEF Missing, Stale, Stop, ReadUpdate, WriteUpdate, ReadDatasetDelete,
                  WriteDatasetDelete, ReadOrg, WriteOrgDelete, PurgeMembers, PurgeGroup,
                  CreateOrg, ReadAdd, WriteAdd, ReadRemove, WriteRemove, Writes, At
  <1>. QED  BY <1>1, <1>2, <1>3

LEMMA StepServes ==
    ASSUME Typed, OneServes, ~ ByName, ~ MayStop, OneByOne
    PROVE  OneServes'
  BY OnlyOne, AskServes, FailServes, ReadServes, UpdateServes, DeleteServes,
     PurgeMembersServes, PurgeGroupServes, CreateServes, AddServes

LEMMA StutterServes ==
    ASSUME Typed, OneServes, UNCHANGED vars
    PROVE  OneServes'
  <1>1. UNCHANGED <<org, dataset, member, request, requests>>
    BY DEF vars
  <1>2. \A w \in Workers : Knows(request[w])'
    BY <1>1 DEF OneServes, Knows, Reads, Seen, Inserted, Active, RowsOf, Owned, Exists
  <1>3. Settled' /\ Unique' /\ MemberIsOwner'
    BY <1>1 DEF OneServes, Settled, Exists, HasMember, Gives, Unique, MemberIsOwner, Active, Inserted
  <1>. QED  BY <1>1, <1>2, <1>3 DEF OneServes

LEMMA InitServes == Init => OneServes
  BY DEF Init, OneServes, Knows, Resting, Settled, Exists, Unique, MemberIsOwner, Active, Inserted

-----------------------------------------------------------------------------
(* What is promised then.                                                  *)

LEMMA ServedRight ==
    ASSUME Typed, OneServes
    PROVE  OneMembership /\ MemberIsOwner /\ Administered
  <1>1. OneMembership
    <2> SUFFICES ASSUME NEW x \in Objects, NEW o \in Orgs
                 PROVE  Cardinality(Active(RowsOf(x, o))) <= 1
      BY DEF OneMembership
    <2>. DEFINE A == Active(RowsOf(x, o))
    <2>1. \A i, j \in A : i = j
      BY DEF OneServes, Unique, Active, RowsOf
    <2>2. CASE A = {}
      BY <2>2, FS_EmptySet
    <2>3. CASE A # {}
      <3>1. PICK i \in A : TRUE
        BY <2>3
      <3>2. A = {i}
        BY <2>1, <3>1
      <3>. HIDE DEF A
      <3>3. Cardinality(A) = 1
        BY <3>2, FS_Singleton
      <3>. QED  BY <3>3 DEF A
    <2>. QED  BY <2>2, <2>3
  <1>2. Administered
    BY DEF OneServes, Settled, Administered, HasMember, Gives
  <1>. QED  BY <1>1, <1>2 DEF OneServes

\* The one that serves has loaded all that it needs, and nobody has changed it.
LEMMA ServedSteps ==
    ASSUME Typed, OneServes
    PROVE  RemovesAll /\ DeletesEmpty /\ DeletesRows
  <1>1. ASSUME NEW w \in Workers, request[w].pc = "read"
        PROVE  /\ Reads(request[w]) /\ Seen(request[w]) \in SUBSET Inserted
               /\ request[w] \in Request
    BY <1>1, RequestTyped DEF OneServes, Knows, Reads
  <1>2. RemovesAll
    <2> SUFFICES ASSUME NEW w \in Workers, NEW u \in Users, NEW o \in Orgs, WriteRemove(w),
                        request[w].object = u, request[w].org = o
                 PROVE  Active(RowsOf(u, o))' = {}
      BY DEF RemovesAll
    <2>. DEFINE q == request[w]
    <2>1. q.kind = "remove" /\ q.pc = "read" /\ member' = Set(Seen(q), "deleted")
      BY DEF WriteRemove, Writes, At
    <2>2. /\ Seen(q) # {} /\ Seen(q) \subseteq Active(RowsOf(u, o))
          /\ Seen(q) \in SUBSET Inserted
      BY <1>1, <2>1 DEF Reads
    <2>3. /\ Inserted' = Inserted
          /\ Active(Inserted)' = Active(Inserted) \ Seen(q)
          /\ \A i \in Inserted :
               member'[i].object = member[i].object /\ member'[i].org = member[i].org
      <3>. HIDE DEF q
      <3>. QED  BY <2>1, <2>2, SetRows
    <2>4. \A i, j \in Active(RowsOf(u, o)) : i = j
      BY DEF OneServes, Unique, Active, RowsOf
    <2>5. ASSUME NEW i \in Active(RowsOf(u, o))' PROVE FALSE
      <3>1. i \in Active(Inserted) /\ i \notin Seen(q) /\ member[i].object = u /\ member[i].org = o
        BY <2>3, <2>5 DEF Active, RowsOf
      <3>2. i \in Active(RowsOf(u, o))
        BY <3>1 DEF Active, RowsOf
      <3>. QED  BY <2>2, <2>4, <3>1, <3>2
    <2>. QED  BY <2>5
  <1>3. DeletesEmpty
    <2> SUFFICES ASSUME NEW w \in Workers, NEW d \in Datasets, WriteOrgDelete(w),
                        request[w].org \in Orgs,
                        dataset'[d].owner = request[w].org, dataset'[d].state # "deleted"
                 PROVE  FALSE
      BY DEF DeletesEmpty
    <2>. DEFINE q == request[w]
    <2>1. q.kind = "delete_org" /\ q.pc = "read" /\ dataset' = Disowned(q.owned)
      BY DEF WriteOrgDelete, Writes, At
    <2>2. q.owned = Owned(q.org)
      BY <1>1, <2>1 DEF Reads
    <2>3. dataset[d] \in Dataset
      BY DEF Typed, TypeOK
    <2>4. CASE d \in q.owned
      <3>1. dataset'[d].owner = NoOrg
        BY <2>1, <2>3, <2>4 DEF Disowned, Dataset
      <3>. QED  BY <3>1, OrgsAssumption
    <2>5. CASE d \notin q.owned
      BY <2>1, <2>2, <2>3, <2>5 DEF Disowned, Owned, Dataset
    <2>. QED  BY <2>4, <2>5
  <1>4. DeletesRows
    <2> SUFFICES ASSUME NEW w \in Workers, NEW i \in Rows, WriteOrgDelete(w),
                        request[w].org \in Orgs,
                        member'[i].org = request[w].org, member'[i].state = "active"
                 PROVE  FALSE
      BY DEF DeletesRows
    <2>. DEFINE q == request[w]
    <2>1. q.kind = "delete_org" /\ q.pc = "read" /\ member' = Set(Seen(q), "deleted")
      BY DEF WriteOrgDelete, Writes, At
    <2>2. /\ Seen(q) = Active({j \in Inserted : member[j].org = q.org})
          /\ Seen(q) \in SUBSET Inserted
      BY <1>1, <2>1 DEF Reads
    <2>3. /\ Inserted' = Inserted
          /\ Active(Inserted)' = Active(Inserted) \ Seen(q)
          /\ \A j \in Inserted :
               member'[j].object = member[j].object /\ member'[j].org = member[j].org
      <3>. HIDE DEF q
      <3>. QED  BY <2>1, <2>2, SetRows
    <2>4. i \in Active(Inserted)'
      BY DEF Active, Inserted, Unused
    <2>5. i \in Active(Inserted) /\ i \notin Seen(q) /\ i \in Inserted /\ member[i].org = q.org
      BY <2>3, <2>4 DEF Active
    <2>. QED  BY <2>2, <2>5 DEF Active
  <1>. QED  BY <1>2, <1>3, <1>4

\* Where requests are served one after another, name their objects by id and
\* are not cut short, the table of members is what the handlers take it for:
\* one active row joins two, the row of a dataset names its owner,
\* organizations have had an admin, who was removed has no rights left, and a
\* deleted organization has neither rows nor datasets.
THEOREM MembersAlwaysRight ==
    ASSUME ~ ByName, ~ MayStop
    PROVE  MCSpec => MembersRight
  <1>. DEFINE I == part = "members" => Typed /\ OneServes
  <1>1. MCInit => I
    BY TypedInit, InitServes DEF MCInit
  <1>2. I /\ [MCNext]_<<vars, part, resources>> => I'
    <2>. SUFFICES ASSUME I, [MCNext]_<<vars, part, resources>>, part' = "members" PROVE (Typed /\ OneServes)'
      OBVIOUS
    <2>1. Typed /\ OneServes /\ (OneByOne \/ UNCHANGED vars)
      BY DEF MCNext
    <2>2. [Next]_vars
      BY <2>1 DEF OneByOne
    <2>. QED  BY <2>1, <2>2, TypedStep, StepServes, StutterServes
  <1>3. I => (part = "members" => OneMembership /\ MemberIsOwner /\ Administered)
    BY ServedRight
  <1>4. I /\ [MCNext]_<<vars, part, resources>>
          => [part = "members" => RemovesAll /\ DeletesEmpty /\ DeletesRows]_vars
    BY ServedSteps
  <1>. QED  BY <1>1, <1>2, <1>3, <1>4, PTL DEF MCSpec, MembersRight

-----------------------------------------------------------------------------
(* Resources of a dataset.                                                 *)

\* There are finitely many resources, and nobody is not one of them.
Listing ==
    /\ IsFiniteSet(Resources)
    /\ Nobody \notin Resources /\ Nobody \notin Workers
    /\ Workers # {} /\ MaxVersion \in Nat

-----------------------------------------------------------------------------
\* Resources by their positions.  Seqs(S) are the orders of S.

Seqs(S) == {s \in [1..Cardinality(S) -> S] : \A i, j \in 1..Cardinality(S) : i # j => s[i] # s[j]}

LEMMA SameSize == \A X : R!Cardinality(X) = Cardinality(X)
  BY DEF R!Cardinality, Cardinality, R!IsFiniteSet, IsFiniteSet

LEMMA SeqsAre ==
    ASSUME NEW S, IsFiniteSet(S)
    PROVE  R!SetToSeqs(S) = Seqs(S)
  BY SameSize DEF R!SetToSeqs, Seqs

LEMMA RowIs ==
    R!Row = [state : {"none", "active", "deleted", "purged"},
             pos : 0..Cardinality(Resources), flag : BOOLEAN, upload : 0..MaxVersion]
  BY SameSize DEF R!Row

\* An order of a finite set has each of its members once.
LEMMA OrderOfAll ==
    ASSUME NEW S, IsFiniteSet(S), NEW s \in R!SetToSeqs(S)
    PROVE  /\ s \in Seq(S) /\ Len(s) = Cardinality(S) /\ Cardinality(S) \in Nat
           /\ DOMAIN s = 1..Cardinality(S)
           /\ R!ToSet(s) = S
           /\ \A i, j \in 1..Cardinality(S) : s[i] = s[j] => i = j
           /\ \A r \in S : \E i \in 1..Cardinality(S) : s[i] = r
  <1>. DEFINE n == Cardinality(S)
  <1>1. n \in Nat
    BY FS_CardinalityType
  <1>2. s \in [1..n -> S] /\ \A i, j \in 1..n : i # j => s[i] # s[j]
    BY SeqsAre DEF Seqs
  <1>3. s \in Injection(1..n, S)
    BY <1>2 DEF Injection, IsInjective
  <1>4. IsFiniteSet(1..n) /\ Cardinality(1..n) = n
    BY <1>1, FS_Interval
  <1>5. s \in Surjection(1..n, S)
    BY <1>3, <1>4, FS_Injection
  <1>6. \A r \in S : \E i \in 1..n : s[i] = r
    BY <1>5 DEF Surjection
  <1>7. s \in Seq(S) /\ Len(s) = n /\ DOMAIN s = 1..n
    BY <1>1, <1>2, SeqDef, LenProperties
  <1>8. R!ToSet(s) = S
    BY <1>2, <1>6, <1>7 DEF R!ToSet
  <1>. QED  BY <1>1, <1>2, <1>6, <1>7, <1>8

Distinct(A, S) == \A r, s \in S : A[r].pos = A[s].pos => r = s

\* How many of S come before r, or are r.
Place(A, S, r) == Cardinality({s \in S : A[s].pos <= A[r].pos})

\* If no two have the same position, there is an order.
LEMMA OrderIs ==
    ASSUME NEW A, NEW S, IsFiniteSet(S), \A r \in S : A[r].pos \in Nat, Distinct(A, S)
    PROVE  R!ByPosition(A, S) \in R!SetToSeqs(S)
  <1>. DEFINE n == Cardinality(S)
              before(r) == {s \in S : A[s].pos <= A[r].pos}
              place == [r \in S |-> Place(A, S, r)]
  <1>1. n \in Nat /\ IsFiniteSet(1..n) /\ Cardinality(1..n) = n
    BY FS_CardinalityType, FS_Interval
  <1>2. \A r \in S : /\ IsFiniteSet(before(r)) /\ r \in before(r)
                     /\ Place(A, S, r) = Cardinality(before(r)) /\ Place(A, S, r) \in 1..n
    <2> SUFFICES ASSUME NEW r \in S
                 PROVE  /\ IsFiniteSet(before(r)) /\ r \in before(r)
                        /\ Place(A, S, r) = Cardinality(before(r)) /\ Place(A, S, r) \in 1..n
      OBVIOUS
    <2>1. before(r) \subseteq S /\ r \in before(r)
      OBVIOUS
    <2>2. IsFiniteSet(before(r)) /\ Cardinality(before(r)) <= n
      BY <2>1, FS_Subset
    <2>3. Cardinality(before(r)) \in Nat /\ Cardinality(before(r)) # 0
      BY <2>1, <2>2, FS_CardinalityType, FS_EmptySet
    <2>4. Place(A, S, r) = Cardinality(before(r))
      BY DEF Place
    <2>. QED  BY <1>1, <2>1, <2>2, <2>3, <2>4
  <1>3. ASSUME NEW r \in S, NEW s \in S, A[r].pos < A[s].pos
        PROVE  Place(A, S, r) < Place(A, S, s)
    <2>1. before(r) \subseteq before(s) /\ s \notin before(r)
      BY <1>3
    <2>2. before(r) # before(s)
      BY <1>2, <2>1
    <2>. HIDE DEF before
    <2>4. IsFiniteSet(before(s)) /\ IsFiniteSet(before(r)) /\ before(r) \in SUBSET before(s)
      BY <1>2, <2>1
    <2>5. /\ Cardinality(before(r)) <= Cardinality(before(s))
          /\ Cardinality(before(s)) # Cardinality(before(r))
      BY <2>2, <2>4, FS_Subset
    <2>3. Cardinality(before(r)) < Cardinality(before(s))
      BY <2>4, <2>5, FS_CardinalityType
    <2>. QED  BY <1>2, <2>3
  <1>. HIDE DEF n, before
  <1>4. place \in [S -> 1..n] /\ \A r, s \in S : place[r] = place[s] => r = s
    BY <1>1, <1>2, <1>3 DEF Distinct
  <1>5. place \in Surjection(S, 1..n)
    <2>1. place \in Injection(S, 1..n)
      BY <1>4 DEF Injection, IsInjective
    <2>. QED  BY <1>1, <2>1, FS_Injection DEF n
  <1>. DEFINE inv == [i \in 1..n |-> CHOOSE r \in S : place[r] = i]
  <1>6. \A i \in 1..n : inv[i] \in S /\ place[inv[i]] = i
    BY <1>5 DEF Surjection
  <1>7. inv \in [1..n -> S]
    BY <1>6
  <1>8. \A i, j \in 1..n : i # j => inv[i] # inv[j]
    BY <1>6
  <1>9. \A i, j \in 1..n : i < j => A[inv[i]].pos <= A[inv[j]].pos
    <2> SUFFICES ASSUME NEW i \in 1..n, NEW j \in 1..n, i < j, ~(A[inv[i]].pos <= A[inv[j]].pos)
                 PROVE  FALSE
      OBVIOUS
    <2>. DEFINE a == inv[i]
                b == inv[j]
    <2>1. a \in S /\ b \in S /\ place[a] = i /\ place[b] = j
      BY <1>6
    <2>. HIDE DEF inv, place
    <2>3. ~(A[a].pos <= A[b].pos) /\ A[a].pos \in Nat /\ A[b].pos \in Nat
      BY <2>1
    <2>. HIDE DEF a, b
    <2>4. A[b].pos < A[a].pos
      BY <2>3
    <2>. USE DEF place
    <2>2. place[b] < place[a]
      BY <1>3, <2>1, <2>4
    <2>. QED  BY <1>1, <2>1, <2>2
  <1>. HIDE DEF inv
  <1>10. inv \in R!SetToSeqs(S)
    BY <1>7, <1>8, SeqsAre DEF n, Seqs
  <1>11. \E s \in R!SetToSeqs(S) : \A i, j \in 1..Cardinality(S) : i < j => A[s[i]].pos <= A[s[j]].pos
    BY <1>9, <1>10 DEF n
  <1>. QED  BY <1>11, SameSize DEF R!ByPosition

-----------------------------------------------------------------------------
\* The rows A are numbered.
Gapless(A) ==
    /\ Distinct(A, R!In(A, "active"))
    /\ {A[r].pos : r \in R!In(A, "active")} = {i - 1 : i \in 1..Cardinality(R!In(A, "active"))}

LEMMA ActiveRows ==
    ASSUME Listing, NEW A \in [Resources -> R!Row]
    PROVE  /\ R!In(A, "active") \in SUBSET Resources /\ IsFiniteSet(R!In(A, "active"))
           /\ Cardinality(Resources) \in Nat
           /\ \A r \in Resources : A[r].pos \in Nat
  <1>1. R!In(A, "active") \in SUBSET Resources
    BY DEF R!In
  <1>2. Cardinality(Resources) \in Nat
    BY FS_CardinalityType DEF Listing
  <1>. QED  BY <1>1, <1>2, FS_Subset DEF Listing, R!Row

LEMMA Ordered ==
    ASSUME Listing, NEW A \in [Resources -> R!Row], Gapless(A), NEW S \in SUBSET R!In(A, "active")
    PROVE  IsFiniteSet(S) /\ R!ByPosition(A, S) \in R!SetToSeqs(S)
  <1>1. IsFiniteSet(S) /\ S \subseteq Resources
    BY ActiveRows, FS_Subset
  <1>2. Distinct(A, S)
    BY DEF Gapless, Distinct
  <1>3. \A r \in S : A[r].pos \in Nat
    BY <1>1, ActiveRows
  <1>. QED  BY <1>1, <1>2, <1>3, OrderIs

\* The rows N are those of A after the list of the resources in S was saved.
SavedAs(A, N, S) ==
    /\ N \in [Resources -> R!Row] /\ Gapless(N)
    /\ R!In(N, "active") = S
    /\ \A r \in Resources :
         /\ N[r].state # "purged" => N[r].upload = A[r].upload /\ N[r].flag = A[r].flag
         /\ N[r].upload \in {0, A[r].upload}
         /\ N[r].state = "purged" => A[r].state \in {"deleted", "purged"}
         /\ r \notin S /\ A[r].state \in {"none", "purged"} => N[r] = A[r]
         /\ r \notin S /\ A[r].state = "active" => N[r].state = "deleted"
         /\ r \notin S /\ A[r].state = "deleted" => N[r].state \in {"deleted", "purged"}
         /\ N[r].state = "none" => A[r].state = "none"

LEMMA Renumbered ==
    ASSUME Listing, NEW A \in [Resources -> R!Row], NEW S \in SUBSET Resources, NEW seq \in R!SetToSeqs(S),
           seq # R!Listed(A)
    PROVE  SavedAs(A, R!Saved(A, seq), S)
  <1>. DEFINE n == Cardinality(S)
              at(r) == R!Index(seq, r)
  <1>1. PICK N : N = R!Saved(A, seq)
    OBVIOUS
  <1>2. IsFiniteSet(S)
    BY FS_Subset DEF Listing
  <1>3. n \in Nat /\ Len(seq) = n /\ R!ToSet(seq) = S /\ \A i \in 1..n : seq[i] \in S
    BY <1>2, OrderOfAll, SeqsAre DEF Seqs
  <1>4. \A i, j \in 1..n : seq[i] = seq[j] => i = j
    BY <1>2, OrderOfAll
  <1>5. \A r \in S : \E i \in 1..n : seq[i] = r
    BY <1>2, OrderOfAll
  <1>6. n <= Cardinality(Resources) /\ Cardinality(Resources) \in Nat
    BY FS_Subset, FS_CardinalityType DEF Listing
  <1>7. N = [r \in Resources |->
               IF r \in S THEN [A[r] EXCEPT !.state = "active", !.pos = at(r)]
               ELSE IF A[r].state = "deleted" THEN [R!New EXCEPT !.state = "purged"]
               ELSE IF A[r].state = "active" THEN [A[r] EXCEPT !.state = "deleted", !.pos = 0]
               ELSE A[r]]
    BY <1>1, <1>3 DEF R!Saved
  <1>. HIDE DEF n
  <1>8. \A r \in S : at(r) \in 0..n - 1 /\ seq[at(r) + 1] = r
    <2> SUFFICES ASSUME NEW r \in S
                 PROVE  at(r) \in 0..n - 1 /\ seq[at(r) + 1] = r
      OBVIOUS
    <2>1. PICK i \in 1..n : seq[i] = r
      BY <1>5
    <2>2. i - 1 \in 0..Len(seq) - 1 /\ seq[(i - 1) + 1] = r
      BY <1>3, <2>1
    <2>3. \E k \in 0..Len(seq) - 1 : seq[k + 1] = r
      BY <2>2
    <2>4. at(r) \in 0..Len(seq) - 1 /\ seq[at(r) + 1] = r
      BY <2>3 DEF R!Index
    <2>. QED  BY <1>3, <2>4
  <1>9. \A i \in 0..n - 1 : seq[i + 1] \in S /\ at(seq[i + 1]) = i
    <2> SUFFICES ASSUME NEW i \in 0..n - 1
                 PROVE  seq[i + 1] \in S /\ at(seq[i + 1]) = i
      OBVIOUS
    <2>1. i + 1 \in 1..n /\ seq[i + 1] \in S
      BY <1>3
    <2>2. at(seq[i + 1]) \in 0..n - 1 /\ seq[at(seq[i + 1]) + 1] = seq[i + 1]
      BY <1>8, <2>1
    <2>. QED  BY <1>3, <1>4, <2>1, <2>2
  <1>. HIDE DEF at
  <1>10. \A r \in Resources :
           /\ A[r] \in R!Row
           /\ r \in S => N[r] = [A[r] EXCEPT !.state = "active", !.pos = at(r)]
           /\ r \notin S /\ A[r].state = "deleted" => N[r] = [R!New EXCEPT !.state = "purged"]
           /\ r \notin S /\ A[r].state = "active" => N[r] = [A[r] EXCEPT !.state = "deleted", !.pos = 0]
           /\ r \notin S /\ A[r].state \notin {"deleted", "active"} => N[r] = A[r]
    BY <1>7
  <1>11. \A r \in S : /\ N[r] \in R!Row /\ N[r].state = "active" /\ N[r].pos = at(r)
                      /\ N[r].upload = A[r].upload /\ N[r].flag = A[r].flag
    <2> SUFFICES ASSUME NEW r \in S
                 PROVE  /\ N[r] \in R!Row /\ N[r].state = "active" /\ N[r].pos = at(r)
                        /\ N[r].upload = A[r].upload /\ N[r].flag = A[r].flag
      OBVIOUS
    <2>1. at(r) \in 0..n - 1
      BY <1>8
    <2>2. at(r) \in 0..Cardinality(Resources)
      BY <1>3, <1>6, <2>1
    <2>3. A[r] \in R!Row /\ N[r] = [A[r] EXCEPT !.state = "active", !.pos = at(r)]
      BY <1>10
    <2>. QED  BY <2>2, <2>3, RowIs
  <1>12. \A r \in Resources \ S :
           /\ N[r] \in R!Row /\ N[r].state # "active"
           /\ A[r].state = "deleted" => N[r].state = "purged" /\ N[r].upload = 0
           /\ A[r].state = "active" => N[r].state = "deleted" /\ N[r].upload = A[r].upload /\ N[r].flag = A[r].flag
           /\ A[r].state \notin {"deleted", "active"} => N[r] = A[r]
    <2> SUFFICES ASSUME NEW r \in Resources \ S
                 PROVE  /\ N[r] \in R!Row /\ N[r].state # "active"
                        /\ A[r].state = "deleted" => N[r].state = "purged" /\ N[r].upload = 0
                        /\ A[r].state = "active" => N[r].state = "deleted" /\ N[r].upload = A[r].upload /\ N[r].flag = A[r].flag
                        /\ A[r].state \notin {"deleted", "active"} => N[r] = A[r]
      OBVIOUS
    <2>1. 0 \in 0..Cardinality(Resources) /\ 0 \in 0..MaxVersion
      BY <1>6 DEF Listing
    <2>2. CASE A[r].state = "deleted"
      <3>1. N[r] = [state |-> "purged", pos |-> 0, flag |-> FALSE, upload |-> 0]
        BY <1>10, <2>2 DEF R!New
      <3>. QED  BY <2>1, <2>2, <3>1, RowIs
    <2>3. CASE A[r].state = "active"
      BY <1>10, <2>1, <2>3, RowIs
    <2>4. CASE A[r].state \notin {"deleted", "active"}
      BY <1>10, <2>4
    <2>. QED  BY <2>2, <2>3, <2>4
  <1>13. N \in [Resources -> R!Row]
    BY <1>7, <1>11, <1>12
  <1>14. R!In(N, "active") = S
    BY <1>11, <1>12 DEF R!In
  <1>15. Gapless(N)
    <2>1. Distinct(N, S)
      BY <1>8, <1>11 DEF Distinct
    <2>2. \A r \in S : N[r].pos \in 0..n - 1
      BY <1>8, <1>11
    <2>3. \A i \in 0..n - 1 : \E r \in S : N[r].pos = i
      BY <1>9, <1>11
    <2>4. {N[r].pos : r \in S} = 0..n - 1
      BY <2>2, <2>3
    <2>5. {i - 1 : i \in 1..n} = 0..n - 1
      <3>1. \A i \in 1..n : i - 1 \in 0..n - 1
        BY <1>3
      <3>2. \A k \in 0..n - 1 : k + 1 \in 1..n /\ (k + 1) - 1 = k
        BY <1>3
      <3>. QED  BY <3>1, <3>2
    <2>. QED  BY <1>14, <2>1, <2>4, <2>5 DEF Gapless, n
  <1>16. SavedAs(A, N, S)
    BY <1>11, <1>12, <1>13, <1>14, <1>15 DEF SavedAs
  <1>. QED  BY <1>1, <1>16

LEMMA SavedRows ==
    ASSUME Listing, NEW A \in [Resources -> R!Row], Gapless(A),
           NEW S \in SUBSET Resources, NEW seq \in R!SetToSeqs(S)
    PROVE  SavedAs(A, R!Saved(A, seq), S)
  <1>1. CASE seq = R!Listed(A)
    <2>1. R!Saved(A, seq) = A
      BY <1>1 DEF R!Saved
    <2>2. R!ToSet(seq) = R!In(A, "active")
      BY <1>1, Ordered, OrderOfAll DEF R!Listed
    <2>3. R!ToSet(seq) = S
      BY OrderOfAll, FS_Subset DEF Listing
    <2>4. SavedAs(A, A, S)
      BY <2>2, <2>3 DEF SavedAs, R!In
    <2>. QED  BY <2>1, <2>4
  <1>2. CASE seq # R!Listed(A)
    BY <1>2, Renumbered
  <1>. QED  BY <1>1, <1>2

\* Two lists without a common resource, one after the other.
LEMMA Joined ==
    ASSUME NEW S, NEW T, IsFiniteSet(S), IsFiniteSet(T), S \cap T = {},
           NEW s \in R!SetToSeqs(S), NEW t \in R!SetToSeqs(T)
    PROVE  s \o t \in R!SetToSeqs(S \cup T)
  <1>. DEFINE m == Cardinality(S)
              n == Cardinality(T)
              u == s \o t
  <1>1. /\ m \in Nat /\ n \in Nat /\ s \in Seq(S) /\ t \in Seq(T) /\ Len(s) = m /\ Len(t) = n
        /\ \A i, j \in 1..m : s[i] = s[j] => i = j
        /\ \A i, j \in 1..n : t[i] = t[j] => i = j
        /\ \A i \in 1..m : s[i] \in S
        /\ \A i \in 1..n : t[i] \in T
    BY OrderOfAll, SeqsAre DEF Seqs
  <1>2. Cardinality(S \cup T) = m + n /\ IsFiniteSet(S \cup T)
    <2>1. Cardinality(S \cap T) = 0
      BY FS_EmptySet
    <2>. QED  BY <1>1, <2>1, FS_Union
  <1>3. s \in Seq(S \cup T) /\ t \in Seq(S \cup T)
    BY <1>1
  <1>4. /\ u \in Seq(S \cup T) /\ Len(u) = m + n
        /\ \A i \in 1..m : u[i] = s[i]
        /\ \A i \in m + 1..m + n : u[i] = t[i - m]
    <2>. HIDE DEF m, n
    <2>1. /\ u \in Seq(S \cup T) /\ Len(u) = Len(s) + Len(t)
          /\ \A i \in 1..Len(s) + Len(t) : u[i] = IF i <= Len(s) THEN s[i] ELSE t[i - Len(s)]
      BY <1>3, ConcatProperties
    <2>2. \A i \in 1..m : u[i] = s[i]
      BY <1>1, <2>1
    <2>3. \A i \in m + 1..m + n : u[i] = t[i - m]
      BY <1>1, <2>1
    <2>. QED  BY <1>1, <2>1, <2>2, <2>3
  <1>. HIDE DEF m, n, u
  <1>5. u \in [1..m + n -> S \cup T]
    BY <1>1, <1>4
  <1>6. \A i, j \in 1..m + n : i # j => u[i] # u[j]
    <2> SUFFICES ASSUME NEW i \in 1..m + n, NEW j \in 1..m + n, i # j, u[i] = u[j]
                 PROVE  FALSE
      OBVIOUS
    <2>1. CASE i <= m /\ j <= m
      BY <1>1, <1>4, <2>1
    <2>2. CASE i <= m /\ j > m
      <3>1. u[i] \in S /\ u[j] \in T
        BY <1>1, <1>4, <2>2
      <3>. QED  BY <3>1
    <2>3. CASE i > m /\ j <= m
      <3>1. u[j] \in S /\ u[i] \in T
        BY <1>1, <1>4, <2>3
      <3>. QED  BY <3>1
    <2>4. CASE i > m /\ j > m
      <3>1. i - m \in 1..n /\ j - m \in 1..n /\ u[i] = t[i - m] /\ u[j] = t[j - m]
        BY <1>1, <1>4, <2>4
      <3>2. i - m = j - m
        BY <1>1, <3>1
      <3>3. m \in Nat /\ i \in Nat /\ j \in Nat
        BY <1>1
      <3>. QED  BY <3>2, <3>3
    <2>5. i \in Nat /\ j \in Nat /\ m \in Nat
      BY <1>1
    <2>. QED  BY <2>1, <2>2, <2>3, <2>4, <2>5
  <1>7. u \in Seqs(S \cup T)
    BY <1>2, <1>5, <1>6 DEF Seqs
  <1>. QED  BY <1>2, <1>7, SeqsAre DEF u

-----------------------------------------------------------------------------
(* The inductive invariant *)

ResourceJobs ==
    [pc : {"idle", "load", "save", "commit", "drop", "dropped", "merge", "flush", "table", "flag"},
     kind : R!RequestKinds, id : Resources \cup {Nobody}, row : R!Row,
     given : Seq(Resources), changed : SUBSET Resources, on : SUBSET Resources, shown : Seq(Resources),
     old : [Resources -> R!Row], new : [Resources -> R!Row], extras : SUBSET Resources,
     file : 0..MaxVersion, flag : BOOLEAN]

\* What a job carries at each step.
Carries(j) ==
    /\ j.pc = "idle" => j = R!Idle
    /\ j.pc = "load" => /\ j.kind \in {"update", "delete"} /\ j.id \in Resources
                        /\ j.row.state = "active" /\ j.file = 0 /\ j.extras = {}
    /\ j.pc \in {"save", "commit"} => j.kind \in {"create", "update", "delete", "reorder"}
    /\ j.pc \in {"drop", "dropped"} => j.kind = "delete"
    /\ j.pc \in {"merge", "flush"} => j.kind = "package" /\ j.file = 0
    /\ j.pc \in {"table", "flag"} => j.kind = "datastore" /\ j.id \in Resources

\* No file is newer than the version v.
Dated(j, v) ==
    /\ j.file <= v /\ j.row.upload <= v
    /\ \A r \in Resources : j.new[r].upload <= v

\* The resources that a job takes off the list.
Leaves(j) ==
    IF j.kind = "delete" THEN {j.id}
    ELSE IF j.kind = "package" THEN Resources \ R!ToSet(j.given) ELSE {}

\* What a job is about to write to the rows A.  An update writes the file and
\* the flag of its resource; the others know the rows as they are.
Ready(j, A) ==
    /\ \A r \in Resources : j.new[r].state # "purged" =>
           j.new[r].upload = IF r = j.id /\ j.file # 0 THEN j.file ELSE j.old[r].upload
    /\ j.file # 0 => /\ j.id \in Resources /\ j.old[j.id].upload # j.file
                     /\ j.new[j.id].state # "purged"
    /\ j.kind = "update" =>
         \A r \in Resources :
           /\ j.new[r].state = j.old[r].state /\ j.new[r].pos = j.old[r].pos
           /\ j.new[r].state = "purged" => A[r].state = "purged"
    /\ j.kind # "update" =>
         /\ \A r \in Resources :
              /\ j.old[r].state = A[r].state /\ j.old[r].pos = A[r].pos /\ j.old[r].upload = A[r].upload
              /\ A[r].state = "purged" => j.new[r].state = "purged"
              /\ j.new[r].state \in {"none", "active"} => A[r].state \in {"none", "active"}
              /\ j.new[r].state = "none" => A[r].state = "none"
              /\ A[r].state = "active" /\ j.new[r].state # "active" => r \in Leaves(j)
         /\ Gapless(j.new)

\* The rows A and B differ in their flags at most.
Alike(A, B) ==
    \A r \in Resources : A[r].state = B[r].state /\ A[r].pos = B[r].pos /\ A[r].upload = B[r].upload

\* A client was shown the list of the rows A and gives some of it back.
Shown(j, A) == j.shown = R!Listed(A) /\ \E S \in SUBSET R!In(A, "active") : j.given \in R!SetToSeqs(S)

Holds(j) == j.pc \in {"save", "commit"}

Serves(w) ==
    /\ Carries(job[w]) /\ Dated(job[w], version)
    /\ Holds(job[w]) <=> lock = w
    /\ job[w].pc \in {"save", "commit", "flush"} => Ready(job[w], list)
    /\ job[w].pc = "merge" => Shown(job[w], list)
    /\ job[w].pc = "commit" /\ job[w].file # 0 => file[job[w].id] = job[w].file

Lone ==
    \A w, v \in Workers : w # v /\ job[w].kind \in {"package", "datastore"} => job[v].pc = "idle"

Replacing(r) == \E w \in Workers : job[w].pc = "commit" /\ job[w].id = r /\ job[w].file # 0

Stored ==
    \A r \in Resources \ cut :
        list[r].state \in {"none", "active"} /\ ~Replacing(r) => file[r] = list[r].upload

Kept ==
    /\ list \in [Resources -> R!Row] /\ file \in [Resources -> Nat] /\ table \subseteq Resources
    /\ lock \in Workers \cup {Nobody} /\ job \in [Workers -> ResourceJobs]
    /\ version \in 0..MaxVersion /\ omitted \subseteq Resources /\ cut \subseteq Resources
    /\ claimed \subseteq Resources
    /\ \A r \in Resources : list[r].upload <= version /\ file[r] <= version
    /\ Gapless(list) /\ Lone /\ Stored
    /\ \A w \in Workers : Serves(w)

-----------------------------------------------------------------------------
(* What the steps have in common *)

LEMMA RowsNew ==
    ASSUME Listing
    PROVE  /\ R!New \in R!Row /\ [r \in Resources |-> R!New] \in [Resources -> R!Row]
           /\ R!Idle \in ResourceJobs /\ Carries(R!Idle) /\ R!Idle.pc = "idle" /\ R!Idle.kind = "create"
           /\ \A v \in Nat : Dated(R!Idle, v)
           /\ R!Idle.id = Nobody /\ R!Idle.file = 0 /\ R!Idle.extras = {}
  <1>1. Cardinality(Resources) \in Nat
    BY FS_CardinalityType DEF Listing
  <1>2. R!New \in R!Row
    BY <1>1, RowIs DEF R!New, Listing
  <1>3. <<>> \in Seq(Resources)
    OBVIOUS
  <1>4. R!Idle \in ResourceJobs
    BY <1>2, <1>3 DEF R!Idle, ResourceJobs, Listing, R!RequestKinds
  <1>5. Carries(R!Idle)
    BY DEF Carries, R!Idle
  <1>6. \A v \in Nat : Dated(R!Idle, v)
    BY DEF Dated, R!Idle, R!New
  <1>. QED  BY <1>2, <1>4, <1>5, <1>6 DEF R!Idle

LEMMA GaplessSame ==
    ASSUME NEW A, NEW B, Gapless(A), \A r \in Resources : A[r].state = B[r].state,
           \A r \in R!In(A, "active") : A[r].pos = B[r].pos
    PROVE  Gapless(B)
  <1>. DEFINE S == R!In(A, "active")
  <1>1. S = R!In(B, "active")
    BY DEF R!In
  <1>2. \A r \in S : A[r].pos = B[r].pos
    OBVIOUS
  <1>. HIDE DEF S
  <1>3. {A[r].pos : r \in S} = {B[r].pos : r \in S}
    BY <1>2
  <1>4. Distinct(A, S) /\ {A[r].pos : r \in S} = {i - 1 : i \in 1..Cardinality(S)}
    BY DEF Gapless, S
  <1>5. Distinct(B, S)
    BY <1>2, <1>4 DEF Distinct
  <1>. QED  BY <1>1, <1>3, <1>4, <1>5 DEF Gapless

LEMMA AlikeRows ==
    ASSUME NEW A, NEW B, Alike(A, B)
    PROVE  /\ \A state : R!In(A, state) = R!In(B, state)
           /\ Gapless(A) => Gapless(B)
           /\ \A j : Ready(j, A) => Ready(j, B)
  <1>1. \A state : R!In(A, state) = R!In(B, state)
    BY DEF Alike, R!In
  <1>2. Gapless(A) => Gapless(B)
    BY GaplessSame DEF Alike, R!In
  <1>3. \A j : Ready(j, A) => Ready(j, B)
    BY DEF Ready, Alike
  <1>. QED  BY <1>1, <1>2, <1>3

\* What a step of w leaves of its job, of the lock and of the counters.
Continues(w, j) ==
    /\ j \in ResourceJobs /\ Carries(j) /\ Dated(j, version')
    /\ job' = [job EXCEPT ![w] = j]
    /\ job[w].pc = "idle" => R!Free(j.kind)
    /\ job[w].pc # "idle" => j = R!Idle \/ j.kind = job[w].kind
    /\ lock' = IF Holds(j) THEN w ELSE IF lock = w THEN Nobody ELSE lock
    /\ Holds(j) => lock \in {Nobody, w}
    /\ version' \in Nat /\ version <= version' /\ version' <= MaxVersion
    /\ table' \subseteq Resources /\ omitted' \subseteq Resources
    /\ cut \subseteq cut' /\ cut' \subseteq Resources /\ claimed' \subseteq Resources

LEMMA OthersApart ==
    ASSUME Listing, Kept, NEW w \in Workers, NEW j, Continues(w, j), NEW v \in Workers, v # w
    PROVE  job'[v] = job[v] /\ job[v].kind \notin {"package", "datastore"}
  <1>1. job'[v] = job[v]
    BY DEF Continues, Kept
  <1>2. ASSUME job[v].kind \in {"package", "datastore"}
        PROVE  FALSE
    <2>1. job[w].pc = "idle" /\ R!Free(j.kind)
      BY <1>2 DEF Kept, Lone, Continues
    <2>2. job[v].pc = "idle"
      BY <1>2, <2>1 DEF R!Free, R!Busy, Listing
    <2>3. job[v] = R!Idle
      BY <2>2 DEF Kept, Serves, Carries
    <2>. QED  BY <1>2, <2>3 DEF R!Idle
  <1>. QED  BY <1>1, <1>2

LEMMA OthersServe ==
    ASSUME Listing, Kept, NEW w \in Workers, NEW j, Continues(w, j), NEW v \in Workers, v # w,
           (Alike(list, list') /\ file' = file) \/ ~Holds(job[v])
    PROVE  Serves(v)'
  <1>1. job'[v] = job[v] /\ job[v].kind \notin {"package", "datastore"}
    BY OthersApart
  <1>2. Serves(v) /\ version \in Nat /\ job[v] \in ResourceJobs
    BY DEF Kept
  <1>3. job[v].pc \notin {"merge", "flush"}
    BY <1>1, <1>2 DEF Serves, Carries
  <1>4. Dated(job[v], version')
    <2>1. /\ job[v].file \in Nat /\ job[v].row.upload \in Nat
          /\ \A r \in Resources : job[v].new[r].upload \in Nat
      BY <1>2 DEF ResourceJobs, R!Row
    <2>2. Dated(job[v], version) /\ version <= version' /\ version' \in Nat
      BY <1>2 DEF Serves, Continues
    <2>. QED  BY <1>2, <2>1, <2>2 DEF Dated
  <1>5. Holds(job[v]) <=> lock' = v
    BY <1>2 DEF Continues, Serves, Listing
  <1>6. job[v].pc \in {"save", "commit", "flush"} => Ready(job[v], list')
    BY <1>2, <1>3, AlikeRows DEF Serves, Holds
  <1>7. job[v].pc = "commit" /\ job[v].file # 0 => file'[job[v].id] = job[v].file
    BY <1>2 DEF Serves, Holds
  <1>8. Carries(job[v])
    BY <1>2 DEF Serves
  <1>. QED  BY <1>1, <1>3, <1>4, <1>5, <1>6, <1>7, <1>8 DEF Serves

LEMMA LoneStays ==
    ASSUME Listing, Kept, NEW w \in Workers, NEW j, Continues(w, j)
    PROVE  Lone'
  <1>1. ASSUME NEW x \in Workers, NEW v \in Workers, x # v, job'[x].kind \in {"package", "datastore"}
        PROVE  job'[v].pc = "idle"
    <2>1. x = w
      BY <1>1, OthersApart
    <2>2. job'[x] = j /\ job'[v] = job[v]
      BY <1>1, <2>1 DEF Continues, Kept
    <2>3. CASE job[w].pc = "idle"
      BY <1>1, <2>1, <2>2, <2>3 DEF Continues, R!Free, R!Busy, Listing
    <2>4. CASE job[w].pc # "idle"
      <3>1. job[w].kind \in {"package", "datastore"}
        BY <1>1, <2>2, <2>4, RowsNew DEF Continues
      <3>. QED  BY <1>1, <2>1, <2>2, <3>1 DEF Kept, Lone
    <2>. QED  BY <2>3, <2>4
  <1>. QED  BY <1>1 DEF Lone

\* The rows and the files after a step, and its job.
LEMMA KeptAfter ==
    ASSUME Listing, Kept, NEW w \in Workers, NEW j, Continues(w, j),
           list' \in [Resources -> R!Row], file' \in [Resources -> Nat], Gapless(list'),
           \A r \in Resources : list'[r].upload <= version' /\ file'[r] <= version',
           Stored',
           \A v \in Workers \ {w} : (Alike(list, list') /\ file' = file) \/ ~Holds(job[v]),
           j.pc \in {"save", "commit", "flush"} => Ready(j, list'),
           j.pc = "merge" => Shown(j, list'),
           j.pc = "commit" /\ j.file # 0 => file'[j.id] = j.file
    PROVE  Kept'
  <1>1. \A v \in Workers \ {w} : Serves(v)'
    BY OthersServe
  <1>2. job'[w] = j /\ job' \in [Workers -> ResourceJobs]
    BY DEF Continues, Kept
  <1>3. Serves(w)'
    <2>1. Holds(j) <=> lock' = w
      BY DEF Continues, Listing
    <2>. QED  BY <1>2, <2>1 DEF Serves, Continues
  <1>4. lock' \in Workers \cup {Nobody} /\ version' \in 0..MaxVersion
    BY DEF Continues, Kept, Listing
  <1>. QED  BY <1>1, <1>2, <1>3, <1>4, LoneStays DEF Kept, Continues

\* Steps that change no more than flags.
LEMMA AlikeStep ==
    ASSUME Listing, Kept, NEW w \in Workers, NEW j, Continues(w, j),
           list' \in [Resources -> R!Row], Alike(list, list'), file' = file,
           job[w].pc = "commit" /\ job[w].file # 0 => job[w].id \in cut',
           j.pc \in {"save", "flush"} => Ready(j, list'),
           j.pc = "merge" => Shown(j, list'),
           j.pc # "commit"
    PROVE  Kept'
  <1>1. Gapless(list')
    BY AlikeRows DEF Kept
  <1>2. \A r \in Resources : list'[r].upload <= version' /\ file'[r] <= version'
    <2>1. \A r \in Resources : list[r].upload \in Nat /\ file[r] \in Nat /\ list'[r].upload = list[r].upload
      BY DEF Kept, R!Row, Alike
    <2>. QED  BY <2>1 DEF Kept, Continues
  <1>3. Stored'
    <2> SUFFICES ASSUME NEW r \in Resources \ cut', list'[r].state \in {"none", "active"}, ~Replacing(r)'
                 PROVE  file'[r] = list'[r].upload
      BY DEF Stored
    <2>1. ~Replacing(r)
      <3>1. \A v \in Workers \ {w} : job'[v] = job[v]
        BY DEF Continues, Kept
      <3>. QED  BY <3>1 DEF Replacing
    <2>2. r \in Resources \ cut /\ list[r].state \in {"none", "active"}
      BY DEF Continues, Alike
    <2>. QED  BY <2>1, <2>2 DEF Kept, Stored, Alike
  <1>. QED  BY <1>1, <1>2, <1>3, KeptAfter DEF Kept

-----------------------------------------------------------------------------
(* Jobs that are prepared *)

LEMMA Appended ==
    ASSUME NEW S, IsFiniteSet(S), NEW r, r \notin S, NEW s \in R!SetToSeqs(S)
    PROVE  Append(s, r) \in R!SetToSeqs(S \cup {r})
  <1>. DEFINE n == Cardinality(S)
              u == Append(s, r)
  <1>1. /\ n \in Nat /\ s \in Seq(S) /\ Len(s) = n /\ \A i \in 1..n : s[i] \in S
        /\ \A i, j \in 1..n : s[i] = s[j] => i = j
    BY OrderOfAll, SeqsAre DEF Seqs
  <1>2. Cardinality(S \cup {r}) = n + 1 /\ IsFiniteSet(S \cup {r})
    BY FS_AddElement
  <1>3. s \in Seq(S \cup {r})
    BY <1>1
  <1>. HIDE DEF n
  <1>4. u \in Seq(S \cup {r}) /\ Len(u) = n + 1 /\ u[n + 1] = r /\ \A i \in 1..n : u[i] = s[i]
    BY <1>1, <1>3, AppendProperties
  <1>. HIDE DEF u
  <1>5. u \in [1..n + 1 -> S \cup {r}]
    BY <1>1, <1>4
  <1>6. \A i, j \in 1..n + 1 : i # j => u[i] # u[j]
    <2> SUFFICES ASSUME NEW i \in 1..n + 1, NEW j \in 1..n + 1, i # j, u[i] = u[j]
                 PROVE  FALSE
      OBVIOUS
    <2>1. i \in 1..n \/ j \in 1..n
      BY <1>1
    <2>2. i \in 1..n => u[i] \in S
      BY <1>1, <1>4
    <2>3. j \in 1..n => u[j] \in S
      BY <1>1, <1>4
    <2>4. (i \in 1..n \/ i = n + 1) /\ (j \in 1..n \/ j = n + 1)
      BY <1>1
    <2>5. CASE i \in 1..n /\ j \in 1..n
      BY <1>1, <1>4, <2>5
    <2>6. CASE i = n + 1 \/ j = n + 1
      BY <1>4, <2>1, <2>2, <2>3, <2>6
    <2>. QED  BY <2>4, <2>5, <2>6
  <1>7. u \in Seqs(S \cup {r})
    BY <1>2, <1>5, <1>6 DEF Seqs
  <1>. QED  BY <1>2, <1>7, SeqsAre DEF u

LEMMA PreparedIs ==
    ASSUME NEW q \in ResourceJobs, NEW A \in [Resources -> R!Row], NEW N \in [Resources -> R!Row],
           NEW r \in Resources \cup {Nobody}, NEW f \in 0..MaxVersion
    PROVE  /\ R!Prepared(q, A, N, r, f) \in ResourceJobs /\ R!Prepared(q, A, N, r, f).id = r
           /\ R!Prepared(q, A, N, r, f).old = A /\ R!Prepared(q, A, N, r, f).file = f
           /\ R!Prepared(q, A, N, r, f).kind = q.kind /\ R!Prepared(q, A, N, r, f).row = q.row
           /\ \A x \in Resources :
                /\ R!Prepared(q, A, N, r, f).new[x].state = N[x].state
                /\ R!Prepared(q, A, N, r, f).new[x].pos = N[x].pos
                /\ R!Prepared(q, A, N, r, f).new[x].upload = IF x = r /\ f # 0 THEN f ELSE N[x].upload
  <1>. DEFINE M == IF f = 0 THEN N ELSE [N EXCEPT ![r].upload = f]
  <1>0. PICK p : p = R!Prepared(q, A, N, r, f)
    OBVIOUS
  <1>1. p = [q EXCEPT !.id = r, !.old = A, !.file = f, !.new = M]
    BY <1>0 DEF R!Prepared
  <1>2. M \in [Resources -> R!Row]
    BY DEF R!Row
  <1>3. \A x \in Resources :
          /\ M[x].state = N[x].state /\ M[x].pos = N[x].pos
          /\ M[x].upload = IF x = r /\ f # 0 THEN f ELSE N[x].upload
    BY DEF R!Row
  <1>. HIDE DEF M
  <1>4. p \in ResourceJobs /\ p.new = M /\ p.id = r /\ p.old = A /\ p.file = f
    BY <1>1, <1>2 DEF ResourceJobs
  <1>5. p.kind = q.kind /\ p.row = q.row
    BY <1>1 DEF ResourceJobs
  <1>. QED  BY <1>0, <1>3, <1>4, <1>5

LEMMA PreparedList ==
    ASSUME Listing, NEW q \in ResourceJobs, NEW A \in [Resources -> R!Row], NEW N \in [Resources -> R!Row],
           NEW r \in Resources \cup {Nobody}, NEW p, p = R!Prepared(q, A, N, r, 0)
    PROVE  /\ p \in ResourceJobs /\ p.id = r /\ p.old = A /\ p.file = 0 /\ p.new = N
           /\ p.pc = q.pc /\ p.kind = q.kind /\ p.row = q.row /\ p.given = q.given
           /\ p.shown = q.shown /\ p.extras = q.extras
  <1>1. p = [q EXCEPT !.id = r, !.old = A, !.file = 0, !.new = N]
    BY DEF R!Prepared
  <1>2. 0 \in 0..MaxVersion
    BY DEF Listing
  <1>3. p \in ResourceJobs /\ p.new = N /\ p.id = r /\ p.old = A /\ p.file = 0
    BY <1>1, <1>2 DEF ResourceJobs
  <1>. QED  BY <1>1, <1>3 DEF ResourceJobs

\* A job that is to save the list of the resources in S.
LEMMA SavedReady ==
    ASSUME NEW A \in [Resources -> R!Row], NEW N, NEW S \in SUBSET Resources, SavedAs(A, N, S),
           \A r \in S : A[r].state \in {"none", "active"},
           NEW j, j.kind # "update", j.old = A,
           j.file # 0 => j.id \in S /\ A[j.id].upload # j.file,
           \A r \in Resources :
             /\ j.new[r].state = N[r].state /\ j.new[r].pos = N[r].pos
             /\ j.new[r].upload = IF r = j.id /\ j.file # 0 THEN j.file ELSE N[r].upload,
           R!In(A, "active") \ S \subseteq Leaves(j)
    PROVE  Ready(j, A)
  <1>1. Gapless(j.new)
    BY GaplessSame DEF SavedAs, R!In
  <1>2. \A r \in Resources : r \in S <=> N[r].state = "active"
    BY DEF SavedAs, R!In
  <1>3. ASSUME NEW r \in Resources
        PROVE  /\ A[r].state = "purged" => N[r].state = "purged"
               /\ N[r].state \in {"none", "active"} => A[r].state \in {"none", "active"}
               /\ N[r].state = "none" => A[r].state = "none"
               /\ A[r].state = "active" /\ N[r].state # "active" => r \in Leaves(j)
               /\ N[r].state # "purged" => N[r].upload = A[r].upload
    <2>1. A[r].state = "active" /\ N[r].state # "active" => r \in Leaves(j)
      BY <1>2 DEF R!In
    <2>2. A[r].state = "purged" => N[r].state = "purged"
      BY <1>2 DEF SavedAs
    <2>. QED  BY <1>2, <2>1, <2>2 DEF SavedAs
  <1>4. j.file # 0 => /\ j.id \in Resources /\ j.old[j.id].upload # j.file
                      /\ j.new[j.id].state # "purged"
    BY <1>2
  <1>5. \A r \in Resources : j.new[r].state # "purged" =>
           j.new[r].upload = IF r = j.id /\ j.file # 0 THEN j.file ELSE j.old[r].upload
    BY <1>3
  <1>. QED  BY <1>1, <1>3, <1>4, <1>5 DEF Ready

-----------------------------------------------------------------------------
(* Requests that begin *)

LEMMA Started ==
    ASSUME Listing, Kept, NEW w \in Workers, NEW kind \in R!RequestKinds,
           NEW pc \in {"load", "save", "merge", "table"}, NEW q \in ResourceJobs, R!Start(w, kind, pc, q)
    PROVE  \E j \in ResourceJobs :
             /\ job' = [job EXCEPT ![w] = j] /\ job[w].pc = "idle" /\ R!Free(kind) /\ lock # w
             /\ j.pc = pc /\ j.kind = kind /\ j.id = q.id /\ j.row = q.row /\ j.given = q.given
             /\ j.shown = q.shown /\ j.old = q.old /\ j.new = q.new /\ j.extras = q.extras
             /\ j.file = q.file /\ j.flag = q.flag
  <1>. DEFINE j == [q EXCEPT !.kind = kind, !.pc = pc]
  <1>1. job' = [job EXCEPT ![w] = j] /\ job[w].pc = "idle" /\ R!Free(kind)
    BY DEF R!Start
  <1>2. lock # w
    BY <1>1 DEF Kept, Serves, Holds
  <1>3. /\ j \in ResourceJobs /\ j.pc = pc /\ j.kind = kind /\ j.id = q.id /\ j.row = q.row
        /\ j.given = q.given /\ j.shown = q.shown /\ j.old = q.old /\ j.new = q.new
        /\ j.extras = q.extras /\ j.file = q.file /\ j.flag = q.flag
    BY DEF ResourceJobs
  <1>. QED  BY <1>1, <1>2, <1>3

LEMMA SameAlike ==
    ASSUME Kept, list' = list
    PROVE  Alike(list, list') /\ list' \in [Resources -> R!Row]
  BY DEF Alike, Kept

LEMMA AlikePurpose ==
    ASSUME Alike(list, list')
    PROVE  R!LeavesOnPurpose
  BY DEF Alike, R!LeavesOnPurpose, R!In

\* A file that is uploaded is new.
LEMMA FilesNew ==
    ASSUME Kept, Listing, NEW f \in R!Files
    PROVE  /\ f \in 0..MaxVersion /\ (IF f = 0 THEN version ELSE f) \in Nat
           /\ version <= IF f = 0 THEN version ELSE f
           /\ (IF f = 0 THEN version ELSE f) <= MaxVersion
           /\ f <= IF f = 0 THEN version ELSE f
           /\ \A u \in Nat : f # 0 /\ u <= version => u # f
  <1>1. version \in Nat /\ version <= MaxVersion /\ MaxVersion \in Nat
    BY DEF Kept, Listing
  <1>2. f = 0 \/ (f = version + 1 /\ version < MaxVersion)
    BY DEF R!Files
  <1>3. CASE f = 0
    BY <1>1, <1>3
  <1>4. CASE f = version + 1 /\ version < MaxVersion
    BY <1>1, <1>4
  <1>. QED  BY <1>2, <1>3, <1>4

\* What a client says of flags changes nothing else.
LEMMA FlaggedRows ==
    ASSUME NEW N \in [Resources -> R!Row], NEW S, NEW on, NEW M, M = R!Flagged(N, S, on)
    PROVE  /\ M \in [Resources -> R!Row]
           /\ \A x \in Resources : M[x].state = N[x].state /\ M[x].pos = N[x].pos /\ M[x].upload = N[x].upload
  <1>1. \A x \in Resources : (x \in on) \in BOOLEAN
    OBVIOUS
  <1>. QED  BY <1>1 DEF R!Flagged, R!Row

LEMMA CreateKept ==
    ASSUME Listing, Kept, NEW w \in Workers, NEW r \in Resources, R!Create(w, r)
    PROVE  /\ Kept' /\ R!LeavesOnPurpose
           /\ job'[w].pc = "save" /\ job'[w].kind = "create" /\ job'[w].old = list
  <1>. DEFINE S == R!In(list, "active") \cup {r}
              N == R!Saved(list, Append(R!Listed(list), r))
  <1>1. PICK f \in R!Files, on \in SUBSET {r} :
          /\ version' = IF f = 0 THEN version ELSE f
          /\ R!Start(w, "create", "save",
                     [R!Prepared(R!Idle, list, R!Flagged(N, {r}, on), r, f) EXCEPT !.extras = on])
    BY DEF R!Create
  <1>2. /\ list' = list /\ file' = file /\ table' = table /\ omitted' = omitted /\ cut' = cut /\ claimed' = claimed
        /\ lock = Nobody /\ lock' = w /\ list[r].state = "none"
    BY DEF R!Create
  <1>3. list \in [Resources -> R!Row] /\ Gapless(list) /\ version \in Nat
    BY DEF Kept
  <1>4. S \in SUBSET Resources /\ r \notin R!In(list, "active") /\ IsFiniteSet(R!In(list, "active"))
    BY <1>2, <1>3, ActiveRows DEF R!In
  <1>5. Append(R!Listed(list), r) \in R!SetToSeqs(S)
    BY <1>3, <1>4, Ordered, Appended DEF R!Listed
  <1>6. SavedAs(list, N, S)
    BY <1>3, <1>4, <1>5, SavedRows
  <1>7. N \in [Resources -> R!Row] /\ f \in 0..MaxVersion
    BY <1>6, FilesNew DEF SavedAs
  <1>8. \A x \in S : list[x].state \in {"none", "active"}
    BY <1>2 DEF R!In
  <1>. HIDE DEF N, S
  <1>20. PICK M : M = R!Flagged(N, {r}, on)
    OBVIOUS
  <1>21. /\ M \in [Resources -> R!Row]
         /\ \A x \in Resources : M[x].state = N[x].state /\ M[x].pos = N[x].pos /\ M[x].upload = N[x].upload
    BY <1>7, <1>20, FlaggedRows
  <1>9. PICK p : p = R!Prepared(R!Idle, list, M, r, f)
    OBVIOUS
  <1>10. /\ p \in ResourceJobs /\ p.id = r /\ p.old = list /\ p.file = f
         /\ p.row = R!Idle.row
         /\ \A x \in Resources :
              /\ p.new[x].state = N[x].state /\ p.new[x].pos = N[x].pos
              /\ p.new[x].upload = IF x = r /\ f # 0 THEN f ELSE N[x].upload
    <2>1. R!Idle \in ResourceJobs /\ r \in Resources \cup {Nobody}
      BY RowsNew
    <2>2. /\ p \in ResourceJobs /\ p.id = r /\ p.old = list /\ p.file = f /\ p.row = R!Idle.row
          /\ \A x \in Resources :
               /\ p.new[x].state = M[x].state /\ p.new[x].pos = M[x].pos
               /\ p.new[x].upload = IF x = r /\ f # 0 THEN f ELSE M[x].upload
      <3>1. M \in [Resources -> R!Row] /\ list \in [Resources -> R!Row] /\ f \in 0..MaxVersion
        BY <1>3, <1>7, <1>21
      <3>2. /\ R!Prepared(R!Idle, list, M, r, f) \in ResourceJobs /\ R!Prepared(R!Idle, list, M, r, f).id = r
            /\ R!Prepared(R!Idle, list, M, r, f).old = list /\ R!Prepared(R!Idle, list, M, r, f).file = f
            /\ R!Prepared(R!Idle, list, M, r, f).row = R!Idle.row
            /\ \A x \in Resources :
                 /\ R!Prepared(R!Idle, list, M, r, f).new[x].state = M[x].state
                 /\ R!Prepared(R!Idle, list, M, r, f).new[x].pos = M[x].pos
                 /\ R!Prepared(R!Idle, list, M, r, f).new[x].upload = IF x = r /\ f # 0 THEN f ELSE M[x].upload
        BY <2>1, <3>1, PreparedIs
      <3>. QED  BY <1>9, <3>2
    <2>3. ASSUME NEW x \in Resources
          PROVE  /\ p.new[x].state = N[x].state /\ p.new[x].pos = N[x].pos
                 /\ p.new[x].upload = IF x = r /\ f # 0 THEN f ELSE N[x].upload
      <3>1. M[x].state = N[x].state /\ M[x].pos = N[x].pos /\ M[x].upload = N[x].upload
        BY <1>21
      <3>2. /\ p.new[x].state = M[x].state /\ p.new[x].pos = M[x].pos
            /\ p.new[x].upload = IF x = r /\ f # 0 THEN f ELSE M[x].upload
        BY <2>2
      <3>. QED  BY <3>1, <3>2
    <2>. QED  BY <2>2, <2>3
  <1>22. PICK q : q = [p EXCEPT !.extras = on]
    OBVIOUS
  <1>23. /\ q \in ResourceJobs /\ q.id = r /\ q.row = p.row /\ q.old = p.old /\ q.new = p.new /\ q.file = f
    BY <1>10, <1>22 DEF ResourceJobs
  <1>11. PICK j \in ResourceJobs :
           /\ job' = [job EXCEPT ![w] = j] /\ job[w].pc = "idle" /\ R!Free("create")
           /\ j.pc = "save" /\ j.kind = "create" /\ j.id = r /\ j.row = p.row
           /\ j.old = p.old /\ j.new = p.new /\ j.file = f
    <2>1. R!Start(w, "create", "save", q)
      BY <1>1, <1>9, <1>20, <1>22
    <2>. QED  BY <1>23, <2>1, Started DEF R!RequestKinds
  <1>12. \A x \in Resources : list[x].upload \in Nat /\ list[x].upload <= version /\ N[x].upload \in {0, list[x].upload}
    BY <1>6 DEF Kept, R!Row, SavedAs
  <1>13. Ready(j, list)
    <2>1. j.file # 0 => j.id \in S /\ list[j.id].upload # j.file
      BY <1>11, <1>12, FilesNew DEF S
    <2>2. R!In(list, "active") \ S \subseteq Leaves(j)
      BY DEF S
    <2>3. \A x \in Resources :
            /\ j.new[x].state = N[x].state /\ j.new[x].pos = N[x].pos
            /\ j.new[x].upload = IF x = j.id /\ j.file # 0 THEN j.file ELSE N[x].upload
      BY <1>10, <1>11
    <2>4. j.kind # "update" /\ j.old = list
      BY <1>10, <1>11
    <2>. QED  BY <1>3, <1>4, <1>6, <1>8, <2>1, <2>2, <2>3, <2>4, SavedReady
  <1>14. Dated(j, version')
    <2>1. j.row.upload = 0
      BY <1>10, <1>11 DEF R!Idle, R!New
    <2>2. f <= version' /\ version' \in Nat /\ version <= version'
      BY <1>1, FilesNew
    <2>. QED  BY <1>3, <1>10, <1>11, <1>12, <2>1, <2>2 DEF Dated
  <1>15. Continues(w, j)
    <2>1. version' \in Nat /\ version <= version' /\ version' <= MaxVersion
      BY <1>1, FilesNew
    <2>2. Carries(j)
      BY <1>11 DEF Carries
    <2>. QED  BY <1>2, <1>11, <1>14, <2>1, <2>2 DEF Continues, Holds, Kept
  <1>16. Alike(list, list') /\ list' \in [Resources -> R!Row]
    BY <1>2, SameAlike
  <1>0. job'[w] = j
    BY <1>11 DEF Kept
  <1>. QED  BY <1>0, <1>2, <1>10, <1>11, <1>13, <1>15, <1>16, AlikeStep, AlikePurpose

LEMMA ReorderKept ==
    ASSUME Listing, Kept, NEW w \in Workers, NEW order \in R!Lists(R!In(list, "active")), R!Reorder(w, order)
    PROVE  /\ Kept' /\ R!LeavesOnPurpose
           /\ job'[w].pc = "save" /\ job'[w].kind = "reorder" /\ job'[w].old = list
  <1>. DEFINE S == R!In(list, "active")
              rest == R!ByPosition(list, S \ R!ToSet(order))
              N == R!Saved(list, order \o rest)
  <1>1. R!Start(w, "reorder", "save", R!Prepared(R!Idle, list, N, Nobody, 0))
    BY DEF R!Reorder
  <1>2. /\ list' = list /\ file' = file /\ table' = table /\ omitted' = omitted /\ cut' = cut /\ claimed' = claimed
        /\ lock = Nobody /\ lock' = w /\ version' = version
    BY DEF R!Reorder
  <1>3. list \in [Resources -> R!Row] /\ Gapless(list) /\ version \in Nat
    BY DEF Kept
  <1>4. S \in SUBSET Resources /\ IsFiniteSet(S)
    BY <1>3, ActiveRows
  <1>5. PICK T \in SUBSET S : order \in R!SetToSeqs(T)
    BY DEF R!Lists
  <1>6. order \o rest \in R!SetToSeqs(S)
    <2>1. IsFiniteSet(T) /\ IsFiniteSet(S \ T)
      BY <1>4, FS_Subset
    <2>2. R!ToSet(order) = T
      BY <1>5, <2>1, OrderOfAll
    <2>3. rest \in R!SetToSeqs(S \ T)
      BY <1>3, <2>2, Ordered
    <2>4. order \o rest \in R!SetToSeqs(T \cup (S \ T))
      BY <1>5, <2>1, <2>3, Joined
    <2>5. T \cup (S \ T) = S
      OBVIOUS
    <2>. QED  BY <2>4, <2>5
  <1>7. SavedAs(list, N, S)
    BY <1>3, <1>4, <1>6, SavedRows
  <1>8. N \in [Resources -> R!Row] /\ 0 \in 0..MaxVersion
    <2>1. 0 \in 0..MaxVersion
      BY DEF Listing
    <2>. HIDE DEF N
    <2>. QED  BY <1>7, <2>1 DEF SavedAs
  <1>9. \A x \in S : list[x].state \in {"none", "active"}
    BY DEF R!In
  <1>10. R!Start(w, "reorder", "save", R!Prepared(R!Idle, list, N, Nobody, 0)) /\ R!In(list, "active") \ S = {}
    BY <1>1
  <1>. HIDE DEF N, S
  <1>11. PICK p : p = R!Prepared(R!Idle, list, N, Nobody, 0)
    OBVIOUS
  <1>12. /\ p \in ResourceJobs /\ p.id = Nobody /\ p.old = list /\ p.file = 0
         /\ p.row = R!Idle.row /\ p.extras = R!Idle.extras
         /\ \A x \in Resources :
              /\ p.new[x].state = N[x].state /\ p.new[x].pos = N[x].pos
              /\ p.new[x].upload = N[x].upload
    <2>1. R!Idle \in ResourceJobs /\ Nobody \in Resources \cup {Nobody}
      BY RowsNew
    <2>. QED  BY <1>3, <1>8, <1>11, <2>1, PreparedList
  <1>13. PICK j \in ResourceJobs :
           /\ job' = [job EXCEPT ![w] = j] /\ job[w].pc = "idle" /\ R!Free("reorder")
           /\ j.pc = "save" /\ j.kind = "reorder" /\ j.id = Nobody /\ j.row = p.row
           /\ j.old = p.old /\ j.new = p.new /\ j.extras = p.extras /\ j.file = 0
    BY <1>10, <1>11, <1>12, Started DEF R!RequestKinds
  <1>14. \A x \in Resources : list[x].upload \in Nat /\ list[x].upload <= version /\ N[x].upload \in {0, list[x].upload}
    BY <1>7 DEF Kept, R!Row, SavedAs
  <1>15. Ready(j, list)
    <2>1. R!In(list, "active") \ S \subseteq Leaves(j)
      BY <1>10
    <2>2. \A x \in Resources :
            /\ j.new[x].state = N[x].state /\ j.new[x].pos = N[x].pos
            /\ j.new[x].upload = IF x = j.id /\ j.file # 0 THEN j.file ELSE N[x].upload
      BY <1>12, <1>13
    <2>3. j.kind # "update" /\ j.old = list /\ j.extras = {} /\ j.file = 0
      BY <1>12, <1>13, RowsNew
    <2>. QED  BY <1>3, <1>4, <1>7, <1>9, <2>1, <2>2, <2>3, SavedReady
  <1>16. Dated(j, version')
    <2>1. j.row.upload = 0
      BY <1>12, <1>13 DEF R!Idle, R!New
    <2>. QED  BY <1>2, <1>3, <1>12, <1>13, <1>14, <2>1 DEF Dated
  <1>17. Continues(w, j)
    <2>1. Carries(j)
      BY <1>13 DEF Carries
    <2>. QED  BY <1>2, <1>3, <1>13, <1>16, <2>1 DEF Continues, Holds, Kept
  <1>18. Alike(list, list') /\ list' \in [Resources -> R!Row]
    BY <1>2, SameAlike
  <1>0. job'[w] = j
    BY <1>13 DEF Kept
  <1>. QED  BY <1>0, <1>2, <1>12, <1>13, <1>15, <1>17, <1>18, AlikeStep, AlikePurpose

\* A request ends.
LEMMA FinishContinues ==
    ASSUME Listing, Kept, NEW w \in Workers, R!Finish(w), job[w].pc # "idle",
           lock' = IF lock = w THEN Nobody ELSE lock, version' = version,
           table' \subseteq Resources, omitted' \subseteq Resources,
           cut \subseteq cut', cut' \subseteq Resources, claimed' \subseteq Resources
    PROVE  Continues(w, R!Idle)
  <1>1. version \in Nat /\ version <= MaxVersion /\ version <= version'
    BY DEF Kept, Listing
  <1>2. ~Holds(R!Idle)
    BY RowsNew DEF Holds
  <1>. QED  BY <1>1, <1>2, RowsNew DEF Continues, R!Finish

\* A request that ends and has changed no more than flags.
LEMMA FinishKept ==
    ASSUME Listing, Kept, NEW w \in Workers, R!Finish(w), job[w].pc # "idle",
           lock' = IF lock = w THEN Nobody ELSE lock, version' = version,
           table' \subseteq Resources, omitted' \subseteq Resources,
           cut \subseteq cut', cut' \subseteq Resources, claimed' \subseteq Resources, file' = file,
           list' \in [Resources -> R!Row], Alike(list, list'),
           job[w].pc = "commit" /\ job[w].file # 0 => job[w].id \in cut'
    PROVE  Kept' /\ R!LeavesOnPurpose
  <1>1. Continues(w, R!Idle)
    BY FinishContinues
  <1>. QED  BY <1>1, RowsNew, AlikeStep, AlikePurpose

LEMMA LoadKept ==
    ASSUME Listing, Kept, NEW w \in Workers, NEW r \in Resources,
           NEW kind \in {"update", "delete"}, R!Load(w, kind, r)
    PROVE  /\ Kept' /\ R!LeavesOnPurpose
           /\ job'[w].pc = "load" /\ job'[w].id = r /\ job'[w].row = list[r]
  <1>1. PICK q : q = [R!Idle EXCEPT !.id = r, !.row = list[r]]
    OBVIOUS
  <1>2. list[r] \in R!Row /\ list[r].upload \in Nat /\ list[r].upload <= version /\ version \in Nat
    BY DEF Kept, R!Row
  <1>3. /\ q \in ResourceJobs /\ q.id = r /\ q.row = list[r] /\ q.new = R!Idle.new
        /\ q.file = 0 /\ q.extras = {}
    BY <1>1, <1>2, RowsNew DEF ResourceJobs
  <1>4. /\ list[r].state = "active" /\ R!Start(w, kind, "load", q)
        /\ UNCHANGED <<list, file, table, lock, version, omitted, cut, claimed>>
    BY <1>1 DEF R!Load
  <1>5. PICK j \in ResourceJobs :
          /\ job' = [job EXCEPT ![w] = j] /\ job[w].pc = "idle" /\ R!Free(kind) /\ lock # w
          /\ j.pc = "load" /\ j.kind = kind /\ j.id = q.id /\ j.row = q.row
          /\ j.new = q.new /\ j.extras = q.extras /\ j.file = q.file
    BY <1>3, <1>4, Started DEF R!RequestKinds
  <1>6. Dated(j, version)
    BY <1>2, <1>3, <1>5, RowsNew DEF Dated
  <1>7. Carries(j) /\ ~Holds(j)
    BY <1>3, <1>4, <1>5 DEF Carries, Holds
  <1>8. Continues(w, j)
    BY <1>4, <1>5, <1>6, <1>7 DEF Continues, Kept, Listing
  <1>9. Alike(list, list') /\ list' \in [Resources -> R!Row]
    BY <1>4, SameAlike
  <1>0. job'[w] = j
    BY <1>5 DEF Kept
  <1>. QED  BY <1>0, <1>3, <1>4, <1>5, <1>8, <1>9, AlikeStep, AlikePurpose

LEMMA PackageKept ==
    ASSUME Listing, Kept, NEW w \in Workers, NEW order \in R!Lists(R!In(list, "active")),
           NEW changed \in SUBSET R!ToSet(order), NEW on \in SUBSET changed, R!Package(w, order, changed, on)
    PROVE  /\ Kept' /\ R!LeavesOnPurpose
           /\ job'[w].pc = "merge"
  <1>1. PICK q : q = [R!Idle EXCEPT !.given = order, !.changed = changed, !.on = on, !.shown = R!Listed(list)]
    OBVIOUS
  <1>2. list \in [Resources -> R!Row] /\ Gapless(list) /\ version \in Nat
    BY DEF Kept
  <1>3. PICK T \in SUBSET R!In(list, "active") : order \in R!SetToSeqs(T)
    BY DEF R!Lists
  <1>4. IsFiniteSet(T) /\ T \subseteq Resources
    BY <1>2, ActiveRows, FS_Subset
  <1>5. order \in Seq(Resources) /\ R!ToSet(order) \subseteq Resources
    <2>1. order \in Seq(T) /\ R!ToSet(order) = T
      BY <1>3, <1>4, OrderOfAll
    <2>. QED  BY <1>4, <2>1
  <1>6. R!Listed(list) \in Seq(Resources)
    <2>1. R!Listed(list) \in Seq(R!In(list, "active"))
      BY <1>2, Ordered, OrderOfAll DEF R!Listed
    <2>. QED  BY <1>2, <2>1, ActiveRows
  <1>7. /\ q \in ResourceJobs /\ q.given = order /\ q.shown = R!Listed(list) /\ q.new = R!Idle.new
        /\ q.row = R!Idle.row /\ q.file = 0 /\ q.extras = {}
    BY <1>1, <1>5, <1>6, RowsNew DEF ResourceJobs
  <1>8. /\ R!Start(w, "package", "merge", q)
        /\ UNCHANGED <<list, file, table, lock, version, omitted, cut, claimed>>
    BY <1>1 DEF R!Package
  <1>9. PICK j \in ResourceJobs :
          /\ job' = [job EXCEPT ![w] = j] /\ job[w].pc = "idle" /\ R!Free("package") /\ lock # w
          /\ j.pc = "merge" /\ j.kind = "package" /\ j.row = q.row /\ j.given = q.given
          /\ j.shown = q.shown /\ j.new = q.new /\ j.extras = q.extras /\ j.file = q.file
    BY <1>7, <1>8, Started DEF R!RequestKinds
  <1>10. Dated(j, version)
    <2>1. Dated(R!Idle, version)
      BY <1>2, RowsNew
    <2>. QED  BY <1>7, <1>9, <2>1, RowsNew DEF Dated
  <1>11. Carries(j) /\ ~Holds(j)
    BY <1>7, <1>9 DEF Carries, Holds
  <1>12. Continues(w, j)
    BY <1>8, <1>9, <1>10, <1>11 DEF Continues, Kept, Listing
  <1>13. Shown(j, list)
    BY <1>3, <1>7, <1>9 DEF Shown
  <1>14. Alike(list, list') /\ list' \in [Resources -> R!Row]
    BY <1>8, SameAlike
  <1>0. job'[w] = j
    BY <1>9 DEF Kept
  <1>. QED  BY <1>0, <1>8, <1>9, <1>12, <1>13, <1>14, AlikeStep, AlikePurpose

LEMMA DataStoreKept ==
    ASSUME Listing, Kept, NEW w \in Workers, NEW r \in Resources, NEW make \in BOOLEAN,
           R!DataStore(w, r, make)
    PROVE  /\ Kept' /\ R!LeavesOnPurpose
           /\ job'[w].pc = "table" /\ job'[w].id = r /\ job'[w].row = list[r]
  <1>1. PICK q : q = [R!Idle EXCEPT !.id = r, !.row = list[r], !.flag = make]
    OBVIOUS
  <1>2. list[r] \in R!Row /\ list[r].upload \in Nat /\ list[r].upload <= version /\ version \in Nat
    BY DEF Kept, R!Row
  <1>3. /\ q \in ResourceJobs /\ q.id = r /\ q.row = list[r] /\ q.new = R!Idle.new
        /\ q.file = 0 /\ q.extras = {}
    BY <1>1, <1>2, RowsNew DEF ResourceJobs
  <1>4. /\ R!Start(w, "datastore", "table", q)
        /\ UNCHANGED <<list, file, table, lock, version, omitted, cut, claimed>>
    BY <1>1 DEF R!DataStore
  <1>5. PICK j \in ResourceJobs :
          /\ job' = [job EXCEPT ![w] = j] /\ job[w].pc = "idle" /\ R!Free("datastore") /\ lock # w
          /\ j.pc = "table" /\ j.kind = "datastore" /\ j.id = q.id /\ j.row = q.row
          /\ j.new = q.new /\ j.extras = q.extras /\ j.file = q.file
    BY <1>3, <1>4, Started DEF R!RequestKinds
  <1>6. Dated(j, version)
    BY <1>2, <1>3, <1>5, RowsNew DEF Dated
  <1>7. Carries(j) /\ ~Holds(j)
    BY <1>3, <1>4, <1>5 DEF Carries, Holds
  <1>8. Continues(w, j)
    BY <1>4, <1>5, <1>6, <1>7 DEF Continues, Kept, Listing
  <1>9. Alike(list, list') /\ list' \in [Resources -> R!Row]
    BY <1>4, SameAlike
  <1>0. job'[w] = j
    BY <1>5 DEF Kept
  <1>. QED  BY <1>0, <1>3, <1>4, <1>5, <1>8, <1>9, AlikeStep, AlikePurpose

-----------------------------------------------------------------------------
(* Requests that go on *)

LEMMA UpdateKept ==
    ASSUME Listing, Kept, NEW w \in Workers, R!Update(w)
    PROVE  /\ Kept' /\ R!LeavesOnPurpose
           /\ \/ job'[w] = R!Idle
              \/ /\ job'[w].pc = "save" /\ job'[w].kind = "update"
                 /\ \A x \in job'[w].extras : x = job[w].id /\ job'[w].old[x].flag = job[w].row.flag
  <1>. DEFINE q == job[w]
              known == [list EXCEPT ![q.id] = q.row]
  <1>1. /\ q.pc = "load" /\ q.kind = "update" /\ lock = Nobody
        /\ UNCHANGED <<list, file, table, omitted, cut, claimed>>
    BY DEF R!Update
  <1>2. /\ q \in ResourceJobs /\ q.id \in Resources /\ q.row \in R!Row /\ q.row.state = "active"
        /\ q.row.upload \in Nat /\ q.row.upload <= version
    <2>1. q \in ResourceJobs /\ Carries(q) /\ Dated(q, version)
      BY DEF Kept, Serves
    <2>. QED  BY <1>1, <2>1 DEF ResourceJobs, R!Row, Carries, Dated
  <1>3. list \in [Resources -> R!Row] /\ version \in Nat
    BY DEF Kept
  <1>4. known \in [Resources -> R!Row]
    BY <1>2, <1>3
  <1>5. \A x \in Resources : known[x] = IF x = q.id THEN q.row ELSE list[x]
    BY <1>2, <1>3
  <1>6. CASE R!Finish(w) /\ UNCHANGED <<lock, version>>
    <2>1. Alike(list, list') /\ list' \in [Resources -> R!Row]
      BY <1>1, SameAlike
    <2>2. job'[w] = R!Idle
      BY <1>6 DEF R!Finish, Kept
    <2>. QED  BY <1>1, <1>6, <2>1, <2>2, FinishKept DEF Kept, Listing
  <1>7. CASE \E f \in R!Files, extras, on \in SUBSET {q.id} :
               /\ R!Reflagged(known, {q.id}, on) \subseteq extras
               /\ job' = [job EXCEPT ![w] =
                            [R!Prepared(q, known, R!Flagged(known, {q.id}, on), q.id, f) EXCEPT
                               !.extras = extras, !.pc = "save"]]
               /\ lock' = w
               /\ version' = IF f = 0 THEN version ELSE f
    <2>1. PICK f \in R!Files, extras \in SUBSET Resources, on \in SUBSET Resources :
            /\ extras \subseteq {q.id}
            /\ job' = [job EXCEPT ![w] =
                         [R!Prepared(q, known, R!Flagged(known, {q.id}, on), q.id, f) EXCEPT
                            !.extras = extras, !.pc = "save"]]
            /\ lock' = w
            /\ version' = IF f = 0 THEN version ELSE f
      <3>1. SUBSET {q.id} \subseteq SUBSET Resources
        BY <1>2
      <3>. QED  BY <1>7, <3>1
    <2>16. PICK M : M = R!Flagged(known, {q.id}, on)
      OBVIOUS
    <2>17. /\ M \in [Resources -> R!Row]
           /\ \A x \in Resources :
                M[x].state = known[x].state /\ M[x].pos = known[x].pos /\ M[x].upload = known[x].upload
      <3>. HIDE DEF known, q
      <3>. QED  BY <1>4, <2>16, FlaggedRows
    <2>2. PICK p : p = R!Prepared(q, known, M, q.id, f)
      OBVIOUS
    <2>3. PICK j : j = [p EXCEPT !.extras = extras, !.pc = "save"]
      OBVIOUS
    <2>4. job' = [job EXCEPT ![w] = j]
      BY <2>1, <2>2, <2>3, <2>16
    <2>5. f \in 0..MaxVersion
      BY FilesNew
    <2>. HIDE DEF known, q
    <2>6. /\ p \in ResourceJobs /\ p.id = q.id /\ p.old = known /\ p.file = f
          /\ p.kind = q.kind /\ p.row = q.row
          /\ \A x \in Resources :
               /\ p.new[x].state = known[x].state /\ p.new[x].pos = known[x].pos
               /\ p.new[x].upload = IF x = q.id /\ f # 0 THEN f ELSE known[x].upload
      <3>1. /\ p \in ResourceJobs /\ p.id = q.id /\ p.old = known /\ p.file = f
            /\ p.kind = q.kind /\ p.row = q.row
            /\ \A x \in Resources :
                 /\ p.new[x].state = M[x].state /\ p.new[x].pos = M[x].pos
                 /\ p.new[x].upload = IF x = q.id /\ f # 0 THEN f ELSE M[x].upload
        <4>1. M \in [Resources -> R!Row]
          BY <2>17
        <4>2. q \in ResourceJobs /\ q.id \in Resources \cup {Nobody}
          BY <1>2
        <4>3. known \in [Resources -> R!Row] /\ f \in 0..MaxVersion
          BY <1>4, <2>5
        <4>4. PICK F : F = IF f = 0 THEN M ELSE [M EXCEPT ![q.id].upload = f]
          OBVIOUS
        <4>5. p = [q EXCEPT !.id = q.id, !.old = known, !.file = f, !.new = F]
          BY <2>2, <4>4 DEF R!Prepared
        <4>6. F \in [Resources -> R!Row]
          BY <4>1, <4>2, <4>3, <4>4 DEF R!Row
        <4>7. \A x \in Resources :
                /\ F[x].state = M[x].state /\ F[x].pos = M[x].pos
                /\ F[x].upload = IF x = q.id /\ f # 0 THEN f ELSE M[x].upload
          BY <4>1, <4>2, <4>3, <4>4 DEF R!Row
        <4>8. /\ p \in ResourceJobs /\ p.new = F /\ p.id = q.id /\ p.old = known /\ p.file = f
              /\ p.kind = q.kind /\ p.row = q.row
          BY <4>2, <4>3, <4>5, <4>6 DEF ResourceJobs
        <4>. QED  BY <4>7, <4>8
      <3>2. ASSUME NEW x \in Resources
            PROVE  /\ p.new[x].state = known[x].state /\ p.new[x].pos = known[x].pos
                   /\ p.new[x].upload = IF x = q.id /\ f # 0 THEN f ELSE known[x].upload
        <4>1. M[x].state = known[x].state /\ M[x].pos = known[x].pos /\ M[x].upload = known[x].upload
          BY <2>17
        <4>2. /\ p.new[x].state = M[x].state /\ p.new[x].pos = M[x].pos
              /\ p.new[x].upload = IF x = q.id /\ f # 0 THEN f ELSE M[x].upload
          BY <3>1
        <4>. QED  BY <4>1, <4>2
      <3>. QED  BY <3>1, <3>2
    <2>7. extras \subseteq Resources
      OBVIOUS
    <2>8. /\ j \in ResourceJobs /\ j.pc = "save" /\ j.id = q.id /\ j.old = known /\ j.file = f
          /\ j.kind = "update" /\ j.row = q.row /\ j.new = p.new /\ j.extras = extras
      BY <1>1, <2>3, <2>6, <2>7 DEF ResourceJobs, q
    <2>9. \A x \in Resources : known[x].upload \in Nat /\ known[x].upload <= version
      BY <1>2, <1>5 DEF Kept, R!Row
    <2>10. Dated(j, version')
      <3>1. f <= version' /\ version' \in Nat /\ version <= version'
        BY <2>1, FilesNew
      <3>. QED  BY <1>2, <1>3, <2>6, <2>8, <2>9, <3>1 DEF Dated
    <2>11. Ready(j, list)
      <3>1. j.file # 0 => j.old[j.id].upload # j.file /\ j.new[j.id].state # "purged" /\ j.id \in Resources
        BY <1>2, <1>5, <2>6, <2>8, FilesNew
      <3>2. \A r \in Resources :
              /\ j.new[r].state = j.old[r].state /\ j.new[r].pos = j.old[r].pos
              /\ j.new[r].state = "purged" => list[r].state = "purged"
              /\ j.new[r].upload = IF r = j.id /\ j.file # 0 THEN j.file ELSE j.old[r].upload
        BY <1>2, <1>5, <2>6, <2>8
      <3>. QED  BY <2>8, <3>1, <3>2 DEF Ready
    <2>12. Continues(w, j)
      <3>1. version' \in Nat /\ version <= version' /\ version' <= MaxVersion
        BY <2>1, FilesNew
      <3>2. Carries(j) /\ Holds(j)
        BY <2>8 DEF Carries, Holds
      <3>. QED  BY <1>1, <2>1, <2>4, <2>8, <2>10, <3>1, <3>2 DEF Continues, Kept, q
    <2>13. Alike(list, list') /\ list' \in [Resources -> R!Row]
      BY <1>1, SameAlike
    <2>14. job'[w] = j
      BY <2>4 DEF Kept
    <2>15. \A x \in extras : x = q.id /\ j.old[x].flag = q.row.flag
      BY <1>2, <1>5, <2>1, <2>8
    <2>. QED  BY <1>1, <2>8, <2>14, <2>15, <2>11, <2>12, <2>13, AlikeStep, AlikePurpose DEF q
  <1>. QED  BY <1>6, <1>7 DEF R!Update

LEMMA DeleteKept ==
    ASSUME Listing, Kept, NEW w \in Workers, R!Delete(w)
    PROVE  /\ Kept' /\ R!LeavesOnPurpose
           /\ /\ job'[w].pc = "save" /\ job'[w].kind = "delete" /\ job'[w].id = job[w].id
              /\ job'[w].old = list
              /\ list[job[w].id].state = "active" => job'[w].new[job[w].id].state = "deleted"
  <1>. DEFINE q == job[w]
              S == R!In(list, "active") \ {q.id}
              N == R!Saved(list, R!ByPosition(list, S))
  <1>1. /\ q.pc = "load" /\ q.kind = "delete" /\ lock = Nobody /\ lock' = w
        /\ UNCHANGED <<list, file, table, version, omitted, cut, claimed>>
        /\ job' = [job EXCEPT ![w] = [R!Prepared(q, list, N, q.id, 0) EXCEPT !.pc = "save"]]
    BY DEF R!Delete
  <1>2. /\ q \in ResourceJobs /\ q.id \in Resources /\ q.extras = {}
        /\ q.row.upload \in Nat /\ q.row.upload <= version
    <2>1. q \in ResourceJobs /\ Carries(q) /\ Dated(q, version)
      BY DEF Kept, Serves
    <2>. QED  BY <1>1, <2>1 DEF ResourceJobs, R!Row, Carries, Dated
  <1>3. list \in [Resources -> R!Row] /\ Gapless(list) /\ version \in Nat
    BY DEF Kept
  <1>4. S \in SUBSET Resources
    BY <1>3, ActiveRows
  <1>5. SavedAs(list, N, S)
    <2>1. R!ByPosition(list, S) \in R!SetToSeqs(S)
      BY <1>3, Ordered
    <2>. QED  BY <1>3, <1>4, <2>1, SavedRows
  <1>6. \A x \in S : list[x].state \in {"none", "active"}
    BY DEF R!In
  <1>7. R!In(list, "active") \ S \subseteq {q.id}
    OBVIOUS
  <1>. HIDE DEF N, S, q
  <1>8. N \in [Resources -> R!Row]
    BY <1>5 DEF SavedAs
  <1>9. PICK p : p = R!Prepared(q, list, N, q.id, 0)
    OBVIOUS
  <1>10. PICK j : j = [p EXCEPT !.pc = "save"]
    OBVIOUS
  <1>11. job' = [job EXCEPT ![w] = j]
    BY <1>1, <1>9, <1>10
  <1>12. /\ p \in ResourceJobs /\ p.id = q.id /\ p.old = list /\ p.file = 0 /\ p.new = N
         /\ p.kind = q.kind /\ p.row = q.row /\ p.extras = q.extras
    BY <1>2, <1>3, <1>8, <1>9, PreparedList
  <1>13. /\ j \in ResourceJobs /\ j.pc = "save" /\ j.id = q.id /\ j.old = list /\ j.file = 0
         /\ j.new = N /\ j.kind = "delete" /\ j.row = q.row /\ j.extras = {}
    BY <1>1, <1>2, <1>10, <1>12 DEF ResourceJobs
  <1>14. \A x \in Resources : list[x].upload \in Nat /\ list[x].upload <= version /\ N[x].upload \in {0, list[x].upload}
    BY <1>5 DEF Kept, R!Row, SavedAs
  <1>15. Dated(j, version')
    BY <1>1, <1>2, <1>3, <1>13, <1>14 DEF Dated
  <1>16. Ready(j, list)
    <2>1. R!In(list, "active") \ S \subseteq Leaves(j)
      BY <1>7, <1>13 DEF Leaves
    <2>. QED  BY <1>3, <1>4, <1>5, <1>6, <1>13, <2>1, SavedReady
  <1>17. Continues(w, j)
    <2>1. Carries(j) /\ Holds(j)
      BY <1>13 DEF Carries, Holds
    <2>2. version' \in Nat /\ version <= version' /\ version' <= MaxVersion
      BY <1>1, <1>3 DEF Kept, Listing
    <2>. QED  BY <1>1, <1>11, <1>13, <1>15, <2>1, <2>2 DEF Continues, Kept, q
  <1>18. Alike(list, list') /\ list' \in [Resources -> R!Row]
    BY <1>1, SameAlike
  <1>19. list[q.id].state = "active" => N[q.id].state = "deleted"
    BY <1>2, <1>5 DEF SavedAs, S
  <1>0. job'[w] = j
    BY <1>11 DEF Kept
  <1>. QED  BY <1>0, <1>19, <1>1, <1>13, <1>16, <1>17, <1>18, AlikeStep, AlikePurpose DEF q

\* package_update alone finds the rows where they were shown: the list that
\* it saves is the one that was given.
LEMMA MergedIs ==
    ASSUME Listing, NEW A \in [Resources -> R!Row], Gapless(A), NEW q \in ResourceJobs, Shown(q, A)
    PROVE  /\ R!ToSet(q.given) \subseteq R!In(A, "active") /\ q.given \in R!SetToSeqs(R!ToSet(q.given))
           /\ \A r \in R!ToSet(q.given) :
                /\ ~(R!Index(q.shown, r) >= Len(R!Listed(A)))
                /\ R!Listed(A)[R!Index(q.shown, r) + 1] = r
  <1>. DEFINE s == R!Listed(A)
              n == Cardinality(R!In(A, "active"))
  <1>1. PICK T \in SUBSET R!In(A, "active") : q.given \in R!SetToSeqs(T)
    BY DEF Shown
  <1>2. IsFiniteSet(T) /\ IsFiniteSet(R!In(A, "active"))
    BY ActiveRows, FS_Subset
  <1>3. R!ToSet(q.given) = T
    BY <1>1, <1>2, OrderOfAll
  <1>4. s \in R!SetToSeqs(R!In(A, "active"))
    BY Ordered DEF R!Listed
  <1>5. Len(s) = n /\ n \in Nat /\ \A r \in R!In(A, "active") : \E i \in 1..n : s[i] = r
    BY <1>2, <1>4, OrderOfAll
  <1>6. q.shown = s
    BY DEF Shown
  <1>. HIDE DEF s, n
  <1>7. ASSUME NEW r \in T
        PROVE  /\ ~(R!Index(q.shown, r) >= Len(s))
               /\ s[R!Index(q.shown, r) + 1] = r
    <2>1. PICK i \in 1..n : s[i] = r
      BY <1>5
    <2>2. i - 1 \in 0..Len(s) - 1 /\ s[(i - 1) + 1] = r
      BY <1>5, <2>1
    <2>3. \E k \in 0..Len(s) - 1 : s[k + 1] = r
      BY <2>2
    <2>4. R!Index(s, r) \in 0..Len(s) - 1 /\ s[R!Index(s, r) + 1] = r
      BY <2>3 DEF R!Index
    <2>. QED  BY <1>5, <1>6, <2>4
  <1>. QED  BY <1>1, <1>3, <1>7 DEF s

LEMMA MergeKept ==
    ASSUME Listing, Kept, NEW w \in Workers, R!Merge(w)
    PROVE  /\ Kept' /\ R!LeavesOnPurpose
           /\ job'[w].pc = "flush" /\ job'[w].old = list
  <1>. DEFINE q == job[w]
              now == R!Listed(list)
              order == [i \in DOMAIN q.given |->
                         IF q.given[i] \in q.changed THEN q.given[i]
                         ELSE now[R!Index(q.shown, q.given[i]) + 1]]
              S == R!ToSet(q.given)
              N == R!Saved(list, q.given)
  <1>1. q.pc = "merge" /\ UNCHANGED <<list, file, table, lock, version, omitted, cut, claimed>>
    BY DEF R!Merge
  <1>2. /\ q \in ResourceJobs /\ q.file = 0 /\ q.kind = "package" /\ Shown(q, list)
        /\ q.row.upload \in Nat /\ q.row.upload <= version /\ lock # w
    <2>1. q \in ResourceJobs /\ Carries(q) /\ Dated(q, version) /\ (q.pc = "merge" => Shown(q, list)) /\ (Holds(q) <=> lock = w)
      BY DEF Kept, Serves
    <2>. QED  BY <1>1, <2>1 DEF ResourceJobs, R!Row, Carries, Dated, Holds
  <1>3. list \in [Resources -> R!Row] /\ Gapless(list) /\ version \in Nat
    BY DEF Kept
  <1>4. /\ S \subseteq R!In(list, "active") /\ q.given \in R!SetToSeqs(S)
        /\ \A r \in S : ~(R!Index(q.shown, r) >= Len(now)) /\ now[R!Index(q.shown, r) + 1] = r
    BY <1>2, <1>3, MergedIs
  <1>5. order = q.given
    <2>1. q.given \in Seq(Resources)
      BY <1>2 DEF ResourceJobs
    <2>2. \A i \in DOMAIN q.given : q.given[i] \in S
      BY DEF R!ToSet
    <2>3. \A i \in DOMAIN q.given : order[i] = q.given[i]
      BY <1>4, <2>2
    <2>4. order = [i \in DOMAIN q.given |-> q.given[i]]
      BY <2>3
    <2>5. q.given = [i \in DOMAIN q.given |-> q.given[i]]
      BY <2>1
    <2>. QED  BY <2>4, <2>5
  <1>6. {r \in S \ q.changed : R!Index(q.shown, r) >= Len(now)} = {}
    BY <1>4
  <1>7. job' = [job EXCEPT ![w] = [R!Prepared(q, list, R!Flagged(N, q.changed, q.on), Nobody, 0) EXCEPT
                                     !.extras = R!Reflagged(N, q.changed, q.on), !.pc = "flush"]]
    <2>1. job' = [job EXCEPT ![w] =
                    [R!Prepared(q, list, R!Flagged(R!Saved(list, order), q.changed, q.on), Nobody, 0) EXCEPT
                       !.extras = R!Reflagged(R!Saved(list, order), q.changed, q.on), !.pc = "flush"]]
      BY <1>6 DEF R!Merge
    <2>. QED  BY <1>5, <2>1
  <1>23. R!Reflagged(N, q.changed, q.on) \in SUBSET Resources
    BY <1>2 DEF R!Reflagged, ResourceJobs
  <1>8. S \in SUBSET Resources
    BY <1>3, <1>4, ActiveRows
  <1>9. SavedAs(list, N, S)
    BY <1>3, <1>4, <1>8, SavedRows
  <1>10. \A x \in S : list[x].state \in {"none", "active"}
    BY <1>4 DEF R!In
  <1>11. R!In(list, "active") \ S \subseteq Resources \ R!ToSet(q.given)
    BY <1>3, ActiveRows
  <1>. HIDE DEF N, S, q, now, order
  <1>12. N \in [Resources -> R!Row]
    BY <1>9 DEF SavedAs
  <1>24. PICK M, X : M = R!Flagged(N, q.changed, q.on) /\ X = R!Reflagged(N, q.changed, q.on)
    OBVIOUS
  <1>25. /\ M \in [Resources -> R!Row]
         /\ \A x \in Resources : M[x].state = N[x].state /\ M[x].pos = N[x].pos /\ M[x].upload = N[x].upload
    BY <1>12, <1>24, FlaggedRows
  <1>13. PICK p : p = R!Prepared(q, list, M, Nobody, 0)
    OBVIOUS
  <1>14. PICK j : j = [p EXCEPT !.extras = X, !.pc = "flush"]
    OBVIOUS
  <1>15. job' = [job EXCEPT ![w] = j]
    BY <1>7, <1>13, <1>14, <1>24
  <1>16. /\ p \in ResourceJobs /\ p.id = Nobody /\ p.old = list /\ p.file = 0 /\ p.new = M
         /\ p.kind = q.kind /\ p.row = q.row /\ p.given = q.given
    <2>1. Nobody \in Resources \cup {Nobody}
      OBVIOUS
    <2>2. q \in ResourceJobs
      BY <1>2
    <2>. QED  BY <1>3, <1>13, <1>25, <2>1, <2>2, PreparedList
  <1>17. /\ j \in ResourceJobs /\ j.pc = "flush" /\ j.id = Nobody /\ j.old = list /\ j.file = 0
         /\ j.new = M /\ j.kind = "package" /\ j.row = q.row /\ j.given = q.given
    BY <1>2, <1>14, <1>16, <1>23, <1>24 DEF ResourceJobs
  <1>18. \A x \in Resources : list[x].upload \in Nat /\ list[x].upload <= version /\ N[x].upload \in {0, list[x].upload}
    BY <1>9 DEF Kept, R!Row, SavedAs
  <1>19. Dated(j, version')
    BY <1>1, <1>2, <1>3, <1>17, <1>18, <1>25 DEF Dated
  <1>20. Ready(j, list)
    <2>1. R!In(list, "active") \ S \subseteq Leaves(j)
      BY <1>11, <1>17 DEF Leaves
    <2>. QED  BY <1>3, <1>8, <1>9, <1>10, <1>17, <1>25, <2>1, SavedReady
  <1>21. Continues(w, j)
    <2>1. Carries(j) /\ ~Holds(j)
      BY <1>17 DEF Carries, Holds
    <2>. QED  BY <1>1, <1>2, <1>3, <1>15, <1>17, <1>19, <2>1 DEF Continues, Kept, Listing, q
  <1>22. Alike(list, list') /\ list' \in [Resources -> R!Row]
    BY <1>1, SameAlike
  <1>0. job'[w] = j
    BY <1>15 DEF Kept
  <1>. QED  BY <1>0, <1>1, <1>17, <1>20, <1>21, <1>22, AlikeStep, AlikePurpose DEF q

LEMMA AbortKept ==
    ASSUME Listing, Kept, NEW w \in Workers, R!Abort(w)
    PROVE  Kept' /\ R!LeavesOnPurpose
  <1>1. /\ job[w].pc = "commit" /\ lock' = Nobody /\ R!Finish(w)
        /\ cut' = IF job[w].file = 0 THEN cut ELSE cut \cup {job[w].id}
        /\ UNCHANGED <<list, file, table, version, omitted, claimed>>
    BY DEF R!Abort
  <1>2. lock = w /\ (job[w].file # 0 => job[w].id \in Resources)
    BY <1>1 DEF Kept, Serves, Holds, Ready
  <1>3. cut \subseteq cut' /\ cut' \subseteq Resources /\ (job[w].file # 0 => job[w].id \in cut')
    BY <1>1, <1>2 DEF Kept
  <1>4. Alike(list, list') /\ list' \in [Resources -> R!Row]
    BY <1>1, SameAlike
  <1>. QED  BY <1>1, <1>2, <1>3, <1>4, FinishKept DEF Kept

LEMMA DieKept ==
    ASSUME Listing, Kept, NEW w \in Workers, R!Die(w)
    PROVE  Kept' /\ R!LeavesOnPurpose
  <1>1. /\ job[w].pc # "idle" /\ lock' = IF lock = w THEN Nobody ELSE lock
        /\ R!Finish(w) /\ cut' = cut \cup ({job[w].id} \cap Resources)
        /\ UNCHANGED <<list, file, table, version, omitted, claimed>>
    BY DEF R!Die, R!Busy
  <1>2. job[w].pc = "commit" /\ job[w].file # 0 => job[w].id \in Resources
    BY DEF Kept, Serves, Ready
  <1>3. cut \subseteq cut' /\ cut' \subseteq Resources
    BY <1>1 DEF Kept
  <1>4. Alike(list, list') /\ list' \in [Resources -> R!Row]
    BY <1>1, SameAlike
  <1>. QED  BY <1>1, <1>2, <1>3, <1>4, FinishKept DEF Kept

\* A request that goes on without the lock, and ends without it.
LEMMA PastKept ==
    ASSUME Listing, Kept, NEW w \in Workers, NEW pc \in {"dropped", "flag"}, NEW extras \in SUBSET Resources,
           IF pc = "dropped" THEN job[w].pc = "drop" ELSE job[w].pc = "table",
           job' = [job EXCEPT ![w] = [job[w] EXCEPT !.pc = pc, !.extras = extras]],
           table' \subseteq Resources, UNCHANGED <<list, file, lock, version, omitted, cut, claimed>>
    PROVE  Kept' /\ R!LeavesOnPurpose
  <1>1. PICK j : j = [job[w] EXCEPT !.pc = pc, !.extras = extras]
    OBVIOUS
  <1>2. job[w] \in ResourceJobs /\ Carries(job[w]) /\ Dated(job[w], version) /\ lock # w
    BY DEF Kept, Serves, Holds
  <1>3. /\ j \in ResourceJobs /\ j.pc = pc /\ j.kind = job[w].kind /\ j.id = job[w].id
        /\ j.row = job[w].row /\ j.new = job[w].new /\ j.file = job[w].file
    BY <1>1, <1>2 DEF ResourceJobs
  <1>4. Carries(j) /\ Dated(j, version) /\ ~Holds(j)
    BY <1>2, <1>3 DEF Carries, Dated, Holds
  <1>5. version \in Nat /\ version <= MaxVersion /\ version <= version
    BY DEF Kept, Listing
  <1>6. Continues(w, j)
    BY <1>1, <1>2, <1>3, <1>4, <1>5 DEF Continues, Kept
  <1>7. Alike(list, list') /\ list' \in [Resources -> R!Row]
    BY SameAlike
  <1>. QED  BY <1>3, <1>6, <1>7, AlikeStep, AlikePurpose

LEMMA DropKept ==
    ASSUME Listing, Kept, NEW w \in Workers, R!Drop(w)
    PROVE  Kept' /\ R!LeavesOnPurpose
  <1>1. R!ToDrop(w) \in SUBSET Resources
    BY DEF R!ToDrop, R!In
  <1>2. /\ job[w].pc = "drop" /\ table' \subseteq Resources
        /\ UNCHANGED <<list, file, lock, version, omitted, cut, claimed>>
    BY DEF R!Drop, Kept
  <1>3. job' = [job EXCEPT ![w] = [job[w] EXCEPT !.pc = "dropped", !.extras = R!ToDrop(w)]]
    BY DEF R!Drop, Kept, ResourceJobs
  <1>. QED  BY <1>1, <1>2, <1>3, PastKept

LEMMA TableKept ==
    ASSUME Listing, Kept, NEW w \in Workers, R!Table(w)
    PROVE  Kept' /\ R!LeavesOnPurpose
  <1>1. /\ job[w].pc = "table" /\ UNCHANGED <<list, file, lock, version, omitted, cut, claimed>>
        /\ job[w] \in ResourceJobs /\ job[w].id \in Resources
    BY DEF R!Table, Kept, Serves, Carries
  <1>2. table' \subseteq Resources
    BY <1>1 DEF R!Table, Kept
  <1>3. CASE R!Finish(w)
    <2>1. Alike(list, list') /\ list' \in [Resources -> R!Row]
      BY <1>1, SameAlike
    <2>2. lock # w
      BY <1>1 DEF Kept, Serves, Holds
    <2>. QED  BY <1>1, <1>2, <1>3, <2>1, <2>2, FinishKept DEF Kept
  <1>4. CASE job' = [job EXCEPT ![w].pc = "flag"]
    <2>1. job[w].extras \in SUBSET Resources
      BY <1>1 DEF ResourceJobs
    <2>2. [job[w] EXCEPT !.pc = "flag"] = [job[w] EXCEPT !.pc = "flag", !.extras = job[w].extras]
      BY <1>1 DEF ResourceJobs
    <2>3. job' = [job EXCEPT ![w] = [job[w] EXCEPT !.pc = "flag", !.extras = job[w].extras]]
      BY <1>4, <2>2
    <2>. QED  BY <1>1, <1>2, <2>1, <2>3, PastKept
  <1>. QED  BY <1>3, <1>4 DEF R!Table

LEMMA DroppedKept ==
    ASSUME Listing, Kept, NEW w \in Workers, R!Dropped(w)
    PROVE  Kept' /\ R!LeavesOnPurpose
  <1>1. /\ job[w].pc = "dropped" /\ R!Finish(w) /\ UNCHANGED <<file, table, lock, version, omitted, cut, claimed>>
        /\ list' = [r \in Resources |-> IF r \in job[w].extras
                                        THEN [list[r] EXCEPT !.flag = FALSE] ELSE list[r]]
    BY DEF R!Dropped
  <1>2. lock # w
    BY <1>1 DEF Kept, Serves, Holds
  <1>3. list \in [Resources -> R!Row]
    BY DEF Kept
  <1>4. list' \in [Resources -> R!Row] /\ Alike(list, list')
    BY <1>1, <1>3 DEF Alike, R!Row
  <1>. QED  BY <1>1, <1>2, <1>4, FinishKept DEF Kept

LEMMA FlagKept ==
    ASSUME Listing, Kept, NEW w \in Workers, R!Flag(w)
    PROVE  Kept' /\ R!LeavesOnPurpose
  <1>1. /\ job[w].pc = "flag" /\ R!Finish(w) /\ UNCHANGED <<file, table, lock, version, omitted, cut>>
        /\ claimed' = claimed \ {job[w].id}
        /\ list' = IF job[w].row.flag # job[w].flag /\ list[job[w].id].state # "purged"
                   THEN [list EXCEPT ![job[w].id].flag = job[w].flag] ELSE list
    BY DEF R!Flag
  <1>0. claimed' \subseteq Resources
    BY <1>1 DEF Kept
  <1>2. lock # w /\ job[w].flag \in BOOLEAN /\ job[w].id \in Resources
    BY <1>1 DEF Kept, Serves, Holds, Carries, ResourceJobs
  <1>3. list \in [Resources -> R!Row]
    BY DEF Kept
  <1>4. list' \in [Resources -> R!Row] /\ Alike(list, list')
    BY <1>1, <1>2, <1>3 DEF Alike, R!Row
  <1>. QED  BY <1>0, <1>1, <1>2, <1>4, FinishKept DEF Kept

LEMMA PurgeTablesKept ==
    ASSUME Listing, Kept, R!PurgeTables
    PROVE  Kept' /\ R!LeavesOnPurpose
  <1>. DEFINE orphans == table \ R!In(list, "active")
  <1>1. /\ table' = table \ orphans /\ UNCHANGED <<file, lock, job, version, omitted, cut, claimed>>
        /\ list' = [r \in Resources |-> IF r \in orphans \cap R!In(list, "deleted")
                                        THEN [list[r] EXCEPT !.flag = FALSE] ELSE list[r]]
        /\ \A w \in Workers : job[w].pc = "idle"
    BY DEF R!PurgeTables, R!Free, R!Busy, Listing
  <1>. HIDE DEF orphans
  <1>2. list \in [Resources -> R!Row]
    BY DEF Kept
  <1>3. list' \in [Resources -> R!Row] /\ Alike(list, list')
    BY <1>1, <1>2 DEF Alike, R!Row
  <1>4. Gapless(list')
    BY <1>3, AlikeRows DEF Kept
  <1>5. \A w \in Workers : Serves(w)'
    BY <1>1 DEF Kept, Serves
  <1>6. Stored' /\ Lone'
    BY <1>1, <1>3 DEF Kept, Stored, Replacing, Lone, Alike
  <1>7. \A r \in Resources : list'[r].upload <= version' /\ file'[r] <= version'
    BY <1>1, <1>3 DEF Kept, Alike
  <1>8. table' \subseteq Resources
    BY <1>1 DEF Kept
  <1>. QED  BY <1>1, <1>3, <1>4, <1>5, <1>6, <1>7, <1>8, AlikePurpose DEF Kept

-----------------------------------------------------------------------------
(* Rows and files that are written *)

LEMMA UploadKept ==
    ASSUME Listing, Kept, NEW w \in Workers, R!Upload(w)
    PROVE  /\ Kept' /\ R!LeavesOnPurpose
           /\ /\ job'[w].pc = "commit" /\ job'[w].kind = job[w].kind /\ job'[w].id = job[w].id
              /\ job'[w].old = job[w].old /\ job'[w].new = job[w].new /\ job'[w].extras = job[w].extras
  <1>. DEFINE q == job[w]
  <1>1. /\ q.pc = "save" /\ UNCHANGED <<list, table, lock, version, omitted, cut, claimed>>
        /\ file' = IF q.file = 0 THEN file ELSE [file EXCEPT ![q.id] = q.file]
        /\ job' = [job EXCEPT ![w].pc = "commit"]
    BY DEF R!Upload
  <1>2. q \in ResourceJobs /\ Carries(q) /\ Dated(q, version) /\ lock = w /\ Ready(q, list)
    BY <1>1 DEF Kept, Serves, Holds
  <1>3. PICK j : j = [q EXCEPT !.pc = "commit"]
    OBVIOUS
  <1>4. /\ j \in ResourceJobs /\ j.pc = "commit" /\ j.kind = q.kind /\ j.id = q.id /\ j.row = q.row
        /\ j.old = q.old /\ j.new = q.new /\ j.extras = q.extras /\ j.file = q.file /\ j.given = q.given
    BY <1>2, <1>3 DEF ResourceJobs
  <1>5. job' = [job EXCEPT ![w] = j]
    BY <1>1, <1>3
  <1>. HIDE DEF q
  <1>6. Ready(j, list)
    BY <1>2, <1>4 DEF Ready, Leaves
  <1>7. Carries(j) /\ Dated(j, version) /\ Holds(j)
    BY <1>1, <1>2, <1>4 DEF Carries, Dated, Holds
  <1>8. version \in Nat /\ version <= MaxVersion /\ version <= version
    BY DEF Kept, Listing
  <1>9. Continues(w, j)
    BY <1>1, <1>2, <1>4, <1>5, <1>7, <1>8 DEF Continues, Kept, q
  <1>10. q.file # 0 => q.id \in Resources
    BY <1>2 DEF Ready
  <1>11. q.file \in Nat /\ q.file <= version
    BY <1>2 DEF ResourceJobs, Dated
  <1>12. file' \in [Resources -> Nat] /\ \A r \in Resources : file'[r] <= version
    BY <1>1, <1>10, <1>11 DEF Kept
  <1>13. \A v \in Workers \ {w} : ~Holds(job[v])
    BY <1>2 DEF Kept, Serves
  <1>14. Stored'
    <2> SUFFICES ASSUME NEW r \in Resources \ cut, list[r].state \in {"none", "active"}, ~Replacing(r)'
                 PROVE  file'[r] = list[r].upload
      BY <1>1 DEF Stored
    <2>1. job'[w] = j /\ \A v \in Workers \ {w} : job'[v] = job[v]
      BY <1>5 DEF Kept
    <2>2. q.file = 0 \/ q.id # r
      BY <1>4, <2>1 DEF Replacing
    <2>3. ~Replacing(r)
      BY <1>1, <2>1 DEF Replacing, q
    <2>4. file'[r] = file[r]
      BY <1>1, <2>2 DEF Kept
    <2>. QED  BY <2>3, <2>4 DEF Kept, Stored
  <1>15. j.file # 0 => file'[j.id] = j.file
    BY <1>1, <1>4, <1>10 DEF Kept
  <1>16. Alike(list, list') /\ list' \in [Resources -> R!Row]
    BY <1>1, SameAlike
  <1>17. Gapless(list') /\ \A r \in Resources : list'[r].upload <= version' /\ file'[r] <= version'
    BY <1>1, <1>12 DEF Kept
  <1>0. job'[w] = j
    BY <1>5 DEF Kept
  <1>. QED  BY <1>0, <1>1, <1>4, <1>6, <1>9, <1>12, <1>13, <1>14, <1>15, <1>16, <1>17, KeptAfter, AlikePurpose DEF q

\* The rows that the session leaves.
LEMMA WrittenRows ==
    ASSUME Listing, Kept, NEW j \in ResourceJobs, Ready(j, list), Dated(j, version), NEW A, A = R!Written(j)
    PROVE  /\ A \in [Resources -> R!Row] /\ Gapless(A)
           /\ \A r \in Resources :
                /\ A[r].upload <= version
                /\ A[r].state = IF j.kind = "update" THEN list[r].state ELSE j.new[r].state
                /\ A[r].state # "purged" =>
                     /\ A[r].upload = IF r = j.id /\ j.file # 0 THEN j.file ELSE list[r].upload
                     /\ A[r].flag = IF r \in j.extras THEN j.new[r].flag ELSE list[r].flag
                /\ A[r].state \in {"none", "active"} => list[r].state \in {"none", "active"}
                /\ A[r].state = "none" => list[r].state = "none"
                /\ list[r].state = "active" /\ A[r].state # "active" => r \in Leaves(j) /\ j.kind # "update"
  <1>. DEFINE Purged == [R!New EXCEPT !.state = "purged"]
              Next1(r) == [state  |-> IF j.new[r].state # j.old[r].state THEN j.new[r].state ELSE list[r].state,
                           pos    |-> IF j.new[r].pos # j.old[r].pos THEN j.new[r].pos ELSE list[r].pos,
                           upload |-> IF j.new[r].upload # j.old[r].upload THEN j.new[r].upload
                                      ELSE list[r].upload,
                           flag   |-> IF r \in j.extras THEN j.new[r].flag ELSE list[r].flag]
  <1>1. Purged \in R!Row /\ Purged.state = "purged" /\ Purged.upload = 0
    BY RowsNew DEF R!Row, R!New
  <1>2. \A r \in Resources : list[r] \in R!Row /\ j.new[r] \in R!Row /\ j.old[r] \in R!Row
    BY DEF Kept, ResourceJobs
  <1>3. \A r \in Resources : Next1(r) \in R!Row
    BY <1>2 DEF R!Row
  <1>4. \A r \in Resources :
          /\ Next1(r).state = IF j.new[r].state # j.old[r].state THEN j.new[r].state ELSE list[r].state
          /\ Next1(r).pos = IF j.new[r].pos # j.old[r].pos THEN j.new[r].pos ELSE list[r].pos
          /\ Next1(r).upload = IF j.new[r].upload # j.old[r].upload THEN j.new[r].upload ELSE list[r].upload
          /\ Next1(r).flag = IF r \in j.extras THEN j.new[r].flag ELSE list[r].flag
    OBVIOUS
  <1>5. A = [r \in Resources |-> IF "purged" \in {list[r].state, j.new[r].state} THEN Purged ELSE Next1(r)]
    BY DEF R!Written
  <1>. HIDE DEF Purged, Next1
  <1>6. A \in [Resources -> R!Row]
    BY <1>1, <1>3, <1>5
  <1>7. version \in Nat /\ \A r \in Resources : list[r].upload <= version /\ j.new[r].upload <= version
    BY DEF Kept, Dated
  <1>8. ASSUME NEW r \in Resources, "purged" \in {list[r].state, j.new[r].state}
        PROVE  /\ A[r] = Purged
               /\ j.kind = "update" => list[r].state = "purged"
               /\ j.kind # "update" => j.new[r].state = "purged"
               /\ list[r].state = "active" => r \in Leaves(j) /\ j.kind # "update"
    <2>1. A[r] = Purged
      BY <1>5, <1>8
    <2>2. j.kind = "update" => list[r].state = "purged"
      BY <1>8 DEF Ready
    <2>3. j.kind # "update" => j.new[r].state = "purged"
      BY <1>8 DEF Ready
    <2>4. j.kind # "update" /\ list[r].state = "active" => r \in Leaves(j)
      BY <2>3 DEF Ready
    <2>. QED  BY <2>1, <2>2, <2>3, <2>4
  <1>9. ASSUME NEW r \in Resources, "purged" \notin {list[r].state, j.new[r].state}
        PROVE  /\ A[r].state = IF j.kind = "update" THEN list[r].state ELSE j.new[r].state
               /\ j.kind # "update" => A[r].pos = j.new[r].pos
               /\ j.kind = "update" => A[r].pos = list[r].pos
               /\ A[r].upload = IF r = j.id /\ j.file # 0 THEN j.file ELSE list[r].upload
               /\ A[r].upload <= version
               /\ A[r].flag = IF r \in j.extras THEN j.new[r].flag ELSE list[r].flag
    <2>1. A[r] = Next1(r)
      BY <1>5, <1>9
    <2>2. A[r].upload <= version
      BY <1>4, <1>7, <2>1
    <2>3. CASE j.kind = "update"
      <3>1. /\ j.new[r].state = j.old[r].state /\ j.new[r].pos = j.old[r].pos
            /\ j.new[r].upload = IF r = j.id /\ j.file # 0 THEN j.file ELSE j.old[r].upload
            /\ j.file # 0 => j.old[j.id].upload # j.file
        BY <1>9, <2>3 DEF Ready
      <3>. QED  BY <1>4, <2>1, <2>2, <2>3, <3>1
    <2>4. CASE j.kind # "update"
      <3>1. /\ j.old[r].state = list[r].state /\ j.old[r].pos = list[r].pos /\ j.old[r].upload = list[r].upload
            /\ j.new[r].upload = IF r = j.id /\ j.file # 0 THEN j.file ELSE j.old[r].upload
            /\ j.file # 0 => j.old[j.id].upload # j.file
        BY <1>9, <2>4 DEF Ready
      <3>. QED  BY <1>4, <2>1, <2>2, <2>4, <3>1
    <2>. QED  BY <2>3, <2>4
  <1>10. Gapless(A)
    <2>1. CASE j.kind = "update"
      <3>1. \A r \in Resources : list[r].state = A[r].state
        BY <1>1, <1>8, <1>9, <2>1
      <3>2. \A r \in R!In(list, "active") : list[r].pos = A[r].pos
        BY <1>8, <1>9, <2>1 DEF R!In
      <3>. QED  BY <3>1, <3>2, GaplessSame DEF Kept
    <2>2. CASE j.kind # "update"
      <3>1. \A r \in Resources : j.new[r].state = A[r].state
        BY <1>1, <1>8, <1>9, <2>2
      <3>2. \A r \in R!In(j.new, "active") : j.new[r].pos = A[r].pos
        BY <1>8, <1>9, <2>2 DEF R!In
      <3>. QED  BY <2>2, <3>1, <3>2, GaplessSame DEF Ready
    <2>. QED  BY <2>1, <2>2
  <1>11. ASSUME NEW r \in Resources
         PROVE  /\ A[r].upload <= version
                /\ A[r].state = IF j.kind = "update" THEN list[r].state ELSE j.new[r].state
                /\ A[r].state # "purged" =>
                     /\ A[r].upload = IF r = j.id /\ j.file # 0 THEN j.file ELSE list[r].upload
                     /\ A[r].flag = IF r \in j.extras THEN j.new[r].flag ELSE list[r].flag
                /\ A[r].state \in {"none", "active"} => list[r].state \in {"none", "active"}
                /\ A[r].state = "none" => list[r].state = "none"
                /\ list[r].state = "active" /\ A[r].state # "active" => r \in Leaves(j) /\ j.kind # "update"
    <2>1. CASE "purged" \in {list[r].state, j.new[r].state}
      BY <1>1, <1>7, <1>8, <2>1
    <2>2. CASE "purged" \notin {list[r].state, j.new[r].state}
      <3>1. /\ j.kind # "update" /\ j.new[r].state \in {"none", "active"} => list[r].state \in {"none", "active"}
            /\ j.kind # "update" /\ j.new[r].state = "none" => list[r].state = "none"
            /\ j.kind # "update" /\ list[r].state = "active" /\ j.new[r].state # "active" => r \in Leaves(j)
        BY DEF Ready
      <3>. QED  BY <1>9, <2>2, <3>1
    <2>. QED  BY <2>1, <2>2
  <1>. QED  BY <1>6, <1>10, <1>11

LEMMA CommitKept ==
    ASSUME Listing, Kept, NEW w \in Workers, R!Commit(w)
    PROVE  Kept' /\ R!LeavesOnPurpose
  <1>. DEFINE q == job[w]
  <1>1. /\ q.pc = "commit" /\ list' = R!Written(q) /\ lock' = Nobody
        /\ UNCHANGED <<file, table, version, omitted, cut>>
    BY DEF R!Commit
  <1>0. claimed' \subseteq Resources
    BY DEF R!Commit, R!Claims, Kept, ResourceJobs
  <1>2. /\ q \in ResourceJobs /\ Carries(q) /\ Dated(q, version) /\ lock = w /\ Ready(q, list)
        /\ q.file # 0 => file[q.id] = q.file
    BY <1>1 DEF Kept, Serves, Holds
  <1>3. \E j \in ResourceJobs : /\ job' = [job EXCEPT ![w] = j] /\ Carries(j) /\ Dated(j, version)
                                /\ j.pc \in {"idle", "drop"} /\ (j = R!Idle \/ j.kind = q.kind)
    <2>1. CASE q.kind = "delete"
      <3>1. PICK j : j = [q EXCEPT !.pc = "drop"]
        OBVIOUS
      <3>2. job' = [job EXCEPT ![w] = j]
        BY <2>1, <3>1 DEF R!Commit
      <3>3. /\ j \in ResourceJobs /\ j.pc = "drop" /\ j.kind = q.kind /\ j.row = q.row
            /\ j.new = q.new /\ j.file = q.file
        BY <1>2, <3>1 DEF ResourceJobs
      <3>4. Carries(j) /\ Dated(j, version)
        BY <1>2, <2>1, <3>3 DEF Carries, Dated
      <3>. QED  BY <3>2, <3>3, <3>4
    <2>2. CASE q.kind # "delete"
      <3>1. job' = [job EXCEPT ![w] = R!Idle]
        BY <2>2 DEF R!Commit, R!Finish
      <3>2. Dated(R!Idle, version) /\ R!Idle \in ResourceJobs /\ Carries(R!Idle) /\ R!Idle.pc = "idle"
        BY RowsNew DEF Kept
      <3>. QED  BY <3>1, <3>2
    <2>. QED  BY <2>1, <2>2
  <1>4. PICK j \in ResourceJobs : /\ job' = [job EXCEPT ![w] = j] /\ Carries(j) /\ Dated(j, version)
                                  /\ j.pc \in {"idle", "drop"} /\ (j = R!Idle \/ j.kind = q.kind)
    BY <1>3
  <1>5. version \in Nat /\ version <= MaxVersion /\ version <= version
    BY DEF Kept, Listing
  <1>6. Continues(w, j)
    BY <1>0, <1>1, <1>2, <1>4, <1>5 DEF Continues, Kept, Holds
  <1>. HIDE DEF q
  <1>7. /\ list' \in [Resources -> R!Row] /\ Gapless(list')
        /\ \A r \in Resources :
             /\ list'[r].upload <= version
             /\ list'[r].state \in {"none", "active"} =>
                  /\ list[r].state \in {"none", "active"}
                  /\ list'[r].upload = IF r = q.id /\ q.file # 0 THEN q.file ELSE list[r].upload
             /\ list[r].state = "active" /\ list'[r].state # "active" => r \in Leaves(q) /\ q.kind # "update"
    BY <1>1, <1>2, WrittenRows
  <1>8. \A v \in Workers \ {w} : ~Holds(job[v])
    BY <1>2 DEF Kept, Serves
  <1>9. Stored'
    <2> SUFFICES ASSUME NEW r \in Resources \ cut, list'[r].state \in {"none", "active"}
                 PROVE  file[r] = list'[r].upload
      BY <1>1 DEF Stored
    <2>1. CASE r = q.id /\ q.file # 0
      BY <1>2, <1>7, <2>1
    <2>2. CASE ~(r = q.id /\ q.file # 0)
      <3>1. ~Replacing(r)
        BY <1>8, <2>2 DEF Replacing, Holds, q
      <3>2. file[r] = list[r].upload
        BY <1>7, <3>1 DEF Kept, Stored
      <3>. QED  BY <1>7, <2>2, <3>2
    <2>. QED  BY <2>1, <2>2
  <1>10. file' \in [Resources -> Nat] /\ \A r \in Resources : list'[r].upload <= version' /\ file'[r] <= version'
    BY <1>1, <1>7 DEF Kept
  <1>11. Kept'
    BY <1>4, <1>6, <1>7, <1>8, <1>9, <1>10, KeptAfter
  <1>12. R!LeavesOnPurpose
    <2> SUFFICES ASSUME NEW r \in Resources, list[r].state = "active", list'[r].state # "active"
                 PROVE  job[w].pc = "commit" /\ job[w].kind = "delete" /\ job[w].id = r
      BY DEF R!LeavesOnPurpose, R!In
    <2>1. r \in Leaves(q) /\ q.kind \in {"create", "update", "delete", "reorder"}
      BY <1>1, <1>2, <1>7 DEF Carries
    <2>. QED  BY <1>1, <2>1 DEF Leaves, q
  <1>. QED  BY <1>11, <1>12

LEMMA FlushKept ==
    ASSUME Listing, Kept, NEW w \in Workers, R!Flush(w)
    PROVE  Kept' /\ R!LeavesOnPurpose
  <1>. DEFINE q == job[w]
              left == R!In(q.old, "active") \ R!ToSet(q.given)
  <1>1. /\ q.pc = "flush" /\ lock = Nobody /\ R!Finish(w)
        /\ UNCHANGED <<file, table, lock, version, cut>>
        /\ (UNCHANGED <<list, omitted, claimed>> \/ (list' = R!Written(q) /\ omitted' = omitted \cup left))
    BY DEF R!Flush
  <1>0. claimed' \subseteq Resources
    BY DEF R!Flush, R!Claims, Kept, ResourceJobs
  <1>2. /\ q \in ResourceJobs /\ Carries(q) /\ Dated(q, version) /\ Ready(q, list)
        /\ q.file = 0 /\ q.kind = "package"
    BY <1>1 DEF Kept, Serves, Carries
  <1>3. lock # w /\ \A v \in Workers : ~Holds(job[v])
    BY <1>1 DEF Kept, Serves, Listing
  <1>4. CASE UNCHANGED <<list, omitted>>
    <2>1. Alike(list, list') /\ list' \in [Resources -> R!Row]
      BY <1>4, SameAlike
    <2>. QED  BY <1>0, <1>1, <1>2, <1>3, <1>4, <2>1, FinishKept DEF Kept
  <1>5. CASE list' = R!Written(q) /\ omitted' = omitted \cup left
    <2>1. left \subseteq Resources
      BY DEF R!In
    <2>2. omitted' \subseteq Resources
      BY <1>5, <2>1 DEF Kept
    <2>3. Continues(w, R!Idle)
      BY <1>0, <1>1, <1>3, <2>2, FinishContinues DEF Kept
    <2>. HIDE DEF q, left
    <2>4. /\ list' \in [Resources -> R!Row] /\ Gapless(list')
          /\ \A r \in Resources :
               /\ list'[r].upload <= version
               /\ list'[r].state \in {"none", "active"} =>
                    /\ list[r].state \in {"none", "active"}
                    /\ list'[r].upload = IF r = q.id /\ q.file # 0 THEN q.file ELSE list[r].upload
               /\ list[r].state = "active" /\ list'[r].state # "active" => r \in Leaves(q)
      BY <1>2, <1>5, WrittenRows
    <2>5. Stored'
      <3> SUFFICES ASSUME NEW r \in Resources \ cut, list'[r].state \in {"none", "active"}
                   PROVE  file[r] = list'[r].upload
        BY <1>1 DEF Stored
      <3>1. ~Replacing(r)
        BY <1>3 DEF Replacing, Holds
      <3>2. file[r] = list[r].upload
        BY <2>4, <3>1 DEF Kept, Stored
      <3>. QED  BY <1>2, <2>4, <3>2
    <2>6. file' \in [Resources -> Nat] /\ \A r \in Resources : list'[r].upload <= version' /\ file'[r] <= version'
      BY <1>1, <2>4 DEF Kept
    <2>7. Kept'
      BY <1>3, <2>3, <2>4, <2>5, <2>6, RowsNew, KeptAfter
    <2>8. R!LeavesOnPurpose
      <3> SUFFICES ASSUME NEW r \in Resources, list[r].state = "active", list'[r].state # "active"
                   PROVE  job[w].pc = "flush" /\ r \notin R!ToSet(job[w].given)
        BY DEF R!LeavesOnPurpose, R!In
      <3>. QED  BY <1>1, <1>2, <2>4 DEF Leaves, q
    <2>. QED  BY <2>7, <2>8
  <1>. QED  BY <1>1, <1>4, <1>5

LEMMA InitKept ==
    ASSUME Listing, R!Init
    PROVE  Kept
  <1>1. \A r \in Resources : list[r] = R!New /\ file[r] = 0
    BY DEF R!Init
  <1>2. list \in [Resources -> R!Row] /\ file \in [Resources -> Nat]
    BY <1>1, RowsNew DEF R!Init
  <1>3. R!In(list, "active") = {}
    BY <1>1 DEF R!In, R!New
  <1>4. Gapless(list)
    <2>1. Cardinality({}) = 0
      BY FS_EmptySet
    <2>2. 1..0 = {}
      OBVIOUS
    <2>. QED  BY <1>3, <2>1, <2>2 DEF Gapless, Distinct
  <1>5. \A w \in Workers : job[w] = R!Idle
    BY DEF R!Init
  <1>6. job \in [Workers -> ResourceJobs] /\ lock = Nobody /\ version = 0 /\ table = {} /\ omitted = {} /\ cut = {}
        /\ claimed = {}
    BY RowsNew DEF R!Init
  <1>7. \A w \in Workers : Serves(w)
    <2>1. \A w \in Workers : Dated(job[w], version) /\ Carries(job[w]) /\ job[w].pc = "idle"
      BY <1>5, <1>6, RowsNew
    <2>. QED  BY <1>6, <2>1 DEF Serves, Holds, Listing
  <1>8. Lone
    BY <1>5, RowsNew DEF Lone
  <1>9. Stored
    BY <1>1 DEF Stored, R!New
  <1>10. \A r \in Resources : list[r].upload <= version /\ file[r] <= version
    BY <1>1, <1>6 DEF R!New
  <1>11. version \in 0..MaxVersion
    BY <1>6 DEF Listing
  <1>. QED  BY <1>2, <1>4, <1>6, <1>7, <1>8, <1>9, <1>10, <1>11 DEF Kept

LEMMA KeptStep ==
    ASSUME Listing, Kept, R!Next
    PROVE  Kept' /\ R!LeavesOnPurpose
  <1>1. ASSUME NEW w \in Workers, NEW r \in Resources,
               R!Create(w, r) \/ R!Load(w, "update", r) \/ R!Load(w, "delete", r)
                 \/ \E make \in BOOLEAN : R!DataStore(w, r, make)
        PROVE  Kept' /\ R!LeavesOnPurpose
    BY <1>1, CreateKept, LoadKept, DataStoreKept
  <1>2. ASSUME NEW w \in Workers, NEW order \in R!Lists(R!In(list, "active")),
               R!Reorder(w, order) \/ \E changed \in SUBSET R!ToSet(order) : \E on \in SUBSET changed :
                    R!Package(w, order, changed, on)
        PROVE  Kept' /\ R!LeavesOnPurpose
    BY <1>2, ReorderKept, PackageKept
  <1>3. ASSUME NEW w \in Workers,
               \/ R!Update(w) \/ R!Delete(w) \/ R!Upload(w) \/ R!Commit(w) \/ R!Abort(w)
               \/ R!Drop(w) \/ R!Dropped(w) \/ R!Merge(w) \/ R!Flush(w)
               \/ R!Table(w) \/ R!Flag(w)
               \/ R!Die(w)
        PROVE  Kept' /\ R!LeavesOnPurpose
    BY <1>3, UpdateKept, DeleteKept, UploadKept, CommitKept, AbortKept, DropKept, DroppedKept,
       MergeKept, FlushKept, TableKept, FlagKept, DieKept
  <1>. QED  BY <1>1, <1>2, <1>3, PurgeTablesKept DEF R!Next

\* What the invariant says of the files and of the numbers.
LEMMA KeptRight ==
    ASSUME Listing, Kept
    PROVE  R!TypeOK /\ R!Numbered /\ R!FileDescribed
  <1>1. R!Numbered
    BY SameSize DEF Kept, Gapless, Distinct, R!Numbered
  <1>2. R!FileDescribed
    BY DEF Kept, Stored, Replacing, R!FileDescribed, R!In
  <1>3. \A w \in Workers : /\ job[w].pc \in {"idle", "load", "save", "commit", "drop", "dropped", "merge",
                                             "flush", "table", "flag"}
                           /\ job[w].kind \in R!RequestKinds
                           /\ job[w].old \in [Resources -> R!Row]
                           /\ job[w].new \in [Resources -> R!Row]
    BY DEF Kept, ResourceJobs
  <1>4. file \in [Resources -> 0..version]
    BY DEF Kept
  <1>5. lock # Nobody => job[lock].pc \in {"save", "commit"}
    BY DEF Kept, Serves, Holds
  <1>. QED  BY <1>1, <1>2, <1>3, <1>4, <1>5 DEF R!TypeOK, Kept

-----------------------------------------------------------------------------
(* One request after another: the flags and the tables *)

Apart == \A w \in Workers \ {One} : job[w] = R!Idle

\* A resource says that it has a table if it has one, but while the flag is
\* still to be written; the table of one that is gone is about to be dropped.
\* A client may have said otherwise.
Tables ==
    \A r \in Resources \ (cut \cup claimed) :
        /\ list[r].state = "none" => ~list[r].flag /\ r \notin table
        /\ list[r].state = "active" /\ ~(job[One].pc = "flag" /\ job[One].id = r) =>
             (list[r].flag <=> r \in table)
        /\ r \in table \ omitted => list[r].state = "active" \/ (job[One].pc = "drop" /\ job[One].id = r)
        /\ job[One].pc = "drop" /\ job[One].id = r /\ r \in table =>
             job[One].old[r].flag /\ list[r].state = "deleted"

\* What the job j knows of the rows.
Known(j) ==
    /\ j.pc = "load" => j.row = list[j.id]
    /\ j.pc \in {"save", "commit", "flush"} => \A r \in j.extras : j.old[r].flag = list[r].flag
    /\ j.pc \in {"save", "commit"} /\ j.kind = "delete" =>
         /\ list[j.id].state = "active" /\ j.new[j.id].state = "deleted"
         /\ j.old[j.id].flag = list[j.id].flag
    /\ j.pc = "dropped" => j.extras \subseteq R!In(list, "deleted")
    /\ j.pc \in {"table", "flag"} => list[j.id].state = "active" /\ j.row.flag = list[j.id].flag
    /\ j.pc = "flag" => (j.id \in table <=> j.flag)

Told == Apart /\ Tables /\ Known(job[One])

LEMMA TablesSame ==
    ASSUME Tables, UNCHANGED <<list, table, omitted, claimed>>, cut \subseteq cut',
           job'[One].pc \notin {"flag", "drop"},
           job[One].pc \in {"flag", "drop"} /\ job[One].id \in Resources => job[One].id \in cut'
    PROVE  Tables'
  <1> SUFFICES ASSUME NEW r \in Resources \ (cut' \cup claimed)
               PROVE  /\ list[r].state = "none" => ~list[r].flag /\ r \notin table
                      /\ list[r].state = "active" => (list[r].flag <=> r \in table)
                      /\ r \in table \ omitted => list[r].state = "active"
    BY DEF Tables
  <1>1. r \in Resources \ (cut \cup claimed) /\ ~(job[One].pc \in {"flag", "drop"} /\ job[One].id = r)
    OBVIOUS
  <1>. QED  BY <1>1 DEF Tables

\* A job that ends knows nothing.
LEMMA IdleKnown ==
    ASSUME job'[One] = R!Idle
    PROVE  Known(job[One])' /\ job'[One].pc = "idle"
  <1>1. R!Idle.pc = "idle"
    BY DEF R!Idle
  <1>. QED  BY <1>1 DEF Known

LEMMA FinishTold ==
    ASSUME Tables, UNCHANGED <<list, table, omitted, claimed>>, cut \subseteq cut', job'[One] = R!Idle,
           job[One].pc \in {"flag", "drop"} /\ job[One].id \in Resources => job[One].id \in cut'
    PROVE  Tables' /\ Known(job[One])'
  <1>1. Known(job[One])' /\ job'[One].pc = "idle"
    BY IdleKnown
  <1>. QED  BY <1>1, TablesSame

LEMMA OneWorks ==
    ASSUME Listing, Kept
    PROVE  /\ One \in Workers /\ job[One] \in ResourceJobs /\ Carries(job[One])
           /\ R!Finish(One) => job'[One] = R!Idle
  <1>1. One \in Workers
    BY DEF One, Listing
  <1>. QED  BY <1>1 DEF Kept, Serves, R!Finish

\* A request starts, with or without the lock.
LEMMA StartTold ==
    ASSUME Listing, Kept, Told,
           \/ \E r \in Resources : \/ R!Create(One, r) \/ R!Load(One, "update", r) \/ R!Load(One, "delete", r)
                                   \/ \E make \in BOOLEAN : R!DataStore(One, r, make)
           \/ \E order \in R!Lists(R!In(list, "active")) :
                \/ R!Reorder(One, order)
                \/ \E changed \in SUBSET R!ToSet(order) : \E on \in SUBSET changed :
                     R!Package(One, order, changed, on)
    PROVE  Tables' /\ Known(job[One])'
  <1>0. One \in Workers
    BY OneWorks
  <1>1. UNCHANGED <<list, table, omitted, cut, claimed>> /\ job[One].pc = "idle"
    BY DEF R!Create, R!Load, R!DataStore, R!Reorder, R!Package, R!Start
  <1>2. ASSUME NEW r \in Resources, R!Create(One, r)
        PROVE  job'[One].pc = "save" /\ job'[One].kind = "create" /\ job'[One].old = list
    BY <1>0, <1>2, CreateKept
  <1>3. ASSUME NEW order \in R!Lists(R!In(list, "active")), R!Reorder(One, order)
        PROVE  job'[One].pc = "save" /\ job'[One].kind = "reorder" /\ job'[One].old = list
    BY <1>0, <1>3, ReorderKept
  <1>4. ASSUME job'[One].old = list, job'[One].pc = "save", job'[One].kind \in {"create", "reorder"}
        PROVE  Known(job[One])'
    BY <1>1, <1>4 DEF Known
  <1>5. ASSUME NEW r \in Resources, NEW kind \in {"update", "delete"}, R!Load(One, kind, r)
        PROVE  job'[One].pc = "load" /\ Known(job[One])'
    <2>1. job'[One].pc = "load" /\ job'[One].id = r /\ job'[One].row = list[r]
      BY <1>0, <1>5, LoadKept
    <2>. QED  BY <1>1, <2>1 DEF Known
  <1>6. ASSUME NEW r \in Resources, NEW make \in BOOLEAN, R!DataStore(One, r, make)
        PROVE  job'[One].pc = "table" /\ Known(job[One])'
    <2>1. job'[One].pc = "table" /\ job'[One].id = r /\ job'[One].row = list[r]
      BY <1>0, <1>6, DataStoreKept
    <2>2. list[r].state = "active"
      BY <1>6 DEF R!DataStore
    <2>. QED  BY <1>1, <2>1, <2>2 DEF Known
  <1>7. ASSUME NEW order \in R!Lists(R!In(list, "active")), NEW changed \in SUBSET R!ToSet(order),
               NEW on \in SUBSET changed, R!Package(One, order, changed, on)
        PROVE  job'[One].pc = "merge" /\ Known(job[One])'
    <2>1. job'[One].pc = "merge"
      BY <1>0, <1>7, PackageKept
    <2>. QED  BY <2>1 DEF Known
  <1>8. Known(job[One])' /\ job'[One].pc \in {"save", "load", "table", "merge"}
    BY <1>2, <1>3, <1>4, <1>5, <1>6, <1>7
  <1>. QED  BY <1>1, <1>8, TablesSame DEF Told

\* A request prepares what it writes.
LEMMA PreparesTold ==
    ASSUME Listing, Kept, Told, R!Update(One) \/ R!Delete(One) \/ R!Upload(One) \/ R!Merge(One)
    PROVE  Tables' /\ Known(job[One])'
  <1>0. One \in Workers /\ Carries(job[One])
    BY OneWorks
  <1>1. UNCHANGED <<list, table, omitted, cut, claimed>> /\ job[One].pc \in {"load", "save", "merge"}
    BY DEF R!Update, R!Delete, R!Upload, R!Merge
  <1>2. ASSUME R!Update(One)
        PROVE  job'[One] = R!Idle \/ (job'[One].pc = "save" /\ Known(job[One])')
    <2>1. \/ job'[One] = R!Idle
          \/ /\ job'[One].pc = "save" /\ job'[One].kind = "update"
             /\ \A x \in job'[One].extras : x = job[One].id /\ job'[One].old[x].flag = job[One].row.flag
      BY <1>0, <1>2, UpdateKept
    <2>2. job[One].row = list[job[One].id]
      BY <1>2 DEF Told, Known, R!Update
    <2>. QED  BY <1>1, <2>1, <2>2 DEF Known
  <1>3. ASSUME R!Delete(One)
        PROVE  job'[One].pc = "save" /\ Known(job[One])'
    <2>1. /\ job'[One].pc = "save" /\ job'[One].kind = "delete" /\ job'[One].id = job[One].id
          /\ job'[One].old = list
          /\ list[job[One].id].state = "active" => job'[One].new[job[One].id].state = "deleted"
      BY <1>0, <1>3, DeleteKept
    <2>2. job[One].row = list[job[One].id] /\ job[One].row.state = "active"
      BY <1>0, <1>3 DEF Told, Known, R!Delete, Carries
    <2>. QED  BY <1>1, <2>1, <2>2 DEF Known
  <1>4. ASSUME R!Upload(One)
        PROVE  job'[One].pc = "commit" /\ Known(job[One])'
    <2>1. /\ job'[One].pc = "commit" /\ job'[One].kind = job[One].kind /\ job'[One].id = job[One].id
          /\ job'[One].old = job[One].old /\ job'[One].new = job[One].new
          /\ job'[One].extras = job[One].extras
      BY <1>0, <1>4, UploadKept
    <2>2. job[One].pc = "save"
      BY <1>4 DEF R!Upload
    <2>. QED  BY <1>1, <2>1, <2>2 DEF Told, Known
  <1>5. ASSUME R!Merge(One)
        PROVE  job'[One].pc = "flush" /\ Known(job[One])'
    <2>1. job'[One].pc = "flush" /\ job'[One].old = list
      BY <1>0, <1>5, MergeKept
    <2>. QED  BY <1>1, <2>1 DEF Known
  <1>6. job'[One] = R!Idle \/ (Known(job[One])' /\ job'[One].pc \in {"save", "commit", "flush"})
    BY <1>2, <1>3, <1>4, <1>5
  <1>. QED  BY <1>1, <1>6, TablesSame, FinishTold DEF Told

LEMMA EndsTold ==
    ASSUME Listing, Kept, Told, R!Abort(One) \/ R!Die(One)
    PROVE  Tables' /\ Known(job[One])'
  <1>1. One \in Workers /\ Carries(job[One]) /\ job[One] \in ResourceJobs /\ (R!Finish(One) => job'[One] = R!Idle)
    BY OneWorks
  <1>2. UNCHANGED <<list, table, omitted, claimed>> /\ job'[One] = R!Idle /\ cut \subseteq cut'
    BY <1>1 DEF R!Abort, R!Die
  <1>3. ASSUME job[One].pc \in {"flag", "drop"}, job[One].id \in Resources
        PROVE  job[One].id \in cut'
    BY <1>3 DEF R!Abort, R!Die
  <1>. QED  BY <1>2, <1>3, FinishTold DEF Told

\* The rows of a request are written.  What is active, or was never used, was
\* so before; a resource that goes has no table or is passed to Drop.
LEMMA CommitTold ==
    ASSUME Listing, Kept, Told, R!Commit(One)
    PROVE  Tables' /\ Known(job[One])'
  <1>. DEFINE q == job[One]
  <1>1. /\ One \in Workers /\ Carries(q) /\ q \in ResourceJobs /\ (R!Finish(One) => job'[One] = R!Idle)
        /\ q.pc = "commit" /\ list' = R!Written(q) /\ UNCHANGED <<file, table, version, omitted, cut>>
        /\ claimed' = claimed \cup R!Claims(q)
    BY OneWorks DEF R!Commit
  <1>2. Ready(q, list) /\ Dated(q, version)
    BY <1>1 DEF Kept, Serves
  <1>3. \/ q.kind # "delete" /\ job'[One] = R!Idle
        \/ q.kind = "delete" /\ job'[One] = [q EXCEPT !.pc = "drop"]
    BY <1>1 DEF R!Commit, Kept
  <1>4. \/ q.kind # "delete" /\ job'[One] = R!Idle
        \/ /\ q.kind = "delete" /\ job'[One].pc = "drop" /\ job'[One].id = q.id /\ job'[One].old = q.old
           /\ list[q.id].state = "active" /\ q.new[q.id].state = "deleted"
           /\ q.old[q.id].flag = list[q.id].flag
    BY <1>1, <1>3 DEF Told, Known, ResourceJobs
  <1>5. \A r \in q.extras : r \notin claimed' => q.new[r].flag = list[r].flag
    BY <1>1 DEF Told, Known, R!Claims
  <1>6. q.kind \in {"create", "update", "delete", "reorder"}
    BY <1>1 DEF Carries
  <1>. HIDE DEF q
  <1>7. \A r \in Resources :
          /\ list'[r].state = IF q.kind = "update" THEN list[r].state ELSE q.new[r].state
          /\ list'[r].state # "purged" /\ r \notin claimed' => list'[r].flag = list[r].flag
          /\ list'[r].state \in {"none", "active"} => list[r].state \in {"none", "active"}
          /\ list'[r].state = "none" => list[r].state = "none"
          /\ list[r].state = "active" /\ list'[r].state # "active" => r = q.id /\ q.kind = "delete"
    <2>1. \A r \in Resources :
            /\ list'[r].state = IF q.kind = "update" THEN list[r].state ELSE q.new[r].state
            /\ list'[r].state # "purged" =>
                 list'[r].flag = IF r \in q.extras THEN q.new[r].flag ELSE list[r].flag
            /\ list'[r].state \in {"none", "active"} => list[r].state \in {"none", "active"}
            /\ list'[r].state = "none" => list[r].state = "none"
            /\ list[r].state = "active" /\ list'[r].state # "active" => r \in Leaves(q)
      BY <1>1, <1>2, WrittenRows
    <2>. QED  BY <2>1, <1>5, <1>6 DEF Leaves
  <1>8. Tables'
    <2> SUFFICES ASSUME NEW r \in Resources \ (cut \cup claimed')
                 PROVE  /\ list'[r].state = "none" => ~list'[r].flag /\ r \notin table
                        /\ list'[r].state = "active" => (list'[r].flag <=> r \in table)
                        /\ r \in table \ omitted =>
                             list'[r].state = "active" \/ (job'[One].pc = "drop" /\ job'[One].id = r)
                        /\ job'[One].pc = "drop" /\ job'[One].id = r /\ r \in table =>
                             job'[One].old[r].flag /\ list'[r].state = "deleted"
      BY <1>1 DEF Tables
    <2>1. /\ list[r].state = "none" => ~list[r].flag /\ r \notin table
          /\ list[r].state = "active" => (list[r].flag <=> r \in table)
          /\ r \in table \ omitted => list[r].state = "active"
      BY <1>1 DEF Told, Tables, q
    <2>2. /\ list'[r].state = "none" => ~list'[r].flag /\ r \notin table
          /\ list'[r].state = "active" => (list'[r].flag <=> r \in table)
      BY <1>7, <2>1
    <2>3. r \in table \ omitted =>
            list'[r].state = "active" \/ (job'[One].pc = "drop" /\ job'[One].id = r)
      BY <1>4, <1>7, <2>1
    <2>4. job'[One].pc = "drop" /\ job'[One].id = r /\ r \in table =>
            job'[One].old[r].flag /\ list'[r].state = "deleted"
      BY <1>4, <1>7, <2>1, RowsNew
    <2>. QED  BY <2>2, <2>3, <2>4
  <1>9. Known(job[One])'
    BY <1>4, IdleKnown DEF Known
  <1>. QED  BY <1>8, <1>9

LEMMA FlushTold ==
    ASSUME Listing, Kept, Told, R!Flush(One)
    PROVE  Tables' /\ Known(job[One])'
  <1>. DEFINE q == job[One]
  <1>1. /\ One \in Workers /\ Carries(q) /\ q \in ResourceJobs /\ job'[One] = R!Idle
        /\ q.pc = "flush" /\ UNCHANGED <<file, table, lock, version, cut>>
    BY OneWorks DEF R!Flush
  <1>2. Ready(q, list) /\ Dated(q, version) /\ q.kind = "package"
    BY <1>1 DEF Kept, Serves, Carries
  <1>3. CASE UNCHANGED <<list, omitted, claimed>>
    BY <1>1, <1>3, FinishTold DEF Told
  <1>4. CASE /\ list' = R!Written(q) /\ omitted' = omitted \cup (R!In(q.old, "active") \ R!ToSet(q.given))
             /\ claimed' = claimed \cup R!Claims(q)
    <2>5. \A r \in q.extras : r \notin claimed' => q.new[r].flag = list[r].flag
      BY <1>1, <1>4 DEF Told, Known, R!Claims
    <2>1. \A r \in Resources : q.old[r].state = list[r].state
      BY <1>2 DEF Ready
    <2>2. \A r \in Resources :
            /\ list'[r].state # "purged" /\ r \notin claimed' => list'[r].flag = list[r].flag
            /\ list'[r].state \in {"none", "active"} => list[r].state \in {"none", "active"}
            /\ list'[r].state = "none" => list[r].state = "none"
            /\ list[r].state = "active" /\ list'[r].state # "active" => r \in Leaves(q)
      <3>1. \A r \in Resources :
              /\ list'[r].state # "purged" =>
                   list'[r].flag = IF r \in q.extras THEN q.new[r].flag ELSE list[r].flag
              /\ list'[r].state \in {"none", "active"} => list[r].state \in {"none", "active"}
              /\ list'[r].state = "none" => list[r].state = "none"
              /\ list[r].state = "active" /\ list'[r].state # "active" => r \in Leaves(q)
        BY <1>1, <1>2, <1>4, WrittenRows
      <3>. QED  BY <2>5, <3>1
    <2>3. \A r \in Resources : list[r].state = "active" /\ list'[r].state # "active" => r \in omitted'
      BY <1>2, <1>4, <2>1, <2>2 DEF Leaves, R!In
    <2>4. Tables'
      <3> SUFFICES ASSUME NEW r \in Resources \ (cut \cup claimed')
                   PROVE  /\ list'[r].state = "none" => ~list'[r].flag /\ r \notin table
                          /\ list'[r].state = "active" => (list'[r].flag <=> r \in table)
                          /\ r \in table \ omitted' => list'[r].state = "active"
        BY <1>1, IdleKnown DEF Tables
      <3>1. /\ list[r].state = "none" => ~list[r].flag /\ r \notin table
            /\ list[r].state = "active" => (list[r].flag <=> r \in table)
            /\ r \in table \ omitted => list[r].state = "active"
        BY <1>1, <1>4 DEF Told, Tables
      <3>2. /\ list'[r].state # "purged" => list'[r].flag = list[r].flag
            /\ list'[r].state \in {"none", "active"} => list[r].state \in {"none", "active"}
            /\ list'[r].state = "none" => list[r].state = "none"
        BY <2>2
      <3>3. /\ list'[r].state = "none" => ~list'[r].flag /\ r \notin table
            /\ list'[r].state = "active" => (list'[r].flag <=> r \in table)
        BY <3>1, <3>2
      <3>4. r \in table \ omitted' => list'[r].state = "active"
        BY <1>4, <2>3, <3>1
      <3>. QED  BY <3>3, <3>4
    <2>. QED  BY <1>1, <2>4, IdleKnown
  <1>. QED  BY <1>3, <1>4 DEF R!Flush

LEMMA DropTold ==
    ASSUME Listing, Kept, Told, R!Drop(One)
    PROVE  Tables' /\ Known(job[One])'
  <1>1. /\ One \in Workers /\ job[One] \in ResourceJobs /\ job[One].pc = "drop"
        /\ table' = table \ R!ToDrop(One) /\ UNCHANGED <<list, file, lock, version, omitted, cut, claimed>>
        /\ R!ToDrop(One) = {r \in R!In(list, "deleted") : job[One].old[r].flag}
    BY OneWorks DEF R!Drop, R!ToDrop
  <1>2. job'[One].pc = "dropped" /\ job'[One].extras = R!ToDrop(One)
    BY <1>1 DEF R!Drop, Kept, ResourceJobs
  <1>3. Known(job[One])'
    BY <1>1, <1>2 DEF Known
  <1>4. Tables'
    <2> SUFFICES ASSUME NEW r \in Resources \ (cut \cup claimed)
                 PROVE  /\ list[r].state = "none" => ~list[r].flag /\ r \notin table'
                        /\ list[r].state = "active" => (list[r].flag <=> r \in table')
                        /\ r \in table' \ omitted => list[r].state = "active"
      BY <1>1, <1>2 DEF Tables
    <2>1. /\ list[r].state = "none" => ~list[r].flag /\ r \notin table
          /\ list[r].state = "active" => (list[r].flag <=> r \in table)
          /\ r \in table \ omitted => list[r].state = "active" \/ job[One].id = r
          /\ job[One].id = r /\ r \in table => job[One].old[r].flag /\ list[r].state = "deleted"
      BY <1>1 DEF Told, Tables
    <2>2. list[r].state # "deleted" => r \notin R!ToDrop(One)
      BY <1>1 DEF R!In
    <2>3. list[r].state = "deleted" /\ job[One].old[r].flag => r \in R!ToDrop(One)
      BY <1>1 DEF R!In
    <2>. QED  BY <1>1, <2>1, <2>2, <2>3
  <1>. QED  BY <1>3, <1>4

LEMMA DroppedTold ==
    ASSUME Listing, Kept, Told, R!Dropped(One)
    PROVE  Tables' /\ Known(job[One])'
  <1>1. /\ One \in Workers /\ job[One].pc = "dropped" /\ job'[One] = R!Idle
        /\ list' = [r \in Resources |-> IF r \in job[One].extras
                                        THEN [list[r] EXCEPT !.flag = FALSE] ELSE list[r]]
        /\ UNCHANGED <<file, table, lock, version, omitted, cut, claimed>>
    BY OneWorks DEF R!Dropped
  <1>2. job[One].extras \subseteq R!In(list, "deleted") /\ list \in [Resources -> R!Row]
    BY <1>1 DEF Told, Known, Kept
  <1>3. \A r \in Resources : list'[r].state = list[r].state /\ (list[r].state # "deleted" => list'[r] = list[r])
    BY <1>1, <1>2 DEF R!In, R!Row
  <1>4. Tables'
    BY <1>1, <1>3, IdleKnown DEF Told, Tables
  <1>. QED  BY <1>1, <1>4, IdleKnown

LEMMA TableTold ==
    ASSUME Listing, Kept, Told, R!Table(One)
    PROVE  Tables' /\ Known(job[One])'
  <1>1. /\ One \in Workers /\ job[One] \in ResourceJobs /\ job[One].pc = "table" /\ job[One].id \in Resources
        /\ UNCHANGED <<list, file, lock, version, omitted, cut, claimed>>
    BY OneWorks DEF R!Table, Carries
  <1>2. list[job[One].id].state = "active" /\ job[One].row.flag = list[job[One].id].flag
    BY <1>1 DEF Told, Known
  <1>3. CASE R!Finish(One) /\ UNCHANGED table
    BY <1>1, <1>3, OneWorks, FinishTold DEF Told
  <1>4. CASE /\ table' = IF job[One].flag THEN table \cup {job[One].id} ELSE table \ {job[One].id}
             /\ job' = [job EXCEPT ![One].pc = "flag"]
    <2>1. /\ job'[One].pc = "flag" /\ job'[One].id = job[One].id /\ job'[One].row = job[One].row
          /\ job'[One].flag = job[One].flag
      BY <1>1, <1>4 DEF Kept, ResourceJobs
    <2>2. Known(job[One])'
      BY <1>1, <1>2, <1>4, <2>1 DEF Known, ResourceJobs
    <2>3. \A r \in Resources : r # job[One].id => (r \in table' <=> r \in table)
      BY <1>4
    <2>4. Tables'
      BY <1>1, <1>2, <2>1, <2>3 DEF Told, Tables
    <2>. QED  BY <2>2, <2>4
  <1>. QED  BY <1>3, <1>4 DEF R!Table

LEMMA FlagTold ==
    ASSUME Listing, Kept, Told, R!Flag(One)
    PROVE  Tables' /\ Known(job[One])'
  <1>. DEFINE q == job[One]
  <1>1. /\ One \in Workers /\ q \in ResourceJobs /\ q.pc = "flag" /\ q.id \in Resources /\ job'[One] = R!Idle
        /\ list' = IF q.row.flag # q.flag /\ list[q.id].state # "purged"
                   THEN [list EXCEPT ![q.id].flag = q.flag] ELSE list
        /\ UNCHANGED <<file, table, lock, version, omitted, cut>>
        /\ claimed' = claimed \ {q.id}
    BY OneWorks DEF R!Flag, Carries
  <1>2. /\ list[q.id].state = "active" /\ q.row.flag = list[q.id].flag /\ (q.id \in table <=> q.flag)
        /\ list \in [Resources -> R!Row] /\ q.flag \in BOOLEAN /\ q.row.flag \in BOOLEAN
    BY <1>1 DEF Told, Known, Kept, ResourceJobs, R!Row
  <1>3. \A r \in Resources : /\ list'[r].state = list[r].state
                             /\ list'[r].flag = IF r = q.id THEN q.flag ELSE list[r].flag
    BY <1>1, <1>2 DEF R!Row
  <1>4. Tables'
    <2> SUFFICES ASSUME NEW r \in Resources \ (cut \cup claimed')
                 PROVE  /\ list'[r].state = "none" => ~list'[r].flag /\ r \notin table
                        /\ list'[r].state = "active" => (list'[r].flag <=> r \in table)
                        /\ r \in table \ omitted => list'[r].state = "active"
      BY <1>1, IdleKnown DEF Tables
    <2>1. CASE r = q.id
      BY <1>2, <1>3, <2>1
    <2>2. CASE r # q.id
      BY <1>1, <1>3, <2>2 DEF Told, Tables
    <2>. QED  BY <2>1, <2>2
  <1>. QED  BY <1>1, <1>4, IdleKnown

LEMMA PurgeTablesTold ==
    ASSUME Listing, Kept, Told, R!PurgeTables
    PROVE  Tables' /\ Known(job[One])'
  <1>1. /\ One \in Workers /\ \A w \in Workers : job[w].pc = "idle"
        /\ table' = table \ (table \ R!In(list, "active"))
        /\ list' = [r \in Resources |-> IF r \in (table \ R!In(list, "active")) \cap R!In(list, "deleted")
                                        THEN [list[r] EXCEPT !.flag = FALSE] ELSE list[r]]
        /\ UNCHANGED <<file, lock, job, version, omitted, cut, claimed>>
    BY OneWorks DEF R!PurgeTables, R!Free, R!Busy, Listing
  <1>2. job'[One].pc = "idle" /\ job[One].pc = "idle"
    BY <1>1
  <1>3. \A r \in Resources : /\ list'[r].state = list[r].state
                             /\ list[r].state # "deleted" => list'[r] = list[r]
                             /\ r \in table' <=> r \in table /\ list[r].state = "active"
    BY <1>1 DEF R!In, Kept, R!Row
  <1>4. Tables'
    <2> SUFFICES ASSUME NEW r \in Resources \ (cut \cup claimed)
                 PROVE  /\ list'[r].state = "none" => ~list'[r].flag /\ r \notin table'
                        /\ list'[r].state = "active" => (list'[r].flag <=> r \in table')
                        /\ r \in table' \ omitted => list'[r].state = "active"
      BY <1>1, <1>2 DEF Tables
    <2>1. /\ list[r].state = "none" => ~list[r].flag /\ r \notin table
          /\ list[r].state = "active" => (list[r].flag <=> r \in table)
      BY <1>2 DEF Told, Tables
    <2>. QED  BY <1>3, <2>1
  <1>. QED  BY <1>2, <1>4 DEF Known

LEMMA InitTold ==
    ASSUME Listing, R!Init
    PROVE  Told
  <1>1. /\ \A r \in Resources : list[r] = R!New /\ R!New.state = "none" /\ ~R!New.flag
        /\ table = {} /\ job[One] = R!Idle /\ \A w \in Workers : job[w] = R!Idle
    BY OneWorks DEF R!Init, R!New, One, Listing
  <1>2. R!Idle.pc = "idle"
    BY DEF R!Idle
  <1>. QED  BY <1>1, <1>2 DEF Told, Apart, Tables, Known

\* Only one process works.
LEMMA ToldStep ==
    ASSUME Listing, Kept, Told, R!Next, \A w \in Workers \ {One} : UNCHANGED job[w]
    PROVE  Told'
  <1>1. ASSUME NEW w \in Workers, w # One
        PROVE  job[w].pc = "idle" /\ job'[w] = job[w]
    BY <1>1, RowsNew DEF Told, Apart
  <1>2. Apart'
    BY DEF Told, Apart
  <1>3. ASSUME NEW w \in Workers, NEW r \in Resources,
               R!Create(w, r) \/ R!Load(w, "update", r) \/ R!Load(w, "delete", r)
                 \/ \E make \in BOOLEAN : R!DataStore(w, r, make)
        PROVE  w = One
    <2>1. job'[w].pc \in {"save", "load", "table"}
      BY <1>3, CreateKept, LoadKept, DataStoreKept
    <2>. QED  BY <1>1, <2>1
  <1>4. ASSUME NEW w \in Workers, NEW order \in R!Lists(R!In(list, "active")),
               R!Reorder(w, order) \/ \E changed \in SUBSET R!ToSet(order) : \E on \in SUBSET changed :
                    R!Package(w, order, changed, on)
        PROVE  w = One
    <2>1. job'[w].pc \in {"save", "merge"}
      BY <1>4, ReorderKept, PackageKept
    <2>. QED  BY <1>1, <2>1
  <1>5. ASSUME NEW w \in Workers,
               \/ R!Update(w) \/ R!Delete(w) \/ R!Upload(w) \/ R!Commit(w) \/ R!Abort(w)
               \/ R!Drop(w) \/ R!Dropped(w) \/ R!Merge(w) \/ R!Flush(w)
               \/ R!Table(w) \/ R!Flag(w)
               \/ R!Die(w)
        PROVE  w = One
    <2>1. job[w].pc # "idle"
      BY <1>5 DEF R!Update, R!Delete, R!Upload, R!Commit, R!Abort, R!Drop, R!Dropped, R!Merge, R!Flush,
         R!Table, R!Flag, R!Die, R!Busy
    <2>. QED  BY <1>1, <2>1
  <1>6. \/ \E r \in Resources : \/ R!Create(One, r) \/ R!Load(One, "update", r) \/ R!Load(One, "delete", r)
                                \/ \E make \in BOOLEAN : R!DataStore(One, r, make)
        \/ \E order \in R!Lists(R!In(list, "active")) :
             \/ R!Reorder(One, order)
             \/ \E changed \in SUBSET R!ToSet(order) : \E on \in SUBSET changed :
                     R!Package(One, order, changed, on)
        \/ R!Update(One) \/ R!Delete(One) \/ R!Upload(One) \/ R!Commit(One) \/ R!Abort(One)
        \/ R!Drop(One) \/ R!Dropped(One) \/ R!Merge(One) \/ R!Flush(One)
        \/ R!Table(One) \/ R!Flag(One) \/ R!Die(One)
        \/ R!PurgeTables
    BY <1>3, <1>4, <1>5 DEF R!Next
  <1>7. Tables' /\ Known(job[One])'
    BY <1>6, StartTold, PreparesTold, EndsTold, CommitTold, FlushTold, DropTold, DroppedTold,
       TableTold, FlagTold, PurgeTablesTold
  <1>. QED  BY <1>2, <1>7 DEF Told

\* What it says of the flags and the tables.
LEMMA ToldRight ==
    ASSUME Listing, Kept, Told
    PROVE  R!FlagTellsTable /\ R!DeletedDropped
  <1>1. One \in Workers
    BY OneWorks
  <1>2. R!FlagTellsTable
    BY <1>1 DEF Told, Tables, R!FlagTellsTable, R!In
  <1>3. R!DeletedDropped
    <2>1. table \subseteq Resources
      BY DEF Kept
    <2>. QED  BY <1>1, <2>1 DEF Told, Tables, R!DeletedDropped
  <1>. QED  BY <1>2, <1>3

-----------------------------------------------------------------------------
\* A step of the members.
LEMMA ResourcesStay ==
    ASSUME UNCHANGED resources
    PROVE  /\ Kept => Kept'
           /\ Told => Told'
  <1>1. /\ list' = list /\ file' = file /\ table' = table /\ lock' = lock /\ job' = job
        /\ version' = version /\ omitted' = omitted /\ cut' = cut /\ claimed' = claimed
    BY DEF resources
  <1>2. ASSUME NEW w \in Workers, Serves(w)
        PROVE  Serves(w)'
    BY <1>1, <1>2 DEF Serves, Holds
  <1>3. Lone => Lone'
    BY <1>1 DEF Lone
  <1>4. Stored => Stored'
    BY <1>1 DEF Stored, Replacing
  <1>5. Kept => Kept'
    BY <1>1, <1>2, <1>3, <1>4 DEF Kept
  <1>6. Told => Told'
    BY <1>1 DEF Told, Apart, Tables, Known, R!In
  <1>. QED  BY <1>5, <1>6

ResourcesKept == Kept /\ (part = "resources" => Told)

LEMMA ResourcesKeptAlways ==
    ASSUME Listing
    PROVE  MCSpec => [](ResourcesKept)
  <1>1. MCInit => ResourcesKept
    BY InitKept, InitTold DEF MCInit, ResourcesKept
  <1>2. ResourcesKept /\ [MCNext]_<<vars, part, resources>> => ResourcesKept'
    <2> SUFFICES ASSUME ResourcesKept, [MCNext]_<<vars, part, resources>>
                 PROVE  ResourcesKept'
      OBVIOUS
    <2>1. part' = part
      BY DEF MCNext
    <2>2. CASE UNCHANGED resources
      BY <2>1, <2>2, ResourcesStay DEF ResourcesKept
    <2>3. CASE part = "resources" /\ ResourcesOneByOne
      BY <2>3, KeptStep, ToldStep DEF ResourcesKept, ResourcesOneByOne
    <2>4. CASE part = "resources race" /\ ResourcesRace
      BY <2>1, <2>4, KeptStep DEF ResourcesKept, ResourcesRace
    <2>. QED  BY <2>2, <2>3, <2>4 DEF MCNext
  <1>. QED  BY <1>1, <1>2, PTL DEF MCSpec

\* The active resources of a dataset are numbered without a gap, and the file
\* that is stored is the one that its row describes, whoever races and dies;
\* one request after another, the flags tell the tables and the tables of
\* deleted resources are dropped, but where a client said otherwise.
THEOREM ResourcesAlwaysRight ==
    ASSUME Listing
    PROVE  MCSpec => []ResourcesRight
  <1>1. ResourcesKept => ResourcesRight
    BY KeptRight, ToldRight DEF ResourcesKept, ResourcesRight
  <1>. QED  BY <1>1, ResourcesKeptAlways, PTL

\* A resource leaves the list of its dataset only by a request that means it.
THEOREM ResourcesNeverLost ==
    ASSUME Listing
    PROVE  MCSpec => ResourceNotLost
  <1>1. ResourcesKept /\ [MCNext]_<<vars, part, resources>> => [R!LeavesOnPurpose]_<<part, resources>>
    <2> SUFFICES ASSUME ResourcesKept, MCNext, ~UNCHANGED <<part, resources>>
                 PROVE  R!LeavesOnPurpose
      BY DEF MCNext
    <2>. QED  BY KeptStep DEF ResourcesKept, MCNext, ResourcesOneByOne, ResourcesRace
  <1>. QED  BY <1>1, ResourcesKeptAlways, PTL DEF MCSpec, ResourceNotLost
=============================================================================
