----------------------------- MODULE Membership -----------------------------
(***************************************************************************)
(* Who belongs to an organization: the rows of CKAN's member table that    *)
(* join users and datasets to organizations.                               *)
(*                                                                         *)
(* A user's rights in an organization are the capacities of all active     *)
(* rows that join the two.  A dataset has a column of its own (owner_org), *)
(* of which the table keeps a copy with capacity "organization".  The      *)
(* table has no unique constraint: that two objects are joined by at most  *)
(* one row is left to the code, which looks for a row, and then updates it *)
(* or inserts one.                                                         *)
(*                                                                         *)
(* A request reads in one step and writes in another; it sees what others  *)
(* commit in between only if it reads again.  An organization is created,  *)
(* and purged, in two transactions.                                        *)
(***************************************************************************)
EXTENDS Naturals, FiniteSets

CONSTANTS
    Workers,        \* web workers
    Users,
    Datasets,
    Orgs,           \* organization ids
    NoOrg,          \* no organization
    AllowUnowned,   \* ckan.auth.create_unowned_dataset
    Kinds,          \* the operations in use
    ByName,         \* whether a request may name its object by name, not id
    MayStop,        \* whether a worker may die half way
    MaxRows,        \* bound: how many member rows are inserted
    MaxRequests     \* bound: how many requests are made

AllKinds == {"update", "delete_dataset", "delete_org", "purge_org",
             "create_org", "add", "remove"}

Objects == Users \cup Datasets
Rows == 1..MaxRows
Roles == {"admin", "editor"}
Capacities == Roles \cup {"organization"}

ASSUME OrgsAssumption == NoOrg \notin Orgs
ASSUME ObjectsAssumption == Users \cap Datasets = {}
ASSUME KindsAssumption == Kinds \subseteq AllKinds
ASSUME ChoicesAssumption == {AllowUnowned, ByName, MayStop} \subseteq BOOLEAN
ASSUME BoundsAssumption == MaxRows \in Nat /\ MaxRequests \in Nat

VARIABLES
    org,            \* the state of each organization
    dataset,        \* the owner and the state of each dataset
    member,         \* the rows of the member table
    request,        \* the request each worker serves
    requests        \* how many requests were made

vars == <<org, dataset, member, request, requests>>

Dataset == [owner : Orgs \cup {NoOrg}, state : {"active", "deleted"}]

\* The rows that exist, those that were never inserted, and those that were
\* removed for good.
Member == [object : Objects, org : Orgs, capacity : Capacities,
           state : {"active", "deleted", "purged"}]
NoObject == "none"

Unused == [object |-> NoObject, org |-> NoOrg, capacity |-> "none",
           state |-> "unused"]

Unowned == [owner |-> NoOrg, state |-> "active"]

NothingSeen == [i \in Rows |-> Unused]

Resting ==
    [pc |-> "idle", kind |-> "none", object |-> NoObject, org |-> NoOrg,
     capacity |-> "none", state |-> "none", byName |-> FALSE, self |-> FALSE,
     was |-> Unowned, seen |-> NothingSeen, owned |-> {}]

Request ==
    [pc       : {"idle", "begin", "read", "committed"},
     kind     : AllKinds \cup {"none"},
     object   : Objects \cup {NoObject},
     org      : Orgs \cup {NoOrg},
     capacity : Roles \cup {"none"},
     state    : {"active", "deleted", "none"},
     byName   : BOOLEAN,                \* the request names its object
     self     : BOOLEAN,                \* users act on their own membership
     was      : Dataset,                \* the dataset as it was loaded
     seen     : [Rows -> Member \cup {Unused}],  \* the rows that were loaded
     owned    : SUBSET Datasets]        \* the datasets the request locks

TypeOK ==
    /\ org \in [Orgs -> {"new", "active", "deleted", "purged"}]
    /\ dataset \in [Datasets -> Dataset]
    /\ member \in [Rows -> Member \cup {Unused}]
    /\ request \in [Workers -> Request]
    /\ requests \in 0..MaxRequests

\* No organization was created yet, and nobody owns a dataset.
Init ==
    /\ org = [o \in Orgs |-> "new"]
    /\ dataset = [d \in Datasets |-> Unowned]
    /\ member = [i \in Rows |-> Unused]
    /\ request = [w \in Workers |-> Resting]
    /\ requests = 0

-----------------------------------------------------------------------------
At(w, kinds, pc) == request[w].kind \in kinds /\ request[w].pc = pc

Finish(w) == request' = [request EXCEPT ![w] = Resting]

Exists(o) == org[o] \in {"active", "deleted"}

\* The rows of the table.
Inserted == {i \in Rows : member[i] # Unused /\ member[i].state # "purged"}

RowsOf(x, o) == {i \in Inserted : member[i].object = x /\ member[i].org = o}

Active(ids) == {i \in ids : member[i].state = "active"}

\* The rows ids as a session loads them, and the rows it has loaded.
Rowset(ids) == [i \in Rows |-> IF i \in ids THEN member[i] ELSE Unused]

Seen(q) == {i \in Rows : q.seen[i] # Unused}

Load(w, ids) ==
    request' = [request EXCEPT ![w].pc = "read", ![w].seen = Rowset(ids)]

\* The table with rows ids in another state.
Set(ids, state) ==
    [i \in Rows |-> IF i \in ids THEN [member[i] EXCEPT !.state = state]
                                 ELSE member[i]]

\* rows, with a new one that joins x and o.
Insert(rows, x, o, capacity) ==
    \E i \in Rows :
        /\ member[i] = Unused /\ \A j \in 1..(i - 1) : member[j] # Unused
        /\ member' = [rows EXCEPT ![i] = [object |-> x, org |-> o,
                                          capacity |-> capacity,
                                          state |-> "active"]]

\* Mutant of Disowned: the row is all but emptied.
DisownedColumn(ds) ==
    [d \in Datasets |-> IF d \in ds THEN [owner |-> NoOrg] ELSE dataset[d]]

\* The datasets, with those of ds unowned.
Disowned(ds) ==
    [d \in Datasets |-> IF d \in ds THEN [dataset[d] EXCEPT !.owner = NoOrg]
                                    ELSE dataset[d]]

\* No other request holds the row lock of dataset d.
Lockable(w, d) == \A x \in Workers \ {w} : d \notin request[x].owned

-----------------------------------------------------------------------------
(* Requests. *)

Asked(kind) == [Resting EXCEPT !.pc = "begin", !.kind = kind]

Begin(w, q) ==
    /\ request[w].pc = "idle"
    /\ q.kind \in Kinds
    /\ requests < MaxRequests
    /\ requests' = requests + 1
    /\ request' = [request EXCEPT ![w] = q]
    /\ UNCHANGED <<org, dataset, member>>

AskUpdate(w) ==
    \E d \in Datasets, o \in Orgs \cup {NoOrg}, s \in {"active", "deleted"} :
        /\ o = NoOrg => AllowUnowned
        /\ Begin(w, [Asked("update") EXCEPT !.object = d, !.org = o, !.state = s])

AskDatasetDelete(w) ==
    \E d \in Datasets, n \in {FALSE, ByName} :
        Begin(w, [Asked("delete_dataset") EXCEPT !.object = d, !.byName = n])

AskOrg(w) ==
    \E o \in Orgs, n \in {FALSE, ByName}, k \in {"delete_org", "purge_org"} :
        Begin(w, [Asked(k) EXCEPT !.org = o, !.byName = n])

AskCreate(w) ==
    \E u \in Users, o \in Orgs :
        /\ org[o] = "new"
        /\ \A x \in Workers : ~ (request[x].kind = "create_org" /\ request[x].org = o)
        /\ Begin(w, [Asked("create_org") EXCEPT !.object = u, !.org = o,
                                                !.capacity = "admin"])

AskMember(w) ==
    \E u \in Users, o \in Orgs :
        \/ \E c \in Roles, s \in BOOLEAN :
             Begin(w, [Asked("add") EXCEPT !.object = u, !.org = o,
                                           !.capacity = c, !.self = s])
        \/ Begin(w, [Asked("remove") EXCEPT !.object = u, !.org = o])

\* Group.get finds no organization: NotFound.
Missing(w) ==
    /\ \/ At(w, {"update", "delete_org", "purge_org", "add", "remove"}, "begin")
       \/ At(w, {"create_org", "purge_org"}, "committed")
    /\ request[w].org # NoOrg
    /\ ~ Exists(request[w].org)
    /\ Finish(w)
    /\ UNCHANGED <<org, dataset, member, requests>>

-----------------------------------------------------------------------------
(* What a request writes, given what it has read. *)

\* The loaded rows that join the dataset to the organization asked for.
Ours(q) == {i \in Seen(q) : q.seen[i].org = q.org}

\* The rows it updates ...
Touched(q) ==
    CASE q.kind = "update" ->
           {i \in Seen(q) \ Ours(q) : q.seen[i].state = "active"}
      [] q.kind \in {"add", "create_org"} ->
           {i \in Seen(q) : q.seen[i].state # "active"
                                  \/ q.seen[i].capacity # q.capacity}
      [] OTHER -> Seen(q)

\* Mutant of Inserts: the dataset always gets a new row.
InsertsAlways(q) ==
    \/ q.kind = "update" /\ q.org # NoOrg
    \/ q.kind \in {"add", "create_org"} /\ Seen(q) = {}

\* ... and whether it inserts one.
Inserts(q) ==
    \/ q.kind = "update" /\ q.org # NoOrg /\ Ours(q) = {}
    \/ q.kind \in {"add", "create_org"} /\ Seen(q) = {}

\* A statement fails: the row or the organization it is about was purged.
Fails(q) ==
    \/ ~ (Touched(q) \subseteq Inserted)
    \/ Inserts(q) /\ ~ Exists(q.org)
    \/ q.kind = "delete_org" /\ ~ Exists(q.org)

Stale(w) ==
    /\ request[w].pc = "read"
    /\ request[w].kind # "purge_org"
    /\ Fails(request[w])
    /\ Finish(w)
    /\ UNCHANGED <<org, dataset, member, requests>>

Writes(w, kinds) == At(w, kinds, "read") /\ ~ Fails(request[w])

-----------------------------------------------------------------------------
(* package_update and package_owner_org_update. *)

ReadUpdate(w) ==
    LET q == request[w] IN
    /\ At(w, {"update"}, "begin")
    /\ q.org # NoOrg => Exists(q.org)
    /\ request' = [request EXCEPT
         ![w].pc = "read",
         ![w].was = dataset[q.object],
         ![w].seen = Rowset({i \in Inserted : member[i].object = q.object})]
    /\ UNCHANGED <<org, dataset, member, requests>>

\* The table when the rows of the other organizations are deleted.
Untouched(q) == Set(Touched(q), "deleted")

\* The columns that changed since they were loaded are written; the rows of
\* other organizations are deleted; a row is inserted unless there is one,
\* whatever its state.
WriteUpdate(w) ==
    LET q == request[w]
        d == q.object
    IN
    /\ Writes(w, {"update"})
    /\ Lockable(w, d)
    /\ dataset' = [dataset EXCEPT ![d] =
         [owner |-> IF q.org = q.was.owner THEN @.owner ELSE q.org,
          state |-> IF q.state = q.was.state THEN @.state ELSE q.state]]
    /\ IF Inserts(q)
       THEN Insert(Untouched(q), d, q.org, "organization")
       ELSE member' = Untouched(q)
    /\ Finish(w)
    /\ UNCHANGED <<org, requests>>

(* package_delete, which looks for rows with what it was given as the id. *)
ReadDatasetDelete(w) ==
    LET q == request[w] IN
    /\ At(w, {"delete_dataset"}, "begin")
    /\ Load(w, IF q.byName THEN {}
               ELSE Active({i \in Inserted : member[i].object = q.object}))
    /\ UNCHANGED <<org, dataset, member, requests>>

WriteDatasetDelete(w) ==
    LET q == request[w] IN
    /\ Writes(w, {"delete_dataset"})
    /\ Lockable(w, q.object)
    /\ dataset' = [dataset EXCEPT ![q.object].state = "deleted"]
    /\ member' = Set(Seen(q), "deleted")
    /\ Finish(w)
    /\ UNCHANGED <<org, requests>>

-----------------------------------------------------------------------------
(* _group_or_org_delete and _group_or_org_purge. *)

\* Mutant of Owned: the datasets are not counted.
OwnedNone(o) == {}

Owned(o) == {d \in Datasets : dataset[d].owner = o /\ dataset[d].state = "active"}

\* The datasets are counted.  If there are any, the request fails, or is the
\* first to UPDATE them; then the rows are read, for a deletion those whose
\* group_id is what the request was given as the id.
ReadOrg(w) ==
    LET q == request[w]
        owned == Owned(q.org)
        rows == {i \in Inserted : member[i].org = q.org}
    IN
    /\ At(w, {"delete_org", "purge_org"}, "begin")
    /\ Exists(q.org)
    /\ IF owned # {} /\ ~ AllowUnowned
       THEN Finish(w)
       ELSE /\ \A d \in owned : Lockable(w, d)
            /\ request' = [request EXCEPT
                 ![w].pc = "read",
                 ![w].owned = owned,
                 ![w].seen = Rowset(IF q.kind = "purge_org" THEN rows
                                    ELSE IF q.byName THEN {} ELSE Active(rows))]
    /\ UNCHANGED <<org, dataset, member, requests>>

WriteOrgDelete(w) ==
    LET q == request[w] IN
    /\ Writes(w, {"delete_org"})
    /\ org' = [org EXCEPT ![q.org] = "deleted"]
    /\ dataset' = Disowned(q.owned)
    /\ member' = Set(Seen(q), "deleted")
    /\ Finish(w)
    /\ UNCHANGED requests

\* The first transaction of a purge, if the organization has any rows ...
PurgeMembers(w) ==
    LET q == request[w] IN
    /\ At(w, {"purge_org"}, "read")
    /\ IF Seen(q) = {}
       THEN /\ request' = [request EXCEPT ![w].pc = "committed"]
            /\ UNCHANGED <<dataset, member>>
       ELSE /\ dataset' = Disowned(q.owned)
            /\ member' = Set(Seen(q), "purged")
            /\ request' = [request EXCEPT ![w].pc = "committed", ![w].owned = {}]
    /\ UNCHANGED <<org, requests>>

\* Mutant of PurgeGroup: the rows inserted in between stay.
PurgeGroupSeen(w) ==
    LET q == request[w] IN
    /\ At(w, {"purge_org"}, "committed")
    /\ Exists(q.org)
    /\ org' = [org EXCEPT ![q.org] = "purged"]
    /\ dataset' = Disowned(q.owned)
    /\ member' = Set(Seen(q), "purged")
    /\ Finish(w)
    /\ UNCHANGED requests

\* ... and the second, with the rows that were inserted in between.
PurgeGroup(w) ==
    LET q == request[w] IN
    /\ At(w, {"purge_org"}, "committed")
    /\ Exists(q.org)
    /\ org' = [org EXCEPT ![q.org] = "purged"]
    /\ dataset' = Disowned(q.owned)
    /\ member' = Set({i \in Inserted : member[i].org = q.org}, "purged")
    /\ Finish(w)
    /\ UNCHANGED requests

-----------------------------------------------------------------------------
(* _group_or_org_create, member_create and member_delete. *)

\* The organization is committed; member_create follows, for its creator.
CreateOrg(w) ==
    /\ At(w, {"create_org"}, "begin")
    /\ org' = [org EXCEPT ![request[w].org] = "active"]
    /\ request' = [request EXCEPT ![w].pc = "committed"]
    /\ UNCHANGED <<dataset, member, requests>>

\* "Administrators cannot revoke their own admin status."
Revokes(q, i) ==
    q.self /\ member[i].capacity = "admin" /\ q.capacity # "admin"

\* The first row that joins the two, the active ones before the deleted.
ReadAdd(w) ==
    LET q == request[w]
        rows == RowsOf(q.object, q.org)
    IN
    /\ At(w, {"add"}, "begin") \/ At(w, {"create_org"}, "committed")
    /\ Exists(q.org)
    /\ IF rows = {}
       THEN Load(w, {})
       ELSE \E i \in IF Active(rows) = {} THEN rows ELSE Active(rows) :
              IF Revokes(q, i) THEN Finish(w) ELSE Load(w, {i})
    /\ UNCHANGED <<org, dataset, member, requests>>

\* It gets the capacity and becomes active, or one is inserted.
WriteAdd(w) ==
    LET q == request[w] IN
    /\ Writes(w, {"add", "create_org"})
    /\ IF Inserts(q)
       THEN Insert(member, q.object, q.org, q.capacity)
       ELSE member' = [i \in Rows |->
              IF i \in Touched(q)
              THEN [member[i] EXCEPT
                      !.state = IF q.seen[i].state = "active" THEN @ ELSE "active",
                      !.capacity = IF q.seen[i].capacity = q.capacity
                                   THEN @ ELSE q.capacity]
              ELSE member[i]]
    /\ Finish(w)
    /\ UNCHANGED <<org, dataset, requests>>

\* One active row, if there is any.
ReadRemove(w) ==
    LET q == request[w]
        rows == Active(RowsOf(q.object, q.org))
    IN
    /\ At(w, {"remove"}, "begin")
    /\ Exists(q.org)
    /\ IF rows = {} THEN Finish(w) ELSE \E i \in rows : Load(w, {i})
    /\ UNCHANGED <<org, dataset, member, requests>>

WriteRemove(w) ==
    /\ Writes(w, {"remove"})
    /\ member' = Set(Seen(request[w]), "deleted")
    /\ Finish(w)
    /\ UNCHANGED <<org, dataset, requests>>

\* The worker dies; what it did not commit is rolled back.
Stop(w) ==
    /\ MayStop
    /\ request[w].pc # "idle"
    /\ Finish(w)
    /\ UNCHANGED <<org, dataset, member, requests>>

-----------------------------------------------------------------------------
Next == \E w \in Workers :
    \/ AskUpdate(w) \/ AskDatasetDelete(w) \/ AskOrg(w) \/ AskCreate(w)
    \/ AskMember(w)
    \/ Missing(w) \/ Stale(w) \/ Stop(w)
    \/ ReadUpdate(w) \/ WriteUpdate(w)
    \/ ReadDatasetDelete(w) \/ WriteDatasetDelete(w)
    \/ ReadOrg(w) \/ WriteOrgDelete(w) \/ PurgeMembers(w) \/ PurgeGroup(w)
    \/ CreateOrg(w) \/ ReadAdd(w) \/ WriteAdd(w)
    \/ ReadRemove(w) \/ WriteRemove(w)

Spec == Init /\ [][Next]_vars

-----------------------------------------------------------------------------
(* Properties. *)

\* A purged organization is "completely removed": no row is left behind,
\* whatever was added to it while it was being purged.
RowsHaveOrg == \A i \in Inserted : Exists(member[i].org)

\* A user or dataset is joined to an organization by at most one active row:
\* adding it again updates the row.
OneMembership ==
    \A x \in Objects, o \in Orgs : Cardinality(Active(RowsOf(x, o))) <= 1

\* An active row for a dataset names its owner: one organization lists it.
MemberIsOwner ==
    \A i \in Active(Inserted) :
        member[i].object \in Datasets
            => dataset[member[i].object].owner = member[i].org

\* A user that was removed from an organization has no rights left in it:
\* member_delete removes "an object ... from a group".
RemovesAll ==
    \A w \in Workers, u \in Users, o \in Orgs :
        WriteRemove(w) /\ request[w].object = u /\ request[w].org = o
            => Active(RowsOf(u, o))' = {}

\* An organization is not deleted "while it still has datasets", unless
\* datasets may be unowned, when they become so.
DeletesEmpty ==
    \A w \in Workers, o \in Orgs, d \in Datasets :
        WriteOrgDelete(w) /\ request[w].org = o
            => dataset'[d].owner # o \/ dataset'[d].state = "deleted"

\* When an organization is deleted, so are its "Member objects".
DeletesRows ==
    \A w \in Workers, o \in Orgs, i \in Rows :
        WriteOrgDelete(w) /\ request[w].org = o
            => member'[i].org # o \/ member'[i].state # "active"

\* An organization that nobody is creating or purging has had somebody to
\* administer it: the "creator of group/org becomes an admin".
Administered ==
    \A o \in Orgs :
        \/ ~ Exists(o)
        \/ \E w \in Workers :
             request[w].kind \in {"create_org", "purge_org"} /\ request[w].org = o
        \/ \E i \in Inserted : member[i].org = o /\ member[i].object \in Users
=============================================================================
