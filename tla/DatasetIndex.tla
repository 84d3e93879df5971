---------------------------- MODULE DatasetIndex ----------------------------
(***************************************************************************)
(* How CKAN keeps the two copies of a dataset: the rows of the database    *)
(* and the document of the Solr index.                                     *)
(*                                                                         *)
(* A web worker serves a request in one SQLAlchemy session.  The session   *)
(* keeps the package object it loaded first (its identity map) for as long *)
(* as the request lives; the resources are read from the database each     *)
(* time the dataset is dictized.  The session hooks of ckan/model/meta.py  *)
(* flush the session and index the dataset BEFORE the transaction commits, *)
(* so the order of a write is                                              *)
(*                                                                         *)
(*     load or lock -> package_show -> flush -> Solr add -> COMMIT         *)
(*                                                                         *)
(* and any of these steps may fail or be the last one its worker takes.    *)
(* package_show itself answers from Solr when the document carries the     *)
(* metadata_modified of the package object.                                *)
(***************************************************************************)
EXTENDS Naturals

CONSTANTS
    Workers,        \* web workers, job workers, command lines
    Datasets,       \* dataset ids
    Columns,        \* columns of the package row, kept by the identity map
    Parts,          \* what is read from other tables: resources, tags
    Values,         \* what a column or a part may hold
    Deleted,        \* the value of "state" of a deleted dataset
    RemoveDeleted,  \* ckan.search.remove_deleted_packages
    Kinds,          \* the operations in use
    Alone,          \* the kinds of requests that no other request runs with
    MayAbort,       \* whether a request can fail half way
    MaxRequests,    \* bound: how many requests are made
    Absent,         \* no row, no document, nothing loaded
    Nobody          \* nobody holds the row lock

Fields == Columns \cup Parts
Content == [Fields -> Values]
Version == [content : Content, mm : Nat]     \* mm: metadata_modified
Changes == UNION {[F -> Values] : F \in SUBSET Fields}
Asking == [kind : {"create", "patch", "purge"}, ds : Datasets, req : Changes]

AllKinds == {"create", "update", "patch", "resource_update", "delete",
             "purge", "bulk", "rebuild", "rebuild_one", "clear",
             "clear_orphans"}

\* The operations that take the row lock before they read the dataset, those
\* that only remove it, and those that only write the index.
SafeKinds == {"create", "patch", "purge", "rebuild", "rebuild_one", "clear",
              "clear_orphans"}

ASSUME ColumnsAssumption ==
    {"state", "private"} \subseteq Columns /\ Columns \cap Parts = {}
ASSUME ValuesAssumption == Deleted \in Values
ASSUME KindsAssumption == Kinds \subseteq AllKinds /\ Alone \subseteq AllKinds
ASSUME BooleanAssumption == RemoveDeleted \in BOOLEAN /\ MayAbort \in BOOLEAN
ASSUME BoundAssumption == MaxRequests \in Nat
ASSUME NullAssumption ==
    /\ Absent \notin Version
    /\ Absent \notin Content
    /\ Absent \notin Datasets
    /\ Absent \notin Asking
    /\ Nobody \notin Workers

VARIABLES
    row,            \* row[d]: the committed rows of dataset d
    doc,            \* doc[d]: the document of dataset d in the index
    lock,           \* lock[d]: the worker that holds the row lock of d
    born,           \* the dataset ids that were ever given out
    job,            \* job[w]: the request worker w serves, and its session
    clock,          \* the last metadata_modified given out
    requests        \* how many requests were made

vars == <<row, doc, lock, born, job, clock, requests>>

Idle ==
    [pc |-> "idle", kind |-> "none", ds |-> Absent, req |-> Absent,
     obj |-> Absent, dict |-> Absent, tx |-> Absent]

Job == [pc   : {"idle", "begin", "loaded", "locked", "shown", "flushed",
                "indexed", "removed", "committed", "fetched"},
        kind : AllKinds \cup {"none"},
        ds   : Datasets \cup {Absent},
        req  : Changes \cup {Absent},
        obj  : Version \cup {Absent},    \* the package object of the session
        dict : Content \cup {Absent},    \* what package_update is asked to save
        tx   : Version \cup {Absent}]    \* what a commit will leave in the database

TypeOK ==
    /\ row \in [Datasets -> Version \cup {Absent}]
    /\ doc \in [Datasets -> Version \cup {Absent}]
    /\ lock \in [Datasets -> Workers \cup {Nobody}]
    /\ born \subseteq Datasets
    /\ job \in [Workers -> Job]
    /\ clock \in Nat
    /\ requests \in 0..MaxRequests

Init ==
    /\ born \in SUBSET Datasets
    /\ \E c \in Content :
         /\ c["state"] # Deleted
         /\ row = [d \in Datasets |->
                     IF d \in born THEN [content |-> c, mm |-> 0] ELSE Absent]
    /\ doc = row
    /\ lock = [d \in Datasets |-> Nobody]
    /\ job = [w \in Workers |-> Idle]
    /\ clock = 0
    /\ requests = 0

-----------------------------------------------------------------------------
(* What the session, the index and package_show compute. *)

\* Mutant of Override: the fields that were not given are lost.
OnlyChanges(c, changes) == changes

Override(c, changes) ==
    [f \in Fields |-> IF f \in DOMAIN changes THEN changes[f] ELSE c[f]]

\* package_dictize: the columns of the package object, the parts of the row
\* the transaction sees.
Dictized(o, r) ==
    [f \in Fields |-> IF f \in Parts /\ r # Absent THEN r.content[f]
                                                   ELSE o.content[f]]

\* Mutant of Show: the indexed dict, however old.
ShowIndexed(d, o) ==
    IF doc[d] # Absent THEN doc[d].content ELSE Dictized(o, row[d])

\* package_show for a session whose package object is o: the indexed dict if
\* its metadata_modified is that of the object, the database otherwise.
Show(d, o) ==
    IF doc[d] # Absent /\ doc[d].mm = o.mm THEN doc[d].content
                                           ELSE Dictized(o, row[d])

\* The rows an UPDATE leaves: only the columns that differ from those the
\* object was loaded with are part of the statement.
Updated(o, r, dict) ==
    [f \in Fields |-> IF f \in Columns /\ dict[f] = o.content[f]
                      THEN r.content[f] ELSE dict[f]]

\* Saving dict changes the package object or one of its parts.
Differs(o, r, dict) ==
    \/ \E f \in Columns : dict[f] # o.content[f]
    \/ \E f \in Parts : dict[f] # r.content[f]

\* What index_package leaves in the index for a dataset of version v.
Indexed(v) ==
    IF RemoveDeleted /\ v.content["state"] = Deleted THEN Absent ELSE v

\* Version v with some fields changed and the same metadata_modified.
With(v, changes) == [content |-> Override(v.content, changes), mm |-> v.mm]

StateDeleted == [f \in {"state"} |-> Deleted]

\* The row lock of d is free for worker w.
Lockable(w, d) == lock[d] \in {Nobody, w}

At(w, kinds, pc) == job[w].kind \in kinds /\ job[w].pc = pc

\* Mutant of Finish: the row locks are never released.
FinishLocked(w) == job' = [job EXCEPT ![w] = Idle] /\ UNCHANGED lock

\* The end of a request: the session is removed, its locks are released.
Finish(w) ==
    /\ job' = [job EXCEPT ![w] = Idle]
    /\ lock' = [d \in Datasets |-> IF lock[d] = w THEN Nobody ELSE lock[d]]

Goto(w, pc) == job' = [job EXCEPT ![w].pc = pc]

-----------------------------------------------------------------------------
(* Requests. *)

RequestsOf(k) ==
    CASE k \in {"create", "update"}     -> [Fields -> Values]
      [] k = "patch"                    -> Changes
      [] k = "resource_update"          -> [Parts -> Values]
      [] k = "bulk"                     -> [{"private"} -> Values] \cup {StateDeleted}
      [] OTHER                          -> [{} -> Values]

Request(w, k, d) ==
    /\ job[w].pc = "idle"
    /\ k \in Kinds
    /\ \A x \in Workers : job[x].kind \notin Alone
    /\ k \in Alone => \A x \in Workers : job[x].pc = "idle"
    /\ requests < MaxRequests
    /\ requests' = requests + 1
    /\ IF k = "create" THEN d \notin born /\ born' = born \cup {d}
                       ELSE d \in born /\ born' = born
    /\ \E r \in RequestsOf(k) :
         job' = [job EXCEPT ![w] =
                   [Idle EXCEPT !.pc = "begin", !.kind = k, !.ds = d, !.req = r]]
    /\ UNCHANGED <<row, doc, lock, clock>>

\* model.Package.get without for_update.
Load(w) ==
    LET d == job[w].ds IN
    /\ At(w, {"update", "resource_update", "delete", "purge",
              "rebuild", "rebuild_one"}, "begin")
    /\ row[d] # Absent
    /\ job' = [job EXCEPT ![w].pc = "loaded", ![w].obj = row[d]]
    /\ UNCHANGED <<row, doc, lock, born, clock, requests>>

\* Mutant of Lock: the SELECT without FOR UPDATE.
LockNothing(w) ==
    /\ At(w, {"patch"}, "begin") \/ At(w, {"resource_update"}, "loaded")
    /\ row[job[w].ds] # Absent
    /\ job' = [job EXCEPT ![w].pc = "locked",
                          ![w].obj = IF @ = Absent THEN row[job[w].ds] ELSE @]
    /\ UNCHANGED <<row, doc, lock, born, clock, requests>>

\* package_show with for_update: SELECT ... FOR UPDATE waits for the lock and
\* returns the latest row, which a package object loaded before ignores.
Lock(w) ==
    LET d == job[w].ds IN
    /\ At(w, {"patch"}, "begin") \/ At(w, {"resource_update"}, "loaded")
    /\ row[d] # Absent
    /\ lock[d] = Nobody
    /\ lock' = [lock EXCEPT ![d] = w]
    /\ job' = [job EXCEPT ![w].pc = "locked",
                          ![w].obj = IF @ = Absent THEN row[d] ELSE @]
    /\ UNCHANGED <<row, doc, born, clock, requests>>

\* The row is gone when the request looks for it: NotFound, or the flush
\* finds no row to update.
Missing(w) ==
    /\ \/ At(w, {"update", "patch", "resource_update", "delete", "purge",
                 "bulk", "rebuild", "rebuild_one"}, "begin")
       \/ At(w, {"resource_update", "delete"}, "loaded")
       \/ At(w, {"update"}, "shown")
    /\ row[job[w].ds] = Absent
    /\ Finish(w)
    /\ UNCHANGED <<row, doc, born, clock, requests>>

\* The dict to save: what package_show answers, with the request's changes.
\* If that is what it already answers, package_update returns.
Prepare(w) ==
    LET d == job[w].ds
        old == Show(d, job[w].obj)
        new == Override(old, job[w].req)
    IN
    /\ At(w, {"patch", "resource_update"}, "locked") \/ At(w, {"update"}, "loaded")
    /\ IF new = old
       THEN Finish(w)
       ELSE /\ job' = [job EXCEPT ![w].pc = "shown", ![w].dict = new]
            /\ UNCHANGED lock
    /\ UNCHANGED <<row, doc, born, clock, requests>>

-----------------------------------------------------------------------------
(* The transaction: flush, index, commit. *)

\* The flush of package_update, which gives the dataset the metadata_modified
\* stamp.  Nothing is written, and the transaction is rolled back, if the
\* save changes nothing.
FlushStamped(w, stamp) ==
    LET d == job[w].ds
        o == job[w].obj
        dict == job[w].dict
    IN
    /\ At(w, {"update", "patch", "resource_update"}, "shown")
    /\ row[d] # Absent
    /\ Lockable(w, d)
    /\ IF Differs(o, row[d], dict)
       THEN /\ clock' = clock + 1
            /\ lock' = [lock EXCEPT ![d] = w]
            /\ job' = [job EXCEPT
                 ![w].pc = "flushed",
                 ![w].obj = [content |-> dict, mm |-> stamp],
                 ![w].tx = [content |-> Updated(o, row[d], dict), mm |-> stamp]]
       ELSE Finish(w) /\ UNCHANGED clock
    /\ UNCHANGED <<row, doc, born, requests>>

\* Mutant of Flush: metadata_modified is not set.
FlushUnstamped(w) == FlushStamped(w, job[w].obj.mm)

Flush(w) == FlushStamped(w, clock + 1)

\* The flush of package_create: the new row is seen by nobody else.
FlushCreate(w) ==
    LET new == [content |-> job[w].req, mm |-> clock + 1] IN
    /\ At(w, {"create"}, "begin")
    /\ clock' = clock + 1
    /\ lock' = [lock EXCEPT ![job[w].ds] = w]
    /\ job' = [job EXCEPT ![w].pc = "flushed", ![w].dict = job[w].req,
                          ![w].obj = new, ![w].tx = new]
    /\ UNCHANGED <<row, doc, born, requests>>

\* The flush of package_delete: the state changes, metadata_modified does not.
FlushDelete(w) ==
    LET d == job[w].ds
        o == job[w].obj
    IN
    /\ At(w, {"delete"}, "loaded")
    /\ row[d] # Absent
    /\ Lockable(w, d)
    /\ IF o.content["state"] = Deleted
       THEN Finish(w)
       ELSE /\ lock' = [lock EXCEPT ![d] = w]
            /\ job' = [job EXCEPT ![w].pc = "flushed",
                                  ![w].obj = With(o, StateDeleted),
                                  ![w].tx = With(row[d], StateDeleted)]
    /\ UNCHANGED <<row, doc, born, clock, requests>>

\* The flush of dataset_purge.
FlushPurge(w) ==
    /\ At(w, {"purge"}, "loaded")
    /\ Lockable(w, job[w].ds)
    /\ lock' = [lock EXCEPT ![job[w].ds] = w]
    /\ Goto(w, "flushed")
    /\ UNCHANGED <<row, doc, born, clock, requests>>

\* Mutant of Index: the dataset is indexed as other sessions see it.
IndexCommitted(w) ==
    LET d == job[w].ds IN
    /\ job[w].pc = "flushed"
    /\ doc' = [doc EXCEPT ![d] = IF row[d] = Absent THEN Absent ELSE Indexed(row[d])]
    /\ Goto(w, "indexed")
    /\ UNCHANGED <<row, lock, born, clock, requests>>

\* before_commit: the observers are notified of the flushed objects, and the
\* search plugin indexes package_show's answer without the cache, or removes
\* the document of a purged dataset.
Index(w) ==
    LET d == job[w].ds
        o == job[w].obj
        tx == job[w].tx
    IN
    /\ job[w].pc = "flushed"
    /\ doc' = [doc EXCEPT ![d] =
                 IF tx = Absent THEN Absent
                 ELSE Indexed([content |-> Dictized(o, tx), mm |-> o.mm])]
    /\ Goto(w, "indexed")
    /\ UNCHANGED <<row, lock, born, clock, requests>>

Commit(w) ==
    /\ job[w].pc = "indexed"
    /\ row' = [row EXCEPT ![job[w].ds] = job[w].tx]
    /\ Finish(w)
    /\ UNCHANGED <<doc, born, clock, requests>>

\* Solr refuses the document, the database the commit, or the worker dies.
\* The transaction is rolled back; what was sent to Solr stays.
Abort(w) ==
    /\ MayAbort
    /\ job[w].pc # "idle"
    /\ Finish(w)
    /\ UNCHANGED <<row, doc, born, clock, requests>>

-----------------------------------------------------------------------------
(* Bulk updates of an organization's datasets, and the command line. *)

\* _bulk_update_dataset, first half: one UPDATE statement, committed at once.
\* No object of the session changes, so nothing is indexed by the hooks.
BulkUpdate(w) ==
    LET d == job[w].ds IN
    /\ At(w, {"bulk"}, "begin")
    /\ row[d] # Absent
    /\ lock[d] = Nobody
    /\ row' = [row EXCEPT ![d] = With(@, job[w].req)]
    /\ Goto(w, "committed")
    /\ UNCHANGED <<doc, lock, born, clock, requests>>

\* ... second half: the dict stored in the index is read ...
BulkFetch(w) ==
    LET d == job[w].ds IN
    /\ At(w, {"bulk"}, "committed")
    /\ IF doc[d] = Absent
       THEN Finish(w)
       ELSE /\ job' = [job EXCEPT ![w].pc = "fetched", ![w].obj = doc[d]]
            /\ UNCHANGED lock
    /\ UNCHANGED <<row, doc, born, clock, requests>>

\* ... and indexed again with the new value.
BulkIndex(w) ==
    /\ At(w, {"bulk"}, "fetched")
    /\ doc' = [doc EXCEPT ![job[w].ds] =
                 Indexed(With(job[w].obj, job[w].req))]
    /\ Finish(w)
    /\ UNCHANGED <<row, born, clock, requests>>

\* search-index rebuild <id> removes the document before it inserts it.
RebuildRemove(w) ==
    /\ At(w, {"rebuild_one"}, "loaded")
    /\ doc' = [doc EXCEPT ![job[w].ds] = Absent]
    /\ Goto(w, "removed")
    /\ UNCHANGED <<row, lock, born, clock, requests>>

RebuildInsert(w) ==
    /\ At(w, {"rebuild"}, "loaded") \/ At(w, {"rebuild_one"}, "removed")
    /\ doc' = [doc EXCEPT ![job[w].ds] = Indexed(job[w].obj)]
    /\ Finish(w)
    /\ UNCHANGED <<row, born, clock, requests>>

\* search-index clear <id>, and the clearing of the whole index, which is
\* this step for one dataset after the other.
Clear(w) ==
    /\ At(w, {"clear"}, "begin")
    /\ doc' = [doc EXCEPT ![job[w].ds] = Absent]
    /\ Finish(w)
    /\ UNCHANGED <<row, born, clock, requests>>

\* search-index clear-orphans: a document without a committed row is found ...
FindOrphan(w) ==
    LET d == job[w].ds IN
    /\ At(w, {"clear_orphans"}, "begin")
    /\ IF doc[d] # Absent /\ row[d] = Absent
       THEN Goto(w, "loaded") /\ UNCHANGED lock
       ELSE Finish(w)
    /\ UNCHANGED <<row, doc, born, clock, requests>>

\* ... and removed later, whatever has been committed since.
ClearOrphan(w) ==
    /\ At(w, {"clear_orphans"}, "loaded")
    /\ doc' = [doc EXCEPT ![job[w].ds] = Absent]
    /\ Finish(w)
    /\ UNCHANGED <<row, born, clock, requests>>

-----------------------------------------------------------------------------
\* Steps that wait for the row lock, and steps that do not.
Waiting(w) ==
    \/ Lock(w) \/ Flush(w) \/ FlushDelete(w) \/ FlushPurge(w) \/ BulkUpdate(w)

Working(w) ==
    \/ Load(w) \/ Missing(w) \/ Prepare(w) \/ FlushCreate(w) \/ Index(w)
    \/ Commit(w) \/ BulkFetch(w) \/ BulkIndex(w) \/ RebuildRemove(w)
    \/ RebuildInsert(w) \/ Clear(w) \/ FindOrphan(w) \/ ClearOrphan(w)

Next == \E w \in Workers :
    \/ \E k \in AllKinds, d \in Datasets : Request(w, k, d)
    \/ Waiting(w)
    \/ Working(w)
    \/ Abort(w)

Spec == Init /\ [][Next]_vars

\* A request that has begun goes on; the database hands a row lock to those
\* that wait for it in the order they asked.
Fairness == \A w \in Workers : WF_vars(Working(w)) /\ SF_vars(Waiting(w))

FairSpec == Spec /\ Fairness

-----------------------------------------------------------------------------
(* Properties. *)

\* A document that package_show would answer with, because it carries the
\* metadata_modified of the committed row, says what the row says.
CacheCoherent ==
    \A d \in Datasets :
        (row[d] # Absent /\ doc[d] # Absent /\ doc[d].mm = row[d].mm)
            => doc[d].content = row[d].content

\* When no request on a dataset is being served, searching finds the dataset
\* as the database has it, and finds it only if the database has it.
IndexInSync ==
    \A d \in Datasets :
        (\A w \in Workers : job[w].ds # d)
            => doc[d] = IF row[d] = Absent THEN Absent ELSE Indexed(row[d])

Commits(w, k) == At(w, {k}, "indexed") /\ row' # row

\* A patch changes only the parameters it was given, whatever else was going
\* on while it was served: "leaving all other parameters unchanged".
PatchLeavesOthers ==
    [][\A w \in Workers :
         Commits(w, "patch") =>
           LET d == job[w].ds IN
           \A f \in Fields \ DOMAIN job[w].req :
               row'[d].content[f] = row[d].content[f]]_vars

\* An update leaves the dataset with exactly the parameters it was given:
\* "the update methods deletes all parameters not explicitly provided".
UpdateReplaces ==
    [][\A w \in Workers :
         Commits(w, "update") => row'[job[w].ds].content = job[w].req]_vars

\* Nobody waits for a row lock for ever: every request that has begun ends.
RequestsEnd == \A w \in Workers : job[w].pc # "idle" ~> job[w].pc = "idle"

-----------------------------------------------------------------------------
(* What package_show answers changes as DatasetStore says: one patch, create *)
(* or purge at a time, each taking effect completely or not at all.          *)

Shown ==
    [d \in Datasets |-> IF row[d] = Absent THEN Absent ELSE Show(d, row[d])]

Asked ==
    [w \in Workers |->
       IF job[w].kind \in {"create", "patch", "purge"}
       THEN [kind |-> job[w].kind, ds |-> job[w].ds, req |-> job[w].req]
       ELSE Absent]

Store == INSTANCE DatasetStore WITH shown <- Shown, asked <- Asked

ImplementsStore == Store!Spec

-----------------------------------------------------------------------------
(* The inductive invariant behind TypeOK (Typed), which holds whatever the   *)
(* operations in use, and behind CacheCoherent (Coherent), which needs all   *)
(* of them to be SafeKinds.                                                  *)

WriteKinds == {"create", "update", "patch", "resource_update", "delete", "purge"}

\* Which fields of a job are filled in at which step of its request.
ShapeOf(j) ==
    /\ j.pc = "idle" <=> j = Idle
    /\ j.pc # "idle" =>
         /\ j.ds \in Datasets
         /\ j.kind \in Kinds
         /\ j.req \in RequestsOf(j.kind)
    /\ j.pc = "begin" => j.obj = Absent
    /\ j.pc = "loaded" =>
         \/ j.kind = "clear_orphans"
         \/ /\ j.kind \in {"update", "resource_update", "delete", "purge",
                           "rebuild", "rebuild_one"}
            /\ j.obj # Absent
    /\ j.pc = "locked" => j.kind \in {"patch", "resource_update"} /\ j.obj # Absent
    /\ j.pc = "shown" =>
         /\ j.kind \in {"update", "patch", "resource_update"}
         /\ j.obj # Absent
         /\ j.dict # Absent
    /\ j.pc \in {"flushed", "indexed"} =>
         /\ j.kind \in WriteKinds
         /\ j.kind = "purge" => j.tx = Absent
         /\ j.kind # "purge" => j.obj # Absent /\ j.tx # Absent
    /\ j.pc = "removed" => j.kind = "rebuild_one" /\ j.obj # Absent
    /\ j.pc = "committed" => j.kind = "bulk"
    /\ j.pc = "fetched" => j.kind = "bulk" /\ j.obj # Absent
    /\ j.pc \in {"begin", "loaded", "locked", "shown"} => j.tx = Absent

Shape == \A w \in Workers : ShapeOf(job[w])

Typed == TypeOK /\ Shape

\* A request holds the row lock from its SELECT ... FOR UPDATE, or from its
\* flush, to its end.
Holding(j) ==
    \/ j.pc \in {"locked", "flushed", "indexed"}
    \/ j.pc = "shown" /\ j.kind # "update"

LockOwned ==
    \A w \in Workers, d \in Datasets :
        lock[d] = w <=> job[w].ds = d /\ Holding(job[w])

\* Every copy of a dataset: committed, indexed, or in a session.
Copies(d) ==
    {row[d], doc[d]} \cup {job[w].obj : w \in {x \in Workers : job[x].ds = d}}

\* metadata_modified tells the versions of a dataset apart.
VersionsDistinct ==
    \A d \in Datasets : \A u, v \in Copies(d) :
        (u # Absent /\ v # Absent /\ u.mm = v.mm) => u.content = v.content

VersionsPast ==
    \A d \in Datasets : \A u \in Copies(d) : u # Absent => u.mm <= clock

\* Job j, a patch of the dataset whose row is r, works on the committed
\* version, and saves it with its changes.
PatchOf(j, r) ==
    j.kind = "patch" =>
      /\ j.pc \in {"locked", "shown", "flushed", "indexed"} => r # Absent
      /\ j.pc \in {"locked", "shown"} => j.obj = r
      /\ j.pc \in {"shown", "flushed", "indexed"} => j.dict = Override(r.content, j.req)
      /\ j.pc \in {"flushed", "indexed"} => j.tx = j.obj /\ j.obj.content = j.dict

PatchLatest == \A w \in Workers : PatchOf(job[w], row[job[w].ds])

\* Job j, which creates the dataset whose row is r, finds no row, and saves
\* what it was asked to.
CreateOf(j, r) ==
    j.kind = "create" =>
      /\ r = Absent
      /\ j.pc \in {"flushed", "indexed"} => j.tx = j.obj /\ j.obj.content = j.req

CreateNew == \A w \in Workers : CreateOf(job[w], row[job[w].ds])

\* An id is given out once, and until the dataset is committed no other
\* request on it gets further than looking for its row.
CreateOnce ==
    /\ \A d \in Datasets : d \notin born => row[d] = Absent
    /\ \A w \in Workers : job[w].pc # "idle" => job[w].ds \in born
    /\ \A w, x \in Workers :
         (w # x /\ job[x].kind = "create" /\ job[w].ds = job[x].ds)
            => /\ job[w].kind # "create"
               /\ job[w].pc = "begin" \/ job[w].kind = "clear_orphans"

Coherent ==
    /\ Typed
    /\ LockOwned
    /\ VersionsDistinct
    /\ VersionsPast
    /\ PatchLatest
    /\ CreateNew
    /\ CreateOnce
=============================================================================
