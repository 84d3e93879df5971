----------------------------- MODULE Resources -----------------------------
(***************************************************************************)
(* The resources of a dataset: the rows in their order, the files that     *)
(* were uploaded and the tables of the DataStore.                          *)
(*                                                                         *)
(* A request on one resource locks the row of the dataset, changes the     *)
(* list it is shown and passes it to package_update, which copies the rows *)
(* it need not validate by their position.  Files are written before the   *)
(* transaction commits.  The tables are in another database: a resource    *)
(* tells by a flag in its extras that it has one.  A client may send the   *)
(* flag with a resource, or leave it out, and is believed.                 *)
(***************************************************************************)
EXTENDS Naturals, Sequences, FiniteSets, SequencesExt

CONSTANTS
    Workers,     \* web processes
    Resources,   \* the resources that a dataset may have
    Alone,       \* kinds of requests that no other request runs with
    MaxVersion,  \* bound: how many files are uploaded
    Nobody

RequestKinds == {"create", "update", "delete", "reorder", "package", "datastore"}

VARIABLES
    rows,     \* rows[r]: the row of resource r
    file,     \* file[r]: the version of the file that is stored, 0 for none
    table,    \* the resources that have a table
    lock,     \* the process that holds the lock of the dataset
    job,      \* job[w]: what process w is doing
    version,  \* the number of files that were uploaded
    omitted,  \* resources that package_update was not given
    cut,      \* resources at which a process died or failed
    claimed   \* resources whose flag is the word of a client

vars == <<rows, file, table, lock, job, version, omitted, cut, claimed>>

Row == [state : {"none", "active", "deleted", "purged"},
        pos : 0..Cardinality(Resources), flag : BOOLEAN, upload : 0..MaxVersion]
New == [state |-> "none", pos |-> 0, flag |-> FALSE, upload |-> 0]

Idle == [pc |-> "idle", kind |-> "create", id |-> Nobody, row |-> New,
         given |-> <<>>, changed |-> {}, on |-> {}, shown |-> <<>>,
         old |-> [r \in Resources |-> New], new |-> [r \in Resources |-> New],
         extras |-> {}, file |-> 0, flag |-> FALSE]

\* The types; positions matter to active rows only.
TypeOK ==
    /\ rows \in [Resources -> Row]
    /\ file \in [Resources -> 0..version]
    /\ table \subseteq Resources
    /\ lock \in Workers \cup {Nobody}
    /\ \A w \in Workers :
         /\ job[w].pc \in {"idle", "load", "save", "commit", "drop", "dropped", "merge",
                           "flush", "table", "flag"}
         /\ job[w].kind \in RequestKinds
         /\ job[w].old \in [Resources -> Row]
         /\ job[w].new \in [Resources -> Row]
    /\ version \in 0..MaxVersion
    /\ omitted \subseteq Resources
    /\ cut \subseteq Resources
    /\ claimed \subseteq Resources
    /\ lock # Nobody => job[lock].pc \in {"save", "commit"}

Init ==
    /\ rows = [r \in Resources |-> New]
    /\ file = [r \in Resources |-> 0]
    /\ table = {}
    /\ lock = Nobody
    /\ job = [w \in Workers |-> Idle]
    /\ version = 0
    /\ omitted = {}
    /\ cut = {}
    /\ claimed = {}

-----------------------------------------------------------------------------
(* Lists of resources. *)

In(R, state) == {r \in Resources : R[r].state = state}

\* The resources in S by the positions of their rows.
ByPosition(R, S) ==
    CHOOSE s \in SetToSeqs(S) :
        \A i, j \in 1..Cardinality(S) : i < j => R[s[i]].pos <= R[s[j]].pos

\* resource_list_dictize: the active rows.
Listed(R) == ByPosition(R, In(R, "active"))

\* Where r is in a list, from 0.
Index(list, r) == CHOOSE i \in 0..Len(list) - 1 : list[i + 1] = r

\* Mutant of Saved: the rows that stay keep their position.
SavedInPlace(R, list) ==
    [r \in Resources |->
       IF r \in ToSet(list)
       THEN IF R[r].state = "active" THEN R[r]
            ELSE [R[r] EXCEPT !.state = "active", !.pos = Len(list) - 1]
       ELSE IF R[r].state = "active" THEN [R[r] EXCEPT !.state = "deleted"]
       ELSE R[r]]

\* package_resource_list_save: nothing happens when the list is that of
\* before.  Otherwise the rows are numbered, those that were deleted before
\* are purged, and those that are left over are deleted.  (The position of a
\* row that is not active is left out.)
Saved(R, list) ==
    IF list = Listed(R) THEN R
    ELSE [r \in Resources |->
            IF r \in ToSet(list)
            THEN [R[r] EXCEPT !.state = "active",
                              !.pos = Index(list, r)]
            ELSE IF R[r].state = "deleted" THEN [New EXCEPT !.state = "purged"]
            ELSE IF R[r].state = "active" THEN [R[r] EXCEPT !.state = "deleted", !.pos = 0]
            ELSE R[r]]

\* The session writes the columns that differ from those it has loaded.
Written(j) ==
    [r \in Resources |->
       IF "purged" \in {rows[r].state, j.new[r].state} THEN [New EXCEPT !.state = "purged"]
       ELSE
       [state  |-> IF j.new[r].state # j.old[r].state THEN j.new[r].state
                   ELSE rows[r].state,
        pos    |-> IF j.new[r].pos # j.old[r].pos THEN j.new[r].pos ELSE rows[r].pos,
        upload |-> IF j.new[r].upload # j.old[r].upload THEN j.new[r].upload
                   ELSE rows[r].upload,
        flag   |-> IF r \in j.extras THEN j.new[r].flag ELSE rows[r].flag]]

-----------------------------------------------------------------------------
Busy == {w \in Workers : job[w].pc # "idle"}

\* A request of a kind may start.
Free(kind) ==
    /\ \A w \in Busy : job[w].kind \notin Alone
    /\ kind \in Alone => Busy = {}

Start(w, kind, pc, j) ==
    /\ job[w].pc = "idle"
    /\ Free(kind)
    /\ job' = [job EXCEPT ![w] = [j EXCEPT !.kind = kind, !.pc = pc]]

Finish(w) == job' = [job EXCEPT ![w] = Idle]

\* The versions of the file that is uploaded with a resource: 0 is for none.
Files == {0} \cup (IF version < MaxVersion THEN {version + 1} ELSE {})

\* The rows R are to be saved with the lock held; f is a new file of r.
Prepared(j, R, S, r, f) ==
    [j EXCEPT !.id = r, !.old = R, !.file = f,
              !.new = IF f = 0 THEN S ELSE [S EXCEPT ![r].upload = f]]

\* The rows R, but that a client says which of the resources in S have a
\* table: those in on.
Flagged(R, S, on) ==
    [r \in Resources |-> IF r \in S THEN [R[r] EXCEPT !.flag = (r \in on)] ELSE R[r]]

\* The resources in S whose extras then differ.
Reflagged(R, S, on) == {r \in S : R[r].flag # (r \in on)}

\* The resources whose flag a job is to change as a client says.
Claims(j) == {r \in j.extras : j.new[r].flag # j.old[r].flag}

\* resource_create: the client may send the flag, on is {r} when it is set.
Create(w, r) ==
    LET new == Saved(rows, Append(Listed(rows), r)) IN
    /\ lock = Nobody
    /\ rows[r].state = "none"
    /\ \A x \in Workers : job[x].id # r
    /\ \E f \in Files, on \in SUBSET {r} :
         /\ version' = IF f = 0 THEN version ELSE f
         /\ Start(w, "create", "save",
                  [Prepared(Idle, rows, Flagged(new, {r}, on), r, f) EXCEPT !.extras = on])
    /\ lock' = w
    /\ UNCHANGED <<rows, file, table, omitted, cut, claimed>>

\* package_resource_reorder: the resources that are not named stay behind.
Reorder(w, list) ==
    LET all == list \o ByPosition(rows, In(rows, "active") \ ToSet(list)) IN
    /\ lock = Nobody
    /\ Start(w, "reorder", "save", Prepared(Idle, rows, Saved(rows, all), Nobody, 0))
    /\ lock' = w
    /\ UNCHANGED <<rows, file, table, version, omitted, cut, claimed>>

\* resource_update and resource_delete read the row before they wait for the
\* lock.
Load(w, kind, r) ==
    /\ rows[r].state = "active"
    /\ Start(w, kind, "load", [Idle EXCEPT !.id = r, !.row = rows[r]])
    /\ UNCHANGED <<rows, file, table, lock, version, omitted, cut, claimed>>

\* Mutant of Update: the position of the row that was read is not compared.
UpdateUnchecked(w) ==
    LET j == job[w]
        known == [rows EXCEPT ![j.id] = j.row]
        list == Listed(rows) IN
    /\ j.pc = "load" /\ j.kind = "update"
    /\ lock = Nobody
    /\ IF ~(j.row.pos < Len(list))
       THEN Finish(w) /\ UNCHANGED <<lock, version>>
       ELSE \E f \in Files, extras, on \in SUBSET {j.id} :
              /\ Reflagged(known, {j.id}, on) \subseteq extras
              /\ job' = [job EXCEPT ![w] =
                           [Prepared(j, known,
                                     Flagged(Saved(known, [list EXCEPT ![j.row.pos + 1] = j.id]),
                                          {j.id}, on),
                                     j.id, f) EXCEPT !.extras = extras, !.pc = "save"]]
              /\ lock' = w
              /\ version' = IF f = 0 THEN version ELSE f
    /\ UNCHANGED <<rows, file, table, omitted, cut, claimed>>

\* resource_update: the session keeps the row that it has read.  The flag is
\* the client's, and the row's when the client sends none; it is written when
\* it, or another of the extras, is not what was read.
Update(w) ==
    LET j == job[w]
        known == [rows EXCEPT ![j.id] = j.row]
        list == Listed(rows) IN
    /\ j.pc = "load" /\ j.kind = "update"
    /\ lock = Nobody
    /\ IF ~(j.row.pos < Len(list) /\ list[j.row.pos + 1] = j.id)
       THEN Finish(w) /\ UNCHANGED <<lock, version>>
       ELSE \E f \in Files, extras, on \in SUBSET {j.id} :
              /\ Reflagged(known, {j.id}, on) \subseteq extras
              /\ job' = [job EXCEPT ![w] =
                           [Prepared(j, known, Flagged(known, {j.id}, on), j.id, f) EXCEPT
                              !.extras = extras, !.pc = "save"]]
              /\ lock' = w
              /\ version' = IF f = 0 THEN version ELSE f
    /\ UNCHANGED <<rows, file, table, omitted, cut, claimed>>

\* resource_delete
Delete(w) ==
    LET j == job[w]
        list == ByPosition(rows, In(rows, "active") \ {j.id}) IN
    /\ j.pc = "load" /\ j.kind = "delete"
    /\ lock = Nobody
    /\ job' = [job EXCEPT ![w] = [Prepared(j, rows, Saved(rows, list), j.id, 0)
                                    EXCEPT !.pc = "save"]]
    /\ lock' = w
    /\ UNCHANGED <<rows, file, table, version, omitted, cut, claimed>>

\* Mutant of Upload: the resources that are copied are not passed over.
UploadToFirst(w) ==
    LET j == job[w]
        first == CHOOSE r \in Resources : j.new[r].state = "active" /\ j.new[r].pos = 0 IN
    /\ j.pc = "save"
    /\ file' = IF j.file = 0 THEN file ELSE [file EXCEPT ![first] = j.file]
    /\ job' = [job EXCEPT ![w].pc = "commit"]
    /\ UNCHANGED <<rows, table, lock, version, omitted, cut, claimed>>

\* ResourceUpload.upload
Upload(w) ==
    LET j == job[w] IN
    /\ j.pc = "save"
    /\ file' = IF j.file = 0 THEN file ELSE [file EXCEPT ![j.id] = j.file]
    /\ job' = [job EXCEPT ![w].pc = "commit"]
    /\ UNCHANGED <<rows, table, lock, version, omitted, cut, claimed>>

Commit(w) ==
    LET j == job[w] IN
    /\ j.pc = "commit"
    /\ rows' = Written(j)
    /\ claimed' = claimed \cup Claims(j)
    /\ lock' = Nobody
    /\ IF j.kind = "delete" THEN job' = [job EXCEPT ![w].pc = "drop"] ELSE Finish(w)
    /\ UNCHANGED <<file, table, version, omitted, cut>>

\* The transaction is rolled back; the file stays.
Abort(w) ==
    /\ job[w].pc = "commit"
    /\ lock' = Nobody
    /\ cut' = IF job[w].file = 0 THEN cut ELSE cut \cup {job[w].id}
    /\ Finish(w)
    /\ UNCHANGED <<rows, file, table, version, omitted, claimed>>

\* The deleted rows that say they have a table, as the session knows them.
ToDrop(w) == {r \in In(rows, "deleted") : job[w].old[r].flag}

\* after_resource_delete drops their tables, in the other database ...
Drop(w) ==
    /\ job[w].pc = "drop"
    /\ table' = table \ ToDrop(w)
    /\ job' = [job EXCEPT ![w].pc = "dropped", ![w].extras = ToDrop(w)]
    /\ UNCHANGED <<rows, file, lock, version, omitted, cut, claimed>>

\* ... and resource_delete commits the flags.
Dropped(w) ==
    /\ job[w].pc = "dropped"
    /\ rows' = [r \in Resources |-> IF r \in job[w].extras
                                    THEN [rows[r] EXCEPT !.flag = FALSE] ELSE rows[r]]
    /\ Finish(w)
    /\ UNCHANGED <<file, table, lock, version, omitted, cut, claimed>>

-----------------------------------------------------------------------------
(* package_update: a client gives a list of resources that it was shown.   *)

\* package_show, without the lock; the resources that the client changed are
\* those to validate, and those in on are sent with the flag set.
Package(w, given, changed, on) ==
    /\ Start(w, "package", "merge",
             [Idle EXCEPT !.given = given, !.changed = changed, !.on = on,
                          !.shown = Listed(rows)])
    /\ UNCHANGED <<rows, file, table, lock, version, omitted, cut, claimed>>

\* The others are copied from the rows by the positions that were shown.  The
\* extras of those that changed are replaced by the client's.
Merge(w) ==
    LET j == job[w]
        now == Listed(rows)
        copied == {r \in ToSet(j.given) \ j.changed : Index(j.shown, r) >= Len(now)}
        list == [i \in DOMAIN j.given |->
                   IF j.given[i] \in j.changed THEN j.given[i]
                   ELSE now[Index(j.shown, j.given[i]) + 1]]
        new == Saved(rows, list)
    IN
    /\ j.pc = "merge"
    /\ IF copied # {} THEN Finish(w)
       ELSE job' = [job EXCEPT ![w] =
                      [Prepared(j, rows, Flagged(new, j.changed, j.on), Nobody, 0) EXCEPT
                         !.extras = Reflagged(new, j.changed, j.on), !.pc = "flush"]]
    /\ UNCHANGED <<rows, file, table, lock, version, omitted, cut, claimed>>

\* The rows are written when nobody holds the lock; a row that is gone makes
\* the request fail.
Flush(w) ==
    LET j == job[w]
        gone == {r \in In(rows, "purged") : j.new[r] # j.old[r] \/ r \in j.extras} IN
    /\ j.pc = "flush"
    /\ lock = Nobody
    /\ IF gone # {} THEN UNCHANGED <<rows, omitted, claimed>>
       ELSE /\ rows' = Written(j)
            /\ claimed' = claimed \cup Claims(j)
            /\ omitted' = omitted \cup (In(j.old, "active") \ ToSet(j.given))
    /\ Finish(w)
    /\ UNCHANGED <<file, table, lock, version, cut>>

-----------------------------------------------------------------------------
(* The DataStore. *)

\* datastore_create and datastore_delete read the row first.
DataStore(w, r, make) ==
    /\ rows[r].state = "active"
    /\ ~make => r \in table
    /\ Start(w, "datastore", "table",
             [Idle EXCEPT !.id = r, !.row = rows[r], !.flag = make])
    /\ UNCHANGED <<rows, file, table, lock, version, omitted, cut, claimed>>

\* The other database commits.
Table(w) ==
    LET j == job[w] IN
    /\ j.pc = "table"
    /\ IF ~j.flag /\ j.id \notin table
       THEN Finish(w) /\ UNCHANGED table
       ELSE /\ table' = IF j.flag THEN table \cup {j.id} ELSE table \ {j.id}
            /\ job' = [job EXCEPT ![w].pc = "flag"]
    /\ UNCHANGED <<rows, file, lock, version, omitted, cut, claimed>>

\* set_datastore_active_flag, in one statement, when the row that was read
\* says otherwise.  The flag is the DataStore's word again.
Flag(w) ==
    LET j == job[w] IN
    /\ j.pc = "flag"
    /\ rows' = IF j.row.flag # j.flag /\ rows[j.id].state # "purged"
               THEN [rows EXCEPT ![j.id].flag = j.flag] ELSE rows
    /\ claimed' = claimed \ {j.id}
    /\ Finish(w)
    /\ UNCHANGED <<file, table, lock, version, omitted, cut>>

\* "ckan datastore purge": tables of resources that are not shown.
PurgeTables ==
    LET orphans == table \ In(rows, "active") IN
    /\ Free("datastore")
    /\ orphans # {}
    /\ table' = table \ orphans
    /\ rows' = [r \in Resources |-> IF r \in orphans \cap In(rows, "deleted")
                                    THEN [rows[r] EXCEPT !.flag = FALSE] ELSE rows[r]]
    /\ UNCHANGED <<file, lock, job, version, omitted, cut, claimed>>

-----------------------------------------------------------------------------
\* A process dies; the database rolls its transaction back.
Die(w) ==
    /\ w \in Busy
    /\ lock' = IF lock = w THEN Nobody ELSE lock
    /\ cut' = cut \cup ({job[w].id} \cap Resources)
    /\ Finish(w)
    /\ UNCHANGED <<rows, file, table, version, omitted, claimed>>

\* The lists without repetition of some of the resources in S.
Lists(S) == UNION {SetToSeqs(T) : T \in SUBSET S}

Next ==
    \/ \E w \in Workers :
         \/ \E r \in Resources :
              \/ Create(w, r)
              \/ Load(w, "update", r) \/ Load(w, "delete", r)
              \/ \E make \in BOOLEAN : DataStore(w, r, make)
         \/ /\ job[w].pc = "idle"
            /\ \E list \in Lists(In(rows, "active")) :
                 \/ Reorder(w, list)
                 \/ \E changed \in SUBSET ToSet(list) : \E on \in SUBSET changed :
                       Package(w, list, changed, on)
         \/ Update(w) \/ Delete(w) \/ Upload(w) \/ Commit(w) \/ Abort(w)
         \/ Drop(w) \/ Dropped(w) \/ Merge(w) \/ Flush(w)
         \/ Table(w) \/ Flag(w)
         \/ Die(w)
    \/ PurgeTables

Spec == Init /\ [][Next]_vars

-----------------------------------------------------------------------------
(* Properties. *)

\* The active resources are numbered without a gap, which resource_update and
\* package_update rely on when they use a position as an index.
Numbered ==
    /\ \A r, s \in In(rows, "active") : rows[r].pos = rows[s].pos => r = s
    /\ {rows[r].pos : r \in In(rows, "active")} = {i - 1 : i \in 1..Cardinality(In(rows, "active"))}

\* A resource leaves the list only by a request that deletes it or that is
\* not given it.
LeavesOnPurpose ==
    \A r \in In(rows, "active") :
        \/ rows'[r].state = "active"
        \/ \E w \in Workers :
             \/ job[w].pc = "commit" /\ job[w].kind = "delete" /\ job[w].id = r
             \/ job[w].pc = "flush" /\ r \notin ToSet(job[w].given)
NoneLost == [][LeavesOnPurpose]_vars

\* The file that is stored for a resource is the one that its row describes,
\* but while it is replaced or after a request that wrote one failed.
FileDescribed ==
    \A r \in In(rows, "active") \ cut :
        (\A w \in Workers : job[w].id = r => job[w].pc \notin {"save", "commit"})
            => file[r] = rows[r].upload

\* A resource that is shown says it has a table if and only if it has one, but
\* where a client said it.
FlagTellsTable ==
    \A r \in In(rows, "active") \ (cut \cup claimed) :
        (\A w \in Workers : job[w].id # r) => (rows[r].flag <=> r \in table)

\* The table of a resource goes with resource_delete, if the flag is not the
\* word of a client.
DeletedDropped ==
    \A r \in table \ (omitted \cup cut \cup claimed) :
        \/ rows[r].state = "active"
        \/ \E w \in Workers : job[w].id = r

\* Every table belongs to a resource whose row is kept, so that it may still
\* be removed with it.
TablesOwned == \A r \in table : rows[r].state # "purged"
=============================================================================
