----------------------------- MODULE DataStore -----------------------------
(***************************************************************************)
(* One table of the DataStore: requests that write records to it, each in  *)
(* a transaction of several statements, and the download of the table,     *)
(* which reads a page at a time.                                           *)
(*                                                                         *)
(* PostgreSQL runs the transactions at READ COMMITTED: a statement sees    *)
(* what was committed when it began, and the transaction's own writes.  A  *)
(* row that was written is locked until its transaction ends, and so is    *)
(* the value of a unique key.  Rows have a serial number, _id, that is     *)
(* drawn when a row is inserted.  Fields are a key and a value.            *)
(***************************************************************************)
EXTENDS Naturals, Sequences, FiniteSets, SequencesExt, FiniteSetsExt

CONSTANTS
    Workers,      \* requests that are served at the same time
    Keys, Values,
    Null,         \* no value in the key field
    Methods,      \* methods of datastore_upsert in use
    Batches,      \* the lists of records that are sent
    Alone,        \* kinds of requests that nothing else runs with
    PaginateBy,   \* PAGINATE_BY of the download
    RowsMax,      \* ckan.datastore.search.rows_max
    Limits,       \* limits of a download, besides none
    MaxRows,      \* bound: how many rows are inserted
    MaxRequests   \* bound: how many requests write

Ids == 1..MaxRows
NoId == 0
NoLimit == MaxRows + 1

VARIABLES
    table,        \* the table exists
    unique,       \* it has a unique key
    rows,         \* rows[i]: the committed row with _id i
    serial,       \* the next _id
    job,          \* job[w]: the request that w serves
    dump,         \* the download
    requests

vars == <<table, unique, rows, serial, job, dump, requests>>

Row == [key : Keys \cup {Null}, val : Values]
Absent == [key |-> Null, val |-> Null]
NoRows == [i \in Ids |-> Absent]

\* A record names its row by _id or by the unique key.
Record == [id : Ids \cup {NoId}, key : Keys \cup {Null}, val : Values]

Idle == [pc |-> "idle", method |-> "insert", dry |-> FALSE, all |-> <<>>,
         left |-> <<>>, put |-> NoRows]
NoDump == [pc |-> "idle", offset |-> 0, limit |-> NoLimit, by |-> 1,
           text |-> FALSE, asked |-> NoLimit, out |-> <<>>, kept |-> {}]

TypeOK ==
    /\ {table, unique} \subseteq BOOLEAN
    /\ rows \in [Ids -> Row \cup {Absent}]
    /\ serial \in 1..MaxRows + 1
    /\ \A w \in Workers :
         /\ job[w].pc \in {"idle", "begin", "write", "insert", "blocked", "done"}
         /\ job[w].method \in Methods \cup {"insert"}
         /\ job[w].left \in Seq(Record)
         /\ job[w].put \in [Ids -> Row \cup {Absent}]
    /\ dump.pc \in {"idle", "page", "done"}
    /\ dump.kept \subseteq Ids
    /\ requests \in 0..MaxRequests
    /\ table \/ rows = NoRows

Init ==
    /\ table = FALSE
    /\ unique = FALSE
    /\ rows = NoRows
    /\ serial = 1
    /\ job = [w \in Workers |-> Idle]
    /\ dump = NoDump
    /\ requests = 0

-----------------------------------------------------------------------------
Stored(R) == {i \in Ids : R[i] # Absent}

\* What a statement of w sees, and what w leaves if it commits.
Visible(w) == [i \in Ids |-> IF job[w].put[i] # Absent THEN job[w].put[i] ELSE rows[i]]

\* The rows that a record stands for: the one with its _id, or with its key.
Matching(R, r) ==
    {i \in Stored(R) : IF r.id # NoId THEN i = r.id
                                      ELSE r.key # Null /\ R[i].key = r.key}

\* The transactions that have read the schema of the table; it cannot be
\* dropped or get an index before they end.
Open == {w \in Workers : job[w].pc \in {"write", "insert", "blocked", "done"}}

Others(w) == Workers \ {w}

\* Another transaction has written row i, or a row with key k.
RowLocked(w, i) == \E x \in Others(w) : job[x].put[i] # Absent
KeyLocked(w, k) ==
    /\ unique
    /\ k # Null
    /\ \E x \in Others(w), i \in Ids : job[x].put[i] # Absent /\ job[x].put[i].key = k

\* The unique key forbids row i to have key k.
KeyTaken(w, i, k) ==
    /\ unique
    /\ k # Null
    /\ \E j \in Stored(Visible(w)) \ {i} : Visible(w)[j].key = k

MayBegin(kind) ==
    /\ \A x \in Workers : job[x].pc # "idle" => kind \notin Alone /\ job[x].method \notin Alone
    /\ kind \in Alone => dump.pc # "page"

Request(kind) ==
    /\ requests < MaxRequests
    /\ MayBegin(kind)
    /\ requests' = requests + 1

Step(w, pc) == job[w].pc = pc

End(w) == job' = [job EXCEPT ![w] = Idle]

Serving(w) == UNCHANGED <<table, unique, rows, dump, requests>>

-----------------------------------------------------------------------------
(* datastore_upsert *)

\* The action finds the table before the transaction begins.
Begin(w, method, batch, dry) ==
    /\ Step(w, "idle")
    /\ Request(method)
    /\ table
    /\ job' = [job EXCEPT ![w] = [Idle EXCEPT !.pc = "begin", !.method = method,
                                      !.dry = dry, !.all = batch, !.left = batch]]
    /\ UNCHANGED <<table, unique, rows, serial, dump>>

\* The fields of the table and its unique key are read.  A record that has
\* no _id must have a unique key to be updated by, and one that is inserted
\* must not have an _id.
ReadSchema(w) ==
    /\ Step(w, "begin")
    /\ IF \/ ~table
          \/ /\ job[w].method # "insert"
             /\ ~unique /\ \E r \in ToSet(job[w].left) : r.id = NoId
          \/ /\ job[w].method = "insert"
             /\ \E r \in ToSet(job[w].left) : r.id # NoId
       THEN End(w)
       ELSE job' = [job EXCEPT ![w].pc = "write"]
    /\ UNCHANGED serial /\ Serving(w)

\* Mutant of Advance: the rest of the records is left out.
AdvanceMutant(q) == [q EXCEPT !.left = <<>>, !.pc = "done"]

\* On to the next record.
Advance(q) == [q EXCEPT !.left = Tail(@), !.pc = IF Len(q.left) = 1 THEN "done" ELSE "write"]

\* Row i of the transaction becomes what record r says.
Put(q, i, r) == [q EXCEPT !.put[i] = [key |-> r.key, val |-> r.val]]

\* UPDATE: rows that others have written are waited for.  One record of an
\* update must find one row; an upsert goes on with an INSERT.
Update(w) ==
    LET q == job[w]
        r == Head(q.left)
        found == Matching(Visible(w), r)
        put == [i \in Ids |-> IF i \in found THEN [key |-> r.key, val |-> r.val] ELSE q.put[i]]
    IN  /\ Step(w, "write") /\ q.method # "insert"
        /\ \A i \in found : ~RowLocked(w, i) /\ ~KeyLocked(w, r.key)
        /\ IF \/ \E i \in found : KeyTaken(w, i, r.key)
              \/ q.method = "update" /\ Cardinality(found) # 1
           THEN End(w)
           ELSE job' = [job EXCEPT ![w] =
                          IF q.method = "update" THEN Advance([q EXCEPT !.put = put])
                                                 ELSE [q EXCEPT !.put = put, !.pc = "insert"]]
        /\ UNCHANGED serial /\ Serving(w)

\* The new row gets the next _id, whatever the record of an upsert says.
InsertRow(w, r) ==
    /\ serial <= MaxRows
    /\ serial' = serial + 1
    /\ IF KeyTaken(w, serial, r.key)
       THEN End(w)
       ELSE job' = [job EXCEPT ![w] = Advance(Put(@, serial, r))]

\* INSERT, for an upsert only if it sees no such row.  It waits for another
\* transaction that has inserted the key.
Insert(w) ==
    LET r == Head(job[w].left)
    IN  /\ Step(w, "insert") \/ (Step(w, "write") /\ job[w].method = "insert")
        /\ IF job[w].method = "upsert" /\ Matching(Visible(w), r) # {}
           THEN job' = [job EXCEPT ![w] = Advance(@)] /\ UNCHANGED serial
           ELSE IF KeyLocked(w, r.key)
                THEN job' = [job EXCEPT ![w].pc = "blocked"] /\ UNCHANGED serial
                ELSE InsertRow(w, r)
        /\ Serving(w)

\* The other transaction has ended.
Unblock(w) ==
    LET r == Head(job[w].left)
    IN  /\ Step(w, "blocked")
        /\ ~KeyLocked(w, r.key)
        /\ InsertRow(w, r)
        /\ Serving(w)

\* The end of the transaction; a dry run is rolled back.
Commit(w) ==
    /\ Step(w, "done")
    /\ rows' = IF job[w].dry THEN rows ELSE Visible(w)
    /\ End(w)
    /\ UNCHANGED <<table, unique, serial, dump, requests>>

\* The process dies, or the statement takes too long.
Abort(w) ==
    /\ job[w].pc # "idle"
    /\ End(w)
    /\ UNCHANGED serial /\ Serving(w)

-----------------------------------------------------------------------------
(* datastore_create and datastore_delete: one statement decides.  The rows *)
(* that a delete finds, and all of a table that is dropped or indexed,     *)
(* must not be in use.                                                     *)

\* The records of a batch as rows, numbered from the next _id.
Appended(batch) ==
    [i \in Ids |-> IF i \in serial..serial + Len(batch) - 1
                   THEN [key |-> batch[i - serial + 1].key, val |-> batch[i - serial + 1].val]
                   ELSE rows[i]]

Distinct(R) ==
    \A i, j \in Stored(R) : i # j /\ R[i].key # Null => R[i].key # R[j].key

\* The table is made, or altered; records are appended, which must not have an
\* _id; then the key is made unique or not.  It fails as a whole; the numbers
\* of rows that were inserted are used up.
Create(batch, key) ==
    LET new == Appended(batch)
        valid == \A r \in ToSet(batch) : r.id = NoId
    IN  /\ Request("create")
        /\ Open = {}
        /\ serial + Len(batch) <= MaxRows + 1
        /\ IF valid /\ (key => Distinct(new))
           THEN table' = TRUE /\ unique' = key /\ rows' = new
           ELSE UNCHANGED <<table, unique, rows>>
        /\ serial' = IF valid /\ table' THEN serial + Len(batch) ELSE serial
        /\ UNCHANGED <<job, dump>>

\* datastore_delete with filters: the rows with key k, or all.
DeleteRows(K) ==
    LET gone == {i \in Stored(rows) : rows[i].key \in K}
    IN  /\ Request("delete")
        /\ table
        /\ \A w \in Workers, i \in gone : job[w].put[i] = Absent
        /\ rows' = [i \in Ids |-> IF i \in gone THEN Absent ELSE rows[i]]
        /\ dump' = [dump EXCEPT !.kept = @ \ gone]
        /\ UNCHANGED <<table, unique, serial, job>>

\* Mutant of Drop: transactions in the table do not keep it.
DropAtOnce ==
    /\ Request("delete")
    /\ table
    /\ table' = FALSE /\ unique' = FALSE /\ rows' = NoRows
    /\ serial' = 1
    /\ dump' = [dump EXCEPT !.kept = {}]
    /\ UNCHANGED job

\* datastore_delete without filters.
Drop ==
    /\ Request("delete")
    /\ table
    /\ Open = {}
    /\ table' = FALSE /\ unique' = FALSE /\ rows' = NoRows
    /\ serial' = 1
    /\ dump' = [dump EXCEPT !.kept = {}]
    /\ UNCHANGED job

-----------------------------------------------------------------------------
(* The download.  Each page is a search of its own, sorted by _id.         *)

\* datastore_search gives no more rows than is configured.
SearchLimit(limit) == Min({limit, RowsMax})

\* stream_result_page: at most a page, and what is left of the limit.
PageLimit(limit) == SearchLimit(Min({PaginateBy, limit}))

\* Rows in the order of their numbers: row k has k rows up to it.
Ordered(R) ==
    [k \in 1..Cardinality(Stored(R)) |->
       CHOOSE i \in Stored(R) : Cardinality({j \in Stored(R) : j <= i}) = k]

PageAt(offset, limit) ==
    LET all == Ordered(rows)
    IN  SubSeq(all, offset + 1, Min({offset + PageLimit(limit), Len(all)}))

\* Mutant of PageStep: the pages are as far apart as was asked for.
PageStepMutant(limit) == PaginateBy

\* The distance between pages: what the first search limited itself to.
PageStep(limit) ==
    IF limit = NoLimit \/ PageLimit(limit) # limit THEN PageLimit(limit) ELSE PaginateBy

\* A page is written.  A short one is the last; formats that are written as
\* text are followed by an empty one.
Read(d) ==
    LET page == PageAt(d.offset, d.limit)
        left == IF d.limit = NoLimit THEN NoLimit
                ELSE IF d.limit > d.by THEN d.limit - d.by ELSE 0
        last == \/ d.limit = 0
                \/ left = 0
                \/ IF d.text THEN page = <<>> ELSE Len(page) < d.by
    IN  [d EXCEPT !.out = IF d.limit = 0 THEN @ ELSE @ \o page,
                  !.offset = IF last THEN @ ELSE @ + d.by,
                  !.limit = IF last THEN @ ELSE left,
                  !.pc = IF last THEN "done" ELSE "page"]

Dump(limit, text) ==
    /\ dump.pc # "page"
    /\ table
    /\ \A w \in Workers : job[w].pc # "idle" => job[w].method \notin Alone
    /\ dump' = Read([NoDump EXCEPT !.limit = limit, !.asked = limit, !.text = text,
                                   !.by = PageStep(limit), !.kept = Stored(rows)])
    /\ UNCHANGED <<table, unique, rows, serial, job, requests>>

\* A page of a table that is gone is not found.
DumpPage ==
    /\ dump.pc = "page"
    /\ dump' = IF table THEN Read(dump) ELSE NoDump
    /\ UNCHANGED <<table, unique, rows, serial, job, requests>>

-----------------------------------------------------------------------------
Next ==
    \/ \E w \in Workers :
         \/ \E method \in Methods, batch \in Batches, dry \in BOOLEAN :
              Begin(w, method, batch, dry)
         \/ ReadSchema(w)
         \/ Update(w)
         \/ Insert(w)
         \/ Unblock(w)
         \/ Commit(w)
         \/ Abort(w)
    \/ \E batch \in Batches \cup {<<>>}, key \in BOOLEAN : Create(batch, key)
    \/ \E K \in {{k} : k \in Keys} \cup {Keys \cup {Null}} : DeleteRows(K)
    \/ Drop
    \/ \E limit \in Limits \cup {NoLimit}, text \in BOOLEAN : Dump(limit, text)
    \/ DumpPage

Spec == Init /\ [][Next]_vars

-----------------------------------------------------------------------------
(* Properties. *)

\* A download gives every row that was there from its beginning to its end,
\* up to the limit that was asked for, whatever was added meanwhile (dump_to).
DumpMissesNone ==
    dump.pc = "done" =>
        /\ Len(dump.out) <= dump.asked
        /\ \A i \in dump.kept \ ToSet(dump.out) :
             Len(dump.out) = dump.asked /\ \A j \in ToSet(dump.out) : j < i

\* A download gives no row twice, and gives them in their order (dump_to).
DumpInOrder == \A m, n \in DOMAIN dump.out : m < n => dump.out[m] < dump.out[n]

\* What w commits holds every record it was sent.
Landed(w) ==
    \A r \in ToSet(job[w].all) : \E i \in Stored(rows') :
        /\ rows'[i] = [key |-> r.key, val |-> r.val]
        /\ job[w].method = "update" /\ r.id # NoId => i = r.id

Commits(w) == Commit(w) /\ ~job[w].dry

\* A committed insert or update has written all of its records, whatever
\* other transactions do (upsert_data).
WritesLand == [][\A w \in Workers : Commits(w) /\ job[w].method # "upsert" => Landed(w)]_vars

\* A committed upsert has updated or inserted all of its records
\* (upsert_data).  It holds for requests one after another.
UpsertLands == [][\A w \in Workers : Commits(w) => Landed(w)]_vars
=============================================================================
