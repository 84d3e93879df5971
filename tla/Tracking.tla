------------------------------ MODULE Tracking ------------------------------
(***************************************************************************)
(* Page view tracking.  Every view is a raw record; a command that cron    *)
(* runs sums them up, day by day, into summary rows, with the total of all *)
(* days so far and of the recent ones, and has the datasets that were      *)
(* viewed indexed again.  Each day takes two transactions, and the command *)
(* takes up its work two days before the last day that has a row.          *)
(***************************************************************************)
EXTENDS Integers, FiniteSetsExt

CONSTANTS
    Pages,       \* urls of type "page": /dataset/<name>
    Resources,   \* urls of type "resource"
    Datasets,
    Users,       \* user keys: hashes of browser and address
    Updaters,    \* processes that run "tracking update" or "tracking export"
    Recent,      \* how many days back a view is recent
    Gaps,        \* whether the command may be told to start after a gap
    MaxDay,      \* bound: the last day
    MaxViews,    \* bound: number of views
    NotFound,    \* "~~not~found~~"
    None

Urls == Pages \cup Resources
Days == 1..MaxDay

VARIABLES
    today,
    raw,       \* tracking_raw: who viewed what on which day
    rows,      \* tracking_summary, and which process inserted the row
    name,      \* name[p]: the dataset that has the name of page p
    indexed,   \* indexed[d]: views_total in the search index; None: d is not there
    proc,      \* proc[u]: what a process is doing
    done,      \* every day before this one was summed up by a complete run
    broken,    \* a process died, or was interrupted, half-way
    renamed,   \* datasets whose name was changed
    failed     \* datasets whose last rebuild failed, which is only reported

vars == <<today, raw, rows, name, indexed, proc, done, broken, renamed, failed>>

Rows == [url : Urls, day : Days, by : Updaters, count : Nat,
         pkg : Datasets \cup {NotFound, None}, total : Nat, recent : Nat]
Idle == [pc |-> "idle", day |-> 0, start |-> 0, end |-> 0, todo |-> {}]
Procs == [pc : {"idle", "day", "totals", "rebuild"}, day : Nat, start : Nat,
          end : Nat, todo : SUBSET Datasets]

TypeOK ==
    /\ today \in Days
    /\ raw \subseteq Urls \X Users \X Days
    /\ rows \subseteq Rows
    /\ name \in [Pages -> Datasets \cup {None}]
    /\ indexed \in [Datasets -> Nat \cup {None}]
    /\ proc \in [Updaters -> Procs]
    /\ done \in Nat
    /\ broken \in BOOLEAN
    /\ renamed \subseteq Datasets
    /\ failed \subseteq Datasets

Init ==
    /\ today = 1
    /\ raw = {}
    /\ rows = {}
    /\ name \in {f \in [Pages -> Datasets \cup {None}] :
                   \A p, q \in Pages : f[p] = f[q] /\ f[p] # None => p = q}
    /\ indexed = [d \in Datasets |-> 0]
    /\ proc = [u \in Updaters |-> Idle]
    /\ done = 0
    /\ broken = FALSE
    /\ renamed = {}
    /\ failed = {}

Viewers(url, day) == {v \in Users : <<url, v, day>> \in raw}

-----------------------------------------------------------------------------
\* The middleware stores a view; the primary key keeps one view of a page by
\* a user for every time, and the summary counts each user once a day.
View(url, v) ==
    /\ Cardinality(raw) < MaxViews
    /\ raw' = raw \cup {<<url, v, today>>}
    /\ UNCHANGED <<today, rows, name, indexed, proc, done, broken, renamed, failed>>

Tick ==
    /\ today < MaxDay
    /\ today' = today + 1
    /\ UNCHANGED <<raw, rows, name, indexed, proc, done, broken, renamed, failed>>

\* get_for_package: the total of the row with the latest day.
TotalOf(R, d) ==
    LET Of == {r \in R : r.pkg = d} IN
    IF Of = {} THEN 0
    ELSE (CHOOSE r \in Of : \A s \in Of : s.day <= r.day).total

\* A dataset is created or renamed, which indexes it.
Name(p, d) ==
    /\ name[p] = None
    /\ name' = [q \in Pages |-> IF q = p THEN d ELSE IF name[q] = d THEN None ELSE name[q]]
    /\ renamed' = IF \E q \in Pages : name[q] = d THEN renamed \cup {d} ELSE renamed
    /\ indexed' = [indexed EXCEPT ![d] = TotalOf(rows, d)]
    /\ failed' = failed \ {d}
    /\ UNCHANGED <<today, raw, rows, proc, done, broken>>

-----------------------------------------------------------------------------
LastDay == Max({0} \cup {r.day : r \in rows})

\* Mutant of DefaultStart: the last day that has rows is taken to be complete.
StartAfterLast == LastDay + 1

\* update_all without a start date: two days before the last that has rows.
DefaultStart == IF LastDay - 2 > 1 THEN LastDay - 2 ELSE 1

Update(u, start) ==
    /\ proc[u].pc = "idle"
    /\ proc' = [proc EXCEPT ![u] = [Idle EXCEPT !.pc = "day", !.day = start,
                                                !.start = start, !.end = today]]
    /\ UNCHANGED <<today, raw, rows, name, indexed, done, broken, renamed, failed>>

\* update_tracking: the rows of the day are made anew.
SumDay(u) ==
    LET day == proc[u].day
        fresh == {[url |-> url, day |-> day, by |-> u, pkg |-> None,
                   count |-> Cardinality(Viewers(url, day)), total |-> 0, recent |-> 0] :
                    url \in {x \in Urls : Viewers(x, day) # {}}}
    IN
    /\ proc[u].pc = "day" /\ day <= proc[u].end
    /\ rows' = {r \in rows : r.day # day} \cup fresh
    /\ proc' = [proc EXCEPT ![u].pc = "totals"]
    /\ UNCHANGED <<today, raw, name, indexed, done, broken, renamed, failed>>

\* The dataset of a page, looked for once.
Identified(r) ==
    IF r.url \in Pages /\ r.pkg = None
    THEN [r EXCEPT !.pkg = IF name[r.url] = None THEN NotFound ELSE name[r.url]]
    ELSE r

\* What the counts of rows add up to: each row stands for so many views.
Sum(R) == Cardinality(UNION {{r} \X (1..r.count) : r \in R})

\* The totals of a row that has none.
Totalled(r) ==
    LET Past == {s \in rows : s.url = r.url /\ s.day <= r.day} IN
    IF r.total = 0 /\ (r.url \in Resources \/ r.pkg \in Datasets)
    THEN [r EXCEPT !.total = Sum(Past),
                   !.recent = Sum({s \in Past : s.day >= r.day - Recent})]
    ELSE r

\* update_tracking_summary_with_package_id, in all rows.
SumTotals(u) ==
    /\ proc[u].pc = "totals"
    /\ rows' = {Totalled(Identified(r)) : r \in rows}
    /\ proc' = [proc EXCEPT ![u].pc = "day", ![u].day = @ + 1]
    /\ UNCHANGED <<today, raw, name, indexed, done, broken, renamed, failed>>

\* The datasets that have rows since the start.
Viewed(u) == {r.pkg : r \in {s \in rows : s.pkg \in Datasets /\ s.day >= proc[u].start}}

\* update_tracking_solr
StartSolr(u) ==
    /\ proc[u].pc = "day" /\ proc[u].day > proc[u].end
    /\ proc' = [proc EXCEPT ![u].pc = "rebuild", ![u].todo = Viewed(u)]
    /\ UNCHANGED <<today, raw, rows, name, indexed, done, broken, renamed, failed>>

Rebuild(u, d) ==
    /\ d \in proc[u].todo
    /\ indexed' = [indexed EXCEPT ![d] = TotalOf(rows, d)]
    /\ failed' = failed \ {d}
    /\ proc' = [proc EXCEPT ![u].todo = @ \ {d}]
    /\ UNCHANGED <<today, raw, rows, name, done, broken, renamed>>

\* The rebuild of a dataset fails, before its document is removed from the
\* index or between that and its insertion.  The error is written out, and the
\* command goes on with the next dataset and ends as any other.
RebuildFails(u, d) ==
    /\ d \in proc[u].todo
    /\ \E left \in {indexed[d], None} : indexed' = [indexed EXCEPT ![d] = left]
    /\ failed' = failed \cup {d}
    /\ proc' = [proc EXCEPT ![u].todo = @ \ {d}]
    /\ UNCHANGED <<today, raw, rows, name, done, broken, renamed>>

Finish(u) ==
    /\ proc[u].pc = "rebuild" /\ proc[u].todo = {}
    /\ done' = Max({done, proc[u].end})
    /\ proc' = [proc EXCEPT ![u] = Idle]
    /\ UNCHANGED <<today, raw, rows, name, indexed, broken, renamed, failed>>

\* The process dies between two transactions, or is stopped while it rebuilds.
Die(u) ==
    /\ proc[u].pc # "idle"
    /\ proc' = [proc EXCEPT ![u] = Idle]
    /\ broken' = TRUE
    /\ UNCHANGED <<today, raw, rows, name, indexed, done, renamed, failed>>

Next ==
    \/ \E url \in Urls, v \in Users : View(url, v)
    \/ Tick
    \/ \E p \in Pages, d \in Datasets : Name(p, d)
    \/ \E u \in Updaters :
         \/ Update(u, DefaultStart)
         \/ \E s \in 1..today : (Gaps \/ s <= DefaultStart) /\ Update(u, s)
         \/ SumDay(u) \/ SumTotals(u) \/ StartSolr(u) \/ Finish(u) \/ Die(u)
         \/ \E d \in Datasets : Rebuild(u, d) \/ RebuildFails(u, d)

Spec == Init /\ [][Next]_vars

-----------------------------------------------------------------------------
(* Properties. *)

Views(url, D) == Cardinality({x \in Users \X D : x[1] \in Viewers(url, x[2])})

\* Once a run is complete, every day before it is summed up exactly: one row
\* for each url that was viewed, with the number of viewers, and the totals
\* of the days so far and of the recent days.  Runs that died before, between
\* whichever two transactions, leave no trace.
SummaryExact ==
    (\A u \in Updaters : proc[u].pc = "idle") =>
      \A url \in Urls, day \in Days : day < done =>
        LET R == {r \in rows : r.url = url /\ r.day = day} IN
        /\ Cardinality(R) = IF Viewers(url, day) = {} THEN 0 ELSE 1
        /\ \A r \in R :
             /\ r.count = Cardinality(Viewers(url, day))
             /\ r.url \in Resources \/ r.pkg \in Datasets =>
                  /\ r.total = Views(url, 1..day)
                  /\ r.recent = Views(url, {x \in 1..day : x >= day - Recent})

\* When no process is at work, and none died half-way, the search index sorts
\* a dataset that kept its name by the total that is shown with it, unless the
\* last time it was to be indexed again failed: a failure that is swallowed
\* leaves the old total, or no document, and the first rebuild after it that
\* succeeds makes up for it.
IndexedViews ==
    (~broken /\ \A u \in Updaters : proc[u].pc = "idle") =>
      \A d \in Datasets \ (renamed \cup failed) : indexed[d] = TotalOf(rows, d)
=============================================================================
