---------------------------- MODULE DataRequests ----------------------------
(***************************************************************************)
(* The data requests (veri istegi) of the visitors of the portal: a list   *)
(* in the memory of a web process, which starts with a few samples.  A new *)
(* request is put at its front with the day's date.  Readers filter and    *)
(* sort the list and page through it; every page is cut from the list as   *)
(* it is then.                                                             *)
(***************************************************************************)
EXTENDS Naturals, Sequences, FiniteSetsExt

CONSTANTS
    Samples,      \* requests that a process starts with
    Days,         \* their dates; requests are put on the days after
    PerPage,      \* requests on a page
    CountPage,    \* requests that the counter looks at
    MaxRequests,  \* bound: how many requests there are
    MaxDay        \* bound: the last day

VARIABLES
    requests,     \* VERI_ISTEKLERI
    day,
    reader

vars == <<requests, day, reader>>

\* "id" stands for the title and the description.
DataRequest == [id : 1..MaxRequests, open : BOOLEAN, day : 0..MaxDay]
Sorts == {"newest", "oldest", "as listed"}
Statuses == {"all", "open", "closed"}
NoReader == [page |-> 0, last |-> 0, sort |-> "newest", status |-> "all",
             shown |-> {}, there |-> {}]

TypeOK ==
    /\ requests \in Seq(DataRequest)
    /\ Len(requests) <= MaxRequests
    /\ day \in 0..MaxDay
    /\ reader.page \in 0..MaxRequests
    /\ reader.shown \cup reader.there \subseteq 1..MaxRequests

Init ==
    /\ \E open \in [1..Samples -> BOOLEAN], date \in [1..Samples -> Days] :
         requests = [i \in 1..Samples |-> [id |-> i, open |-> open[i], day |-> date[i]]]
    /\ day = Max(Days)
    /\ reader = NoReader

-----------------------------------------------------------------------------
\* get_filtered_requests: the places of those with the status, in the list.
Filtered(status) ==
    {i \in DOMAIN requests : status = "all" \/ requests[i].open = (status = "open")}

\* Requests of the same day stay in their order, whichever way they are
\* sorted.
Before(sort, i, j) ==
    \/ sort = "newest" /\ requests[i].day > requests[j].day
    \/ sort = "oldest" /\ requests[i].day < requests[j].day
    \/ i < j /\ (sort = "as listed" \/ requests[i].day = requests[j].day)

\* The place of a request in the sorted list.
Rank(S, sort, i) == Cardinality({j \in S : j = i \/ Before(sort, j, i)})

\* Mutant of TotalPages: the last page is there only if it is full.
TotalPagesMutant(S, perPage) == Cardinality(S) \div perPage

TotalPages(S, perPage) == (Cardinality(S) + perPage - 1) \div perPage

\* The page that is shown for the one that is asked for.
CurrentPage(S, page, perPage) ==
    IF TotalPages(S, perPage) > 0 THEN Min({Max({1, page}), TotalPages(S, perPage)}) ELSE 1

Items(status, sort, page, perPage) ==
    LET S == Filtered(status)
        start == (CurrentPage(S, page, perPage) - 1) * perPage
    IN  {i \in S : start < Rank(S, sort, i) /\ Rank(S, sort, i) <= start + perPage}

Titles(S) == {requests[i].id : i \in S}

\* get_request_count: of the first page of all requests, a long one.
RequestCount(status) ==
    Cardinality(Items("all", "newest", 1, CountPage) \cap Filtered(status))

-----------------------------------------------------------------------------
\* veri_istegi, POST
Post ==
    /\ Len(requests) < MaxRequests
    /\ requests' = <<[id |-> Len(requests) + 1, open |-> TRUE, day |-> day]>> \o requests
    /\ UNCHANGED <<day, reader>>

NextDay ==
    /\ day < MaxDay
    /\ day' = day + 1
    /\ UNCHANGED <<requests, reader>>

\* veri_istegi, GET: one page.
Show(r, page) ==
    LET S == Filtered(r.status)
    IN  reader' = [r EXCEPT !.page = CurrentPage(S, page, PerPage),
                            !.last = TotalPages(S, PerPage),
                            !.shown = @ \cup Titles(Items(r.status, r.sort, page, PerPage))]

\* Somebody opens the list: the first page, or any.
Open(status, sort) ==
    /\ reader.page = 0
    /\ \E page \in 1..MaxRequests :
         Show([NoReader EXCEPT !.status = status, !.sort = sort,
                  !.there = IF page = 1 THEN Titles(Filtered(status)) ELSE {}], page)
    /\ UNCHANGED <<requests, day>>

TurnPage ==
    /\ reader.page > 0
    /\ reader.page < reader.last
    /\ Show(reader, reader.page + 1)
    /\ UNCHANGED <<requests, day>>

Leave ==
    /\ reader.page > 0
    /\ reader' = NoReader
    /\ UNCHANGED <<requests, day>>

Next ==
    \/ Post
    \/ NextDay
    \/ \E status \in Statuses, sort \in Sorts : Open(status, sort)
    \/ TurnPage
    \/ Leave

Spec == Init /\ [][Next]_vars

-----------------------------------------------------------------------------
\* Whoever turns the pages from the first to the last has been shown every
\* request that was there when he opened the list, though others are put
\* between them meanwhile (get_filtered_requests).
NoneMissed ==
    reader.page > 0 /\ reader.page >= reader.last => reader.there \subseteq reader.shown

\* The pages of a list hold what the counter above them says
\* (get_request_count).
CountsAgree ==
    \A status \in Statuses, sort \in Sorts :
        Cardinality(UNION {Titles(Items(status, sort, p, PerPage)) :
                            p \in 1..TotalPages(Filtered(status), PerPage)}) = RequestCount(status)
=============================================================================
