----------------------------- MODULE ListPages -----------------------------
(***************************************************************************)
(* The pages of what a site lists: the datasets of a search, groups, users *)
(* and feeds.  Each list asks for its page in its own way, caps what it    *)
(* gets by a limit of its own, and links to other pages: lists with the    *)
(* class Page, feeds with links of theirs.  An item is its place in the    *)
(* order of the list, which has no ties.                                   *)
(***************************************************************************)
EXTENDS Naturals, FiniteSetsExt

CONSTANTS
    PerPage,       \* ckan.datasets_per_page, ckan.user_list_limit, ckan.feeds.limit
    Limits,        \* limits that are given in the URL of the list of users
    RowsMax,       \* ckan.search.rows_max
    ListMax,       \* ckan.group_and_organization_list_max
    AllFieldsMax,  \* ckan.group_and_organization_list_all_fields_max
    MaxItems       \* bound

Kinds == {"search", "groups", "users", "feed"}

VARIABLES
    kind,    \* the list that is read
    n,       \* items that it has
    url,     \* the page that is shown: its number and its limit
    walk     \* what a reader has seen who began with page 1 and went on

vars == <<kind, n, url, walk>>

Lesser(a, b) == Min({a, b})
Greater(a, b) == Max({a, b})

-----------------------------------------------------------------------------
(* What is answered. *)

\* Items that are asked for: the limit of the list, capped by the action.
Size(k, u) ==
    CASE k \in {"search", "feed"} -> Lesser(PerPage, RowsMax)
      [] k = "groups" -> Lesser(PerPage, AllFieldsMax)
      [] k = "users" -> u.limit

Step(k, u) == IF k = "users" THEN u.limit ELSE PerPage

\* The items of a page; a page that is past the end has none.
Items(k, u) ==
    LET start == (u.page - 1) * Step(k, u)
    IN  {i \in 1..n : start < i /\ i <= start + Size(k, u)}

\* How many items the pages are counted for.
Count(k) == IF k = "groups" THEN Lesser(n, ListMax) ELSE n

-----------------------------------------------------------------------------
(* Page: the page that is told, which exists, and its links. *)

\* Mutant of LastPage: a full last page is followed by another one.
LastPageFloor(k, u) == IF Count(k) = 0 THEN 0 ELSE (Count(k) \div Step(k, u)) + 1

LastPage(k, u) == IF Count(k) = 0 THEN 0 ELSE ((Count(k) - 1) \div Step(k, u)) + 1

Told(k, u) == IF LastPage(k, u) = 0 THEN u.page ELSE Lesser(Greater(u.page, 1), LastPage(k, u))

ToldItems(k, u) ==
    LET first == (Told(k, u) - 1) * Step(k, u) + 1
    IN  IF LastPage(k, u) = 0 THEN {} ELSE first..Lesser(first + Step(k, u) - 1, Count(k))

\* pager: previous, next, two pages to either side, and the ends.
PageLinks(k, u) ==
    LET p == Told(k, u)
        last == LastPage(k, u)
    IN  IF last <= 1 THEN {}
        ELSE {q \in 1..last : q # p /\ (q \in {1, last} \/ (q <= p + 2 /\ p <= q + 2))}

NextPage(k, u) == IF Told(k, u) < LastPage(k, u) THEN {Told(k, u) + 1} ELSE {}

\* The address of another page; the limit is not part of it.
PageUrl(p) == [page |-> p, limit |-> PerPage]

-----------------------------------------------------------------------------
(* Feeds. *)

\* _navigation_urls: the number of the last page is a quotient, not a whole
\* number, to which one is added when there is a rest.
BeforeLast(p) == p * PerPage < n + PerPage * Lesser(1, n % PerPage)

\* _feed_url: a query is added as a pair that is no page.
FeedUrl(p) == [page |-> 1, limit |-> PerPage]

-----------------------------------------------------------------------------
TypeOK ==
    /\ kind \in Kinds
    /\ n \in 0..MaxItems
    /\ url \in [page : 1..(MaxItems + 1), limit : Limits \cup {PerPage}]
    /\ walk.on \in BOOLEAN
    /\ \A i \in 1..MaxItems : walk.seen[i] \in 0..MaxItems

Add(seen, items) == [i \in DOMAIN seen |-> IF i \in items THEN seen[i] + 1 ELSE seen[i]]

Nowhere == [on |-> FALSE, seen |-> [i \in 1..MaxItems |-> 0]]

Start(k, u) == [on |-> TRUE, seen |-> Add(Nowhere.seen, Items(k, u))]

Init ==
    /\ kind = "search" /\ n = 0
    /\ url = PageUrl(1)
    /\ walk = Nowhere

\* A list is opened, at its first page.
Open(k, limit) ==
    /\ kind' = k
    /\ url' = [page |-> 1, limit |-> IF k = "users" THEN limit ELSE PerPage]
    /\ walk' = Start(k, url')
    /\ UNCHANGED n

\* A page is asked for by number.
GoTo(p) ==
    /\ url' = PageUrl(p)
    /\ walk' = Nowhere
    /\ UNCHANGED <<kind, n>>

\* The reader goes on.
Turn(u) ==
    /\ url' = u
    /\ walk' = IF walk.on THEN [walk EXCEPT !.seen = Add(@, Items(kind, u))] ELSE walk
    /\ UNCHANGED <<kind, n>>

GoOn == \E p \in NextPage(kind, url) : kind # "feed" /\ Turn(PageUrl(p))

GoOnFeed ==
    /\ kind = "feed" /\ walk.on
    /\ \A i \in 1..n : walk.seen[i] < MaxItems
    /\ BeforeLast(url.page)
    /\ Turn(FeedUrl(url.page + 1))

\* Items come and go.
Change(m) ==
    /\ n' = m
    /\ walk' = Nowhere
    /\ UNCHANGED <<kind, url>>

Next ==
    \/ \E k \in Kinds, limit \in Limits : Open(k, limit)
    \/ \E p \in 1..(MaxItems + 1) : GoTo(p)
    \/ GoOn
    \/ GoOnFeed
    \/ \E m \in 0..MaxItems : Change(m)

Spec == Init /\ [][Next]_vars

-----------------------------------------------------------------------------
\* A reader who begins with the first page and goes on until there is no
\* next page has seen every item once (views index, search and read, Page).
WalkShowsAll ==
    kind # "feed" /\ walk.on /\ NextPage(kind, url) = {} =>
        \A i \in 1..Count(kind) : walk.seen[i] = 1

\* The items that a page says it has are those that it shows; if the list is
\* shorter than the page that was asked for, it shows none (Page.__init__).
TellsWhatItShows ==
    kind # "feed" =>
        \/ Items(kind, url) \cap (1..Count(kind)) = ToldItems(kind, url)
        \/ url.page > LastPage(kind, url) /\ Items(kind, url) = {}

\* Links lead to pages with items, and some of them to either end (pager).
LinksLead ==
    kind # "feed" /\ url.limit = PerPage =>
        /\ \A p \in PageLinks(kind, url) : Items(kind, PageUrl(p)) # {}
        /\ NextPage(kind, url) \subseteq PageLinks(kind, url)

ListsPaged == WalkShowsAll /\ TellsWhatItShows /\ LinksLead

\* The next page of a feed has other items than the page ("Constructs and
\* returns first, last, prev and next links for paging").
FeedLeadsOn ==
    kind = "feed" /\ Items(kind, url) # {} /\ BeforeLast(url.page) =>
        Items(kind, FeedUrl(url.page + 1)) \cap Items(kind, url) = {}
=============================================================================
