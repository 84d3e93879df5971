---------------------------- MODULE ActivityPages ----------------------------
(***************************************************************************)
(* Leafing through an activity stream while it grows.  A page is the       *)
(* newest activities before a time, or the oldest after one; the links to  *)
(* the next older and newer page carry the times of the page's own last    *)
(* and first activity.  The view asks for one activity more than it shows, *)
(* to know whether there are more.                                         *)
(***************************************************************************)
EXTENDS Integers, FiniteSetsExt

CONSTANTS
    BaseLimit,      \* ckan.activity_list_limit
    MaxLimit,       \* ckan.activity_list_limit_max
    MaxActivities,  \* bound: how long the stream grows
    None            \* a parameter that was not given

VARIABLES
    n,      \* the activities of the stream have the times 1..n
    page    \* what the browser shows, and the n it was made of

vars == <<n, page>>

\* _get_activity_stream_limit
PageLimit == IF BaseLimit < MaxLimit THEN BaseLimit ELSE MaxLimit

\* One more than is shown, as far as the schema allows.
QueryLimit == IF PageLimit + 1 < MaxLimit THEN PageLimit + 1 ELSE MaxLimit

Newest(S, k) == {t \in S : Cardinality({s \in S : s > t}) < k}
Oldest(S, k) == {t \in S : Cardinality({s \in S : s < t}) < k}

\* Mutant of Listed: the order is never reversed.
ListedNewest(after, before) ==
    Newest({t \in 1..n : (after # None => t > after) /\ (before # None => t < before)}, QueryLimit)

\* The list functions: the order is reversed for a page that is only after.
Listed(after, before) ==
    LET S == {t \in 1..n : (after # None => t > after) /\ (before # None => t < before)}
    IN  IF after # None /\ before = None THEN Oldest(S, QueryLimit)
                                         ELSE Newest(S, QueryLimit)

\* The extra activity is the first of a page that is after a time.
Shown(after, listed) ==
    IF Cardinality(listed) > PageLimit
    THEN listed \ {IF after # None THEN Max(listed) ELSE Min(listed)}
    ELSE listed

Page(after, before) ==
    LET listed == Listed(after, before) IN
    [after |-> after, before |-> before, shown |-> Shown(after, listed),
     more |-> Cardinality(listed) > PageLimit, of |-> n]

\* _get_older_activities_url and _get_newer_activities_url give a link.
OlderLink(p) == p.after # None \/ p.more
NewerLink(p) == p.before # None \/ (p.more /\ p.after # None)

TypeOK ==
    /\ n \in 0..MaxActivities
    /\ page \in [after : Nat \cup {None}, before : Nat \cup {None},
                 shown : SUBSET (1..n), more : BOOLEAN, of : 0..n]

Init ==
    /\ n \in 0..MaxActivities
    /\ page = Page(None, None)

Grow == n < MaxActivities /\ n' = n + 1 /\ UNCHANGED page

First == page' = Page(None, None) /\ UNCHANGED n

\* An empty page with a link raises an IndexError: stream[-1], stream[0].
Older ==
    /\ OlderLink(page)
    /\ page.shown # {}
    /\ page' = Page(None, Min(page.shown))
    /\ UNCHANGED n

Newer ==
    /\ NewerLink(page)
    /\ page.shown # {}
    /\ page' = Page(Max(page.shown), None)
    /\ UNCHANGED n

Next == Grow \/ First \/ Older \/ Newer

Spec == Init /\ [][Next]_vars

-----------------------------------------------------------------------------
\* From every page there is a way to what is older and, except from the first
\* one, to what is newer, and a link is only given by a page that has the
\* activity the link needs.
NoDeadEnd ==
    LET p == page IN
    /\ OlderLink(p) \/ NewerLink(p) => p.shown # {}
    /\ p.shown # {} =>
         /\ Min(p.shown) > 1 <=> OlderLink(p)
         /\ NewerLink(p) <=> (p.after # None \/ p.before # None) /\ Max(p.shown) < p.of
    /\ p.shown = {} => p.of = 0

\* Two neighbouring pages have no activity between them and none in common.
PagesAdjoin ==
    /\ Older => Max(page'.shown) = Min(page.shown) - 1
    /\ Newer => Min(page'.shown) = Max(page.shown) + 1
=============================================================================
