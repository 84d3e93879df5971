------------------------------ MODULE MCStreams ------------------------------
(***************************************************************************)
(* What is reported of the activity and of the use of a site, for TLC: the *)
(* activity streams, the pages they are read in, the summaries of changes, *)
(* what users follow, the page view counts, the pages of lists, and the    *)
(* data requests, side by side.  They share no state, so one of them runs  *)
(* in each behaviour and the others stay in an initial state.              *)
(***************************************************************************)
EXTENDS ActivityStream, Functions

CONSTANTS BaseLimit, MaxLimit, MaxActivities, None, NotFound,
          Organizations, Savers, WholeFields, OptionalFields, ExtensionFields,
          Pages, Visitors, Cron, Recent, MaxDay, MaxViews,
          PerPage, Limits, RowsMax, ListMax, AllFieldsMax, MaxItems,
          Samples, Dates, RequestsPage, CountPage, MaxRequests, LastDate

\* The pages and those who view them are finitely many; no dataset is nothing.
ASSUME Viewing ==
    /\ IsFiniteSet(Pages) /\ IsFiniteSet(Visitors)
    /\ Recent \in Nat /\ MaxDay \in Nat \ {0}
    /\ None \notin Datasets /\ NotFound \notin Datasets /\ None # NotFound

\* Pages have items, as many as their lists give at once; ListMax is so large
\* that it cuts nothing off but a part of the last page.
ASSUME Listing ==
    /\ PerPage \in Nat \ {0} /\ Limits = {PerPage}
    /\ RowsMax \in Nat /\ PerPage <= RowsMax
    /\ AllFieldsMax \in Nat /\ PerPage <= AllFieldsMax
    /\ ListMax \in Nat \ {0} /\ MaxItems \in Nat
    /\ MaxItems <= ((ListMax - 1) \div PerPage + 1) * PerPage

\* The page of the counter holds all data requests.
ASSUME Asking ==
    /\ RequestsPage \in Nat \ {0} /\ CountPage \in Nat \ {0}
    /\ MaxRequests \in Nat /\ MaxRequests <= CountPage /\ Samples \in 0..MaxRequests
    /\ LastDate \in Nat /\ Dates # {} /\ Dates \subseteq 0..LastDate

VARIABLES
    part,
    n, page,                                                      \* pages
    old, new,                                                     \* changes
    state, followed, request,                                     \* followers
    today, raw, rows, name, indexed, proc, done, broken, renamed, failed, \* tracking
    list, size, address, walk,                                    \* lists
    dataRequests, date, reader                                    \* data requests

pages == <<n, page>>
changes == <<old, new>>
followers == <<state, followed, request>>
tracking == <<today, raw, rows, name, indexed, proc, done, broken, renamed, failed>>
lists == <<list, size, address, walk>>
asked == <<dataRequests, date, reader>>

One == CHOOSE w \in Workers : TRUE

-----------------------------------------------------------------------------
(* The versions of a dataset that are compared. *)

Values == {None, "", "x"}
Dicts(K) == UNION {[D -> Values] : D \in SUBSET K}
Resource == [name : {"x"}, format : {"", "x"}, description : Values,
             url : {"x", "y"}, extras : Dicts({"k1"})]
First == [name |-> "x", format |-> "", description |-> "", url |-> "x", extras |-> <<>>]
Base == [fields |-> [f \in WholeFields \cup OptionalFields |-> "x"], tags |-> {},
         extension |-> <<>>, extras |-> <<>>, resources |-> <<>>]
Versions1 ==
    {[Base EXCEPT !.fields = f] :
        f \in {g \in [WholeFields \cup OptionalFields -> Values] :
                 \A w \in WholeFields : g[w] # None}}
    \cup {[Base EXCEPT !.tags = t] : t \in SUBSET {"t1", "t2", "t3"}}
    \cup {[Base EXCEPT !.extension = x] : x \in Dicts(ExtensionFields)}
    \cup {[Base EXCEPT !.extras = x] : x \in Dicts({"k1", "k2"})}
    \cup {[Base EXCEPT !.resources = [r \in {"r1"} |-> x]] : x \in Resource}
    \cup {[Base EXCEPT !.resources = [r \in R |-> First]] : R \in SUBSET {"r1", "r2", "r3"}}

-----------------------------------------------------------------------------
R == INSTANCE ActivityStream WITH Alone <- {}
P == INSTANCE ActivityPages
C == INSTANCE DatasetChanges WITH Versions <- Versions1
F == INSTANCE Followers WITH
        Workers <- Savers, follows <- followed, job <- request
T == INSTANCE Tracking WITH
        Resources <- {}, Users <- Visitors, Updaters <- {Cron}, Gaps <- FALSE
LP == INSTANCE ListPages WITH kind <- list, n <- size, url <- address
DR == INSTANCE DataRequests WITH
        Days <- Dates, PerPage <- RequestsPage, MaxDay <- LastDate,
        requests <- dataRequests, day <- date

MCInit ==
    /\ part \in {"streams", "racing", "pages", "changes", "followers", "tracking",
                 "lists", "data requests"}
    /\ Init
    /\ P!Init /\ (part # "pages" => n = 0)
    /\ C!Init /\ (part # "changes" => old = Base /\ new = Base)
    /\ F!Init
    /\ T!Init /\ (part # "tracking" => name = [p \in Pages |-> None])
    /\ LP!Init
    /\ DR!Init /\ (part # "data requests" =>
                    \A i \in 1..Samples : dataRequests[i].open /\ dataRequests[i].day = date)

\* Requests that look at a dashboard are alone; one worker serves them all,
\* and does not die before it has stamped an activity.
Serial ==
    /\ \A w \in Workers \ {One} : UNCHANGED job[w]
    /\ job[One].pc = "changed" => job'[One].pc # "idle"

\* Requests race; one public dataset is followed and changed.
Racing ==
    /\ UNCHANGED member
    /\ \A d \in Datasets : pkg'[d] # Absent => ~pkg'[d].private
    /\ \A f \in follows' : f[2] \in Datasets
    /\ \A w \in Workers : job'[w].obj \in Datasets \cup {Absent}

MCNext ==
    /\ UNCHANGED part
    /\ \/ part = "streams" /\ Next /\ Serial
          /\ UNCHANGED <<pages, changes, followers, tracking, lists, asked>>
       \/ part = "racing" /\ R!Next /\ Racing
          /\ UNCHANGED <<pages, changes, followers, tracking, lists, asked>>
       \/ part = "pages" /\ P!Next
          /\ UNCHANGED <<vars, changes, followers, tracking, lists, asked>>
       \/ part = "changes" /\ C!Next
          /\ UNCHANGED <<vars, pages, followers, tracking, lists, asked>>
       \/ part = "followers" /\ F!Next
          /\ UNCHANGED <<vars, pages, changes, tracking, lists, asked>>
       \/ part = "tracking" /\ T!Next
          /\ UNCHANGED <<vars, pages, changes, followers, lists, asked>>
       \/ part = "lists" /\ LP!Next
          /\ UNCHANGED <<vars, pages, changes, followers, tracking, asked>>
       \/ part = "data requests" /\ DR!Next
          /\ UNCHANGED <<vars, pages, changes, followers, tracking, lists>>

MCSpec ==
    /\ MCInit
    /\ [][MCNext]_<<vars, part, pages, changes, followers, tracking, lists, asked>>

\* Requests that are served one after another skip no activity, and cutting
\* the branches of the dashboard before it is sorted loses none (ActivityStream).
NothingSkipped == [][part = "streams" => ~Skips]_vars /\ []BranchLimitsSafe

\* The types of all their state: activities have times that have been, rows
\* have counts of days that exist, pages times that the stream has, and so on.
TypesOK ==
    CASE part \in {"streams", "racing"} -> TypeOK
      [] part = "pages" -> P!TypeOK
      [] part = "changes" -> C!TypeOK
      [] part = "followers" -> F!TypeOK
      [] part = "tracking" -> T!TypeOK
      [] part = "lists" -> LP!TypeOK
      [] part = "data requests" -> DR!TypeOK

\* Pages that follow each other leave no activity out; from every page there
\* is a way to what is older and newer, and no link leads nowhere
\* (ActivityPages).
PagesWhole == [][part = "pages" => P!PagesAdjoin /\ P!NoDeadEnd']_pages

\* A summary of changes tells what the new version is, but for the new url of
\* a resource, of which it only tells that it is another one (DatasetChanges).
SummaryTellsAll == part = "changes" => C!SummaryTellsAll

\* Buttons, lists and counts tell the same of who follows what, and only
\* unfollowing and purging end it (Followers).
FollowersAgree ==
    [][part = "followers" => F!FollowingLasts]_followers
    /\ [](part = "followers" => F!FollowersAgree)

\* A complete run of the tracking command counts every day exactly,
\* whatever processes died before, and datasets are sorted by the views that
\* are shown with them, but for those whose last rebuild failed (Tracking).
ViewsCounted == part = "tracking" => T!SummaryExact /\ T!IndexedViews

\* Whoever turns the pages of a list, or of the data requests, is shown all
\* of it, and is told what he is shown (ListPages, DataRequests).
PagesTurned ==
    /\ part = "lists" => LP!ListsPaged
    /\ part = "data requests" => DR!NoneMissed /\ DR!CountsAgree
=============================================================================
