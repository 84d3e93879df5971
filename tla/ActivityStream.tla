--------------------------- MODULE ActivityStream ---------------------------
(***************************************************************************)
(* The activity extension: what happens to datasets is recorded as         *)
(* activities, shown on the dashboards of those who follow them, and sent  *)
(* by email.                                                               *)
(*                                                                         *)
(* An activity is written by a subscriber of the action that succeeded, in *)
(* a transaction of its own after that of the action: it is stamped with   *)
(* the time first and committed later.  A dashboard has two times of its   *)
(* own, when it was last viewed and when it was last mailed; what is later *)
(* than them is new.  Both are set after the activities were looked at.    *)
(***************************************************************************)
EXTENDS Integers, FiniteSets

CONSTANTS
    Workers,     \* web workers
    Users,
    Actors,      \* bound: users who change things
    Readers,     \* bound: users whose dashboards are looked at and mailed
    Datasets,
    Groups,
    Insiders,    \* users who may see datasets that are not public
    Hidden,      \* ckan.hide_activity_from_users
    Limit,       \* ckan.activity_list_limit
    Window,      \* ckan.email_notifications_since
    Alone,       \* kinds of requests that are served while no other is
    MaxTime,     \* bound: how often the clock is read
    Absent       \* nothing

Kinds == {"change", "view", "notify"}
Objects == Datasets \cup Users \cup Groups
PackageTypes == {"new package", "changed package", "deleted package"}
Types == PackageTypes \cup {"changed group", "changed user"}
Versions == [state : {"active", "deleted"}, private : BOOLEAN]
Activities == [at : Nat, by : Users, obj : Objects, type : Types, public : BOOLEAN]

ASSUME LimitAssumption == Limit \in Nat \ {0} /\ Window \in Nat /\ MaxTime \in Nat
ASSUME PeopleAssumption ==
    \A S \in {Actors, Readers, Insiders, Hidden} : S \subseteq Users
ASSUME AloneAssumption == Alone \subseteq Kinds
ASSUME AbsentAssumption ==
    Absent \notin Versions /\ Absent \notin Activities /\ Absent \notin Users
ASSUME FiniteAssumption == IsFiniteSet(Readers)

VARIABLES
    pkg,       \* pkg[d]: the committed row of dataset d
    member,    \* member[g][d]: the row that puts dataset d in group g
    follows,   \* the rows <<user, object>> of the three follower tables
    log,       \* the committed activities
    viewed,    \* viewed[u]: activity_stream_last_viewed of u's dashboard
    sent,      \* sent[u]: its email_last_sent
    job,       \* job[w]: the request worker w serves
    clock,     \* the last time given out
    told,      \* told[u]: the activities that u was shown or mailed
    mailed,    \* mailed[u]: those that u was mailed
    cut        \* the users whose mail a process sent that then died

tables == <<pkg, member, follows>>
vars == <<pkg, member, follows, log, viewed, sent, job, clock, told, mailed, cut>>

Idle == [pc |-> "idle", kind |-> "none", by |-> Absent, obj |-> Absent,
         type |-> "none", ver |-> Absent, act |-> Absent, todo |-> {}, list |-> {}]

Job == [pc   : {"idle", "changed", "stamped", "begin", "listed", "mailed"},
        kind : Kinds \cup {"none"},
        by   : Users \cup {Absent},          \* who asked; whose dashboard
        obj  : Objects \cup {Absent},
        type : Types \cup {"none"},
        ver  : Versions \cup {Absent},       \* the package object of the session
        act  : Activities \cup {Absent},     \* flushed, not committed
        todo : SUBSET Readers,                 \* whom to notify
        list : SUBSET Activities]            \* what the dashboard answered

TypeOK ==
    /\ pkg \in [Datasets -> Versions \cup {Absent}]
    /\ member \in [Groups -> [Datasets -> {"none", "active", "deleted"}]]
    /\ follows \subseteq Readers \X Objects
    /\ \A f \in follows : f[2] \in Datasets => pkg[f[2]] # Absent
    /\ log \subseteq Activities
    /\ viewed \in [Readers -> Nat]
    /\ sent \in [Readers -> Nat]
    /\ job \in [Workers -> Job]
    /\ clock \in Nat
    /\ told \in [Readers -> SUBSET Activities]
    /\ mailed \in [Readers -> SUBSET Activities]
    /\ cut \subseteq Readers

Init ==
    /\ pkg = [d \in Datasets |-> Absent]
    /\ member = [g \in Groups |-> [d \in Datasets |-> "none"]]
    /\ follows = {}
    /\ log = {}
    /\ viewed = [u \in Readers |-> 0]
    /\ sent = [u \in Readers |-> 0]
    /\ job = [w \in Workers |-> Idle]
    /\ clock = 0
    /\ told = [u \in Readers |-> {}]
    /\ mailed = [u \in Readers |-> {}]
    /\ cut = {}

-----------------------------------------------------------------------------
(* The queries. *)

\* The n latest of a set of activities, after the first k.
Latest(S, n, k) ==
    {a \in S : Cardinality({b \in S : b.at > a.at}) \in k..(k + n - 1)}

Public(v) == v.state = "active" /\ ~v.private

\* _user_activity_query: from or about one of the users.
UserActivities(S) == {a \in log : a.by \in S \/ a.obj \in S}

\* The followed objects of a kind that are not deleted.
Followees(u, Kind) ==
    {o \in Kind : /\ <<u, o>> \in follows
                  /\ o \in Datasets => pkg[o] # Absent /\ pkg[o].state # "deleted"}

\* _group_activity_query: about one of the groups, or about a public dataset
\* that is in it, or was in it until it was deleted.
GroupActivities(S) ==
    {a \in log :
       \/ a.obj \in S
       \/ /\ a.obj \in Datasets
          /\ pkg[a.obj] # Absent
          /\ ~pkg[a.obj].private
          /\ \E g \in S : member[g][a.obj] = pkg[a.obj].state}

\* The three branches of what a user follows.
Branches(u) ==
    {UserActivities(Followees(u, Users)),
     {a \in log : a.obj \in Followees(u, Datasets)},
     GroupActivities(Followees(u, Groups))}

\* activities_from_everything_followed_by_user limits each branch, and then
\* their union.
FollowedActivities(u, n, k) ==
    Latest(UNION {Latest(B, n + k, 0) : B \in Branches(u)}, n, k)

Visible(u, a) == a.type \in PackageTypes => a.public \/ u \in Insiders

\* What u did, what was done to u, and everything that u follows.
Stream(u) ==
    {a \in UserActivities({u}) \cup UNION Branches(u) :
       a.by \notin Hidden /\ Visible(u, a)}

\* dashboard_activity_list: the newest of them.
Dashboard(u) == Latest(Stream(u), Limit, 0)

\* The activities marked is_new.
New(u) == {a \in Dashboard(u) : a.by # u /\ a.at > viewed[u]}

\* Activities up to this time are not mailed to u.
Since(u) ==
    CHOOSE t \in {clock - Window, sent[u], viewed[u]} :
        \A s \in {clock - Window, sent[u], viewed[u]} : s <= t

\* The activities that are mailed to u.
Pending(u) == {a \in Dashboard(u) : a.by # u /\ a.at > Since(u)}

-----------------------------------------------------------------------------
(* Requests that change something, and the activities they leave. *)

\* A request of kind k can be served by worker w.
CanServe(w, k) ==
    /\ job[w].pc = "idle"
    /\ \A x \in Workers : job[x].kind \notin Alone
    /\ k \in Alone => \A x \in Workers : job[x].pc = "idle"

Serve(w, k, j) ==
    /\ CanServe(w, k)
    /\ job' = [job EXCEPT ![w] = [j EXCEPT !.kind = k]]

Changed(u, o, t, v) ==
    [Idle EXCEPT !.pc = "changed", !.by = u, !.obj = o, !.type = t, !.ver = v]

CreatePackage(w, u, d, v) ==
    /\ pkg[d] = Absent
    /\ v.state = "active"
    /\ ~\E a \in log : a.obj = d
    /\ \A x \in Workers : job[x].obj # d
    /\ pkg' = [pkg EXCEPT ![d] = v]
    /\ Serve(w, "change", Changed(u, d, "new package", v))
    /\ UNCHANGED <<member, follows, log, viewed, sent, clock, told, mailed, cut>>

\* package_update that changes something; without a change the subscriber
\* returns and there is nothing to tell.
UpdatePackage(w, u, d, v) ==
    /\ pkg[d] # Absent
    /\ pkg' = [pkg EXCEPT ![d] = v]
    /\ Serve(w, "change", Changed(u, d, "changed package", v))
    /\ UNCHANGED <<member, follows, log, viewed, sent, clock, told, mailed, cut>>

\* A bulk update does not load the package object.
BulkUpdatePackage(w, u, d, v) ==
    /\ pkg[d] # Absent
    /\ pkg' = [pkg EXCEPT ![d] = v]
    /\ Serve(w, "change", Changed(u, d, "changed package", Absent))
    /\ UNCHANGED <<member, follows, log, viewed, sent, clock, told, mailed, cut>>

DeletePackage(w, u, d) ==
    /\ pkg[d] # Absent
    /\ pkg' = [pkg EXCEPT ![d].state = "deleted"]
    /\ member' = [g \in Groups |-> [member[g] EXCEPT
                    ![d] = IF @ = "active" THEN "deleted" ELSE @]]
    /\ Serve(w, "change",
             Changed(u, d, "changed package", [pkg[d] EXCEPT !.state = "deleted"]))
    /\ UNCHANGED <<follows, log, viewed, sent, clock, told, mailed, cut>>

\* Mutant of PurgePackage: the follower rows stay.
PurgeKeepsFollowers(w, d) ==
    /\ CanServe(w, "change")
    /\ pkg[d] # Absent
    /\ pkg' = [pkg EXCEPT ![d] = Absent]
    /\ member' = [g \in Groups |-> [member[g] EXCEPT ![d] = "none"]]
    /\ UNCHANGED <<follows, log, viewed, sent, job, clock, told, mailed, cut>>

\* dataset_purge tells nobody; the follower rows go with the dataset.
PurgePackage(w, d) ==
    /\ CanServe(w, "change")
    /\ pkg[d] # Absent
    /\ pkg' = [pkg EXCEPT ![d] = Absent]
    /\ member' = [g \in Groups |-> [member[g] EXCEPT ![d] = "none"]]
    /\ follows' = {f \in follows : f[2] # d}
    /\ UNCHANGED <<log, viewed, sent, job, clock, told, mailed, cut>>

\* group_update, organization_update and user_update.
UpdateOther(w, u, o) ==
    /\ o \in Groups \cup Users
    /\ Serve(w, "change",
             Changed(u, o, IF o \in Groups THEN "changed group" ELSE "changed user",
                     Absent))
    /\ UNCHANGED <<tables, log, viewed, sent, clock, told, mailed, cut>>

\* The activity for what the request changed.  A changed package that is
\* deleted becomes a deleted package; the query for an earlier activity of
\* the type "deleted" finds none, because none is stored with that type.
ActivityOf(j, v) ==
    [at |-> clock + 1, by |-> j.by, obj |-> j.obj,
     type |-> IF j.type = "changed package" /\ v.state = "deleted"
              THEN "deleted package" ELSE j.type,
     public |-> j.obj \in Datasets /\ Public(v)]

\* The subscriber of the action makes the activity, with the present time.
\* A package that is gone by now is not told of.
Emit(w) ==
    LET j == job[w]
        v == IF j.ver # Absent \/ j.obj \notin Datasets THEN j.ver ELSE pkg[j.obj]
    IN
    /\ j.pc = "changed"
    /\ IF j.obj \in Datasets /\ pkg[j.obj] = Absent
       THEN job' = [job EXCEPT ![w] = Idle] /\ UNCHANGED clock
       ELSE /\ clock' = clock + 1
            /\ job' = [job EXCEPT ![w].pc = "stamped", ![w].act = ActivityOf(j, v)]
    /\ UNCHANGED <<tables, log, viewed, sent, told, mailed, cut>>

CommitActivity(w) ==
    /\ job[w].pc = "stamped"
    /\ log' = log \cup {job[w].act}
    /\ job' = [job EXCEPT ![w] = Idle]
    /\ UNCHANGED <<tables, viewed, sent, clock, told, mailed, cut>>

-----------------------------------------------------------------------------
(* Followers and groups. *)

\* follow_dataset, follow_user and follow_group.  A follower of something
\* that is deleted is not found, and is then inserted a second time: the
\* primary key refuses that.
Follow(w, u, o) ==
    /\ CanServe(w, "change")
    /\ o # u
    /\ o \in Datasets => pkg[o] # Absent
    /\ <<u, o>> \notin follows
    /\ follows' = follows \cup {<<u, o>>}
    /\ UNCHANGED <<pkg, member, log, viewed, sent, job, clock, told, mailed, cut>>

\* Of what is deleted the row is not found and stays.
Unfollow(w, u, o) ==
    /\ CanServe(w, "change")
    /\ o \in Followees(u, Objects)
    /\ follows' = follows \ {<<u, o>>}
    /\ UNCHANGED <<pkg, member, log, viewed, sent, job, clock, told, mailed, cut>>

\* member_create and member_delete for a dataset.
SetMember(w, g, d, s) ==
    /\ CanServe(w, "change")
    /\ pkg[d] # Absent /\ pkg[d].state = "active"
    /\ \/ s = "active" /\ member[g][d] # "active"
       \/ s = "deleted" /\ member[g][d] = "active"
    /\ member' = [member EXCEPT ![g][d] = s]
    /\ UNCHANGED <<pkg, follows, log, viewed, sent, job, clock, told, mailed, cut>>

-----------------------------------------------------------------------------
(* Dashboards and emails. *)

\* The dashboard page lists the new activities ...
View(w, u) ==
    /\ Serve(w, "view", [Idle EXCEPT !.pc = "listed", !.by = u, !.list = New(u)])
    /\ UNCHANGED <<tables, log, viewed, sent, clock, told, mailed, cut>>

\* ... and marks the dashboard as viewed.
MarkOld(w) ==
    LET u == job[w].by IN
    /\ job[w].kind = "view"
    /\ clock' = clock + 1
    /\ viewed' = [viewed EXCEPT ![u] = clock + 1]
    /\ told' = [told EXCEPT ![u] = @ \cup job[w].list]
    /\ job' = [job EXCEPT ![w] = Idle]
    /\ UNCHANGED <<tables, log, sent, mailed, cut>>

\* send_email_notifications, which cron calls for all users; one call ends
\* before the next begins.
Notify(w) ==
    /\ \A x \in Workers : job[x].kind # "notify"
    /\ Serve(w, "notify", [Idle EXCEPT !.pc = "begin", !.todo = Readers])
    /\ UNCHANGED <<tables, log, viewed, sent, clock, told, mailed, cut>>

NotifyList(w) ==
    \E u \in job[w].todo :
        /\ job[w].pc = "begin"
        /\ job' = [job EXCEPT ![w].pc = "listed", ![w].by = u,
                              ![w].todo = @ \ {u}, ![w].list = Pending(u)]
        /\ UNCHANGED <<tables, log, viewed, sent, clock, told, mailed, cut>>

NotifyMail(w) ==
    LET u == job[w].by IN
    /\ job[w].kind = "notify" /\ job[w].pc = "listed"
    /\ told' = [told EXCEPT ![u] = @ \cup job[w].list]
    /\ mailed' = [mailed EXCEPT ![u] = @ \cup job[w].list]
    /\ job' = [job EXCEPT ![w].pc = "mailed"]
    /\ UNCHANGED <<tables, log, viewed, sent, clock, cut>>

\* Mutant of NotifyFails: the time of the mail is set all the same.
FailsButSent(w) ==
    /\ job[w].kind = "notify" /\ job[w].pc = "listed"
    /\ job[w].list # {}
    /\ clock' = clock + 1
    /\ sent' = [sent EXCEPT ![job[w].by] = clock + 1]
    /\ job' = [job EXCEPT ![w] = Idle]
    /\ UNCHANGED <<tables, log, viewed, told, mailed, cut>>

\* The mail server refuses: the exception ends the whole call.
NotifyFails(w) ==
    /\ job[w].kind = "notify" /\ job[w].pc = "listed"
    /\ job[w].list # {}
    /\ job' = [job EXCEPT ![w] = Idle]
    /\ UNCHANGED <<tables, log, viewed, sent, clock, told, mailed, cut>>

\* Mutant of NotifySent: email_last_sent is not set.
NotifyNotSent(w) ==
    /\ job[w].pc = "mailed"
    /\ job' = [job EXCEPT ![w].pc = "begin", ![w].by = Absent, ![w].list = {}]
    /\ UNCHANGED <<tables, log, viewed, sent, clock, told, mailed, cut>>

NotifySent(w) ==
    /\ job[w].pc = "mailed"
    /\ clock' = clock + 1
    /\ sent' = [sent EXCEPT ![job[w].by] = clock + 1]
    /\ job' = [job EXCEPT ![w].pc = "begin", ![w].by = Absent, ![w].list = {}]
    /\ UNCHANGED <<tables, log, viewed, told, mailed, cut>>

NotifyEnd(w) ==
    /\ job[w].pc = "begin" /\ job[w].todo = {}
    /\ job' = [job EXCEPT ![w] = Idle]
    /\ UNCHANGED <<tables, log, viewed, sent, clock, told, mailed, cut>>

\* The worker dies, in the middle of a request.
Die(w) ==
    /\ job[w].pc # "idle"
    /\ cut' = IF job[w].pc = "mailed" THEN cut \cup {job[w].by} ELSE cut
    /\ job' = [job EXCEPT ![w] = Idle]
    /\ UNCHANGED <<tables, log, viewed, sent, clock, told, mailed>>

-----------------------------------------------------------------------------
Change(w) == \E u \in Actors :
    \/ \E d \in Datasets : \E v \in Versions :
         \/ CreatePackage(w, u, d, v)
         \/ UpdatePackage(w, u, d, v)
         \/ BulkUpdatePackage(w, u, d, v)
    \/ \E d \in Datasets : DeletePackage(w, u, d)
    \/ \E o \in Objects : UpdateOther(w, u, o)

Next == \E w \in Workers :
    \/ clock < MaxTime /\ Change(w)
    \/ \E d \in Datasets : PurgePackage(w, d)
    \/ Emit(w) \/ CommitActivity(w)
    \/ \E u \in Readers, o \in Objects : Follow(w, u, o) \/ Unfollow(w, u, o)
    \/ \E g \in Groups, d \in Datasets, s \in {"active", "deleted"} :
         SetMember(w, g, d, s)
    \/ clock < MaxTime /\ \E u \in Readers : View(w, u)
    \/ clock < MaxTime /\ Notify(w)
    \/ MarkOld(w) \/ NotifyList(w) \/ NotifyMail(w) \/ NotifyFails(w)
    \/ NotifySent(w) \/ NotifyEnd(w)
    \/ Die(w)

Spec == Init /\ [][Next]_vars

-----------------------------------------------------------------------------
(* Properties. *)

\* No activity is mailed to the same user twice, whatever else goes on while
\* the mails are made and sent, unless a process died when it had sent one.
MailedOnce ==
    [][\A w \in Workers :
         (/\ job[w].kind = "notify" /\ job[w].pc = "listed" /\ job'[w].pc = "mailed"
          /\ job[w].by \notin cut)
            => job[w].list \cap mailed[job[w].by] = {}]_vars

\* When a dashboard is marked as viewed or as mailed, everything that was new
\* to its owner has been shown or mailed: the times do not pass over an
\* activity that its follower never learns of.
Skips ==
    \E u \in Readers :
        LET After(t) == {a \in Stream(u) : a.by # u /\ a.at > t} IN
        \/ /\ viewed'[u] # viewed[u]
           /\ ~(After(viewed[u]) \subseteq told'[u])
        \/ /\ sent'[u] # sent[u]
           /\ ~(After(sent[u]) \cap After(viewed[u]) \cap After(clock - Window)
                  \subseteq told[u])

\* Limiting every branch of the union first gives the page that the union
\* itself has at that limit and offset.
BranchLimitsSafe ==
    \A u \in Readers : \A n \in 1..2, k \in 0..2 :
        FollowedActivities(u, n, k) = Latest(UNION Branches(u), n, k)
=============================================================================
