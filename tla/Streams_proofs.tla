--------------------------- MODULE Streams_proofs ---------------------------
(***************************************************************************)
(* What is reported of the activity of a site, for any sets of workers,    *)
(* users and objects: nothing is mailed twice, nothing is skipped, pages   *)
(* are whole, followers agree, summaries tell all and views are counted.   *)
(***************************************************************************)
EXTENDS MCStreams, FiniteSetTheorems, FunctionTheorems, SequenceTheorems, WellFoundedInduction, TLAPS

-----------------------------------------------------------------------------
(* Activities and mails.  The requests of the part "racing" are those of   *)
(* the part "streams", with less to wait for.                              *)

\* What a request knows by the step it is at.
Shape(j) ==
    /\ j.pc = "changed" => j.by \in Users /\ j.obj \in Objects /\ j.type \in Types
    /\ j.pc = "stamped" => j.act \in Activities
    /\ j.pc \in {"listed", "mailed"} => j.by \in Readers
    /\ j.pc \in {"begin", "mailed"} => j.kind = "notify"
    /\ j.kind = "notify" => j.pc \in {"begin", "listed", "mailed"}
    /\ j.kind = "view" => j.pc = "listed"

Typed == TypeOK /\ \A w \in Workers : Shape(job[w])

\* Activities are of times that have been.
Past(S) == \A a \in S : a.at <= clock

Timely ==
    /\ Past(log)
    /\ \A w \in Workers : /\ Past(job[w].list)
                          /\ job[w].pc = "stamped" => job[w].act.at <= clock
    /\ \A u \in Readers : Past(mailed[u])

OneNotifies ==
    \A w, x \in Workers : job[w].kind = "notify" /\ job[x].kind = "notify" => w = x

\* What was mailed is not later than the time of the mail, which one request
\* may have to set yet; what is about to be mailed is.
Sent ==
    /\ \A u \in Readers \ cut : \A a \in mailed[u] :
         a.at <= sent[u] \/ \E w \in Workers : job[w].pc = "mailed" /\ job[w].by = u
    /\ \A w \in Workers : job[w].kind = "notify" /\ job[w].pc = "listed" =>
         \A a \in job[w].list : a.at > sent[job[w].by]

Mails == Typed /\ Timely /\ OneNotifies /\ Sent

MailsNew ==
    \A w \in Workers :
       (/\ job[w].kind = "notify" /\ job[w].pc = "listed" /\ job'[w].pc = "mailed"
        /\ job[w].by \notin cut)
          => job[w].list \cap mailed[job[w].by] = {}

-----------------------------------------------------------------------------
LEMMA ChangeRaces == ASSUME NEW w \in Workers, Change(w) PROVE R!Change(w)
  <1>1. ASSUME NEW k, CanServe(w, k) PROVE R!CanServe(w, k)
    BY <1>1 DEF CanServe, R!CanServe
  <1>2. ASSUME NEW k, NEW j, Serve(w, k, j) PROVE R!Serve(w, k, j)
    BY <1>1, <1>2 DEF Serve, R!Serve
  <1>3. ASSUME NEW u, NEW d, NEW v,
               \/ CreatePackage(w, u, d, v)
               \/ UpdatePackage(w, u, d, v)
               \/ BulkUpdatePackage(w, u, d, v)
        PROVE  \/ R!CreatePackage(w, u, d, v)
               \/ R!UpdatePackage(w, u, d, v)
               \/ R!BulkUpdatePackage(w, u, d, v)
    <2>1. CASE CreatePackage(w, u, d, v)
      BY <1>2, <2>1 DEF CreatePackage, R!CreatePackage, Changed, R!Changed, Idle, R!Idle
    <2>2. CASE UpdatePackage(w, u, d, v)
      BY <1>2, <2>2 DEF UpdatePackage, R!UpdatePackage, Changed, R!Changed, Idle, R!Idle
    <2>3. CASE BulkUpdatePackage(w, u, d, v)
      BY <1>2, <2>3 DEF BulkUpdatePackage, R!BulkUpdatePackage, Changed, R!Changed,
                        Idle, R!Idle
    <2>. QED  BY <1>3, <2>1, <2>2, <2>3
  <1>4. ASSUME NEW u, NEW d, DeletePackage(w, u, d) PROVE R!DeletePackage(w, u, d)
    BY <1>2, <1>4 DEF DeletePackage, R!DeletePackage, Changed, R!Changed, Idle, R!Idle
  <1>5. ASSUME NEW u, NEW o, UpdateOther(w, u, o) PROVE R!UpdateOther(w, u, o)
    BY <1>2, <1>5 DEF UpdateOther, R!UpdateOther, Changed, R!Changed, Idle, R!Idle,
                      tables, R!tables
  <1>. QED  BY <1>3, <1>4, <1>5 DEF Change, R!Change, Versions, R!Versions, Objects,
                                    R!Objects

LEMMA SameSize == ASSUME NEW S PROVE R!Cardinality(S) = Cardinality(S)
  BY DEF Cardinality, R!Cardinality

LEMMA SameQueries ==
    ASSUME NEW u
    PROVE  R!New(u) = New(u) /\ R!Pending(u) = Pending(u)
  <1>1. \A S, m, k : R!Latest(S, m, k) = Latest(S, m, k)
    BY SameSize DEF Latest, R!Latest
  <1>2. \A Kind : R!Followees(u, Kind) = Followees(u, Kind)
    BY DEF Followees, R!Followees
  <1>3. \A S : /\ R!UserActivities(S) = UserActivities(S)
               /\ R!GroupActivities(S) = GroupActivities(S)
    BY DEF UserActivities, R!UserActivities, GroupActivities, R!GroupActivities
  <1>4. R!Branches(u) = Branches(u)
    BY <1>2, <1>3 DEF Branches, R!Branches
  <1>5. R!Stream(u) = Stream(u)
    <2>1. \A a : R!Visible(u, a) <=> Visible(u, a)
      BY DEF Visible, R!Visible, PackageTypes, R!PackageTypes
    <2>. QED  BY <1>3, <1>4, <2>1 DEF Stream, R!Stream
  <1>6. R!Dashboard(u) = Dashboard(u)
    BY <1>1, <1>5 DEF Dashboard, R!Dashboard
  <1>7. R!Since(u) = Since(u)
    BY DEF Since, R!Since
  <1>. QED  BY <1>6, <1>7 DEF New, R!New, Pending, R!Pending

LEMMA NextRaces == Next => R!Next
  <1>. SUFFICES ASSUME NEW w \in Workers,
                       \/ clock < MaxTime /\ Change(w)
                       \/ \E d \in Datasets : PurgePackage(w, d)
                       \/ Emit(w) \/ CommitActivity(w)
                       \/ \E u \in Readers, o \in Objects : Follow(w, u, o) \/ Unfollow(w, u, o)
                       \/ \E g \in Groups, d \in Datasets, s \in {"active", "deleted"} :
                            SetMember(w, g, d, s)
                       \/ clock < MaxTime /\ \E u \in Readers : View(w, u)
                       \/ clock < MaxTime /\ Notify(w)
                       \/ MarkOld(w) \/ NotifyList(w) \/ NotifyMail(w) \/ NotifyFails(w)
                       \/ NotifySent(w) \/ NotifyEnd(w)
                       \/ Die(w)
                PROVE  R!Next
    BY DEF Next
  <1>1. ASSUME NEW k, CanServe(w, k) PROVE R!CanServe(w, k)
    BY <1>1 DEF CanServe, R!CanServe
  <1>2. ASSUME NEW k, NEW j, Serve(w, k, j) PROVE R!Serve(w, k, j)
    BY <1>1, <1>2 DEF Serve, R!Serve
  <1>3. ASSUME clock < MaxTime, Change(w) PROVE R!Next
    BY <1>3, ChangeRaces DEF R!Next
  <1>4. ASSUME NEW d \in Datasets, PurgePackage(w, d) PROVE R!Next
    <2>1. R!PurgePackage(w, d)
      BY <1>1, <1>4 DEF PurgePackage, R!PurgePackage
    <2>. QED  BY <2>1 DEF R!Next
  <1>5. ASSUME Emit(w) \/ CommitActivity(w) PROVE R!Next
    <2>1. R!Emit(w) \/ R!CommitActivity(w)
      BY <1>5 DEF Emit, CommitActivity, R!Emit, R!CommitActivity, ActivityOf, R!ActivityOf,
                  Public, R!Public, Idle, R!Idle, tables, R!tables
    <2>. QED  BY <2>1 DEF R!Next
  <1>6. ASSUME NEW u \in Readers, NEW o \in Objects, Follow(w, u, o) \/ Unfollow(w, u, o)
        PROVE  R!Next
    <2>1. R!Follow(w, u, o) \/ R!Unfollow(w, u, o)
      BY <1>1, <1>6 DEF Follow, Unfollow, R!Follow, R!Unfollow, Followees, R!Followees,
                        Objects, R!Objects
    <2>2. o \in R!Objects
      BY DEF Objects, R!Objects
    <2>. QED  BY <2>1, <2>2 DEF R!Next
  <1>7. ASSUME NEW g \in Groups, NEW d \in Datasets, NEW s \in {"active", "deleted"},
               SetMember(w, g, d, s)
        PROVE  R!Next
    <2>1. R!SetMember(w, g, d, s)
      BY <1>1, <1>7 DEF SetMember, R!SetMember
    <2>. QED  BY <2>1 DEF R!Next
  <1>8. ASSUME clock < MaxTime, NEW u \in Readers, View(w, u) PROVE R!Next
    <2>1. R!New(u) = New(u)
      BY SameQueries
    <2>2. R!View(w, u)
      BY <1>2, <1>8, <2>1 DEF View, R!View, Idle, R!Idle, tables, R!tables
    <2>. QED  BY <1>8, <2>2 DEF R!Next
  <1>9. ASSUME clock < MaxTime, Notify(w) PROVE R!Next
    <2>1. R!Notify(w)
      BY <1>2, <1>9 DEF Notify, R!Notify, Idle, R!Idle, tables, R!tables
    <2>. QED  BY <1>9, <2>1 DEF R!Next
  <1>10. ASSUME MarkOld(w) \/ NotifyMail(w) \/ NotifyFails(w) \/ NotifySent(w) \/ NotifyEnd(w)
                  \/ Die(w)
         PROVE  R!Next
    <2>1. R!MarkOld(w) \/ R!NotifyMail(w) \/ R!NotifyFails(w) \/ R!NotifySent(w)
            \/ R!NotifyEnd(w) \/ R!Die(w)
      BY <1>10 DEF MarkOld, R!MarkOld, NotifyMail, R!NotifyMail, NotifyFails, R!NotifyFails,
                   NotifySent, R!NotifySent, NotifyEnd, R!NotifyEnd, Die, R!Die, Idle, R!Idle,
                   tables, R!tables
    <2>. QED  BY <2>1 DEF R!Next
  <1>11. ASSUME NotifyList(w) PROVE R!Next
    <2>1. \A u : R!Pending(u) = Pending(u)
      BY SameQueries
    <2>2. R!NotifyList(w)
      BY <1>11, <2>1 DEF NotifyList, R!NotifyList, tables, R!tables
    <2>. QED  BY <2>2 DEF R!Next
  <1>. QED  BY <1>3, <1>4, <1>5, <1>6, <1>7, <1>8, <1>9, <1>10, <1>11

-----------------------------------------------------------------------------
LEMMA InitMails == Init => Mails
  <1>. SUFFICES ASSUME Init PROVE Mails
    OBVIOUS
  <1>1. Idle \in Job
    BY DEF Idle, Job
  <1>2. TypeOK
    BY <1>1 DEF Init, TypeOK
  <1>3. \A w \in Workers : job[w] = Idle
    BY DEF Init
  <1>4. \A u \in Readers : mailed[u] = {}
    BY DEF Init
  <1>. QED  BY <1>2, <1>3, <1>4 DEF Mails, Typed, Shape, Timely, Past, OneNotifies, Sent,
                                    Idle, Init

\* A request of worker w that is none of those which mail goes on with record
\* j, as long as what it knows is of its type and has been.
LEMMA JobStep ==
    ASSUME Mails, TypeOK', NEW w \in Workers, NEW j \in Job,
           job' = [job EXCEPT ![w] = j], Shape(j),
           clock' >= clock,
           \A a \in log' : a.at <= clock',
           \A a \in j.list : a.at <= clock',
           j.pc = "stamped" => j.act.at <= clock',
           \A u \in Readers : \A a \in mailed'[u] : a.at <= clock',
           j.kind = "notify" =>
             job[w].kind = "notify" \/ \A x \in Workers : job[x].kind # "notify"
    PROVE  Typed' /\ Timely' /\ OneNotifies'
  <1>1. \A x \in Workers : job'[x] = IF x = w THEN j ELSE job[x]
    BY DEF Mails, Typed, TypeOK
  <1>2. \A x \in Workers : job[x] \in Job /\ Shape(job[x])
    BY DEF Mails, Typed, TypeOK
  <1>3. Typed'
    BY <1>1, <1>2 DEF Typed
  <1>4. ASSUME NEW x \in Workers
        PROVE  /\ \A a \in job'[x].list : a.at <= clock'
               /\ job'[x].pc = "stamped" => job'[x].act.at <= clock'
    <2>1. CASE x = w
      BY <1>1, <2>1
    <2>2. CASE x # w
      <3>1. /\ \A a \in job[x].list : a.at <= clock /\ a.at \in Nat
            /\ job[x].pc = "stamped" => job[x].act.at <= clock /\ job[x].act.at \in Nat
        BY <1>2 DEF Mails, Timely, Past, Shape, Job, Activities
      <3>2. clock \in Nat /\ clock' \in Nat
        BY DEF Mails, Typed, TypeOK
      <3>. QED  BY <1>1, <2>2, <3>1, <3>2
    <2>. QED  BY <2>1, <2>2
  <1>5. Timely'
    BY <1>4 DEF Timely, Past
  <1>6. OneNotifies'
    BY <1>1 DEF Mails, OneNotifies
  <1>. QED  BY <1>3, <1>5, <1>6

\* The same, if nothing is mailed or noted as mailed.
LEMMA QuietStep ==
    ASSUME Mails, TypeOK', NEW w \in Workers, NEW j \in Job,
           job' = [job EXCEPT ![w] = j], Shape(j),
           clock' >= clock,
           \A a \in log' : a.at <= clock',
           \A a \in j.list : a.at <= clock',
           j.pc = "stamped" => j.act.at <= clock',
           UNCHANGED <<sent, mailed>>,
           job[w].pc = "mailed" => cut' = cut \cup {job[w].by},
           job[w].pc # "mailed" => cut' = cut,
           j.pc # "mailed",
           j.kind = "notify" =>
             job[w].kind = "notify" \/ \A x \in Workers : job[x].kind # "notify",
           (j.kind = "notify" /\ j.pc = "listed") => \A a \in j.list : a.at > sent[j.by]
    PROVE  Mails' /\ MailsNew
  <1>1. \A x \in Workers : job'[x] = IF x = w THEN j ELSE job[x]
    BY DEF Mails, Typed, TypeOK
  <1>2. \A u \in Readers : \A a \in mailed'[u] : a.at <= clock'
    <2>1. \A u \in Readers : \A a \in mailed[u] : a.at <= clock /\ a.at \in Nat
      BY DEF Mails, Timely, Past, Typed, TypeOK, Activities
    <2>2. clock \in Nat /\ clock' \in Nat
      BY DEF Mails, Typed, TypeOK
    <2>. QED  BY <2>1, <2>2
  <1>3. Typed' /\ Timely' /\ OneNotifies'
    BY <1>2, JobStep
  <1>4. ASSUME NEW u \in Readers \ cut', NEW a \in mailed[u]
        PROVE  a.at <= sent[u] \/ \E x \in Workers : job'[x].pc = "mailed" /\ job'[x].by = u
    <2>1. u \in Readers \ cut
      OBVIOUS
    <2>2. a.at <= sent[u] \/ \E x \in Workers : job[x].pc = "mailed" /\ job[x].by = u
      BY <2>1 DEF Mails, Sent
    <2>3. ASSUME NEW x \in Workers, job[x].pc = "mailed", job[x].by = u
          PROVE  x # w
      BY <2>3
    <2>. QED  BY <1>1, <2>2, <2>3
  <1>5. Sent'
    BY <1>1, <1>4 DEF Mails, Sent
  <1>6. MailsNew
    BY <1>1 DEF MailsNew
  <1>. QED  BY <1>3, <1>5, <1>6 DEF Mails

\* A step that neither is one of a request nor touches activities and mails.
LEMMA OtherStep ==
    ASSUME Mails, TypeOK', UNCHANGED <<log, sent, job, clock, mailed, cut>>
    PROVE  Mails' /\ MailsNew
  <1>1. Typed'
    BY DEF Mails, Typed, Shape
  <1>2. Timely' /\ OneNotifies' /\ Sent'
    BY DEF Mails, Timely, Past, OneNotifies, Sent
  <1>3. MailsNew
    BY DEF MailsNew
  <1>. QED  BY <1>1, <1>2, <1>3 DEF Mails

\* The request of user u that has changed object o: version v is in its session.
ChangeOf(u, o, t, v) ==
    [pc |-> "changed", kind |-> "change", by |-> u, obj |-> o, type |-> t, ver |-> v,
     act |-> Absent, todo |-> {}, list |-> {}]

LEMMA ChangedJob ==
    ASSUME NEW u, NEW o, NEW t, NEW v
    PROVE  [R!Changed(u, o, t, v) EXCEPT !.kind = "change"] = ChangeOf(u, o, t, v)
  <1>1. R!Idle = [pc |-> "idle", kind |-> "none", by |-> Absent, obj |-> Absent,
                  type |-> "none", ver |-> Absent, act |-> Absent, todo |-> {}, list |-> {}]
    BY DEF R!Idle
  <1>2. R!Changed(u, o, t, v) =
          [R!Idle EXCEPT !.pc = "changed", !.by = u, !.obj = o, !.type = t, !.ver = v]
    BY DEF R!Changed
  <1>3. R!Changed(u, o, t, v) =
          [pc |-> "changed", kind |-> "none", by |-> u, obj |-> o, type |-> t, ver |-> v,
           act |-> Absent, todo |-> {}, list |-> {}]
    BY <1>1, <1>2
  <1>4. ASSUME NEW r, r = [pc |-> "changed", kind |-> "none", by |-> u, obj |-> o,
                           type |-> t, ver |-> v, act |-> Absent, todo |-> {}, list |-> {}]
        PROVE  [r EXCEPT !.kind = "change"] = ChangeOf(u, o, t, v)
    BY <1>4 DEF ChangeOf
  <1>. QED  BY <1>3, <1>4

LEMMA ChangedTyped ==
    ASSUME NEW u \in Users, NEW o \in Objects, NEW t \in Types,
           NEW v \in Versions \cup {Absent}
    PROVE  /\ [R!Changed(u, o, t, v) EXCEPT !.kind = "change"] = ChangeOf(u, o, t, v)
           /\ ChangeOf(u, o, t, v) \in Job
           /\ Shape(ChangeOf(u, o, t, v))
           /\ ChangeOf(u, o, t, v).pc = "changed"
           /\ ChangeOf(u, o, t, v).kind = "change"
           /\ ChangeOf(u, o, t, v).list = {}
  <1>1. [R!Changed(u, o, t, v) EXCEPT !.kind = "change"] = ChangeOf(u, o, t, v)
    BY ChangedJob
  <1>2. ChangeOf(u, o, t, v) \in Job
    BY DEF ChangeOf, Job, Kinds
  <1>3. Shape(ChangeOf(u, o, t, v))
    BY DEF ChangeOf, Shape
  <1>. QED  BY <1>1, <1>2, <1>3 DEF ChangeOf

\* A request that changes something.
LEMMA ChangeStep ==
    ASSUME Mails, NEW w \in Workers, NEW u \in Users, NEW o \in Objects, NEW t \in Types,
           NEW v \in Versions \cup {Absent},
           R!Serve(w, "change", R!Changed(u, o, t, v)),
           pkg' \in [Datasets -> Versions \cup {Absent}],
           \A d \in Datasets : pkg[d] # Absent => pkg'[d] # Absent,
           member' \in [Groups -> [Datasets -> {"none", "active", "deleted"}]],
           UNCHANGED <<follows, log, viewed, sent, clock, told, mailed, cut>>
    PROVE  Mails' /\ MailsNew
  <1>. DEFINE j == ChangeOf(u, o, t, v)
  <1>1. j \in Job /\ Shape(j) /\ j.pc = "changed" /\ j.list = {} /\ j.kind = "change"
    BY ChangedTyped
  <1>2. job' = [job EXCEPT ![w] = j] /\ job[w].pc = "idle"
    <2>1. [R!Changed(u, o, t, v) EXCEPT !.kind = "change"] = j
      BY ChangedTyped
    <2>. QED  BY <2>1 DEF R!Serve, R!CanServe
  <1>. HIDE DEF j
  <1>3. TypeOK'
    BY <1>1, <1>2 DEF Mails, Typed, TypeOK
  <1>4. /\ \A a \in log' : a.at <= clock'
        /\ clock' >= clock
    BY DEF Mails, Timely, Past, Typed, TypeOK
  <1>. QED  BY <1>1, <1>2, <1>3, <1>4, QuietStep

LEMMA ChangesMail ==
    ASSUME Mails, NEW w \in Workers, R!Change(w)
    PROVE  Mails' /\ MailsNew
  <1>1. PICK u \in Actors :
          \/ \E d \in Datasets : \E v \in R!Versions :
               \/ R!CreatePackage(w, u, d, v)
               \/ R!UpdatePackage(w, u, d, v)
               \/ R!BulkUpdatePackage(w, u, d, v)
          \/ \E d \in Datasets : R!DeletePackage(w, u, d)
          \/ \E o \in R!Objects : R!UpdateOther(w, u, o)
    BY DEF R!Change
  <1>2. u \in Users
    BY PeopleAssumption
  <1>3. {"new package", "changed package", "changed group", "changed user"} \subseteq Types
    BY DEF Types, PackageTypes
  <1>4. /\ pkg \in [Datasets -> Versions \cup {Absent}]
        /\ member \in [Groups -> [Datasets -> {"none", "active", "deleted"}]]
    BY DEF Mails, Typed, TypeOK
  <1>5. ASSUME NEW d \in Datasets, NEW v \in R!Versions,
               \/ R!CreatePackage(w, u, d, v)
               \/ R!UpdatePackage(w, u, d, v)
               \/ R!BulkUpdatePackage(w, u, d, v)
        PROVE  Mails' /\ MailsNew
    <2>1. v \in Versions /\ d \in Objects /\ v # Absent
      BY AbsentAssumption DEF Versions, R!Versions, Objects
    <2>2. PICK t \in Types, y \in Versions \cup {Absent} :
            R!Serve(w, "change", R!Changed(u, d, t, y))
      BY <1>3, <1>5, <2>1 DEF R!CreatePackage, R!UpdatePackage, R!BulkUpdatePackage
    <2>3. /\ pkg' = [pkg EXCEPT ![d] = v]
          /\ UNCHANGED <<member, follows, log, viewed, sent, clock, told, mailed, cut>>
      BY <1>5 DEF R!CreatePackage, R!UpdatePackage, R!BulkUpdatePackage
    <2>4. /\ pkg' \in [Datasets -> Versions \cup {Absent}]
          /\ \A x \in Datasets : pkg[x] # Absent => pkg'[x] # Absent
      BY <1>4, <2>1, <2>3
    <2>. QED  BY <1>2, <1>4, <2>1, <2>2, <2>3, <2>4, ChangeStep
  <1>6. ASSUME NEW d \in Datasets, R!DeletePackage(w, u, d)
        PROVE  Mails' /\ MailsNew
    <2>. DEFINE y == [pkg[d] EXCEPT !.state = "deleted"]
    <2>1. pkg[d] \in Versions /\ d \in Objects
      BY <1>4, <1>6 DEF R!DeletePackage, Objects
    <2>2. y \in Versions /\ y # Absent
      BY <2>1, AbsentAssumption DEF Versions
    <2>3. /\ pkg' = [pkg EXCEPT ![d] = y]
          /\ R!Serve(w, "change", R!Changed(u, d, "changed package", y))
          /\ UNCHANGED <<follows, log, viewed, sent, clock, told, mailed, cut>>
      BY <1>6 DEF R!DeletePackage
    <2>. HIDE DEF y
    <2>4. /\ pkg' \in [Datasets -> Versions \cup {Absent}]
          /\ \A x \in Datasets : pkg[x] # Absent => pkg'[x] # Absent
      BY <1>4, <2>2, <2>3
    <2>5. member' \in [Groups -> [Datasets -> {"none", "active", "deleted"}]]
      BY <1>4, <1>6 DEF R!DeletePackage
    <2>6. "changed package" \in Types
      BY <1>3
    <2>. QED  BY <1>2, <2>1, <2>2, <2>3, <2>4, <2>5, <2>6, ChangeStep
  <1>7. ASSUME NEW o \in R!Objects, R!UpdateOther(w, u, o)
        PROVE  Mails' /\ MailsNew
    <2>1. o \in Objects
      BY DEF Objects, R!Objects
    <2>2. PICK t \in Types : R!Serve(w, "change", R!Changed(u, o, t, Absent))
      BY <1>3, <1>7 DEF R!UpdateOther
    <2>3. UNCHANGED <<pkg, member, follows, log, viewed, sent, clock, told, mailed, cut>>
      BY <1>7 DEF R!UpdateOther, R!tables
    <2>. QED  BY <1>2, <1>4, <2>1, <2>2, <2>3, ChangeStep
  <1>. QED  BY <1>1, <1>5, <1>6, <1>7

\* Rows of datasets, followers and groups.
LEMMA RowsMail ==
    ASSUME Mails, NEW w \in Workers,
           \/ \E d \in Datasets : R!PurgePackage(w, d)
           \/ \E u \in Readers, o \in R!Objects : R!Follow(w, u, o) \/ R!Unfollow(w, u, o)
           \/ \E g \in Groups, d \in Datasets, s \in {"active", "deleted"} :
                R!SetMember(w, g, d, s)
    PROVE  Mails' /\ MailsNew
  <1>. USE DEF Mails, Typed, TypeOK
  <1>1. ASSUME NEW d \in Datasets, R!PurgePackage(w, d) PROVE TypeOK'
    BY <1>1 DEF R!PurgePackage
  <1>2. ASSUME NEW u \in Readers, NEW o \in R!Objects,
               R!Follow(w, u, o) \/ R!Unfollow(w, u, o)
        PROVE  TypeOK'
    BY <1>2 DEF R!Follow, R!Unfollow, R!Objects, Objects
  <1>3. ASSUME NEW g \in Groups, NEW d \in Datasets, NEW s \in {"active", "deleted"},
               R!SetMember(w, g, d, s)
        PROVE  TypeOK'
    BY <1>3 DEF R!SetMember
  <1>4. UNCHANGED <<log, sent, job, clock, mailed, cut>>
    BY DEF R!PurgePackage, R!Follow, R!Unfollow, R!SetMember
  <1>5. TypeOK'
    BY <1>1, <1>2, <1>3
  <1>. QED  BY <1>4, <1>5, OtherStep

\* An activity is stamped, and committed later.
LEMMA EmitMails ==
    ASSUME Mails, NEW w \in Workers, R!Emit(w)
    PROVE  Mails' /\ MailsNew
  <1>. DEFINE r == job[w]
              v == IF r.ver # Absent \/ r.obj \notin Datasets THEN r.ver ELSE pkg[r.obj]
              a == R!ActivityOf(r, v)
              j == [r EXCEPT !.pc = "stamped", !.act = a]
  <1>1. r \in Job /\ Shape(r) /\ r.pc = "changed" /\ clock \in Nat
    BY DEF R!Emit, Mails, Typed, TypeOK
  <1>2. \A b \in r.list : b.at <= clock /\ b.at \in Nat
    BY <1>1 DEF Mails, Timely, Past, Job, Activities
  <1>3. \A b \in log : b.at <= clock /\ b.at \in Nat
    BY DEF Mails, Timely, Past, Typed, TypeOK, Activities
  <1>4. UNCHANGED <<pkg, member, follows, log, viewed, sent, told, mailed, cut>>
    BY DEF R!Emit, R!tables
  <1>5. CASE job' = [job EXCEPT ![w] = R!Idle] /\ UNCHANGED clock
    <2>1. /\ R!Idle \in Job /\ Shape(R!Idle) /\ R!Idle.list = {}
          /\ R!Idle.pc = "idle" /\ R!Idle.kind = "none"
      BY DEF R!Idle, Job, Shape
    <2>2. TypeOK'
      BY <1>4, <1>5, <2>1 DEF Mails, Typed, TypeOK
    <2>3. clock' >= clock
      BY <1>1, <1>5
    <2>. QED  BY <1>1, <1>3, <1>4, <1>5, <2>1, <2>2, <2>3, QuietStep
  <1>6. CASE clock' = clock + 1 /\ job' = [job EXCEPT ![w].pc = "stamped", ![w].act = a]
    <2>1. a \in Activities /\ a.at = clock + 1
      <3>1. a = [at |-> clock + 1, by |-> r.by, obj |-> r.obj, type |-> a.type,
                 public |-> a.public]
        BY DEF R!ActivityOf
      <3>2. a.type \in Types
        BY <1>1 DEF R!ActivityOf, Shape, Types, PackageTypes
      <3>3. a.public \in BOOLEAN
        BY DEF R!ActivityOf
      <3>. HIDE DEF a
      <3>. QED  BY <1>1, <3>1, <3>2, <3>3 DEF Activities, Shape
    <2>. HIDE DEF a
    <2>2. job' = [job EXCEPT ![w] = j]
      BY <1>6 DEF Mails, Typed, TypeOK
    <2>3. /\ j \in Job
          /\ j.list = r.list /\ j.pc = "stamped" /\ j.kind = r.kind /\ j.act = a
      BY <1>1, <2>1 DEF Job
    <2>4. Shape(j)
      BY <1>1, <2>1, <2>3 DEF Shape
    <2>. HIDE DEF j, r
    <2>5. TypeOK'
      <3>1. clock' \in Nat
        BY <1>1, <1>6
      <3>. QED  BY <1>4, <2>2, <2>3, <3>1 DEF Mails, Typed, TypeOK
    <2>6. \A b \in j.list : b.at <= clock'
      BY <1>1, <1>2, <1>6, <2>3
    <2>7. \A b \in log' : b.at <= clock'
      BY <1>1, <1>3, <1>4, <1>6
    <2>8. clock' >= clock /\ j.act.at <= clock'
      BY <1>1, <1>6, <2>1, <2>3
    <2>9. job[w].pc # "mailed" /\ j.pc # "mailed" /\ j.pc # "listed"
      BY <1>1, <2>3 DEF r
    <2>10. j.kind = "notify" => job[w].kind = "notify"
      BY <2>3 DEF r
    <2>. QED  BY <1>4, <2>2, <2>3, <2>4, <2>5, <2>6, <2>7, <2>8, <2>9, <2>10, QuietStep
  <1>. QED  BY <1>5, <1>6 DEF R!Emit

\* Worker w has nothing to do any more.
LEMMA IdleStep ==
    ASSUME Mails, NEW w \in Workers, job' = [job EXCEPT ![w] = R!Idle],
           log' \in SUBSET Activities, \A a \in log' : a.at <= clock',
           viewed' \in [Readers -> Nat], told' \in [Readers -> SUBSET Activities],
           clock' \in Nat, clock' >= clock, UNCHANGED <<pkg, member, follows, sent, mailed>>,
           cut' \in SUBSET Readers,
           job[w].pc = "mailed" => cut' = cut \cup {job[w].by},
           job[w].pc # "mailed" => cut' = cut
    PROVE  Mails' /\ MailsNew
  <1>1. /\ R!Idle \in Job /\ Shape(R!Idle) /\ R!Idle.list = {}
        /\ R!Idle.pc = "idle" /\ R!Idle.kind = "none"
    BY DEF R!Idle, Job, Shape
  <1>2. TypeOK'
    BY <1>1 DEF Mails, Typed, TypeOK
  <1>. QED  BY <1>1, <1>2, QuietStep

LEMMA CommitMails ==
    ASSUME Mails, NEW w \in Workers, R!CommitActivity(w)
    PROVE  Mails' /\ MailsNew
  <1>1. /\ job[w].pc = "stamped"
        /\ log' = log \cup {job[w].act}
        /\ job' = [job EXCEPT ![w] = R!Idle]
        /\ UNCHANGED <<pkg, member, follows, viewed, sent, clock, told, mailed, cut>>
    BY DEF R!CommitActivity, R!tables
  <1>2. job[w].act \in Activities /\ job[w].act.at <= clock
    BY <1>1 DEF Mails, Typed, Shape, Timely
  <1>3. clock \in Nat /\ log \subseteq Activities /\ \A a \in log : a.at <= clock
    BY DEF Mails, Typed, TypeOK, Timely, Past
  <1>4. viewed \in [Readers -> Nat] /\ told \in [Readers -> SUBSET Activities]
        /\ cut \subseteq Readers
    BY DEF Mails, Typed, TypeOK
  <1>5. clock' >= clock
    BY <1>1, <1>3
  <1>. QED  BY <1>1, <1>2, <1>3, <1>4, <1>5, IdleStep

-----------------------------------------------------------------------------
(* Dashboards. *)

LEMMA SinceExists ==
    ASSUME TypeOK, NEW u \in Readers
    PROVE  \E t \in {clock - Window, sent[u], viewed[u]} :
              \A s \in {clock - Window, sent[u], viewed[u]} : s <= t
  <1>. DEFINE c == clock - Window
  <1>1. sent[u] \in Int /\ viewed[u] \in Int /\ c \in Int
    BY LimitAssumption DEF TypeOK
  <1>. HIDE DEF c
  <1>2. \E t \in {c, sent[u], viewed[u]} : \A s \in {c, sent[u], viewed[u]} : s <= t
    <2>1. CASE c >= sent[u] /\ c >= viewed[u]
      BY <1>1, <2>1
    <2>2. CASE sent[u] >= c /\ sent[u] >= viewed[u]
      BY <1>1, <2>2
    <2>3. CASE viewed[u] >= c /\ viewed[u] >= sent[u]
      BY <1>1, <2>3
    <2>. QED  BY <1>1, <2>1, <2>2, <2>3
  <1>. QED  BY <1>2 DEF c

\* The time up to which nothing is mailed is not before the last mail.
LEMMA SinceSent ==
    ASSUME TypeOK, NEW u \in Readers
    PROVE  Since(u) \in Int /\ sent[u] <= Since(u)
  <1>1. sent[u] \in Int /\ viewed[u] \in Int /\ clock - Window \in Int
    BY LimitAssumption DEF TypeOK
  <1>2. /\ Since(u) \in {clock - Window, sent[u], viewed[u]}
        /\ \A s \in {clock - Window, sent[u], viewed[u]} : s <= Since(u)
    BY SinceExists DEF Since
  <1>. QED  BY <1>1, <1>2

LEMMA DashboardLogged ==
    ASSUME NEW u
    PROVE  Dashboard(u) \subseteq log
  <1>1. Stream(u) \subseteq log
    BY DEF Stream, Branches, UserActivities, GroupActivities
  <1>. QED  BY <1>1 DEF Dashboard, Latest

LEMMA ViewMails ==
    ASSUME Mails, NEW w \in Workers, NEW u \in Readers, R!View(w, u)
    PROVE  Mails' /\ MailsNew
  <1>. DEFINE j == [pc |-> "listed", kind |-> "view", by |-> u, obj |-> Absent,
                    type |-> "none", ver |-> Absent, act |-> Absent, todo |-> {},
                    list |-> New(u)]
  <1>1. log \subseteq Activities /\ \A a \in log : a.at <= clock
    BY DEF Mails, Typed, TypeOK, Timely, Past
  <1>2. New(u) \subseteq log
    BY DashboardLogged DEF New
  <1>3. /\ job[w].pc = "idle"
        /\ job' = [job EXCEPT ![w] = j]
        /\ UNCHANGED <<pkg, member, follows, log, viewed, sent, clock, told, mailed, cut>>
    <2>1. R!New(u) = New(u)
      BY SameQueries
    <2>. HIDE DEF New
    <2>. DEFINE i == [R!Idle EXCEPT !.pc = "listed", !.by = u, !.list = R!New(u)]
    <2>2. [i EXCEPT !.kind = "view"] = j
      <3>1. R!Idle = [pc |-> "idle", kind |-> "none", by |-> Absent, obj |-> Absent,
                      type |-> "none", ver |-> Absent, act |-> Absent, todo |-> {}, list |-> {}]
        BY DEF R!Idle
      <3>2. i = [pc |-> "listed", kind |-> "none", by |-> u, obj |-> Absent, type |-> "none",
                 ver |-> Absent, act |-> Absent, todo |-> {}, list |-> New(u)]
        <4>1. i = [R!Idle EXCEPT !.pc = "listed", !.by = u, !.list = R!New(u)]
          OBVIOUS
        <4>. HIDE DEF i
        <4>. QED  BY <2>1, <3>1, <4>1
      <3>. HIDE DEF i
      <3>3. ASSUME NEW r, r = [pc |-> "listed", kind |-> "none", by |-> u, obj |-> Absent,
                               type |-> "none", ver |-> Absent, act |-> Absent, todo |-> {},
                               list |-> New(u)]
            PROVE  [r EXCEPT !.kind = "view"] = j
        BY <3>3
      <3>. QED  BY <3>2, <3>3
    <2>. HIDE DEF j
    <2>. QED  BY <2>2 DEF R!View, R!Serve, R!CanServe, R!tables
  <1>4. /\ j \in Job /\ Shape(j)
        /\ j.list = New(u) /\ j.pc = "listed" /\ j.kind = "view"
    BY <1>1, <1>2, PeopleAssumption DEF Job, Shape, Kinds
  <1>. HIDE DEF j
  <1>5. TypeOK'
    BY <1>3, <1>4 DEF Mails, Typed, TypeOK
  <1>6. /\ \A a \in log' : a.at <= clock'
        /\ \A a \in j.list : a.at <= clock'
        /\ clock' >= clock
    BY <1>1, <1>2, <1>3, <1>4 DEF Mails, Typed, TypeOK
  <1>. QED  BY <1>3, <1>4, <1>5, <1>6, QuietStep

LEMMA MarkMails ==
    ASSUME Mails, NEW w \in Workers, R!MarkOld(w)
    PROVE  Mails' /\ MailsNew
  <1>1. /\ job[w].kind = "view"
        /\ clock' = clock + 1
        /\ viewed' = [viewed EXCEPT ![job[w].by] = clock + 1]
        /\ told' = [told EXCEPT ![job[w].by] = @ \cup job[w].list]
        /\ job' = [job EXCEPT ![w] = R!Idle]
        /\ UNCHANGED <<pkg, member, follows, log, sent, mailed, cut>>
    BY DEF R!MarkOld, R!tables
  <1>2. job[w].pc = "listed" /\ job[w].by \in Readers /\ job[w].list \subseteq Activities
    BY <1>1 DEF Mails, Typed, TypeOK, Shape, Job
  <1>3. /\ clock \in Nat /\ log \subseteq Activities /\ cut \subseteq Readers
        /\ viewed \in [Readers -> Nat] /\ told \in [Readers -> SUBSET Activities]
        /\ \A a \in log : a.at <= clock /\ a.at \in Nat
    BY DEF Mails, Typed, TypeOK, Timely, Past, Activities
  <1>4. /\ clock' \in Nat /\ clock' >= clock
        /\ viewed' \in [Readers -> Nat] /\ told' \in [Readers -> SUBSET Activities]
    BY <1>1, <1>2, <1>3
  <1>5. \A a \in log' : a.at <= clock'
    BY <1>1, <1>3
  <1>. QED  BY <1>1, <1>2, <1>3, <1>4, <1>5, IdleStep

-----------------------------------------------------------------------------
(* Mails. *)

\* A request goes on with record j, and mails nothing yet.
LEMMA NotifyStep ==
    ASSUME Mails, NEW w \in Workers, NEW j \in Job, job' = [job EXCEPT ![w] = j],
           Shape(j), j.kind = "notify", j.pc \in {"begin", "listed"},
           job[w].kind = "notify" \/ \A x \in Workers : job[x].kind # "notify",
           job[w].pc # "mailed", j.list \subseteq log,
           j.pc = "listed" => \A a \in j.list : a.at > sent[j.by],
           UNCHANGED <<pkg, member, follows, log, viewed, sent, clock, told, mailed, cut>>
    PROVE  Mails' /\ MailsNew
  <1>1. TypeOK'
    BY DEF Mails, Typed, TypeOK
  <1>2. /\ \A a \in log' : a.at <= clock'
        /\ clock' >= clock
    BY DEF Mails, Typed, TypeOK, Timely, Past
  <1>. QED  BY <1>1, <1>2, QuietStep

LEMMA NotifyBegins ==
    ASSUME Mails, NEW w \in Workers, R!Notify(w)
    PROVE  Mails' /\ MailsNew
  <1>. DEFINE j == [pc |-> "begin", kind |-> "notify", by |-> Absent, obj |-> Absent,
                    type |-> "none", ver |-> Absent, act |-> Absent, todo |-> Readers,
                    list |-> {}]
              i == [R!Idle EXCEPT !.pc = "begin", !.todo = Readers]
  <1>1. [i EXCEPT !.kind = "notify"] = j
    <2>1. R!Idle = [pc |-> "idle", kind |-> "none", by |-> Absent, obj |-> Absent,
                    type |-> "none", ver |-> Absent, act |-> Absent, todo |-> {}, list |-> {}]
      BY DEF R!Idle
    <2>2. i = [pc |-> "begin", kind |-> "none", by |-> Absent, obj |-> Absent, type |-> "none",
               ver |-> Absent, act |-> Absent, todo |-> Readers, list |-> {}]
      <3>1. i = [R!Idle EXCEPT !.pc = "begin", !.todo = Readers]
        OBVIOUS
      <3>. HIDE DEF i
      <3>. QED  BY <2>1, <3>1
    <2>. HIDE DEF i
    <2>3. ASSUME NEW r, r = [pc |-> "begin", kind |-> "none", by |-> Absent, obj |-> Absent,
                             type |-> "none", ver |-> Absent, act |-> Absent,
                             todo |-> Readers, list |-> {}]
          PROVE  [r EXCEPT !.kind = "notify"] = j
      BY <2>3
    <2>. QED  BY <2>2, <2>3
  <1>2. /\ j \in Job /\ Shape(j)
        /\ j.list = {} /\ j.pc = "begin" /\ j.kind = "notify"
    BY DEF Job, Shape, Kinds
  <1>. HIDE DEF j
  <1>3. /\ job[w].pc = "idle" /\ \A x \in Workers : job[x].kind # "notify"
        /\ job' = [job EXCEPT ![w] = j]
        /\ UNCHANGED <<pkg, member, follows, log, viewed, sent, clock, told, mailed, cut>>
    BY <1>1 DEF R!Notify, R!Serve, R!CanServe, R!tables
  <1>. QED  BY <1>2, <1>3, NotifyStep

LEMMA NotifyLists ==
    ASSUME Mails, NEW w \in Workers, R!NotifyList(w)
    PROVE  Mails' /\ MailsNew
  <1>1. job[w] \in Job /\ Shape(job[w]) /\ log \subseteq Activities /\ TypeOK
    BY DEF Mails, Typed, TypeOK
  <1>2. PICK u \in job[w].todo :
          /\ job[w].pc = "begin"
          /\ job' = [job EXCEPT ![w].pc = "listed", ![w].by = u,
                                ![w].todo = @ \ {u}, ![w].list = R!Pending(u)]
          /\ UNCHANGED <<pkg, member, follows, log, viewed, sent, clock, told, mailed, cut>>
    BY DEF R!NotifyList, R!tables
  <1>3. R!Pending(u) = Pending(u)
    BY SameQueries
  <1>4. u \in Readers
    BY <1>1 DEF Job
  <1>5. Pending(u) \subseteq log
    BY DashboardLogged DEF Pending
  <1>6. \A a \in Pending(u) : a.at > sent[u]
    <2>1. Since(u) \in Int /\ sent[u] <= Since(u) /\ sent[u] \in Int
      BY <1>1, <1>4, SinceSent DEF TypeOK
    <2>2. \A a \in Pending(u) : a.at > Since(u) /\ a.at \in Nat
      BY <1>1, <1>5 DEF Pending, Activities
    <2>. QED  BY <2>1, <2>2
  <1>. DEFINE T0 == job[w].todo \ {u}
              L0 == Pending(u)
              j == [job[w] EXCEPT !.pc = "listed", !.by = u, !.todo = T0, !.list = L0]
  <1>7. job' = [job EXCEPT ![w] = j]
    BY <1>1, <1>2, <1>3 DEF TypeOK
  <1>8. T0 \subseteq Readers /\ L0 \subseteq Activities
    BY <1>1, <1>5 DEF Job
  <1>. HIDE DEF T0, L0
  <1>9. /\ j \in Job /\ j.pc = "listed" /\ j.by = u /\ j.list = L0 /\ j.kind = job[w].kind
    BY <1>1, <1>4, <1>8, PeopleAssumption DEF Job
  <1>10. job[w].kind = "notify"
    BY <1>1, <1>2 DEF Shape
  <1>11. Shape(j)
    BY <1>4, <1>9, <1>10 DEF Shape
  <1>. HIDE DEF j
  <1>12. j.list \subseteq log /\ \A a \in j.list : a.at > sent[j.by]
    BY <1>5, <1>6, <1>9 DEF L0
  <1>. QED  BY <1>2, <1>7, <1>9, <1>10, <1>11, <1>12, NotifyStep

LEMMA NotifyMails ==
    ASSUME Mails, NEW w \in Workers, R!NotifyMail(w)
    PROVE  Mails' /\ MailsNew
  <1>. DEFINE u == job[w].by
              L == job[w].list
              j == [job[w] EXCEPT !.pc = "mailed"]
  <1>1. /\ job[w].kind = "notify" /\ job[w].pc = "listed"
        /\ told' = [told EXCEPT ![u] = @ \cup L]
        /\ mailed' = [mailed EXCEPT ![u] = @ \cup L]
        /\ job' = [job EXCEPT ![w].pc = "mailed"]
        /\ UNCHANGED <<pkg, member, follows, log, viewed, sent, clock, cut>>
    BY DEF R!NotifyMail, R!tables
  <1>2. /\ job[w] \in Job /\ u \in Readers /\ L \subseteq Activities
        /\ \A a \in L : a.at <= clock /\ a.at > sent[u]
    BY <1>1 DEF Mails, Typed, TypeOK, Shape, Job, Timely, Past, Sent
  <1>3. job' = [job EXCEPT ![w] = j]
    BY <1>1 DEF Mails, Typed, TypeOK
  <1>4. j \in Job /\ Shape(j) /\ j.by = u /\ j.list = L /\ j.pc = "mailed" /\ j.kind = "notify"
    BY <1>1, <1>2 DEF Job, Shape
  <1>. HIDE DEF u, L, j
  <1>5. \A x \in Workers : job'[x] = IF x = w THEN j ELSE job[x]
    BY <1>3 DEF Mails, Typed, TypeOK
  <1>6. \A y \in Readers : mailed'[y] = IF y = u THEN mailed[y] \cup L ELSE mailed[y]
    BY <1>1 DEF Mails, Typed, TypeOK
  <1>7. TypeOK'
    <2>1. /\ told' \in [Readers -> SUBSET Activities]
          /\ mailed' \in [Readers -> SUBSET Activities]
      BY <1>1, <1>2 DEF Mails, Typed, TypeOK
    <2>2. job' \in [Workers -> Job]
      BY <1>3, <1>4 DEF Mails, Typed, TypeOK
    <2>. QED  BY <1>1, <2>1, <2>2 DEF Mails, Typed, TypeOK
  <1>8. Typed' /\ Timely' /\ OneNotifies'
    <2>1. /\ \A a \in log' : a.at <= clock'
          /\ \A y \in Readers : \A a \in mailed'[y] : a.at <= clock'
          /\ clock' >= clock
      BY <1>1, <1>2, <1>6 DEF Mails, Typed, TypeOK, Timely, Past
    <2>2. \A a \in j.list : a.at <= clock'
      BY <1>1, <1>2, <1>4
    <2>. QED  BY <1>1, <1>3, <1>4, <1>7, <2>1, <2>2, JobStep
  <1>9. Sent'
    <2>1. ASSUME NEW y \in Readers \ cut', NEW a \in mailed'[y]
          PROVE  a.at <= sent'[y] \/ \E x \in Workers : job'[x].pc = "mailed" /\ job'[x].by = y
      <3>1. CASE y = u
        BY <1>4, <1>5, <3>1
      <3>2. CASE y # u
        <4>1. a \in mailed[y] /\ y \in Readers \ cut
          BY <1>1, <1>6, <3>2
        <4>2. a.at <= sent[y] \/ \E x \in Workers : job[x].pc = "mailed" /\ job[x].by = y
          BY <4>1 DEF Mails, Sent
        <4>. QED  BY <1>1, <1>5, <4>2
      <3>. QED  BY <3>1, <3>2
    <2>2. ASSUME NEW x \in Workers, job'[x].kind = "notify", job'[x].pc = "listed"
          PROVE  \A a \in job'[x].list : a.at > sent'[job'[x].by]
      <3>1. x # w
        BY <1>4, <1>5, <2>2
      <3>. QED  BY <1>1, <1>5, <2>2, <3>1 DEF Mails, Sent
    <2>. QED  BY <2>1, <2>2 DEF Sent
  <1>10. MailsNew
    <2>1. ASSUME NEW x \in Workers, job[x].pc = "listed", job'[x].pc = "mailed"
          PROVE  x = w
      BY <1>5, <2>1
    <2>2. ASSUME u \notin cut, NEW a \in L, a \in mailed[u]
          PROVE  FALSE
      <3>1. a.at <= sent[u] \/ \E x \in Workers : job[x].pc = "mailed" /\ job[x].by = u
        BY <1>2, <2>2 DEF Mails, Sent
      <3>2. \A x \in Workers : job[x].pc = "mailed" => x = w
        BY <1>1 DEF Mails, Typed, Shape, OneNotifies
      <3>3. a.at > sent[u] /\ a.at \in Int /\ sent[u] \in Int
        BY <1>2 DEF Mails, Typed, TypeOK, Activities
      <3>. QED  BY <1>1, <3>1, <3>2, <3>3
    <2>. QED  BY <2>1, <2>2 DEF MailsNew, u, L
  <1>. QED  BY <1>8, <1>9, <1>10 DEF Mails

LEMMA NotifySents ==
    ASSUME Mails, NEW w \in Workers, R!NotifySent(w)
    PROVE  Mails' /\ MailsNew
  <1>. DEFINE u == job[w].by
              L0 == {}
              j == [job[w] EXCEPT !.pc = "begin", !.by = Absent, !.list = L0]
  <1>1. /\ job[w].pc = "mailed"
        /\ clock' = clock + 1
        /\ sent' = [sent EXCEPT ![u] = clock + 1]
        /\ job' = [job EXCEPT ![w].pc = "begin", ![w].by = Absent, ![w].list = {}]
        /\ UNCHANGED <<pkg, member, follows, log, viewed, told, mailed, cut>>
    BY DEF R!NotifySent, R!tables
  <1>2. /\ job[w] \in Job /\ u \in Readers /\ job[w].kind = "notify" /\ clock \in Nat
    BY <1>1 DEF Mails, Typed, TypeOK, Shape
  <1>3. job' = [job EXCEPT ![w] = j]
    BY <1>1 DEF Mails, Typed, TypeOK
  <1>4. L0 \in SUBSET Activities
    OBVIOUS
  <1>. HIDE DEF L0
  <1>5. j \in Job /\ j.list = L0 /\ j.pc = "begin" /\ j.kind = "notify"
    BY <1>1, <1>2, <1>4 DEF Job
  <1>6. Shape(j)
    BY <1>5 DEF Shape
  <1>. HIDE DEF u, j
  <1>7. \A x \in Workers : job'[x] = IF x = w THEN j ELSE job[x]
    BY <1>3 DEF Mails, Typed, TypeOK
  <1>8. \A y \in Readers : sent'[y] = IF y = u THEN clock + 1 ELSE sent[y]
    BY <1>1 DEF Mails, Typed, TypeOK
  <1>9. /\ \A y \in Readers : \A a \in mailed[y] : a.at <= clock /\ a.at \in Nat
        /\ \A a \in log : a.at <= clock /\ a.at \in Nat
    BY DEF Mails, Typed, TypeOK, Timely, Past, Activities
  <1>10. TypeOK'
    <2>1. clock' \in Nat /\ sent' \in [Readers -> Nat]
      BY <1>1, <1>2 DEF Mails, Typed, TypeOK
    <2>2. job' \in [Workers -> Job]
      BY <1>3, <1>5 DEF Mails, Typed, TypeOK
    <2>. QED  BY <1>1, <2>1, <2>2 DEF Mails, Typed, TypeOK
  <1>11. Typed' /\ Timely' /\ OneNotifies'
    <2>1. /\ \A a \in log' : a.at <= clock'
          /\ \A y \in Readers : \A a \in mailed'[y] : a.at <= clock'
          /\ clock' >= clock
      BY <1>1, <1>2, <1>9
    <2>2. \A a \in j.list : a.at <= clock'
      BY <1>5 DEF L0
    <2>. QED  BY <1>2, <1>3, <1>5, <1>6, <1>10, <2>1, <2>2, JobStep
  <1>12. Sent'
    <2>1. ASSUME NEW y \in Readers \ cut', NEW a \in mailed'[y]
          PROVE  a.at <= sent'[y] \/ \E x \in Workers : job'[x].pc = "mailed" /\ job'[x].by = y
      <3>1. a \in mailed[y] /\ y \in Readers \ cut
        BY <1>1
      <3>2. CASE y = u
        BY <1>2, <1>8, <1>9, <3>1, <3>2
      <3>3. CASE y # u
        <4>1. a.at <= sent[y] \/ \E x \in Workers : job[x].pc = "mailed" /\ job[x].by = y
          BY <3>1 DEF Mails, Sent
        <4>2. \A x \in Workers : job[x].by = y => x # w
          BY <3>3 DEF u
        <4>. QED  BY <1>7, <1>8, <3>3, <4>1, <4>2
      <3>. QED  BY <3>2, <3>3
    <2>2. ASSUME NEW x \in Workers, job'[x].kind = "notify", job'[x].pc = "listed"
          PROVE  FALSE
      <3>1. x # w
        BY <1>5, <1>7, <2>2
      <3>2. job[x].kind = "notify"
        BY <1>7, <2>2, <3>1
      <3>. QED  BY <1>2, <3>1, <3>2 DEF Mails, OneNotifies
    <2>. QED  BY <2>1, <2>2 DEF Sent
  <1>13. MailsNew
    BY <1>5, <1>7 DEF MailsNew
  <1>. QED  BY <1>11, <1>12, <1>13 DEF Mails

\* A call that fails or ends, and a worker that dies.
LEMMA EndsMail ==
    ASSUME Mails, NEW w \in Workers, R!NotifyFails(w) \/ R!NotifyEnd(w) \/ R!Die(w)
    PROVE  Mails' /\ MailsNew
  <1>1. /\ job' = [job EXCEPT ![w] = R!Idle]
        /\ UNCHANGED <<pkg, member, follows, log, viewed, sent, clock, told, mailed>>
        /\ cut' = IF job[w].pc = "mailed" THEN cut \cup {job[w].by} ELSE cut
    BY DEF R!NotifyFails, R!NotifyEnd, R!Die, R!tables
  <1>2. /\ clock \in Nat /\ log \subseteq Activities /\ \A a \in log : a.at <= clock
        /\ viewed \in [Readers -> Nat] /\ told \in [Readers -> SUBSET Activities]
    BY DEF Mails, Typed, TypeOK, Timely, Past
  <1>3. cut' \in SUBSET Readers
    BY <1>1 DEF Mails, Typed, TypeOK, Shape
  <1>4. clock' >= clock
    BY <1>1, <1>2
  <1>. QED  BY <1>1, <1>2, <1>3, <1>4, IdleStep

LEMMA StepMails == ASSUME Mails, R!Next PROVE Mails' /\ MailsNew
  <1>1. PICK w \in Workers :
          \/ clock < MaxTime /\ R!Change(w)
          \/ \E d \in Datasets : R!PurgePackage(w, d)
          \/ R!Emit(w) \/ R!CommitActivity(w)
          \/ \E u \in Readers, o \in R!Objects : R!Follow(w, u, o) \/ R!Unfollow(w, u, o)
          \/ \E g \in Groups, d \in Datasets, s \in {"active", "deleted"} :
               R!SetMember(w, g, d, s)
          \/ clock < MaxTime /\ \E u \in Readers : R!View(w, u)
          \/ clock < MaxTime /\ R!Notify(w)
          \/ R!MarkOld(w) \/ R!NotifyList(w) \/ R!NotifyMail(w) \/ R!NotifyFails(w)
          \/ R!NotifySent(w) \/ R!NotifyEnd(w)
          \/ R!Die(w)
    BY DEF R!Next
  <1>. QED  BY <1>1, ChangesMail, RowsMail, EmitMails, CommitMails, ViewMails, MarkMails,
               NotifyBegins, NotifyLists, NotifyMails, NotifySents, EndsMail

LEMMA StuttersMail == ASSUME Mails, UNCHANGED vars PROVE Mails'
  <1>1. TypeOK' /\ UNCHANGED <<log, sent, job, clock, mailed, cut>>
    BY DEF Mails, Typed, TypeOK, vars
  <1>. QED  BY <1>1, OtherStep

\* No activity is mailed to the same user twice, whatever else goes on while
\* the mails are made and sent, unless a process died when it had sent one.
THEOREM MailedAlwaysOnce == MCSpec => MailedOnce
  <1>1. MCInit => Mails
    BY InitMails DEF MCInit
  <1>2. ASSUME Mails, MCNext PROVE Mails' /\ [MailsNew]_vars
    <2>1. CASE Next \/ R!Next
      BY <1>2, <2>1, NextRaces, StepMails
    <2>2. CASE UNCHANGED vars
      BY <1>2, <2>2, StuttersMail
    <2>. QED  BY <1>2, <2>1, <2>2 DEF MCNext
  <1>3. Mails /\ [MCNext]_<<vars, part, pages, changes, followers, tracking, lists, asked>>
          => Mails' /\ [MailsNew]_vars
    BY <1>2, StuttersMail
  <1>. QED  BY <1>1, <1>3, PTL DEF MCSpec, MailedOnce, MailsNew

-----------------------------------------------------------------------------
(* Pages of unions: the latest of a set are among the latest of its parts. *)

LEMMA LeastNumber ==
    ASSUME NEW S \in SUBSET Nat, S # {}
    PROVE  \E i \in S : \A j \in S : i <= j
  <1>. DEFINE Less == OpToRel(<, Nat)
  <1>1. IsWellFoundedOn(Less, Nat)
    BY NatLessThanWellFounded
  <1>2. \A i, j \in Nat : i < j => <<i, j>> \in Less
    BY DEF OpToRel
  <1>. HIDE DEF Less
  <1>3. PICK i \in S : \A j \in S : <<j, i>> \notin Less
    BY <1>1, WFMin
  <1>4. ASSUME NEW j \in S PROVE i <= j
    <2>1. i \in Nat /\ j \in Nat /\ ~(j < i)
      BY <1>2, <1>3
    <2>. QED  BY <2>1
  <1>. QED  BY <1>4

Later(S, a) == {b \in S : b.at > a.at}
Rank(S, a) == Cardinality(Later(S, a))

\* Sets of activities, and of the times they have.
LEMMA RankIsNumber ==
    ASSUME NEW S, IsFiniteSet(S), NEW a
    PROVE  IsFiniteSet(Later(S, a)) /\ Rank(S, a) \in Nat
  <1>1. Later(S, a) \in SUBSET S
    BY DEF Later
  <1>2. IsFiniteSet(Later(S, a))
    BY <1>1, FS_Subset
  <1>. QED  BY <1>2, FS_CardinalityType DEF Rank

LEMMA RankOfPart ==
    ASSUME NEW S, IsFiniteSet(S), NEW Q \in SUBSET S, NEW a
    PROVE  Rank(Q, a) <= Rank(S, a)
  <1>1. Later(Q, a) \in SUBSET Later(S, a)
    BY DEF Later
  <1>. QED  BY <1>1, RankIsNumber, FS_Subset DEF Rank

LEMMA RankDrops ==
    ASSUME NEW S, IsFiniteSet(S), \A b \in S : b.at \in Int, NEW a \in S, NEW b \in S,
           b.at > a.at
    PROVE  Rank(S, b) < Rank(S, a)
  <1>1. Later(S, b) \in SUBSET Later(S, a) /\ b \in Later(S, a) /\ b \notin Later(S, b)
    BY DEF Later
  <1>2. /\ IsFiniteSet(Later(S, a)) /\ Rank(S, a) \in Nat /\ Rank(S, b) \in Nat
    BY RankIsNumber
  <1>3. /\ Cardinality(Later(S, b)) <= Cardinality(Later(S, a))
        /\ Cardinality(Later(S, a)) = Cardinality(Later(S, b)) => Later(S, a) = Later(S, b)
    BY <1>1, <1>2, FS_Subset
  <1>. QED  BY <1>1, <1>2, <1>3 DEF Rank

\* There are m activities with less than m later ones, if there are m at all.
LEMMA EnoughLatest ==
    ASSUME NEW S, IsFiniteSet(S), \A b \in S : b.at \in Int, NEW m \in Nat,
           Cardinality(S) >= m
    PROVE  Cardinality({a \in S : Rank(S, a) < m}) >= m
  <1>. DEFINE M == {a \in S : Rank(S, a) < m}
              O == S \ M
  <1>1. M \in SUBSET S /\ IsFiniteSet(M) /\ Cardinality(M) \in Nat /\ Cardinality(S) \in Nat
    BY FS_Subset, FS_CardinalityType
  <1>2. SUFFICES ASSUME Cardinality(M) < m PROVE FALSE
    BY <1>1
  <1>3. O # {}
    BY <1>1, <1>2
  <1>4. PICK a \in O : \A b \in O : Rank(S, a) <= Rank(S, b)
    <2>. DEFINE N == {Rank(S, b) : b \in O}
    <2>1. N \subseteq Nat /\ N # {}
      BY <1>3, RankIsNumber
    <2>2. PICK i \in N : \A j \in N : i <= j
      <3>. HIDE DEF N
      <3>. QED  BY <2>1, LeastNumber
    <2>. QED  BY <2>2
  <1>5. ASSUME NEW b \in Later(S, a) PROVE b \in M
    <2>1. b \in S /\ b.at > a.at
      BY DEF Later
    <2>2. Rank(S, b) < Rank(S, a)
      BY <2>1, RankDrops
    <2>3. Rank(S, a) \in Nat /\ Rank(S, b) \in Nat
      BY RankIsNumber
    <2>. QED  BY <1>4, <2>1, <2>2, <2>3
  <1>6. Rank(S, a) <= Cardinality(M)
    BY <1>1, <1>5, FS_Subset DEF Rank
  <1>7. Rank(S, a) \in Nat
    BY RankIsNumber
  <1>. QED  BY <1>1, <1>2, <1>6, <1>7

\* The latest c of each part.
Cut(Parts, c) == UNION {Latest(B, c, 0) : B \in Parts}

\* The latest c of each part have the latest c of the union among them, and
\* everything else that they have is behind these.
LEMMA PageOfUnion ==
    ASSUME NEW S, IsFiniteSet(S), \A b \in S : b.at \in Int,
           NEW Parts, S = UNION Parts, NEW m \in Nat, NEW k \in Nat
    PROVE  Latest(Cut(Parts, m + k), m, k) = Latest(S, m, k)
  <1>. DEFINE c == m + k
              U == UNION {Latest(B, c, 0) : B \in Parts}
  <1>0. c \in Nat
    OBVIOUS
  <1>1. ASSUME NEW Q \in SUBSET S, NEW a
        PROVE  a \in Latest(Q, c, 0) <=> a \in Q /\ Rank(Q, a) < c
    <2>1. IsFiniteSet(Q)
      BY FS_Subset
    <2>2. Rank(Q, a) \in Nat
      BY <2>1, RankIsNumber
    <2>. QED  BY <2>2 DEF Latest, Rank, Later
  <1>2. U \in SUBSET S /\ IsFiniteSet(U)
    <2>1. U \in SUBSET S
      BY DEF Latest
    <2>. QED  BY <2>1, FS_Subset
  <1>3. ASSUME NEW a \in S, Rank(S, a) < c PROVE a \in U
    <2>1. PICK B \in Parts : a \in B
      OBVIOUS
    <2>2. Rank(B, a) <= Rank(S, a) /\ Rank(S, a) \in Nat /\ Rank(B, a) \in Nat
      <3>1. B \in SUBSET S /\ IsFiniteSet(B)
        BY FS_Subset
      <3>. QED  BY <3>1, RankOfPart, RankIsNumber
    <2>3. a \in Latest(B, c, 0)
      BY <1>1, <1>3, <2>1, <2>2
    <2>. QED  BY <2>3
  <1>. HIDE DEF U, c
  <1>4. ASSUME NEW a \in S, Rank(S, a) < c PROVE Rank(U, a) = Rank(S, a)
    <2>1. ASSUME NEW b \in Later(S, a) PROVE b \in U
      <3>1. b \in S /\ b.at > a.at
        BY DEF Later
      <3>2. Rank(S, b) < Rank(S, a) /\ Rank(S, a) \in Nat /\ Rank(S, b) \in Nat
        BY <3>1, RankDrops, RankIsNumber
      <3>3. Rank(S, b) < c
        BY <1>0, <1>4, <3>2
      <3>. QED  BY <1>3, <3>1, <3>3
    <2>2. Later(U, a) = Later(S, a)
      BY <1>2, <2>1 DEF Later
    <2>. QED  BY <2>2 DEF Rank
  <1>5. ASSUME NEW a \in U, Rank(S, a) >= c PROVE Rank(U, a) >= c
    <2>. DEFINE M == {b \in S : Rank(S, b) < c}
    <2>1. a \in S /\ Rank(S, a) \in Nat /\ Rank(U, a) \in Nat
      BY <1>2, RankIsNumber
    <2>2. Cardinality(S) >= c
      <3>1. Later(S, a) \in SUBSET S
        BY DEF Later
      <3>2. Rank(S, a) <= Cardinality(S) /\ Cardinality(S) \in Nat
        BY <3>1, FS_Subset, FS_CardinalityType DEF Rank
      <3>. QED  BY <1>0, <1>5, <2>1, <3>2
    <2>3. Cardinality(M) >= c
      BY <1>0, <2>2, EnoughLatest
    <2>4. ASSUME NEW b \in M PROVE b \in Later(U, a)
      <3>1. b \in U
        BY <1>3
      <3>2. b.at > a.at
        <4>1. SUFFICES ASSUME ~(b.at > a.at) PROVE FALSE
          OBVIOUS
        <4>2. Later(S, a) \in SUBSET Later(S, b)
          BY <2>1, <4>1 DEF Later
        <4>3. Rank(S, a) <= Rank(S, b) /\ Rank(S, b) \in Nat
          BY <4>2, RankIsNumber, FS_Subset DEF Rank
        <4>. QED  BY <1>0, <1>5, <2>1, <4>3
      <3>. QED  BY <3>1, <3>2 DEF Later
    <2>5. IsFiniteSet(Later(U, a)) /\ M \in SUBSET Later(U, a)
      BY <1>2, <2>4, RankIsNumber
    <2>6. Cardinality(M) <= Rank(U, a) /\ Cardinality(M) \in Nat
      <3>1. IsFiniteSet(M)
        BY <2>5, FS_Subset
      <3>. HIDE DEF M
      <3>. QED  BY <2>5, <3>1, FS_Subset, FS_CardinalityType DEF Rank
    <2>. QED  BY <1>0, <2>1, <2>3, <2>6
  <1>6. ASSUME NEW Q \in SUBSET S, NEW a
        PROVE  a \in Latest(Q, m, k) <=> a \in Q /\ Rank(Q, a) \in k..(k + m - 1)
    BY DEF Latest, Rank, Later
  <1>7. ASSUME NEW a
        PROVE  a \in Latest(U, m, k) <=> a \in Latest(S, m, k)
    <2>1. CASE a \in S /\ Rank(S, a) < c
      BY <1>2, <1>3, <1>4, <1>6, <2>1 DEF c
    <2>2. CASE a \in S /\ ~(Rank(S, a) < c)
      <3>1. Rank(S, a) \in Nat /\ Rank(U, a) \in Nat
        BY <1>2, RankIsNumber
      <3>2. a \notin Latest(S, m, k)
        <4>1. Rank(S, a) \notin k..(k + m - 1)
          BY <2>2, <3>1 DEF c
        <4>. QED  BY <1>6, <4>1
      <3>3. a \in U => Rank(U, a) >= c
        <4>1. Rank(S, a) >= c
          BY <1>0, <2>2, <3>1
        <4>. QED  BY <1>5, <4>1
      <3>4. a \notin Latest(U, m, k)
        <4>1. ASSUME a \in U PROVE Rank(U, a) \notin k..(k + m - 1)
          BY <3>1, <3>3, <4>1 DEF c
        <4>. QED  BY <1>2, <1>6, <4>1
      <3>. QED  BY <3>2, <3>4
    <2>3. CASE a \notin S
      BY <1>2, <1>6, <2>3
    <2>. QED  BY <2>1, <2>2, <2>3
  <1>8. Cut(Parts, m + k) = U
    BY DEF Cut, U, c
  <1>9. Latest(U, m, k) = Latest(S, m, k)
    <2>1. Latest(U, m, k) \subseteq S /\ Latest(S, m, k) \subseteq S
      BY <1>2 DEF Latest
    <2>. QED  BY <1>7, <2>1
  <1>. QED  BY <1>8, <1>9

\* Whatever has been logged, it is finitely much.
LEMMA LogFinite == ASSUME Mails, IsFiniteSet(log), R!Next PROVE IsFiniteSet(log')
  <1>1. PICK w \in Workers :
          \/ R!Change(w)
          \/ \E d \in Datasets : R!PurgePackage(w, d)
          \/ \E u \in Readers, o \in R!Objects : R!Follow(w, u, o) \/ R!Unfollow(w, u, o)
          \/ \E g \in Groups, d \in Datasets, s \in {"active", "deleted"} :
               R!SetMember(w, g, d, s)
          \/ \E u \in Readers : R!View(w, u)
          \/ R!Emit(w) \/ R!Notify(w) \/ R!MarkOld(w) \/ R!NotifyList(w) \/ R!NotifyMail(w)
          \/ R!NotifyFails(w) \/ R!NotifySent(w) \/ R!NotifyEnd(w) \/ R!Die(w)
          \/ R!CommitActivity(w)
    BY DEF R!Next
  <1>2. CASE R!CommitActivity(w)
    BY <1>2, FS_AddElement DEF R!CommitActivity
  <1>3. CASE R!Change(w)
    <2>1. UNCHANGED log
      BY <1>3 DEF R!Change, R!CreatePackage, R!UpdatePackage, R!BulkUpdatePackage,
                  R!DeletePackage, R!UpdateOther
    <2>. QED  BY <2>1
  <1>4. CASE R!Emit(w) \/ R!Notify(w) \/ R!MarkOld(w) \/ R!NotifyList(w) \/ R!NotifyMail(w)
              \/ R!NotifyFails(w) \/ R!NotifySent(w) \/ R!NotifyEnd(w) \/ R!Die(w)
    <2>1. UNCHANGED log
      BY <1>4 DEF R!Emit, R!Notify, R!MarkOld, R!NotifyList, R!NotifyMail, R!NotifyFails,
                  R!NotifySent, R!NotifyEnd, R!Die
    <2>. QED  BY <2>1
  <1>5. CASE \/ \E d \in Datasets : R!PurgePackage(w, d)
             \/ \E u \in Readers, o \in R!Objects : R!Follow(w, u, o) \/ R!Unfollow(w, u, o)
             \/ \E g \in Groups, d \in Datasets, s \in {"active", "deleted"} :
                  R!SetMember(w, g, d, s)
             \/ \E u \in Readers : R!View(w, u)
    <2>1. UNCHANGED log
      BY <1>5 DEF R!PurgePackage, R!Follow, R!Unfollow, R!SetMember, R!View
    <2>. QED  BY <2>1
  <1>. QED  BY <1>1, <1>2, <1>3, <1>4, <1>5

LEMMA BranchesCut ==
    ASSUME log \subseteq Activities, IsFiniteSet(log)
    PROVE  BranchLimitsSafe
  <1>1. ASSUME NEW u \in Readers, NEW m \in Nat, NEW k \in Nat
        PROVE  FollowedActivities(u, m, k) = Latest(UNION Branches(u), m, k)
    <2>1. UNION Branches(u) \in SUBSET log
      BY DEF Branches, UserActivities, GroupActivities
    <2>2. IsFiniteSet(UNION Branches(u)) /\ \A a \in UNION Branches(u) : a.at \in Int
      BY <2>1, FS_Subset DEF Activities
    <2>3. ASSUME NEW Parts, Parts = Branches(u), NEW S, S = UNION Parts
          PROVE  Latest(Cut(Parts, m + k), m, k) = Latest(S, m, k)
      <3>1. IsFiniteSet(S) /\ \A a \in S : a.at \in Int
        BY <2>2, <2>3
      <3>. QED  BY <2>3, <3>1, PageOfUnion
    <2>. QED  BY <2>3 DEF FollowedActivities, Cut
  <1>2. 1..2 \subseteq Nat /\ 0..2 \subseteq Nat
    OBVIOUS
  <1>. QED  BY <1>1, <1>2 DEF BranchLimitsSafe

-----------------------------------------------------------------------------
(* Dashboards that are looked at while nothing else is served. *)

DashboardsAlone == {"view", "notify"} \subseteq Alone

\* What the request of worker One knows is what the tables have; the times of
\* the activities are distinct.
Served ==
    /\ \A w \in Workers \ {One} : job[w] = Idle
    /\ \A a \in log : a.at \in 1..MaxTime
    /\ \A a, b \in log : a.at = b.at => a = b
    /\ One \in Workers =>
         LET j == job[One] IN
         /\ j.pc = "changed" => clock < MaxTime
         /\ j.pc = "stamped" => j.act.at \in 1..MaxTime /\ \A a \in log : a.at < j.act.at
         /\ j.kind = "view" => New(j.by) \subseteq j.list
         /\ j.kind = "notify" /\ j.pc \in {"listed", "mailed"} => Pending(j.by) \subseteq j.list
         /\ j.pc = "mailed" => j.list \subseteq told[j.by]

LEMMA SameLists ==
    ASSUME UNCHANGED <<pkg, member, follows, log, viewed>>, NEW u
    PROVE  /\ New(u)' = New(u)
           /\ UNCHANGED <<sent, clock>> => Pending(u)' = Pending(u)
  <1>1. Stream(u)' = Stream(u)
    BY DEF Stream, Branches, UserActivities, GroupActivities, Followees, Visible
  <1>2. Dashboard(u)' = Dashboard(u)
    BY <1>1 DEF Dashboard, Latest
  <1>3. UNCHANGED <<sent, clock>> => Since(u)' = Since(u)
    BY DEF Since
  <1>. QED  BY <1>2, <1>3 DEF New, Pending

LEMMA InitServed == Init => Served
  <1>. SUFFICES ASSUME Init PROVE Served
    OBVIOUS
  <1>1. \A w \in Workers : job[w] = Idle
    BY DEF Init
  <1>2. One \in Workers => job[One] = Idle
    BY <1>1
  <1>3. log = {}
    BY DEF Init
  <1>4. Idle.pc = "idle" /\ Idle.kind = "none"
    BY DEF Idle
  <1>. QED  BY <1>1, <1>2, <1>3, <1>4 DEF Served

\* Nobody but One is at work.
LEMMA OneActs ==
    ASSUME Mails, Served, Serial, NEW w \in Workers
    PROVE  /\ job[w].pc # "idle" => w = One
           /\ job[w].kind # "none" => w = One
           /\ \A j : job' = [job EXCEPT ![w] = j] /\ j.pc # "idle" => w = One
  <1>1. Idle.pc = "idle" /\ Idle.kind = "none"
    BY DEF Idle
  <1>2. w # One => job[w] = Idle /\ job'[w] = job[w]
    BY DEF Served, Serial
  <1>3. \A j : job' = [job EXCEPT ![w] = j] => job'[w] = j
    BY DEF Mails, Typed, TypeOK
  <1>. QED  BY <1>1, <1>2, <1>3

\* What the request of One has to know, if it is j after a step.
LEMMA ServedStep ==
    ASSUME Mails, Served, NEW j, One \in Workers, job' = [job EXCEPT ![One] = j],
           \A a \in log' : a.at \in 1..MaxTime,
           \A a, b \in log' : a.at = b.at => a = b,
           j.pc = "changed" => clock' < MaxTime,
           j.pc = "stamped" => j.act.at \in 1..MaxTime /\ \A a \in log' : a.at < j.act.at,
           j.kind = "view" => New(j.by)' \subseteq j.list,
           j.kind = "notify" /\ j.pc \in {"listed", "mailed"} => Pending(j.by)' \subseteq j.list,
           j.pc = "mailed" => j.list \subseteq told'[j.by]
    PROVE  Served'
  <1>1. job'[One] = j /\ \A w \in Workers \ {One} : job'[w] = job[w]
    BY DEF Mails, Typed, TypeOK
  <1>2. \A w \in Workers \ {One} : job'[w] = Idle
    BY <1>1 DEF Served
  <1>3. /\ New(job[One].by)' = New(j.by)'
        /\ Pending(job[One].by)' = Pending(j.by)'
    BY <1>1
  <1>. QED  BY <1>1, <1>2, <1>3 DEF Served

\* What is served when a request begins: nothing that looks at a dashboard.
LEMMA NothingViewed ==
    ASSUME DashboardsAlone, Mails, NEW w \in Workers, NEW k, CanServe(w, k)
    PROVE  \A x \in Workers : job[x].kind \notin {"view", "notify"} /\ job[x].pc # "mailed"
  <1>1. \A x \in Workers : job[x].kind \notin {"view", "notify"}
    BY DEF CanServe, DashboardsAlone
  <1>. QED  BY <1>1 DEF Mails, Typed, Shape

\* A step that is none of a request.
LEMMA ServedRows ==
    ASSUME DashboardsAlone, Mails, Served, NEW w \in Workers,
           \/ \E d \in Datasets : PurgePackage(w, d)
           \/ \E u \in Readers, o \in Objects : Follow(w, u, o) \/ Unfollow(w, u, o)
           \/ \E g \in Groups, d \in Datasets, s \in {"active", "deleted"} :
                SetMember(w, g, d, s)
    PROVE  Served' /\ UNCHANGED <<viewed, sent>>
  <1>1. CanServe(w, "change") /\ UNCHANGED <<log, viewed, sent, job, clock, told>>
    BY DEF PurgePackage, Follow, Unfollow, SetMember
  <1>2. \A x \in Workers : job[x].kind \notin {"view", "notify"} /\ job[x].pc # "mailed"
    BY <1>1, NothingViewed
  <1>. QED  BY <1>1, <1>2 DEF Served

LEMMA ServedChange ==
    ASSUME DashboardsAlone, Mails, Served, Serial, clock < MaxTime, NEW w \in Workers, Change(w)
    PROVE  Served' /\ UNCHANGED <<viewed, sent>>
  <1>1. R!Change(w)
    BY ChangeRaces
  <1>2. PICK j : /\ job' = [job EXCEPT ![w] = j]
                 /\ j.pc = "changed" /\ j.kind = "change"
    <2>1. PICK u, o, t, v : Serve(w, "change", Changed(u, o, t, v))
      BY DEF Change, CreatePackage, UpdatePackage, BulkUpdatePackage, DeletePackage, UpdateOther
    <2>2. [Changed(u, o, t, v) EXCEPT !.kind = "change"] = ChangeOf(u, o, t, v)
      <3>1. Changed(u, o, t, v) = R!Changed(u, o, t, v)
        BY DEF Changed, R!Changed, Idle, R!Idle
      <3>. QED  BY <3>1, ChangedJob
    <2>. QED  BY <2>1, <2>2 DEF Serve, ChangeOf
  <1>3. UNCHANGED <<log, viewed, sent, clock, told>>
    BY DEF Change, CreatePackage, UpdatePackage, BulkUpdatePackage, DeletePackage, UpdateOther
  <1>4. w = One
    BY <1>2, OneActs
  <1>5. /\ \A a \in log' : a.at \in 1..MaxTime
        /\ \A a, b \in log' : a.at = b.at => a = b
    BY <1>3 DEF Served
  <1>. QED  BY <1>2, <1>3, <1>4, <1>5, ServedStep

LEMMA ServedEmit ==
    ASSUME Mails, Served, Serial, NEW w \in Workers, Emit(w) \/ CommitActivity(w)
    PROVE  Served' /\ UNCHANGED <<viewed, sent>>
  <1>1. w = One
    BY OneActs DEF Emit, CommitActivity
  <1>2. /\ clock \in Nat /\ MaxTime \in Nat /\ job[w] \in Job /\ Shape(job[w])
        /\ \A a \in log : a.at <= clock /\ a.at \in Nat
    BY LimitAssumption DEF Mails, Typed, TypeOK, Timely, Past, Activities
  <1>3. Idle.pc = "idle" /\ Idle.kind = "none"
    BY DEF Idle
  <1>4. UNCHANGED <<viewed, sent, told>>
    BY DEF Emit, CommitActivity
  <1>5. CASE Emit(w)
    <2>1. UNCHANGED log /\ job[w].pc = "changed"
      BY <1>5 DEF Emit
    <2>2. clock < MaxTime
      BY <1>1, <2>1 DEF Served
    <2>3. /\ \A a \in log' : a.at \in 1..MaxTime
          /\ \A a, b \in log' : a.at = b.at => a = b
      BY <2>1 DEF Served
    <2>4. CASE job' = [job EXCEPT ![w] = Idle]
      BY <1>1, <1>3, <1>4, <2>3, <2>4, ServedStep
    <2>5. CASE job' # [job EXCEPT ![w] = Idle]
      <3>. DEFINE r == job[w]
                  v == IF r.ver # Absent \/ r.obj \notin Datasets THEN r.ver ELSE pkg[r.obj]
                  a == ActivityOf(r, v)
                  j == [r EXCEPT !.pc = "stamped", !.act = a]
      <3>1. clock' = clock + 1 /\ job' = [job EXCEPT ![w].pc = "stamped", ![w].act = a]
        BY <1>5, <2>5 DEF Emit
      <3>2. a.at = clock + 1
        BY DEF ActivityOf
      <3>. HIDE DEF a
      <3>3. job' = [job EXCEPT ![w] = j]
        BY <3>1 DEF Mails, Typed, TypeOK
      <3>4. j.pc = "stamped" /\ j.act = a /\ j.kind = r.kind
        BY <1>2 DEF Job
      <3>5. j.kind \notin {"view", "notify"}
        BY <1>2, <2>1, <3>4 DEF Shape
      <3>. HIDE DEF j, r
      <3>6. j.act.at \in 1..MaxTime /\ \A b \in log' : b.at < j.act.at
        BY <1>2, <2>1, <2>2, <3>2, <3>4
      <3>7. /\ One \in Workers /\ job' = [job EXCEPT ![One] = j]
            /\ j.pc # "changed" /\ j.pc # "mailed" /\ j.kind # "view" /\ j.kind # "notify"
        BY <1>1, <3>3, <3>4, <3>5
      <3>8. Served'
        BY <2>3, <3>6, <3>7, ServedStep
      <3>. QED  BY <1>4, <3>8
    <2>. QED  BY <1>4, <2>4, <2>5
  <1>6. CASE CommitActivity(w)
    <2>1. /\ job[w].pc = "stamped" /\ log' = log \cup {job[w].act}
          /\ job' = [job EXCEPT ![w] = Idle]
      BY <1>6 DEF CommitActivity
    <2>2. /\ job[w].act.at \in 1..MaxTime /\ \A a \in log : a.at < job[w].act.at
      BY <1>1, <2>1 DEF Served
    <2>3. /\ \A a \in log' : a.at \in 1..MaxTime
          /\ \A a, b \in log' : a.at = b.at => a = b
      <3>1. /\ \A a \in log : a.at \in 1..MaxTime
            /\ \A a, b \in log : a.at = b.at => a = b
        BY DEF Served
      <3>. QED  BY <1>2, <2>1, <2>2, <3>1
    <2>. QED  BY <1>1, <1>3, <1>4, <2>1, <2>3, ServedStep
  <1>. QED  BY <1>5, <1>6

\* A dashboard shows all that there is, if that is not more than it can show.
LEMMA DashboardWhole ==
    ASSUME Mails, Served, MaxTime <= Limit, NEW u
    PROVE  Dashboard(u) = Stream(u)
  <1>. DEFINE f == [a \in log |-> a.at]
  <1>1. f \in Injection(log, 1..MaxTime)
    BY DEF Served, Injection, IsInjective
  <1>2. IsFiniteSet(1..MaxTime) /\ Cardinality(1..MaxTime) = MaxTime /\ MaxTime \in Nat
    BY FS_Interval, LimitAssumption
  <1>. HIDE DEF f
  <1>3. IsFiniteSet(log) /\ Cardinality(log) <= MaxTime /\ Cardinality(log) \in Nat
    BY <1>1, <1>2, FS_Injection, FS_CardinalityType
  <1>4. Stream(u) \subseteq log /\ log \subseteq Activities
    BY DEF Stream, Branches, UserActivities, GroupActivities, Mails, Typed, TypeOK
  <1>5. ASSUME NEW a \in Stream(u) PROVE Rank(Stream(u), a) \in 0..(Limit - 1)
    <2>1. Later(Stream(u), a) \in SUBSET (log \ {a})
      BY <1>4 DEF Later, Activities
    <2>2. IsFiniteSet(log \ {a}) /\ Cardinality(log \ {a}) = Cardinality(log) - 1
      BY <1>3, <1>4, FS_RemoveElement
    <2>3. /\ Rank(Stream(u), a) <= Cardinality(log) - 1
          /\ Rank(Stream(u), a) \in Nat
      BY <2>1, <2>2, FS_Subset, FS_CardinalityType DEF Rank
    <2>. QED  BY <1>2, <1>3, <2>3, LimitAssumption
  <1>6. Limit \in Nat /\ 0 + Limit - 1 = Limit - 1
    BY LimitAssumption
  <1>. QED  BY <1>5, <1>6 DEF Dashboard, Latest, Rank, Later

LEMMA ServedView ==
    ASSUME DashboardsAlone, Mails, Served, Serial, NEW w \in Workers, NEW u \in Readers,
           View(w, u)
    PROVE  Served' /\ UNCHANGED <<viewed, sent>>
  <1>1. PICK j : /\ job' = [job EXCEPT ![w] = j]
                 /\ j.pc = "listed" /\ j.kind = "view" /\ j.by = u /\ j.list = New(u)
    <2>. DEFINE i == [Idle EXCEPT !.pc = "listed", !.by = u, !.list = New(u)]
    <2>1. Idle = [pc |-> "idle", kind |-> "none", by |-> Absent, obj |-> Absent,
                  type |-> "none", ver |-> Absent, act |-> Absent, todo |-> {}, list |-> {}]
      BY DEF Idle
    <2>2. i = [pc |-> "listed", kind |-> "none", by |-> u, obj |-> Absent, type |-> "none",
               ver |-> Absent, act |-> Absent, todo |-> {}, list |-> New(u)]
      <3>1. i = [Idle EXCEPT !.pc = "listed", !.by = u, !.list = New(u)]
        OBVIOUS
      <3>. HIDE DEF i
      <3>. QED  BY <2>1, <3>1
    <2>3. job' = [job EXCEPT ![w] = [i EXCEPT !.kind = "view"]]
      BY DEF View, Serve
    <2>. HIDE DEF i
    <2>4. ASSUME NEW r, r = [pc |-> "listed", kind |-> "none", by |-> u, obj |-> Absent,
                             type |-> "none", ver |-> Absent, act |-> Absent, todo |-> {},
                             list |-> New(u)]
          PROVE  LET j == [r EXCEPT !.kind = "view"] IN
                 j.pc = "listed" /\ j.kind = "view" /\ j.by = u /\ j.list = New(u)
      BY <2>4
    <2>5. LET j == [i EXCEPT !.kind = "view"] IN
          j.pc = "listed" /\ j.kind = "view" /\ j.by = u /\ j.list = New(u)
      BY <2>2, <2>4
    <2>. QED  BY <2>3, <2>5
  <1>2. UNCHANGED <<pkg, member, follows, log, viewed, sent, clock, told>>
    BY DEF View, tables
  <1>3. w = One
    BY <1>1, OneActs
  <1>4. New(j.by)' = New(j.by)
    BY <1>2, SameLists
  <1>5. /\ \A a \in log' : a.at \in 1..MaxTime
        /\ \A a, b \in log' : a.at = b.at => a = b
    BY <1>2 DEF Served
  <1>6. New(j.by)' \subseteq j.list
    BY <1>1, <1>4
  <1>7. Served'
    BY <1>1, <1>3, <1>5, <1>6, ServedStep
  <1>. QED  BY <1>2, <1>7

LEMMA ServedMark ==
    ASSUME Mails, Served, Serial, MaxTime <= Limit, NEW w \in Workers, MarkOld(w)
    PROVE  Served' /\ ~Skips
  <1>1. w = One
    <2>1. job[w].kind = "view"
      BY DEF MarkOld
    <2>. QED  BY <2>1, OneActs
  <1>. DEFINE u == job[w].by
  <1>2. /\ job[w].kind = "view"
        /\ viewed' = [viewed EXCEPT ![u] = clock + 1]
        /\ told' = [told EXCEPT ![u] = @ \cup job[w].list]
        /\ job' = [job EXCEPT ![w] = Idle]
        /\ UNCHANGED <<log, sent>>
    BY DEF MarkOld
  <1>3. Idle.pc = "idle" /\ Idle.kind = "none"
    BY DEF Idle
  <1>4. /\ \A a \in log' : a.at \in 1..MaxTime
        /\ \A a, b \in log' : a.at = b.at => a = b
    BY <1>2 DEF Served
  <1>5. Served'
    BY <1>1, <1>2, <1>3, <1>4, ServedStep
  <1>6. u \in Readers
    BY <1>2 DEF Mails, Typed, Shape
  <1>7. New(u) \subseteq told'[u]
    BY <1>1, <1>2, <1>6 DEF Served, Mails, Typed, TypeOK
  <1>8. {a \in Stream(u) : a.by # u /\ a.at > viewed[u]} \subseteq told'[u]
    BY <1>7, DashboardWhole DEF New
  <1>9. \A y \in Readers : y # u => viewed'[y] = viewed[y]
    BY <1>2 DEF Mails, Typed, TypeOK
  <1>10. UNCHANGED sent
    BY <1>2
  <1>. HIDE DEF u
  <1>11. ~Skips
    BY <1>8, <1>9, <1>10 DEF Skips
  <1>. QED  BY <1>5, <1>11

LEMMA ServedNotify ==
    ASSUME Mails, Served, Serial, NEW w \in Workers, Notify(w)
    PROVE  Served' /\ UNCHANGED <<viewed, sent>>
  <1>1. PICK j : job' = [job EXCEPT ![w] = j] /\ j.pc = "begin"
    <2>. DEFINE i == [Idle EXCEPT !.pc = "begin", !.todo = Readers]
    <2>1. Idle = [pc |-> "idle", kind |-> "none", by |-> Absent, obj |-> Absent,
                  type |-> "none", ver |-> Absent, act |-> Absent, todo |-> {}, list |-> {}]
      BY DEF Idle
    <2>2. i = [pc |-> "begin", kind |-> "none", by |-> Absent, obj |-> Absent, type |-> "none",
               ver |-> Absent, act |-> Absent, todo |-> Readers, list |-> {}]
      <3>1. i = [Idle EXCEPT !.pc = "begin", !.todo = Readers]
        OBVIOUS
      <3>. HIDE DEF i
      <3>. QED  BY <2>1, <3>1
    <2>3. job' = [job EXCEPT ![w] = [i EXCEPT !.kind = "notify"]]
      BY DEF Notify, Serve
    <2>. HIDE DEF i
    <2>4. ASSUME NEW r, r = [pc |-> "begin", kind |-> "none", by |-> Absent, obj |-> Absent,
                             type |-> "none", ver |-> Absent, act |-> Absent,
                             todo |-> Readers, list |-> {}]
          PROVE  [r EXCEPT !.kind = "notify"].pc = "begin"
      BY <2>4
    <2>5. [i EXCEPT !.kind = "notify"].pc = "begin"
      BY <2>2, <2>4
    <2>. QED  BY <2>3, <2>5
  <1>2. UNCHANGED <<log, viewed, sent, clock, told>>
    BY DEF Notify
  <1>3. w = One
    BY <1>1, OneActs
  <1>4. /\ \A a \in log' : a.at \in 1..MaxTime
        /\ \A a, b \in log' : a.at = b.at => a = b
    BY <1>2 DEF Served
  <1>5. job'[w] = j /\ Shape(job'[w])
    <2>1. R!Notify(w)
      <3>1. R!Serve(w, "notify", [Idle EXCEPT !.pc = "begin", !.todo = Readers])
        BY DEF Notify, Serve, R!Serve, CanServe, R!CanServe
      <3>. QED  BY <3>1 DEF Notify, R!Notify, Idle, R!Idle, tables, R!tables
    <2>2. Mails'
      BY <2>1, NotifyBegins
    <2>. QED  BY <1>1, <2>2 DEF Mails, Typed, TypeOK
  <1>6. j.kind # "view"
    BY <1>1, <1>5 DEF Shape
  <1>7. Served'
    BY <1>1, <1>3, <1>4, <1>6, ServedStep
  <1>. QED  BY <1>2, <1>7

LEMMA ServedList ==
    ASSUME Mails, Served, Serial, NEW w \in Workers, NotifyList(w)
    PROVE  Served' /\ UNCHANGED <<viewed, sent>>
  <1>1. PICK u \in job[w].todo :
          /\ job[w].pc = "begin"
          /\ job' = [job EXCEPT ![w].pc = "listed", ![w].by = u,
                                ![w].todo = @ \ {u}, ![w].list = Pending(u)]
          /\ UNCHANGED <<pkg, member, follows, log, viewed, sent, clock, told>>
    BY DEF NotifyList, tables
  <1>2. w = One
    BY <1>1, OneActs
  <1>3. PICK j : /\ job' = [job EXCEPT ![w] = j]
                 /\ j.pc = "listed" /\ j.by = u /\ j.list = Pending(u) /\ j.kind = "notify"
    <2>1. job[w] \in Job /\ Shape(job[w])
      BY DEF Mails, Typed, TypeOK
    <2>. DEFINE T0 == job[w].todo \ {u}
                L0 == Pending(u)
                i == [job[w] EXCEPT !.pc = "listed", !.by = u, !.todo = T0, !.list = L0]
    <2>2. job' = [job EXCEPT ![w] = i]
      BY <1>1 DEF Mails, Typed, TypeOK
    <2>. HIDE DEF T0, L0
    <2>3. i.pc = "listed" /\ i.by = u /\ i.list = L0 /\ i.kind = "notify"
      BY <1>1, <2>1 DEF Job, Shape
    <2>. HIDE DEF i
    <2>. QED  BY <2>2, <2>3 DEF L0
  <1>4. Pending(j.by)' = Pending(j.by)
    BY <1>1, SameLists
  <1>5. /\ \A a \in log' : a.at \in 1..MaxTime
        /\ \A a, b \in log' : a.at = b.at => a = b
    BY <1>1 DEF Served
  <1>6. Pending(j.by)' \subseteq j.list
    BY <1>3, <1>4
  <1>7. Served'
    BY <1>2, <1>3, <1>5, <1>6, ServedStep
  <1>. QED  BY <1>1, <1>7

LEMMA ServedMail ==
    ASSUME Mails, Served, Serial, NEW w \in Workers, NotifyMail(w)
    PROVE  Served' /\ UNCHANGED <<viewed, sent>>
  <1>1. PICK j : /\ job' = [job EXCEPT ![w] = j] /\ j.pc = "mailed"
                 /\ j.by = job[w].by /\ j.list = job[w].list /\ j.kind = "notify"
    <2>. DEFINE i == [job[w] EXCEPT !.pc = "mailed"]
    <2>1. job' = [job EXCEPT ![w] = i]
      BY DEF NotifyMail, Mails, Typed, TypeOK
    <2>2. job[w] \in Job /\ job[w].kind = "notify"
      BY DEF NotifyMail, Mails, Typed, TypeOK
    <2>3. i.pc = "mailed" /\ i.by = job[w].by /\ i.list = job[w].list /\ i.kind = "notify"
      BY <2>2 DEF Job
    <2>. HIDE DEF i
    <2>. QED  BY <2>1, <2>3
  <1>2. /\ job[w].kind = "notify" /\ job[w].pc = "listed"
        /\ told' = [told EXCEPT ![job[w].by] = @ \cup job[w].list]
        /\ UNCHANGED <<pkg, member, follows, log, viewed, sent, clock>>
    BY DEF NotifyMail, tables
  <1>3. w = One
    BY <1>1, OneActs
  <1>4. job[w].by \in Readers
    BY <1>2 DEF Mails, Typed, TypeOK, Shape
  <1>5. Pending(j.by) \subseteq j.list
    BY <1>1, <1>2, <1>3 DEF Served
  <1>6. Pending(j.by)' = Pending(j.by)
    BY <1>2, SameLists
  <1>7. Pending(j.by)' \subseteq j.list
    BY <1>5, <1>6
  <1>8. j.list \subseteq told'[j.by]
    BY <1>1, <1>2, <1>4 DEF Mails, Typed, TypeOK
  <1>9. /\ \A a \in log' : a.at \in 1..MaxTime
        /\ \A a, b \in log' : a.at = b.at => a = b
    BY <1>2 DEF Served
  <1>10. Served'
    BY <1>1, <1>3, <1>7, <1>8, <1>9, ServedStep
  <1>. QED  BY <1>2, <1>10

LEMMA ServedSent ==
    ASSUME Mails, Served, Serial, MaxTime <= Limit, NEW w \in Workers, NotifySent(w)
    PROVE  Served' /\ ~Skips
  <1>. DEFINE u == job[w].by
              L0 == {}
              j == [job[w] EXCEPT !.pc = "begin", !.by = Absent, !.list = L0]
  <1>1. /\ job[w].pc = "mailed"
        /\ sent' = [sent EXCEPT ![u] = clock + 1]
        /\ job' = [job EXCEPT ![w] = j]
        /\ UNCHANGED <<log, viewed, told>>
    BY DEF NotifySent, Mails, Typed, TypeOK
  <1>2. w = One
    BY <1>1, OneActs
  <1>3. job[w] \in Job /\ u \in Readers /\ job[w].kind = "notify"
    BY <1>1 DEF Mails, Typed, TypeOK, Shape
  <1>. HIDE DEF L0
  <1>4. j.pc = "begin" /\ j.kind = "notify"
    BY <1>3 DEF Job
  <1>. HIDE DEF j
  <1>5. /\ \A a \in log' : a.at \in 1..MaxTime
        /\ \A a, b \in log' : a.at = b.at => a = b
    BY <1>1 DEF Served
  <1>6. Served'
    BY <1>1, <1>2, <1>4, <1>5, ServedStep
  <1>7. Pending(u) \subseteq told[u]
    BY <1>1, <1>2, <1>3 DEF Served
  <1>8. ASSUME NEW a \in Stream(u), a.by # u, a.at > sent[u], a.at > viewed[u],
               a.at > clock - Window
        PROVE  a \in told[u]
    <2>1. Since(u) \in {clock - Window, sent[u], viewed[u]}
      <3>1. \E t \in {clock - Window, sent[u], viewed[u]} :
              \A s \in {clock - Window, sent[u], viewed[u]} : s <= t
        BY <1>3, SinceExists DEF Mails, Typed
      <3>. QED  BY <3>1 DEF Since
    <2>2. a.at > Since(u)
      BY <1>8, <2>1
    <2>3. a \in Pending(u)
      BY <1>8, <2>2, DashboardWhole DEF Pending
    <2>. QED  BY <1>7, <2>3
  <1>9. \A y \in Readers : y # u => sent'[y] = sent[y]
    BY <1>1 DEF Mails, Typed, TypeOK
  <1>10. UNCHANGED viewed
    BY <1>1
  <1>. HIDE DEF u
  <1>11. ~Skips
    BY <1>8, <1>9, <1>10 DEF Skips
  <1>. QED  BY <1>6, <1>11

LEMMA ServedEnds ==
    ASSUME Mails, Served, Serial, NEW w \in Workers, NotifyFails(w) \/ NotifyEnd(w) \/ Die(w)
    PROVE  Served' /\ UNCHANGED <<viewed, sent>>
  <1>1. /\ job[w].pc # "idle" /\ job' = [job EXCEPT ![w] = Idle]
        /\ UNCHANGED <<log, viewed, sent>>
    BY DEF NotifyFails, NotifyEnd, Die
  <1>2. w = One
    BY <1>1, OneActs
  <1>3. Idle.pc = "idle" /\ Idle.kind = "none"
    BY DEF Idle
  <1>4. /\ \A a \in log' : a.at \in 1..MaxTime
        /\ \A a, b \in log' : a.at = b.at => a = b
    BY <1>1 DEF Served
  <1>5. Served'
    BY <1>1, <1>2, <1>3, <1>4, ServedStep
  <1>. QED  BY <1>1, <1>5

LEMMA StuttersServed == ASSUME Served, UNCHANGED vars PROVE Served'
  <1>1. \A u : New(u)' = New(u) /\ Pending(u)' = Pending(u)
    BY SameLists DEF vars, tables
  <1>. QED  BY <1>1 DEF Served, vars

\* A step of a site where requests that look at dashboards are alone, and are
\* served one after another: what the request at work knows stays right, and
\* nothing is skipped.
LEMMA StepServed ==
    ASSUME DashboardsAlone, MaxTime <= Limit, Mails, Served, Next, Serial
    PROVE  Served' /\ ~Skips
  <1>1. UNCHANGED <<viewed, sent>> => ~Skips
    BY DEF Skips
  <1>2. PICK w \in Workers :
          \/ clock < MaxTime /\ Change(w)
          \/ \E d \in Datasets : PurgePackage(w, d)
          \/ \E u \in Readers, o \in Objects : Follow(w, u, o) \/ Unfollow(w, u, o)
          \/ \E g \in Groups, d \in Datasets, s \in {"active", "deleted"} :
               SetMember(w, g, d, s)
          \/ \E u \in Readers : View(w, u)
          \/ Emit(w) \/ Notify(w) \/ MarkOld(w) \/ NotifyList(w) \/ NotifyMail(w)
          \/ NotifyFails(w) \/ NotifySent(w) \/ NotifyEnd(w) \/ Die(w) \/ CommitActivity(w)
    BY DEF Next
  <1>3. CASE clock < MaxTime /\ Change(w)
    BY <1>1, <1>3, ServedChange
  <1>4. CASE \/ \E d \in Datasets : PurgePackage(w, d)
             \/ \E u \in Readers, o \in Objects : Follow(w, u, o) \/ Unfollow(w, u, o)
             \/ \E g \in Groups, d \in Datasets, s \in {"active", "deleted"} :
                  SetMember(w, g, d, s)
    BY <1>1, <1>4, ServedRows
  <1>5. CASE \E u \in Readers : View(w, u)
    BY <1>1, <1>5, ServedView
  <1>6. CASE Emit(w) \/ CommitActivity(w)
    BY <1>1, <1>6, ServedEmit
  <1>7. CASE Notify(w)
    BY <1>1, <1>7, ServedNotify
  <1>8. CASE NotifyList(w)
    BY <1>1, <1>8, ServedList
  <1>9. CASE NotifyMail(w)
    BY <1>1, <1>9, ServedMail
  <1>10. CASE MarkOld(w)
    BY <1>10, ServedMark
  <1>11. CASE NotifySent(w)
    BY <1>11, ServedSent
  <1>12. CASE NotifyFails(w) \/ NotifyEnd(w) \/ Die(w)
    BY <1>1, <1>12, ServedEnds
  <1>. QED  BY <1>2, <1>3, <1>4, <1>5, <1>6, <1>7, <1>8, <1>9, <1>10, <1>11, <1>12

\* On a site that serves requests one after another, and whose dashboards
\* show all the activities there are, marking a dashboard as seen and sending
\* an email skip no activity, and cutting the branches of a dashboard before
\* they are merged loses none (dashboard_mark_activities_old,
\* get_and_send_notifications_for_user, _activities_limit).
THEOREM NothingEverSkipped ==
    ASSUME DashboardsAlone, MaxTime <= Limit
    PROVE  MCSpec => NothingSkipped
  <1>. DEFINE Inv == /\ Mails /\ IsFiniteSet(log)
                     /\ part = "streams" => Served
              all == <<vars, part, pages, changes, followers, tracking, lists, asked>>
  <1>1. MCInit => Inv
    <2>. SUFFICES ASSUME MCInit PROVE Inv
      OBVIOUS
    <2>1. Mails /\ Served
      BY InitMails, InitServed DEF MCInit
    <2>2. IsFiniteSet(log)
      BY FS_EmptySet DEF MCInit, Init
    <2>. QED  BY <2>1, <2>2
  <1>2. Inv /\ [MCNext]_all => Inv' /\ [part = "streams" => ~Skips]_vars
    <2>. SUFFICES ASSUME Inv, [MCNext]_all
                  PROVE  Inv' /\ [part = "streams" => ~Skips]_vars
      OBVIOUS
    <2>1. CASE UNCHANGED vars /\ UNCHANGED part
      <3>1. Mails'
        BY <2>1, StuttersMail
      <3>2. part = "streams" => Served'
        BY <2>1, StuttersServed
      <3>. QED  BY <2>1, <3>1, <3>2 DEF vars, tables
    <2>2. CASE part = "streams" /\ Next /\ Serial /\ UNCHANGED part
      BY <2>2, NextRaces, StepMails, LogFinite, StepServed
    <2>3. CASE part = "racing" /\ R!Next /\ UNCHANGED part
      BY <2>3, StepMails, LogFinite
    <2>. QED  BY <2>1, <2>2, <2>3 DEF MCNext
  <1>3. Inv => BranchLimitsSafe
    BY BranchesCut DEF Mails, Typed, TypeOK
  <1>. QED  BY <1>1, <1>2, <1>3, PTL DEF MCSpec, NothingSkipped

-----------------------------------------------------------------------------
(* Pages of an activity stream.  A page shows an interval of the times.    *)

\* What the limits and the parameters have to be: a page is not empty, and one
\* activity more than it shows can be asked for.
PageLimits ==
    /\ BaseLimit \in Nat \ {0} /\ MaxLimit \in Nat /\ BaseLimit < MaxLimit
    /\ MaxActivities \in Nat /\ None \notin Nat

Larger(i, j) == IF i > j THEN i ELSE j
Smaller(i, j) == IF i < j THEN i ELSE j

\* The three kinds of pages, and what they show.
FirstPage(p) ==
    /\ p.after = None /\ p.before = None
    /\ p.shown = Larger(1, p.of - BaseLimit + 1)..p.of
    /\ p.more = (p.of > BaseLimit)
OlderPage(p) ==
    /\ p.after = None /\ p.before \in 2..p.of
    /\ p.shown = Larger(1, p.before - BaseLimit)..(p.before - 1)
    /\ p.more = (p.before - 1 > BaseLimit)
NewerPage(p) ==
    /\ p.before = None /\ p.after \in 1..(p.of - 1)
    /\ p.shown = (p.after + 1)..Smaller(p.of, p.after + BaseLimit)
    /\ p.more = (p.of - p.after > BaseLimit)

Leafed ==
    /\ n \in Nat /\ page.of \in 0..n
    /\ FirstPage(page) \/ OlderPage(page) \/ NewerPage(page)

LEMMA PageCopies ==
    ASSUME NEW S
    PROVE  /\ P!Cardinality(S) = Cardinality(S)
           /\ P!Max(S) = CHOOSE x \in S : \A y \in S : x >= y
           /\ P!Min(S) = CHOOSE x \in S : \A y \in S : x <= y
  BY DEF P!Cardinality, Cardinality, P!IsFiniteSet, IsFiniteSet, P!Max, P!Min

LEMMA IntervalEnds ==
    ASSUME NEW i \in Int, NEW j \in Int, i <= j
    PROVE  P!Min(i..j) = i /\ P!Max(i..j) = j
  <1>1. \A x \in i..j : (\A y \in i..j : x <= y) => x = i
    OBVIOUS
  <1>2. \A x \in i..j : (\A y \in i..j : x >= y) => x = j
    OBVIOUS
  <1>3. i \in i..j /\ j \in i..j /\ (\A y \in i..j : i <= y /\ j >= y)
    OBVIOUS
  <1>4. \E x \in i..j : \A y \in i..j : x <= y
    BY <1>3
  <1>5. \E x \in i..j : \A y \in i..j : x >= y
    BY <1>3
  <1>6. P!Min(i..j) \in i..j /\ \A y \in i..j : P!Min(i..j) <= y
    BY <1>4, PageCopies
  <1>7. P!Max(i..j) \in i..j /\ \A y \in i..j : P!Max(i..j) >= y
    BY <1>5, PageCopies
  <1>. QED  BY <1>1, <1>2, <1>6, <1>7

LEMMA IntervalSize ==
    ASSUME NEW i \in Int, NEW j \in Int, i <= j + 1
    PROVE  P!Cardinality(i..j) = j - i + 1
  BY FS_Interval, PageCopies

\* The newest and the oldest of an interval of times.
LEMMA NewestOf ==
    ASSUME NEW i \in Int, NEW j \in Int, NEW k \in Nat
    PROVE  P!Newest(i..j, k) = Larger(i, j - k + 1)..j
  <1>1. ASSUME NEW t \in i..j PROVE P!Cardinality({s \in i..j : s > t}) = j - t
    <2>1. {s \in i..j : s > t} = (t + 1)..j
      OBVIOUS
    <2>2. P!Cardinality((t + 1)..j) = j - t
      <3>1. t + 1 \in Int /\ t + 1 <= j + 1 /\ j - (t + 1) + 1 = j - t
        OBVIOUS
      <3>. QED  BY <3>1, IntervalSize
    <2>. QED  BY <2>1, <2>2
  <1>2. P!Newest(i..j, k) = {t \in i..j : j - t < k}
    BY <1>1 DEF P!Newest
  <1>3. \A t \in Int : t \in i..j /\ j - t < k <=> t >= Larger(i, j - k + 1) /\ t <= j
    BY DEF Larger
  <1>4. Larger(i, j - k + 1) \in Int
    BY DEF Larger
  <1>. DEFINE lo == Larger(i, j - k + 1)
  <1>5. lo \in Int /\ \A t \in Int : t \in i..j /\ j - t < k <=> t >= lo /\ t <= j
    BY <1>3, <1>4
  <1>. HIDE DEF lo
  <1>6. {t \in i..j : j - t < k} = lo..j
    <2>1. ASSUME NEW t PROVE t \in {s \in i..j : j - s < k} <=> t \in lo..j
      BY <1>5
    <2>. QED  BY <2>1
  <1>. QED  BY <1>2, <1>6 DEF lo

LEMMA OldestOf ==
    ASSUME NEW i \in Int, NEW j \in Int, NEW k \in Nat
    PROVE  P!Oldest(i..j, k) = i..Smaller(j, i + k - 1)
  <1>1. ASSUME NEW t \in i..j PROVE P!Cardinality({s \in i..j : s < t}) = t - i
    <2>1. {s \in i..j : s < t} = i..(t - 1)
      OBVIOUS
    <2>2. P!Cardinality(i..(t - 1)) = t - i
      <3>1. t - 1 \in Int /\ i <= (t - 1) + 1 /\ (t - 1) - i + 1 = t - i
        OBVIOUS
      <3>. QED  BY <3>1, IntervalSize
    <2>. QED  BY <2>1, <2>2
  <1>2. P!Oldest(i..j, k) = {t \in i..j : t - i < k}
    BY <1>1 DEF P!Oldest
  <1>3. \A t \in Int : t \in i..j /\ t - i < k <=> t >= i /\ t <= Smaller(j, i + k - 1)
    BY DEF Smaller
  <1>4. Smaller(j, i + k - 1) \in Int
    BY DEF Smaller
  <1>. DEFINE hi == Smaller(j, i + k - 1)
  <1>5. hi \in Int /\ \A t \in Int : t \in i..j /\ t - i < k <=> t >= i /\ t <= hi
    BY <1>3, <1>4
  <1>. HIDE DEF hi
  <1>6. {t \in i..j : t - i < k} = i..hi
    <2>1. ASSUME NEW t PROVE t \in {s \in i..j : s - i < k} <=> t \in i..hi
      BY <1>5
    <2>. QED  BY <2>1
  <1>. QED  BY <1>2, <1>6 DEF hi

LEMMA PageSizes == ASSUME PageLimits
                   PROVE  P!PageLimit = BaseLimit /\ P!QueryLimit = BaseLimit + 1
  BY DEF PageLimits, P!PageLimit, P!QueryLimit

\* The page that shows what a list of times i..j, of one more than a page at
\* most, has: without the extra one.
LEMMA ShownNewest ==
    ASSUME PageLimits, NEW i \in Int, NEW j \in Int, i <= j + 1
    PROVE  LET listed == Larger(i, j - BaseLimit)..j IN
           /\ P!Shown(None, listed) = Larger(i, j - BaseLimit + 1)..j
           /\ (P!Cardinality(listed) > P!PageLimit) = (j - i + 1 > BaseLimit)
  <1>. DEFINE lo == Larger(i, j - BaseLimit)
  <1>1. /\ lo \in Int /\ lo <= j + 1
        /\ j - i + 1 > BaseLimit => lo = j - BaseLimit
        /\ ~(j - i + 1 > BaseLimit) => lo = i /\ Larger(i, j - BaseLimit + 1) = i
      BY DEF Larger, PageLimits
  <1>2. j - i + 1 > BaseLimit => Larger(i, j - BaseLimit + 1) = lo + 1
      BY <1>1 DEF Larger, PageLimits
  <1>. HIDE DEF lo
  <1>3. P!Cardinality(lo..j) = j - lo + 1
      BY <1>1, IntervalSize
  <1>4. (P!Cardinality(lo..j) > P!PageLimit) = (j - i + 1 > BaseLimit)
      BY <1>1, <1>3, PageSizes DEF PageLimits
  <1>5. P!Shown(None, lo..j) = Larger(i, j - BaseLimit + 1)..j
    <2>1. CASE j - i + 1 > BaseLimit
      <3>1. lo <= j
        BY <1>1, <2>1 DEF PageLimits
      <3>2. P!Min(lo..j) = lo
        BY <1>1, <3>1, IntervalEnds
      <3>3. P!Shown(None, lo..j) = (lo..j) \ {lo}
        BY <1>4, <2>1, <3>2 DEF P!Shown
      <3>4. (lo..j) \ {lo} = (lo + 1)..j
        BY <1>1
      <3>. QED  BY <1>2, <2>1, <3>3, <3>4
    <2>2. CASE ~(j - i + 1 > BaseLimit)
      BY <1>1, <1>4, <2>2 DEF P!Shown
    <2>. QED  BY <2>1, <2>2
  <1>. QED  BY <1>4, <1>5 DEF lo

LEMMA ShownOldest ==
    ASSUME PageLimits, NEW a \in Nat, NEW i \in Int, NEW j \in Int, i <= j + 1
    PROVE  LET listed == i..Smaller(j, i + BaseLimit) IN
           /\ P!Shown(a, listed) = i..Smaller(j, i + BaseLimit - 1)
           /\ (P!Cardinality(listed) > P!PageLimit) = (j - i + 1 > BaseLimit)
  <1>. DEFINE hi == Smaller(j, i + BaseLimit)
  <1>1. /\ hi \in Int /\ i <= hi + 1
        /\ j - i + 1 > BaseLimit => hi = i + BaseLimit
        /\ ~(j - i + 1 > BaseLimit) => hi = j /\ Smaller(j, i + BaseLimit - 1) = j
      BY DEF Smaller, PageLimits
  <1>2. j - i + 1 > BaseLimit => Smaller(j, i + BaseLimit - 1) = hi - 1
      BY <1>1 DEF Smaller, PageLimits
  <1>. HIDE DEF hi
  <1>3. P!Cardinality(i..hi) = hi - i + 1
      BY <1>1, IntervalSize
  <1>4. (P!Cardinality(i..hi) > P!PageLimit) = (j - i + 1 > BaseLimit)
      BY <1>1, <1>3, PageSizes DEF PageLimits
  <1>5. P!Shown(a, i..hi) = i..Smaller(j, i + BaseLimit - 1)
    <2>1. CASE j - i + 1 > BaseLimit
      <3>1. i <= hi
        BY <1>1, <2>1 DEF PageLimits
      <3>2. P!Max(i..hi) = hi
        BY <1>1, <3>1, IntervalEnds
      <3>3. a # None
        BY DEF PageLimits
      <3>4. P!Shown(a, i..hi) = (i..hi) \ {hi}
        BY <1>4, <2>1, <3>2, <3>3 DEF P!Shown
      <3>5. (i..hi) \ {hi} = i..(hi - 1)
        BY <1>1
      <3>. QED  BY <1>2, <2>1, <3>4, <3>5
    <2>2. CASE ~(j - i + 1 > BaseLimit)
      BY <1>1, <1>4, <2>2 DEF P!Shown
    <2>. QED  BY <2>1, <2>2
  <1>. QED  BY <1>4, <1>5 DEF hi

LEMMA PageRecord ==
    ASSUME NEW a, NEW b
    PROVE  LET p == P!Page(a, b)
               listed == P!Listed(a, b)
           IN  /\ p.after = a /\ p.before = b /\ p.of = n
               /\ p.shown = P!Shown(a, listed)
               /\ p.more = (P!Cardinality(listed) > P!PageLimit)
  BY DEF P!Page

LEMMA FirstIsFirst ==
    ASSUME PageLimits, n \in Nat
    PROVE  FirstPage(P!Page(None, None)) /\ P!Page(None, None).of = n
  <1>1. {t \in 1..n : (None # None => t > None) /\ (None # None => t < None)} = 1..n
    OBVIOUS
  <1>2. P!Listed(None, None) = P!Newest(1..n, BaseLimit + 1)
    BY <1>1, PageSizes DEF P!Listed
  <1>3. P!Newest(1..n, BaseLimit + 1) = Larger(1, n - BaseLimit)..n
    <2>1. n - (BaseLimit + 1) + 1 = n - BaseLimit /\ BaseLimit + 1 \in Nat
      BY DEF PageLimits
    <2>. QED  BY <2>1, NewestOf
  <1>4. n \in Int /\ 1 <= n + 1 /\ n - 1 + 1 = n
    OBVIOUS
  <1>5. /\ P!Shown(None, P!Listed(None, None)) = Larger(1, n - BaseLimit + 1)..n
        /\ (P!Cardinality(P!Listed(None, None)) > P!PageLimit) = (n > BaseLimit)
    BY <1>2, <1>3, <1>4, ShownNewest
  <1>. QED  BY <1>5, PageRecord DEF FirstPage

LEMMA OlderIsOlder ==
    ASSUME PageLimits, n \in Nat, NEW b \in 2..n
    PROVE  OlderPage(P!Page(None, b)) /\ P!Page(None, b).of = n
  <1>1. {t \in 1..n : (None # None => t > None) /\ (b # None => t < b)} = 1..(b - 1)
    BY DEF PageLimits
  <1>2. P!Listed(None, b) = P!Newest(1..(b - 1), BaseLimit + 1)
    BY <1>1, PageSizes DEF P!Listed
  <1>3. P!Newest(1..(b - 1), BaseLimit + 1) = Larger(1, (b - 1) - BaseLimit)..(b - 1)
    <2>1. (b - 1) - (BaseLimit + 1) + 1 = (b - 1) - BaseLimit /\ BaseLimit + 1 \in Nat
      BY DEF PageLimits
    <2>. QED  BY <2>1, NewestOf
  <1>4. b - 1 \in Int /\ 1 <= (b - 1) + 1 /\ (b - 1) - 1 + 1 = b - 1
    OBVIOUS
  <1>5. /\ P!Shown(None, P!Listed(None, b)) = Larger(1, (b - 1) - BaseLimit + 1)..(b - 1)
        /\ (P!Cardinality(P!Listed(None, b)) > P!PageLimit) = (b - 1 > BaseLimit)
    BY <1>2, <1>3, <1>4, ShownNewest
  <1>6. (b - 1) - BaseLimit + 1 = b - BaseLimit
    BY DEF PageLimits
  <1>. QED  BY <1>5, <1>6, PageRecord DEF OlderPage

LEMMA NewerIsNewer ==
    ASSUME PageLimits, n \in Nat, NEW a \in 1..(n - 1)
    PROVE  NewerPage(P!Page(a, None)) /\ P!Page(a, None).of = n
  <1>1. {t \in 1..n : (a # None => t > a) /\ (None # None => t < None)} = (a + 1)..n
    BY DEF PageLimits
  <1>2. P!Listed(a, None) = P!Oldest((a + 1)..n, BaseLimit + 1)
    <2>1. a # None
      BY DEF PageLimits
    <2>2. P!Listed(a, None)
            = P!Oldest({t \in 1..n : (a # None => t > a) /\ (None # None => t < None)},
                       P!QueryLimit)
      BY <2>1 DEF P!Listed
    <2>. QED  BY <1>1, <2>2, PageSizes
  <1>3. P!Oldest((a + 1)..n, BaseLimit + 1) = (a + 1)..Smaller(n, (a + 1) + BaseLimit)
    <2>1. (a + 1) + (BaseLimit + 1) - 1 = (a + 1) + BaseLimit /\ BaseLimit + 1 \in Nat
      BY DEF PageLimits
    <2>. QED  BY <2>1, OldestOf
  <1>4. n \in Int /\ a \in Nat /\ a + 1 \in Int /\ a + 1 <= n + 1 /\ n - (a + 1) + 1 = n - a
    OBVIOUS
  <1>5. /\ P!Shown(a, P!Listed(a, None)) = (a + 1)..Smaller(n, (a + 1) + BaseLimit - 1)
        /\ (P!Cardinality(P!Listed(a, None)) > P!PageLimit) = (n - a > BaseLimit)
    BY <1>2, <1>3, <1>4, ShownOldest
  <1>6. (a + 1) + BaseLimit - 1 = a + BaseLimit
    BY DEF PageLimits
  <1>. QED  BY <1>5, <1>6, PageRecord DEF NewerPage

\* The ends of what a page shows.
LEMMA PageEnds ==
    ASSUME PageLimits, Leafed
    PROVE  /\ page.shown = {} => page.of = 0
           /\ page.shown # {} =>
                /\ P!Min(page.shown) \in 1..page.of /\ P!Max(page.shown) \in 1..page.of
                /\ P!Min(page.shown) > 1 <=> P!OlderLink(page)
                /\ P!NewerLink(page) <=>
                     (page.after # None \/ page.before # None) /\ P!Max(page.shown) < page.of
           /\ P!OlderLink(page) \/ P!NewerLink(page) => page.shown # {}
  <1>. DEFINE m == page.of
  <1>0. m \in Nat
    BY DEF Leafed
  <1>. HIDE DEF m
  <1>1. ASSUME NEW i \in Int, NEW j \in Int, i <= j, page.shown = i..j
        PROVE  P!Min(page.shown) = i /\ P!Max(page.shown) = j /\ page.shown # {}
    <2>1. i \in i..j
      BY <1>1
    <2>. QED  BY <1>1, <2>1, IntervalEnds
  <1>2. CASE FirstPage(page)
    <2>. DEFINE lo == Larger(1, m - BaseLimit + 1)
    <2>1. page.shown = lo..m /\ page.more = (m > BaseLimit)
          /\ page.after = None /\ page.before = None
      BY <1>2 DEF FirstPage, m
    <2>2. lo \in Int /\ lo >= 1 /\ (m # 0 => lo <= m) /\ (lo > 1 <=> m > BaseLimit)
      BY <1>0 DEF Larger, PageLimits
    <2>. HIDE DEF lo
    <2>3. CASE m = 0
      <3>1. page.shown = {}
        <4>1. lo..0 = {}
          BY <2>2
        <4>. QED  BY <2>1, <2>3, <4>1
      <3>2. ~page.more
        <4>1. (m > BaseLimit) = FALSE
          BY <2>3 DEF PageLimits
        <4>2. page.more = (m > BaseLimit)
          BY <2>1
        <4>3. page.more = FALSE
          BY <4>1, <4>2, Zenon
        <4>. QED  BY <4>3
      <3>3. ~P!OlderLink(page) /\ ~P!NewerLink(page)
        BY <2>1, <3>2 DEF P!OlderLink, P!NewerLink
      <3>4. page.of = 0
        BY <2>3 DEF m
      <3>. QED  BY <3>1, <3>3, <3>4
    <2>4. CASE m # 0
      <3>1. P!Min(page.shown) = lo /\ P!Max(page.shown) = m /\ page.shown # {}
        BY <1>0, <1>1, <2>1, <2>2, <2>4
      <3>2. lo \in 1..m /\ m \in 1..m
        BY <1>0, <2>2, <2>4
      <3>3. P!OlderLink(page) <=> m > BaseLimit
        BY <2>1 DEF P!OlderLink
      <3>4. ~P!NewerLink(page)
        BY <2>1 DEF P!NewerLink
      <3>. QED  BY <2>1, <2>2, <3>1, <3>2, <3>3, <3>4 DEF m
    <2>. QED  BY <2>3, <2>4
  <1>3. CASE OlderPage(page)
    <2>. DEFINE lo == Larger(1, page.before - BaseLimit)
    <2>1. page.shown = lo..(page.before - 1) /\ page.more = (page.before - 1 > BaseLimit)
          /\ page.after = None /\ page.before \in 2..m
      BY <1>3 DEF OlderPage, m
    <2>2. lo \in Int /\ lo >= 1 /\ lo <= page.before - 1
          /\ (lo > 1 <=> page.before - 1 > BaseLimit)
      BY <1>0, <2>1 DEF Larger, PageLimits
    <2>. HIDE DEF lo
    <2>3. page.before - 1 \in Int /\ page.before # None
      BY <1>0, <2>1 DEF PageLimits
    <2>4. P!Min(page.shown) = lo /\ P!Max(page.shown) = page.before - 1 /\ page.shown # {}
      BY <1>1, <2>1, <2>2, <2>3
    <2>5. lo \in 1..m /\ page.before - 1 \in 1..m /\ page.before - 1 < m
      BY <1>0, <2>1, <2>2
    <2>6. P!OlderLink(page) <=> page.before - 1 > BaseLimit
      BY <2>1 DEF P!OlderLink
    <2>7. P!NewerLink(page)
      BY <2>3 DEF P!NewerLink
    <2>. QED  BY <2>2, <2>3, <2>4, <2>5, <2>6, <2>7 DEF m
  <1>4. CASE NewerPage(page)
    <2>. DEFINE hi == Smaller(m, page.after + BaseLimit)
    <2>1. page.shown = (page.after + 1)..hi /\ page.more = (m - page.after > BaseLimit)
          /\ page.before = None /\ page.after \in 1..(m - 1)
      BY <1>4 DEF NewerPage, m
    <2>2. hi \in Int /\ hi <= m /\ page.after + 1 <= hi
          /\ (hi < m <=> m - page.after > BaseLimit)
      BY <1>0, <2>1 DEF Smaller, PageLimits
    <2>. HIDE DEF hi
    <2>3. page.after + 1 \in Int /\ page.after # None /\ page.after + 1 > 1
      BY <1>0, <2>1 DEF PageLimits
    <2>4. P!Min(page.shown) = page.after + 1 /\ P!Max(page.shown) = hi /\ page.shown # {}
      BY <1>1, <2>1, <2>2, <2>3
    <2>5. page.after + 1 \in 1..m /\ hi \in 1..m
      BY <1>0, <2>1, <2>2
    <2>6. P!OlderLink(page)
      BY <2>3 DEF P!OlderLink
    <2>7. P!NewerLink(page) <=> m - page.after > BaseLimit
      BY <2>1, <2>3 DEF P!NewerLink
    <2>. QED  BY <2>2, <2>3, <2>4, <2>5, <2>6, <2>7 DEF m
  <1>. QED  BY <1>2, <1>3, <1>4 DEF Leafed

LEMMA NoPageIsEnd == ASSUME PageLimits, Leafed PROVE P!NoDeadEnd
  BY PageEnds DEF P!NoDeadEnd

LEMMA PageTurns ==
    ASSUME PageLimits, Leafed, P!Next
    PROVE  Leafed' /\ P!PagesAdjoin
  <1>0. n \in Nat /\ page.of \in 0..n
    BY DEF Leafed
  <1>1. ASSUME P!Older PROVE Leafed' /\ P!Max(page'.shown) = P!Min(page.shown) - 1
    <2>. DEFINE b == P!Min(page.shown)
                p == P!Page(None, b)
    <2>1. page' = p /\ n' = n
      BY <1>1 DEF P!Older
    <2>2. b \in 2..n
      BY <1>0, <1>1, PageEnds DEF P!Older
    <2>. HIDE DEF b
    <2>3. OlderPage(p) /\ p.of = n
      BY <1>0, <2>2, OlderIsOlder
    <2>. HIDE DEF p
    <2>4. Leafed'
      BY <1>0, <2>1, <2>3 DEF Leafed, OlderPage, FirstPage, NewerPage
    <2>5. p.before = b
      BY PageRecord DEF p
    <2>6. P!Max(p.shown) = b - 1
      <3>1. Larger(1, b - BaseLimit) \in Int /\ Larger(1, b - BaseLimit) <= b - 1 /\ b - 1 \in Int
        BY <1>0, <2>2 DEF Larger, PageLimits
      <3>. QED  BY <2>3, <2>5, <3>1, IntervalEnds DEF OlderPage
    <2>. QED  BY <2>1, <2>4, <2>6 DEF b
  <1>2. ASSUME P!Newer PROVE Leafed' /\ P!Min(page'.shown) = P!Max(page.shown) + 1
    <2>. DEFINE a == P!Max(page.shown)
                p == P!Page(a, None)
    <2>1. page' = p /\ n' = n
      BY <1>2 DEF P!Newer
    <2>2. a \in 1..(n - 1)
      BY <1>0, <1>2, PageEnds DEF P!Newer
    <2>. HIDE DEF a
    <2>3. NewerPage(p) /\ p.of = n
      BY <1>0, <2>2, NewerIsNewer
    <2>. HIDE DEF p
    <2>4. Leafed'
      BY <1>0, <2>1, <2>3 DEF Leafed, OlderPage, FirstPage, NewerPage
    <2>5. p.after = a
      BY PageRecord DEF p
    <2>6. P!Min(p.shown) = a + 1
      <3>1. /\ Smaller(n, a + BaseLimit) \in Int /\ a + 1 <= Smaller(n, a + BaseLimit)
            /\ a + 1 \in Int
        BY <1>0, <2>2 DEF Smaller, PageLimits
      <3>. QED  BY <2>3, <2>5, <3>1, IntervalEnds DEF NewerPage
    <2>. QED  BY <2>1, <2>4, <2>6 DEF a
  <1>3. CASE P!Grow
    <2>1. n' = n + 1 /\ page' = page
      BY <1>3 DEF P!Grow
    <2>. QED
      <3>1. Leafed'
        BY <1>0, <2>1 DEF Leafed, OlderPage, FirstPage, NewerPage
      <3>. QED  BY <1>1, <1>2, <3>1 DEF P!PagesAdjoin
  <1>4. CASE P!First
    <2>1. page' = P!Page(None, None) /\ n' = n
      BY <1>4 DEF P!First
    <2>2. FirstPage(P!Page(None, None)) /\ P!Page(None, None).of = n
      BY <1>0, FirstIsFirst
    <2>3. ASSUME NEW p, p = P!Page(None, None) PROVE page' = p => Leafed'
      BY <1>0, <2>1, <2>2, <2>3 DEF Leafed, OlderPage, FirstPage, NewerPage
    <2>4. Leafed'
      BY <2>1, <2>3
    <2>. QED  BY <1>1, <1>2, <2>4 DEF P!PagesAdjoin
  <1>5. P!PagesAdjoin
    BY <1>1, <1>2 DEF P!PagesAdjoin
  <1>. QED  BY <1>1, <1>2, <1>3, <1>4, <1>5 DEF P!Next

LEMMA InitLeafed == ASSUME PageLimits, P!Init PROVE Leafed
  <1>1. n \in Nat /\ page = P!Page(None, None)
    BY DEF P!Init, PageLimits
  <1>2. FirstPage(P!Page(None, None)) /\ P!Page(None, None).of = n
    BY <1>1, FirstIsFirst
  <1>3. ASSUME NEW p, p = P!Page(None, None) PROVE page = p => Leafed
    BY <1>1, <1>2, <1>3 DEF Leafed
  <1>. QED  BY <1>1, <1>3

\* Whatever the limits of a site are, as long as one activity more than a page
\* shows may be asked for: pages that follow each other leave no activity out,
\* while new ones are added to the stream, and no page is a dead end
\* (_get_older_activities_url and _get_newer_activities_url).
THEOREM PagesAlwaysWhole ==
    ASSUME PageLimits
    PROVE  MCSpec => PagesWhole
  <1>. DEFINE all == <<vars, part, pages, changes, followers, tracking, lists, asked>>
  <1>1. MCInit => Leafed
    BY InitLeafed DEF MCInit
  <1>2. Leafed /\ [MCNext]_all
          => Leafed' /\ [part = "pages" => P!PagesAdjoin /\ P!NoDeadEnd']_pages
    <2>. SUFFICES ASSUME Leafed, [MCNext]_all
                  PROVE  Leafed' /\ [part = "pages" => P!PagesAdjoin /\ P!NoDeadEnd']_pages
      OBVIOUS
    <2>1. CASE UNCHANGED pages
      BY <2>1 DEF pages, Leafed, OlderPage, FirstPage, NewerPage
    <2>2. CASE P!Next
      <3>1. Leafed' /\ P!PagesAdjoin
        BY <2>2, PageTurns
      <3>2. P!NoDeadEnd'
        BY <3>1, NoPageIsEnd, PTL
      <3>. QED  BY <3>1, <3>2
    <2>. QED  BY <2>1, <2>2 DEF MCNext
  <1>. QED  BY <1>1, <1>2, PTL DEF MCSpec, PagesWhole

-----------------------------------------------------------------------------
(* What is followed.                                                       *)

\* Nothing is of two kinds.
KindsApart ==
    /\ IsFiniteSet(Users) /\ IsFiniteSet(Datasets)
    /\ IsFiniteSet(Groups) /\ IsFiniteSet(Organizations)
    /\ Users \cap Datasets = {} /\ Users \cap Groups = {} /\ Users \cap Organizations = {}
    /\ Datasets \cap Groups = {} /\ Datasets \cap Organizations = {}
    /\ Groups \cap Organizations = {}

\* The rows are of users that follow something, and so is what a request
\* inserts.
RowsOfUsers ==
    /\ state \in [F!Objects -> {"active", "deleted", "gone"}]
    /\ followed \subseteq Users \X F!Objects
    /\ request \in [Savers -> (Users \X F!Objects) \cup {None}]

LEMMA ListCopies ==
    ASSUME NEW S
    PROVE  /\ F!Cardinality(S) = Cardinality(S)
           /\ F!ToSet(S) = {S[i] : i \in DOMAIN S}
           /\ F!IsInjective(S) <=> \A i, k \in DOMAIN S : S[i] = S[k] => i = k
  BY DEF F!Cardinality, Cardinality, F!IsFiniteSet, IsFiniteSet, F!ToSet, F!IsInjective

\* A set as a list: it has everything once.
LEMMA ListOfSet ==
    ASSUME NEW S, IsFiniteSet(S)
    PROVE  /\ F!SetToSeq(S) \in Seq(S)
           /\ F!IsInjective(F!SetToSeq(S))
           /\ F!ToSet(F!SetToSeq(S)) = S
           /\ Len(F!SetToSeq(S)) = Cardinality(S)
  <1>. DEFINE c == Cardinality(S)
              l == F!SetToSeq(S)
  <1>1. c \in Nat /\ ExistsBijection(1..c, S)
    BY FS_CardinalityType
  <1>2. PICK f \in Bijection(1..c, S) : TRUE
    BY <1>1 DEF ExistsBijection
  <1>3. f \in [1..c -> S] /\ F!IsInjective(f)
    BY <1>2, ListCopies DEF Bijection, Injection, IsInjective
  <1>4. l \in [1..c -> S] /\ F!IsInjective(l)
    <2>1. l = CHOOSE g \in [1..c -> S] : F!IsInjective(g)
      BY ListCopies DEF F!SetToSeq
    <2>. QED  BY <1>3, <2>1
  <1>. HIDE DEF l
  <1>5. l \in Injection(1..c, S)
    BY <1>4, ListCopies DEF Injection, IsInjective
  <1>6. IsFiniteSet(1..c) /\ Cardinality(1..c) = c
    BY <1>1, FS_Interval
  <1>7. l \in Surjection(1..c, S)
    BY <1>5, <1>6, FS_Injection
  <1>8. F!ToSet(l) = S
    <2>1. \A x \in S : \E i \in 1..c : l[i] = x
      BY <1>7 DEF Surjection
    <2>2. DOMAIN l = 1..c /\ \A i \in 1..c : l[i] \in S
      BY <1>4
    <2>3. F!ToSet(l) = {l[i] : i \in 1..c}
      BY <2>2, ListCopies
    <2>. QED  BY <2>1, <2>2, <2>3
  <1>9. l \in Seq(S) /\ Len(l) = c
    BY <1>1, <1>4
  <1>. QED  BY <1>4, <1>8, <1>9 DEF l

\* Lists of sets that have nothing in common, one after another.
ListOf(s, S) == s \in Seq(S) /\ F!IsInjective(s) /\ F!ToSet(s) = S

LEMMA ListsJoined ==
    ASSUME NEW S, NEW T0, S \cap T0 = {}, NEW s, ListOf(s, S), NEW t, ListOf(t, T0)
    PROVE  ListOf(s \o t, S \cup T0)
  <1>0. /\ s \in Seq(S) /\ F!IsInjective(s) /\ F!ToSet(s) = S
        /\ t \in Seq(T0) /\ F!IsInjective(t) /\ F!ToSet(t) = T0
    BY DEF ListOf
  <1>. DEFINE m == Len(s)
              k == Len(t)
              l == s \o t
  <1>1. s \in Seq(S \cup T0) /\ t \in Seq(S \cup T0)
    BY <1>0, SeqMonotonic
  <1>2. /\ l \in Seq(S \cup T0) /\ Len(l) = m + k
        /\ \A i \in 1..(m + k) : l[i] = IF i <= m THEN s[i] ELSE t[i - m]
    BY <1>1, ConcatProperties
  <1>3. m \in Nat /\ DOMAIN s = 1..m /\ s \in [1..m -> S]
        /\ k \in Nat /\ DOMAIN t = 1..k /\ t \in [1..k -> T0]
    BY <1>0, LenProperties
  <1>4. DOMAIN l = 1..(m + k)
    BY <1>2, LenProperties
  <1>5. \A i, j \in DOMAIN s : s[i] = s[j] => i = j
    BY <1>0, ListCopies
  <1>6. \A i, j \in DOMAIN t : t[i] = t[j] => i = j
    BY <1>0, ListCopies
  <1>7. S = {s[i] : i \in 1..m} /\ T0 = {t[i] : i \in 1..k}
    BY <1>0, <1>3, ListCopies
  <1>. HIDE DEF m, k, l
  <1>8. \A i \in 1..(m + k) : \/ i \in 1..m /\ l[i] = s[i] /\ l[i] \in S
                              \/ i - m \in 1..k /\ l[i] = t[i - m] /\ l[i] \in T0
    BY <1>2, <1>3
  <1>9. F!IsInjective(l)
    <2>1. ASSUME NEW i \in 1..(m + k), NEW j \in 1..(m + k), l[i] = l[j] PROVE i = j
      <3>1. CASE i \in 1..m /\ l[i] = s[i] /\ l[i] \in S
        <4>1. l[j] \notin T0
          BY <2>1, <3>1
        <4>2. j \in 1..m /\ l[j] = s[j]
          BY <1>8, <4>1
        <4>. QED  BY <1>3, <1>5, <2>1, <3>1, <4>2
      <3>2. CASE i - m \in 1..k /\ l[i] = t[i - m] /\ l[i] \in T0
        <4>1. l[j] \notin S
          BY <2>1, <3>2
        <4>2. j - m \in 1..k /\ l[j] = t[j - m]
          BY <1>8, <4>1
        <4>3. i - m = j - m
          BY <1>3, <1>6, <2>1, <3>2, <4>2
        <4>. QED  BY <1>3, <4>3
      <3>. QED  BY <1>8, <3>1, <3>2
    <2>. QED  BY <1>4, <2>1, ListCopies
  <1>10. F!ToSet(l) = S \cup T0
    <2>1. \A i \in 1..(m + k) : l[i] \in S \cup T0
      BY <1>8
    <2>2. \A i \in 1..m : i \in 1..(m + k) /\ l[i] = s[i]
      BY <1>2, <1>3
    <2>3. \A i \in 1..k : m + i \in 1..(m + k) /\ l[m + i] = t[i]
      BY <1>2, <1>3
    <2>4. F!ToSet(l) = {l[i] : i \in 1..(m + k)}
      BY <1>4, ListCopies
    <2>5. ASSUME NEW x \in S PROVE \E i \in 1..(m + k) : l[i] = x
      BY <1>7, <2>2
    <2>6. ASSUME NEW x \in T0 PROVE \E i \in 1..(m + k) : l[i] = x
      <3>1. PICK i \in 1..k : t[i] = x
        BY <1>7
      <3>. QED  BY <2>3, <3>1
    <2>. QED  BY <2>1, <2>4, <2>5, <2>6
  <1>. QED  BY <1>2, <1>9, <1>10 DEF l, ListOf

-----------------------------------------------------------------------------
LEMMA FollowingsFinite ==
    ASSUME KindsApart, NEW class \in {Users, Datasets, Groups, Organizations,
                                       Groups \cup Organizations},
           NEW x, NEW u, NEW b
    PROVE  /\ IsFiniteSet(F!Followers(class, x))
           /\ IsFiniteSet(F!Followees(class, u))
           /\ IsFiniteSet(F!_group_or_org_followee_list(u, b))
  <1>0. /\ IsFiniteSet(Users) /\ IsFiniteSet(Datasets)
        /\ IsFiniteSet(Groups) /\ IsFiniteSet(Organizations)
    BY DEF KindsApart
  <1>1. IsFiniteSet(class) /\ IsFiniteSet(Groups \cup Organizations)
    <2>1. IsFiniteSet(Groups \cup Organizations)
      BY <1>0, FS_Union
    <2>. QED  BY <1>0, <2>1
  <1>2. F!Followers(class, x) \in SUBSET Users /\ F!Followees(class, u) \in SUBSET class
    BY DEF F!Followers, F!Followees
  <1>3. F!_group_or_org_followee_list(u, b) \in SUBSET (Groups \cup Organizations)
    BY DEF F!_group_or_org_followee_list, F!Followees, F!UserFollowingGroup
  <1>. QED  BY <1>0, <1>1, <1>2, <1>3, FS_Subset

\* The list of what a user follows has what the four tables have.
LEMMA FolloweesListed ==
    ASSUME KindsApart, RowsOfUsers, NEW u \in Users
    PROVE  /\ F!IsInjective(F!followee_list(u))
           /\ \A o \in F!Objects : o \in F!ToSet(F!followee_list(u)) <=> <<u, o>> \in F!Rows
  <1>. DEFINE A == F!user_followee_list(u)
              B == F!dataset_followee_list(u)
              G == F!group_followee_list(u)
              O == F!organization_followee_list(u)
              In(K) == {o \in K : <<u, o>> \in F!Rows}
  <1>1. A = In(Users) /\ B = In(Datasets)
    BY DEF F!user_followee_list, F!dataset_followee_list, F!Followees, F!UserFollowingUser,
           F!UserFollowingDataset
  <1>2. G = In(Groups) /\ O = In(Organizations)
    BY DEF F!group_followee_list, F!organization_followee_list, F!Followees,
           F!_group_or_org_followee_list, F!UserFollowingGroup, KindsApart
  <1>3. IsFiniteSet(A) /\ IsFiniteSet(B) /\ IsFiniteSet(G) /\ IsFiniteSet(O)
    BY FollowingsFinite DEF F!user_followee_list, F!dataset_followee_list, F!group_followee_list,
           F!organization_followee_list, F!UserFollowingUser, F!UserFollowingDataset
  <1>4. /\ A \cap B = {} /\ (A \cup B) \cap G = {} /\ (A \cup B \cup G) \cap O = {}
    BY <1>1, <1>2 DEF KindsApart
  <1>5. F!followee_list(u) = F!SetToSeq(A) \o F!SetToSeq(B) \o F!SetToSeq(G) \o F!SetToSeq(O)
    BY DEF F!followee_list
  <1>6. F!Objects = Users \cup Datasets \cup Groups \cup Organizations
    BY DEF F!Objects
  <1>. HIDE DEF A, B, G, O
  <1>. DEFINE a == F!SetToSeq(A)
              b == F!SetToSeq(B)
              g == F!SetToSeq(G)
              z == F!SetToSeq(O)
  <1>7. ListOf(a, A) /\ ListOf(b, B) /\ ListOf(g, G) /\ ListOf(z, O)
    BY <1>3, ListOfSet DEF ListOf
  <1>. HIDE DEF a, b, g, z
  <1>8. ListOf(a \o b, A \cup B)
    BY <1>4, <1>7, ListsJoined
  <1>9. ListOf(a \o b \o g, A \cup B \cup G)
    BY <1>4, <1>7, <1>8, ListsJoined
  <1>10. ListOf(a \o b \o g \o z, A \cup B \cup G \cup O)
    BY <1>4, <1>7, <1>9, ListsJoined
  <1>11. F!IsInjective(F!followee_list(u)) /\ F!ToSet(F!followee_list(u)) = A \cup B \cup G \cup O
    BY <1>5, <1>10 DEF a, b, g, z, ListOf
  <1>. QED  BY <1>1, <1>2, <1>6, <1>11 DEF A, B, G, O

LEMMA FollowersCounted ==
    ASSUME KindsApart, RowsOfUsers, NEW o \in F!Objects
    PROVE  F!user_follower_count(o) + F!dataset_follower_count(o) + F!group_follower_count(o)
             = F!Cardinality({f \in F!Rows : f[2] = o})
  <1>. DEFINE K == {u \in Users : <<u, o>> \in F!Rows}
              L == {f \in F!Rows : f[2] = o}
              g == [u \in K |-> <<u, o>>]
  <1>1. F!Rows \subseteq Users \X F!Objects
    BY DEF F!Rows, RowsOfUsers
  <1>2. IsFiniteSet(K)
    BY FS_Subset DEF KindsApart
  <1>3. g \in Bijection(K, L)
    <2>1. g \in [K -> L]
      OBVIOUS
    <2>2. \A x, y \in K : g[x] = g[y] => x = y
      OBVIOUS
    <2>3. ASSUME NEW f \in L PROVE \E x \in K : g[x] = f
      <3>1. f = <<f[1], o>> /\ f[1] \in Users
        BY <1>1, <2>3
      <3>. QED  BY <2>3, <3>1
    <2>. HIDE DEF g
    <2>4. g \in Injection(K, L)
      BY <2>1, <2>2 DEF Injection, IsInjective
    <2>5. g \in Surjection(K, L)
      BY <2>1, <2>3 DEF Surjection
    <2>. QED  BY <2>4, <2>5 DEF Bijection
  <1>4. Cardinality(L) = Cardinality(K) /\ Cardinality(K) \in Nat
    BY <1>2, <1>3, FS_Bijection, FS_CardinalityType DEF ExistsBijection
  <1>5. \A class : F!Followers(class, o) = IF o \in class THEN K ELSE {}
    BY DEF F!Followers
  <1>. HIDE DEF K, L
  <1>6. \A class : F!_follower_count(class, o) = IF o \in class THEN Cardinality(K) ELSE 0
    BY <1>5, FS_EmptySet, ListCopies DEF F!_follower_count
  <1>7. /\ F!user_follower_count(o) = IF o \in Users THEN Cardinality(K) ELSE 0
        /\ F!dataset_follower_count(o) = IF o \in Datasets THEN Cardinality(K) ELSE 0
        /\ F!group_follower_count(o)
             = IF o \in Groups \cup Organizations THEN Cardinality(K) ELSE 0
    BY <1>6 DEF F!user_follower_count, F!dataset_follower_count, F!group_follower_count,
                F!UserFollowingUser, F!UserFollowingDataset, F!UserFollowingGroup
  <1>8. \/ o \in Users /\ o \notin Datasets /\ o \notin Groups \cup Organizations
        \/ o \notin Users /\ o \in Datasets /\ o \notin Groups \cup Organizations
        \/ o \notin Users /\ o \notin Datasets /\ o \in Groups \cup Organizations
    BY DEF F!Objects, KindsApart
  <1>9. F!Cardinality(L) = Cardinality(K)
    BY <1>4, ListCopies
  <1>. QED  BY <1>4, <1>7, <1>8, <1>9 DEF L

LEMMA RowsAgree == ASSUME KindsApart, RowsOfUsers PROVE F!FollowersAgree
  <1>1. ASSUME NEW class, NEW o, NEW u \in Users
        PROVE  F!_am_following(class, u, o) <=> o \in class /\ <<u, o>> \in F!Rows
    BY DEF F!_am_following, F!Followers
  <1>2. ASSUME NEW u \in Users, NEW o
        PROVE  /\ F!am_following_user(u, o) <=> o \in Users /\ <<u, o>> \in F!Rows
               /\ F!am_following_dataset(u, o) <=> o \in Datasets /\ <<u, o>> \in F!Rows
               /\ F!am_following_group(u, o)
                    <=> o \in Groups \cup Organizations /\ <<u, o>> \in F!Rows
    BY <1>1 DEF F!am_following_user, F!am_following_dataset, F!am_following_group,
                F!UserFollowingUser, F!UserFollowingDataset, F!UserFollowingGroup
  <1>3. ASSUME NEW class \in {Users, Datasets, Groups \cup Organizations}, NEW o
        PROVE  /\ F!ToSet(F!_follower_list(class, o)) = F!Followers(class, o)
               /\ Len(F!_follower_list(class, o)) = F!_follower_count(class, o)
    <2>1. IsFiniteSet(F!Followers(class, o))
      BY FollowingsFinite
    <2>. QED  BY <2>1, ListOfSet, ListCopies DEF F!_follower_list, F!_follower_count
  <1>4. ASSUME NEW u \in Users
        PROVE  /\ \A o \in Users :
                    F!am_following_user(u, o) <=> u \in F!ToSet(F!user_follower_list(o))
               /\ \A o \in Datasets :
                    F!am_following_dataset(u, o) <=> u \in F!ToSet(F!dataset_follower_list(o))
               /\ \A o \in Groups :
                    F!am_following_group(u, o) <=> u \in F!ToSet(F!group_follower_list(o))
               /\ \A o \in Organizations :
                    F!am_following_group(u, o) <=> u \in F!ToSet(F!organization_follower_list(o))
    BY <1>3 DEF F!am_following_user, F!am_following_dataset, F!am_following_group,
                F!_am_following, F!user_follower_list, F!dataset_follower_list,
                F!group_follower_list, F!organization_follower_list,
                F!UserFollowingUser, F!UserFollowingDataset, F!UserFollowingGroup
  <1>5. \A o : F!organization_follower_count(o) = Len(F!organization_follower_list(o))
    BY <1>3 DEF F!organization_follower_count, F!group_follower_count,
                F!organization_follower_list, F!UserFollowingGroup
  <1>6. ASSUME NEW u \in Users
        PROVE  /\ F!IsInjective(F!followee_list(u))
               /\ \A o \in F!Objects : o \in F!ToSet(F!followee_list(u)) <=>
                    F!am_following_user(u, o) \/ F!am_following_dataset(u, o)
                      \/ F!am_following_group(u, o)
    BY <1>2, FolloweesListed DEF F!Objects
  <1>7. ASSUME NEW u \in Users
        PROVE  /\ F!group_followee_count(u) = F!Cardinality(F!group_followee_list(u))
               /\ F!organization_followee_count(u) = F!Cardinality(F!organization_followee_list(u))
    BY DEF F!group_followee_count, F!organization_followee_count, F!_followee_count,
           F!group_followee_list, F!organization_followee_list
  <1>. QED  BY <1>4, <1>5, <1>6, <1>7, FollowersCounted DEF F!FollowersAgree

LEMMA FollowingKept ==
    ASSUME RowsOfUsers, F!Next
    PROVE  RowsOfUsers' /\ F!FollowingLasts
  <1>1. CASE \E w \in Savers, u \in Users, o \in F!Objects :
               F!follow_user(w, u, o) \/ F!follow_dataset(w, u, o) \/ F!follow_group(w, u, o)
    <2>1. PICK w \in Savers, u \in Users, o \in F!Objects :
            request' = [request EXCEPT ![w] = <<u, o>>] /\ UNCHANGED <<state, followed>>
      BY <1>1 DEF F!follow_user, F!follow_dataset, F!follow_group, F!Follow
    <2>. QED  BY <2>1 DEF RowsOfUsers, F!FollowingLasts
  <1>2. CASE \E w \in Savers : F!follower_dict_save(w)
    <2>1. PICK w \in Savers :
            /\ request[w] # None
            /\ followed' = followed \/ followed' = followed \cup {request[w]}
            /\ request' = [request EXCEPT ![w] = None] /\ UNCHANGED state
      BY <1>2 DEF F!follower_dict_save
    <2>2. request[w] \in Users \X F!Objects
      BY <2>1 DEF RowsOfUsers
    <2>. QED  BY <2>1, <2>2 DEF RowsOfUsers, F!FollowingLasts
  <1>3. CASE \E u \in Users, o \in F!Objects :
               F!unfollow_user(u, o) \/ F!unfollow_dataset(u, o) \/ F!unfollow_group(u, o)
    <2>1. PICK u \in Users, o \in F!Objects :
            /\ <<u, o>> \in F!Rows
            /\ followed' = followed \ {<<u, o>>} /\ UNCHANGED <<state, request>>
      BY <1>3 DEF F!unfollow_user, F!unfollow_dataset, F!unfollow_group, F!_unfollow,
                  F!_am_following, F!Followers
    <2>. QED  BY <2>1 DEF RowsOfUsers, F!FollowingLasts
  <1>4. CASE \E o \in F!Objects, s \in {"active", "deleted"} : F!SetState(o, s)
    BY <1>4 DEF F!SetState, RowsOfUsers, F!FollowingLasts
  <1>5. CASE \E o \in F!Objects : F!Purge(o)
    BY <1>5 DEF F!Purge, RowsOfUsers, F!FollowingLasts
  <1>. QED  BY <1>1, <1>2, <1>3, <1>4, <1>5 DEF F!Next

\* Whatever is followed, deleted, restored and purged, and whoever races to
\* follow it: the buttons, the lists and the counts of followers tell the
\* same, and nothing but unfollowing and purging ends what is followed
\* (UserFollowingUser and its sisters, follower_create, unfollow).
THEOREM FollowersAlwaysAgree ==
    ASSUME KindsApart
    PROVE  MCSpec => FollowersAgree
  <1>. DEFINE all == <<vars, part, pages, changes, followers, tracking, lists, asked>>
  <1>1. MCInit => RowsOfUsers
    BY DEF MCInit, F!Init, RowsOfUsers
  <1>2. RowsOfUsers /\ [MCNext]_all
          => RowsOfUsers' /\ [part = "followers" => F!FollowingLasts]_followers
    <2>1. ASSUME RowsOfUsers, UNCHANGED followers PROVE RowsOfUsers'
      BY <2>1 DEF followers, RowsOfUsers
    <2>. QED  BY <2>1, FollowingKept DEF MCNext
  <1>3. RowsOfUsers => F!FollowersAgree
    BY RowsAgree
  <1>. QED  BY <1>1, <1>2, <1>3, PTL DEF MCSpec, FollowersAgree

-----------------------------------------------------------------------------
(* Summaries of changes.                                                   *)

\* What a listing says of a set, in one entry or none.
LEMMA ListingKeys ==
    ASSUME NEW w, NEW one, NEW multiple, NEW S
    PROVE  /\ \A e \in C!Listing(w, one, multiple, S) :
                e.what = w /\ e.keys = S /\ e.method \in {one, multiple}
           /\ \A e \in C!Listing(w, one, multiple, S) : "resource" \notin DOMAIN e
           /\ S # {} => C!Listing(w, one, multiple, S) # {}
  <1>1. CASE S = {}
    BY <1>1 DEF C!Listing
  <1>2. CASE S # {}
    <2>. DEFINE m == IF C!Cardinality(S) = 1 THEN one ELSE multiple
                e == [what |-> w, keys |-> S, method |-> m]
    <2>1. C!Listing(w, one, multiple, S) = {e}
      BY <1>2 DEF C!Listing
    <2>2. m \in {one, multiple}
      OBVIOUS
    <2>. HIDE DEF m
    <2>3. e.what = w /\ e.keys = S /\ e.method = m /\ "resource" \notin DOMAIN e
      OBVIOUS
    <2>. HIDE DEF e
    <2>. QED  BY <2>1, <2>2, <2>3
  <1>. QED  BY <1>1, <1>2

\* An entry carries the new value, or there is none.
LEMMA ValueEntries ==
    ASSUME NEW w, NEW k, NEW p, NEW q, NEW e, e = C!ValueEntry(w, k, p, q)
    PROVE  /\ e.what = w /\ e.key = k /\ C!Same(e.new, q) /\ "resource" \notin DOMAIN e
           /\ e.method \in {"change_value_no_old", "change_value_no_new",
                           "change_value_with_old"}
  <1>. DEFINE m == C!ValueMethod(w, p, q)
              z == C!Carried(m, q)
  <1>1. m \in {"change_value_no_old", "change_value_no_new", "change_value_with_old"}
    BY DEF C!ValueMethod
  <1>2. m = "change_value_no_new" => C!Blank(q)
    BY DEF C!ValueMethod
  <1>3. C!Same(z, q)
    BY <1>1, <1>2 DEF C!Carried, C!Silent, C!Same, C!Blank
  <1>4. e = [what |-> w, key |-> k, method |-> m, new |-> z]
    BY DEF C!ValueEntry
  <1>. HIDE DEF m, z
  <1>5. e.what = w /\ e.key = k /\ e.method = m /\ e.new = z /\ "resource" \notin DOMAIN e
    BY <1>4
  <1>. QED  BY <1>1, <1>3, <1>5

\* The entries of a dictionary, read by their methods.
LEMMA ExtraEntries ==
    ASSUME NEW w, NEW o, NEW d, NEW e \in C!ExtraChanges(w, o, d)
    PROVE  /\ e.what = w /\ "resource" \notin DOMAIN e
           /\ e.method \in C!AddMethods =>
                /\ e.keys = DOMAIN d \ DOMAIN o
                /\ \A k \in e.keys :
                     C!Same(IF k \in DOMAIN e.values THEN e.values[k] ELSE None, d[k])
           /\ e.method \in C!RemoveMethods => e.keys = DOMAIN o \ DOMAIN d
           /\ e.method \notin C!AddMethods \cup C!RemoveMethods =>
                e.key \in DOMAIN o \cap DOMAIN d /\ C!Same(e.new, d[e.key])
  <1>1. CASE e \in C!Added(w, o, d)
    <2>. DEFINE S == DOMAIN d \ DOMAIN o
                m == C!AddMethod(S, d)
                K == IF m = "add_one_no_value" THEN {} ELSE S
    <2>1. e = [what |-> w, keys |-> S, method |-> m, values |-> C!Restrict(d, K)]
      BY <1>1 DEF C!Added
    <2>2. m \in {"add_multiple", "add_one_no_value", "add_one_value"}
      BY DEF C!AddMethod
    <2>3. m = "add_one_no_value" => \A k \in S : C!Blank(d[k])
      BY DEF C!AddMethod
    <2>4. K \subseteq S /\ (m # "add_one_no_value" => K = S)
      OBVIOUS
    <2>. HIDE DEF m, K
    <2>5. /\ e.what = w /\ e.keys = S /\ e.method = m /\ "resource" \notin DOMAIN e
          /\ DOMAIN e.values = K /\ \A k \in K : e.values[k] = d[k]
      BY <2>1 DEF C!Restrict
    <2>6. ASSUME NEW k \in S
          PROVE  C!Same(IF k \in DOMAIN e.values THEN e.values[k] ELSE None, d[k])
      <3>1. CASE k \in K
        BY <2>5, <3>1 DEF C!Same
      <3>2. CASE k \notin K
        BY <2>3, <2>4, <2>5, <3>2 DEF C!Same, C!Blank
      <3>. QED  BY <3>1, <3>2
    <2>. QED  BY <2>2, <2>5, <2>6 DEF C!AddMethods, C!RemoveMethods
  <1>2. CASE e \in C!Removed(w, o, d)
    <2>1. /\ e.what = w /\ e.keys = DOMAIN o \ DOMAIN d
          /\ e.method \in {"remove_one", "remove_multiple"} /\ "resource" \notin DOMAIN e
      BY <1>2, ListingKeys DEF C!Removed
    <2>. QED  BY <2>1 DEF C!AddMethods, C!RemoveMethods
  <1>3. CASE e \in C!Valued(w, o, d)
    <2>1. PICK k \in DOMAIN o \cap DOMAIN d : e = C!ValueEntry(w, k, o[k], d[k])
      BY <1>3 DEF C!Valued
    <2>2. /\ e.what = w /\ e.key = k /\ C!Same(e.new, d[k]) /\ "resource" \notin DOMAIN e
          /\ e.method \in {"change_value_no_old", "change_value_no_new",
                          "change_value_with_old"}
      BY <2>1, ValueEntries
    <2>. QED  BY <2>2 DEF C!AddMethods, C!RemoveMethods
  <1>. QED  BY <1>1, <1>2, <1>3 DEF C!ExtraChanges

LEMMA ExtraEntriesExist ==
    ASSUME NEW w, NEW o, NEW d
    PROVE  LET E == C!ExtraChanges(w, o, d) IN
           /\ DOMAIN d \ DOMAIN o # {} => \E e \in E : e.method \in C!AddMethods
           /\ DOMAIN o \ DOMAIN d # {} => \E e \in E : e.method \in C!RemoveMethods
           /\ \A k \in DOMAIN o \cap DOMAIN d : o[k] # d[k] =>
                \E e \in E : e.method \notin C!AddMethods \cup C!RemoveMethods /\ e.key = k
  <1>1. ASSUME DOMAIN d \ DOMAIN o # {}
        PROVE  \E e \in C!Added(w, o, d) : e.method \in C!AddMethods
    <2>. DEFINE S == DOMAIN d \ DOMAIN o
                m == C!AddMethod(S, d)
                x == C!Restrict(d, IF m = "add_one_no_value" THEN {} ELSE S)
                e == [what |-> w, keys |-> S, method |-> m, values |-> x]
    <2>1. e \in C!Added(w, o, d)
      BY <1>1 DEF C!Added
    <2>2. m \in C!AddMethods
      BY DEF C!AddMethod, C!AddMethods
    <2>. HIDE DEF m, x
    <2>3. e.method = m
      OBVIOUS
    <2>. QED  BY <2>1, <2>2, <2>3
  <1>2. ASSUME DOMAIN o \ DOMAIN d # {}
        PROVE  \E e \in C!Removed(w, o, d) : e.method \in C!RemoveMethods
    BY <1>2, ListingKeys DEF C!Removed, C!RemoveMethods
  <1>3. ASSUME NEW k \in DOMAIN o \cap DOMAIN d, o[k] # d[k]
        PROVE  \E e \in C!Valued(w, o, d) :
                  e.method \notin C!AddMethods \cup C!RemoveMethods /\ e.key = k
    <2>. DEFINE e == C!ValueEntry(w, k, o[k], d[k])
    <2>1. e \in C!Valued(w, o, d)
      BY <1>3 DEF C!Valued
    <2>2. /\ e.key = k
          /\ e.method \in {"change_value_no_old", "change_value_no_new",
                          "change_value_with_old"}
      BY ValueEntries
    <2>3. e.method \notin C!AddMethods \cup C!RemoveMethods
      BY <2>2 DEF C!AddMethods, C!RemoveMethods
    <2>. QED  BY <2>1, <2>2, <2>3
  <1>. QED  BY <1>1, <1>2, <1>3 DEF C!ExtraChanges

\* Who knows a dictionary and reads what changed in it knows the new one.
LEMMA ExtrasRead ==
    ASSUME NEW w, NEW o, NEW d
    PROVE  C!Agree(C!ReadExtras(C!ExtraChanges(w, o, d), o), d)
  <1>. DEFINE E == C!ExtraChanges(w, o, d)
              Add == {e \in E : e.method \in C!AddMethods}
              Valued == {e \in E : e.method \notin C!AddMethods \cup C!RemoveMethods}
  <1>1. C!Keys(E, C!AddMethods) = DOMAIN d \ DOMAIN o
    BY ExtraEntries, ExtraEntriesExist DEF C!Keys
  <1>2. C!Keys(E, C!RemoveMethods) = DOMAIN o \ DOMAIN d
    BY ExtraEntries, ExtraEntriesExist DEF C!Keys
  <1>. DEFINE ValueIn(e, k) == IF k \in DOMAIN e.values THEN e.values[k] ELSE None
  <1>3. \A e \in Add : /\ e.keys = DOMAIN d \ DOMAIN o
                       /\ \A k \in e.keys : C!Same(ValueIn(e, k), d[k])
    BY ExtraEntries
  <1>4. \A e \in Valued : e.key \in DOMAIN o \cap DOMAIN d /\ C!Same(e.new, d[e.key])
    BY ExtraEntries
  <1>5. DOMAIN d \ DOMAIN o # {} => Add # {}
    BY ExtraEntriesExist
  <1>6. \A k \in DOMAIN o \cap DOMAIN d : o[k] # d[k] => \E e \in Valued : e.key = k
    BY ExtraEntriesExist
  <1>. HIDE DEF Add, Valued
  <1>. DEFINE V(k) == IF \E e \in Add : k \in e.keys
                      THEN ValueIn(CHOOSE e \in Add : k \in e.keys, k)
                      ELSE IF \E e \in Valued : e.key = k
                           THEN (CHOOSE e \in Valued : e.key = k).new ELSE o[k]
  <1>7. ASSUME NEW k \in DOMAIN d PROVE C!Same(V(k), d[k])
    <2>1. CASE k \notin DOMAIN o
      <3>1. \E e \in Add : k \in e.keys
        BY <1>3, <1>5, <2>1
      <3>2. PICK e \in Add : e = (CHOOSE x \in Add : k \in x.keys) /\ k \in e.keys
        BY <3>1
      <3>3. C!Same(ValueIn(e, k), d[k])
        BY <1>3, <3>2
      <3>. HIDE DEF ValueIn
      <3>. QED  BY <3>1, <3>2, <3>3
    <2>2. CASE k \in DOMAIN o
      <3>1. ~\E e \in Add : k \in e.keys
        BY <1>3, <2>2
      <3>2. CASE \E e \in Valued : e.key = k
        <4>1. PICK e \in Valued : e = (CHOOSE x \in Valued : x.key = k) /\ e.key = k
          BY <3>2
        <4>2. C!Same(e.new, d[k])
          BY <1>4, <4>1
        <4>. QED  BY <3>1, <3>2, <4>1, <4>2
      <3>3. CASE ~\E e \in Valued : e.key = k
        BY <1>6, <2>2, <3>1, <3>3 DEF C!Same
      <3>. QED  BY <3>2, <3>3
    <2>. QED  BY <2>1, <2>2
  <1>8. C!ReadExtras(E, o) =
          [k \in (DOMAIN o \ C!Keys(E, C!RemoveMethods)) \cup C!Keys(E, C!AddMethods) |-> V(k)]
    BY DEF C!ReadExtras, Add, Valued
  <1>9. (DOMAIN o \ C!Keys(E, C!RemoveMethods)) \cup C!Keys(E, C!AddMethods) = DOMAIN d
    BY <1>1, <1>2
  <1>. HIDE DEF V, E
  <1>10. C!ReadExtras(E, o) = [k \in DOMAIN d |-> V(k)]
    BY <1>8, <1>9
  <1>11. C!Agree(C!ReadExtras(E, o), d)
    BY <1>7, <1>10 DEF C!Agree
  <1>. QED  BY <1>11 DEF E

-----------------------------------------------------------------------------
\* Which entries of a summary are about what.
LEMMA FieldEntries ==
    ASSUME NEW o, NEW d, NEW e \in C!FieldChanges(o, d)
    PROVE  /\ e.what = "field" /\ "resource" \notin DOMAIN e
           /\ C!Same(e.new, d.fields[e.key])
  <1>1. PICK f \in C!Fields : e = C!FieldEntry(f, o.fields[f], d.fields[f])
    BY DEF C!FieldChanges
  <1>. DEFINE m == C!Method(f, o.fields[f], d.fields[f])
              z == C!Carried(m, d.fields[f])
  <1>2. m \in {"remove", "add", "change"} /\ (m = "remove" => C!Blank(d.fields[f]))
    BY DEF C!Method
  <1>3. C!Same(z, d.fields[f])
    BY <1>2 DEF C!Carried, C!Silent, C!Same, C!Blank
  <1>4. e = [what |-> "field", key |-> f, method |-> m, new |-> z]
    BY <1>1 DEF C!FieldEntry
  <1>. HIDE DEF m, z
  <1>5. e.what = "field" /\ "resource" \notin DOMAIN e /\ e.key = f /\ e.new = z
    BY <1>4
  <1>. QED  BY <1>3, <1>5

LEMMA TagEntries ==
    ASSUME NEW o, NEW d, NEW e \in C!TagChanges(o, d)
    PROVE  /\ e.what = "tags" /\ "resource" \notin DOMAIN e
           /\ e.method \in C!AddMethods => e.keys = d.tags \ o.tags
           /\ e.method \in C!RemoveMethods => e.keys = o.tags \ d.tags
  <1>1. CASE e \in C!TagsAdded(o, d)
    <2>1. /\ e.what = "tags" /\ e.keys = d.tags \ o.tags
          /\ e.method \in {"add_one", "add_multiple"} /\ "resource" \notin DOMAIN e
      BY <1>1, ListingKeys DEF C!TagsAdded
    <2>. QED  BY <2>1 DEF C!AddMethods, C!RemoveMethods
  <1>2. CASE e \in C!TagsRemoved(o, d)
    <2>1. /\ e.what = "tags" /\ e.keys = o.tags \ d.tags
          /\ e.method \in {"remove_one", "remove_multiple"} /\ "resource" \notin DOMAIN e
      BY <1>2, ListingKeys DEF C!TagsRemoved
    <2>. QED  BY <2>1 DEF C!AddMethods, C!RemoveMethods
  <1>. QED  BY <1>1, <1>2 DEF C!TagChanges

LEMMA TagEntriesExist ==
    ASSUME NEW o, NEW d
    PROVE  /\ d.tags \ o.tags # {} =>
                \E e \in C!TagChanges(o, d) : e.method \in C!AddMethods
           /\ o.tags \ d.tags # {} =>
                \E e \in C!TagChanges(o, d) : e.method \in C!RemoveMethods
  <1>1. ASSUME d.tags \ o.tags # {} PROVE \E e \in C!TagsAdded(o, d) : e.method \in C!AddMethods
    BY <1>1, ListingKeys DEF C!TagsAdded, C!AddMethods
  <1>2. ASSUME o.tags \ d.tags # {}
        PROVE  \E e \in C!TagsRemoved(o, d) : e.method \in C!RemoveMethods
    BY <1>2, ListingKeys DEF C!TagsRemoved, C!RemoveMethods
  <1>. QED  BY <1>1, <1>2 DEF C!TagChanges

LEMMA ExtensionEntries ==
    ASSUME NEW o, NEW d, NEW e \in C!ExtensionChanges(o, d)
    PROVE  /\ e.what = "extension_fields" /\ "resource" \notin DOMAIN e
           /\ e.new = d.extension[e.key]
  BY DEF C!ExtensionChanges

LEMMA DetailEntries ==
    ASSUME NEW id, NEW o, NEW d, NEW e \in C!OneResource(id, o, d)
    PROVE  /\ e.what \in C!Details /\ "resource" \in DOMAIN e /\ e.resource = id
           /\ o[e.what] # d[e.what]
           /\ e.what # "url" => C!Same(e.new, d[e.what])
  <1>1. PICK f \in C!Details : o[f] # d[f] /\ e = C!DetailEntry(id, f, o[f], d[f])
    BY DEF C!OneResource
  <1>. DEFINE m == C!DetailMethod(f, o[f], d[f])
              z == C!Carried(m, d[f])
  <1>2. /\ m \in {"new_file", "remove", "add", "change"}
        /\ m = "new_file" => f = "url"
        /\ m = "remove" => C!Blank(d[f])
    BY DEF C!DetailMethod
  <1>3. f # "url" => C!Same(z, d[f])
    BY <1>2 DEF C!Carried, C!Silent, C!Same, C!Blank
  <1>4. e = [what |-> f, resource |-> id, method |-> m, new |-> z]
    BY <1>1 DEF C!DetailEntry
  <1>. HIDE DEF m, z
  <1>5. e.what = f /\ "resource" \in DOMAIN e /\ e.resource = id /\ e.new = z
    BY <1>4
  <1>. QED  BY <1>1, <1>3, <1>5

\* The entries about resources, by what they are about.
NewOnes(o, d) ==
    {[what |-> "new_resource", resource |-> id, new |-> d.resources[id].name] :
        id \in DOMAIN d.resources \ DOMAIN o.resources}
GoneOnes(o, d) ==
    {[what |-> "delete_resource", resource |-> id] :
        id \in DOMAIN o.resources \ DOMAIN d.resources}
DetailsOf(id, o, d) == C!OneResource(id, o.resources[id], d.resources[id])
ExtrasOf(id, o, d) ==
    {[what |-> "resource_extras", resource |-> id, entry |-> e] :
        e \in C!ExtraChanges("extras", o.resources[id].extras, d.resources[id].extras)}

LEMMA ResourceParts ==
    ASSUME NEW o, NEW d, NEW e
    PROVE  e \in C!ResourceChanges(o, d) <=>
             \/ e \in NewOnes(o, d) \/ e \in GoneOnes(o, d)
             \/ \E id \in DOMAIN o.resources \cap DOMAIN d.resources :
                  e \in DetailsOf(id, o, d) \/ e \in ExtrasOf(id, o, d)
  <1>. DEFINE Ids == DOMAIN o.resources \cap DOMAIN d.resources
  <1>1. C!ResourceChanges(o, d) =
          NewOnes(o, d) \cup GoneOnes(o, d) \cup (UNION {DetailsOf(id, o, d) : id \in Ids})
            \cup (UNION {ExtrasOf(id, o, d) : id \in Ids})
    BY Zenon DEF C!ResourceChanges, NewOnes, GoneOnes, DetailsOf, ExtrasOf
  <1>2. ASSUME NEW A, NEW B, NEW Ds, NEW Xs, C!ResourceChanges(o, d) = A \cup B \cup Ds \cup Xs
        PROVE  e \in C!ResourceChanges(o, d) <=> e \in A \/ e \in B \/ e \in Ds \/ e \in Xs
    BY <1>2
  <1>3. e \in C!ResourceChanges(o, d) <=>
          \/ e \in NewOnes(o, d) \/ e \in GoneOnes(o, d)
          \/ e \in UNION {DetailsOf(id, o, d) : id \in Ids}
          \/ e \in UNION {ExtrasOf(id, o, d) : id \in Ids}
    BY <1>1, <1>2, Zenon
  <1>4. e \in UNION {DetailsOf(id, o, d) : id \in Ids} <=>
          \E id \in Ids : e \in DetailsOf(id, o, d)
    OBVIOUS
  <1>5. e \in UNION {ExtrasOf(id, o, d) : id \in Ids} <=>
          \E id \in Ids : e \in ExtrasOf(id, o, d)
    OBVIOUS
  <1>6. e \in C!ResourceChanges(o, d) <=>
          \/ e \in NewOnes(o, d) \/ e \in GoneOnes(o, d)
          \/ (\E id \in Ids : e \in DetailsOf(id, o, d))
          \/ (\E id \in Ids : e \in ExtrasOf(id, o, d))
    BY <1>3, <1>4, <1>5, Zenon
  <1>. QED  BY <1>6, Zenon

LEMMA ResourceEntries ==
    ASSUME NEW o, NEW d, NEW e \in C!ResourceChanges(o, d)
    PROVE  LET Ids == DOMAIN o.resources \cap DOMAIN d.resources IN
           /\ "resource" \in DOMAIN e
           /\ \/ e.what = "new_resource" /\ e.resource \in DOMAIN d.resources \ DOMAIN o.resources
              \/ e.what = "delete_resource"
                 /\ e.resource \in DOMAIN o.resources \ DOMAIN d.resources
              \/ /\ e.what \in C!Details /\ e.resource \in Ids
                 /\ e \in C!OneResource(e.resource, o.resources[e.resource],
                                        d.resources[e.resource])
              \/ /\ e.what = "resource_extras" /\ e.resource \in Ids
                 /\ e.entry \in C!ExtraChanges("extras", o.resources[e.resource].extras,
                                               d.resources[e.resource].extras)
  <1>. DEFINE Ids == DOMAIN o.resources \cap DOMAIN d.resources
  <1>1. \/ e \in NewOnes(o, d) \/ e \in GoneOnes(o, d)
        \/ \E id \in Ids : e \in DetailsOf(id, o, d) \/ e \in ExtrasOf(id, o, d)
    BY ResourceParts
  <1>2. CASE e \in NewOnes(o, d)
    BY <1>2 DEF NewOnes
  <1>3. CASE e \in GoneOnes(o, d)
    BY <1>3 DEF GoneOnes
  <1>4. ASSUME NEW id \in Ids, e \in DetailsOf(id, o, d)
        PROVE  "resource" \in DOMAIN e /\ e.what \in C!Details /\ e.resource = id
    BY <1>4, DetailEntries DEF DetailsOf
  <1>5. ASSUME NEW id \in Ids, e \in ExtrasOf(id, o, d)
        PROVE  /\ "resource" \in DOMAIN e /\ e.what = "resource_extras" /\ e.resource = id
               /\ e.entry \in C!ExtraChanges("extras", o.resources[id].extras,
                                             d.resources[id].extras)
    BY <1>5 DEF ExtrasOf
  <1>6. CASE \E id \in Ids : e \in DetailsOf(id, o, d)
    <2>1. PICK id \in Ids : e \in DetailsOf(id, o, d)
      BY <1>6
    <2>2. "resource" \in DOMAIN e /\ e.what \in C!Details /\ e.resource = id
      BY <1>4, <2>1
    <2>. QED  BY <2>1, <2>2 DEF DetailsOf
  <1>7. CASE \E id \in Ids : e \in ExtrasOf(id, o, d)
    BY <1>5, <1>7
  <1>. QED  BY <1>1, <1>2, <1>3, <1>6, <1>7

LEMMA ResourceEntriesExist ==
    ASSUME NEW o, NEW d
    PROVE  LET Ids == DOMAIN o.resources \cap DOMAIN d.resources
               E == C!ResourceChanges(o, d)
           IN
           /\ \A id \in DOMAIN d.resources \ DOMAIN o.resources :
                \E e \in E : e.what = "new_resource" /\ e.resource = id
           /\ \A id \in DOMAIN o.resources \ DOMAIN d.resources :
                \E e \in E : e.what = "delete_resource" /\ e.resource = id
           /\ \A id \in Ids, f \in C!Details : o.resources[id][f] # d.resources[id][f] =>
                \E e \in E : e.what = f /\ e.resource = id
  <1>1. ASSUME NEW id \in DOMAIN d.resources \ DOMAIN o.resources
        PROVE  \E e \in C!ResourceChanges(o, d) : e.what = "new_resource" /\ e.resource = id
    <2>. DEFINE e == [what |-> "new_resource", resource |-> id, new |-> d.resources[id].name]
    <2>1. e \in C!ResourceChanges(o, d)
      BY ResourceParts DEF NewOnes
    <2>2. e.what = "new_resource" /\ e.resource = id
      OBVIOUS
    <2>. QED  BY <2>1, <2>2
  <1>2. ASSUME NEW id \in DOMAIN o.resources \ DOMAIN d.resources
        PROVE  \E e \in C!ResourceChanges(o, d) : e.what = "delete_resource" /\ e.resource = id
    <2>. DEFINE e == [what |-> "delete_resource", resource |-> id]
    <2>1. e \in C!ResourceChanges(o, d)
      BY ResourceParts DEF GoneOnes
    <2>2. e.what = "delete_resource" /\ e.resource = id
      OBVIOUS
    <2>. QED  BY <2>1, <2>2
  <1>3. ASSUME NEW id \in DOMAIN o.resources \cap DOMAIN d.resources, NEW f \in C!Details,
               o.resources[id][f] # d.resources[id][f]
        PROVE  \E e \in C!ResourceChanges(o, d) : e.what = f /\ e.resource = id
    <2>1. PICK e \in C!OneResource(id, o.resources[id], d.resources[id]) :
            e.what = f /\ e.resource = id
      <3>. DEFINE p == o.resources[id]
                  q == d.resources[id]
                  e == C!DetailEntry(id, f, p[f], q[f])
      <3>1. e \in C!OneResource(id, p, q)
        BY <1>3 DEF C!OneResource
      <3>2. e.what = f /\ e.resource = id
        BY DEF C!DetailEntry
      <3>. QED  BY <3>1, <3>2
    <2>2. e \in C!ResourceChanges(o, d)
      BY <2>1, ResourceParts DEF DetailsOf
    <2>. QED  BY <2>1, <2>2
  <1>. QED  BY <1>1, <1>2, <1>3

LEMMA ExtraEntryExists ==
    ASSUME NEW o, NEW d, NEW id \in DOMAIN o.resources \cap DOMAIN d.resources,
           NEW x \in C!ExtraChanges("extras", o.resources[id].extras, d.resources[id].extras)
    PROVE  \E e \in C!ResourceChanges(o, d) :
              e.what = "resource_extras" /\ e.resource = id /\ e.entry = x
  <1>. DEFINE e == [what |-> "resource_extras", resource |-> id, entry |-> x]
  <1>1. e \in ExtrasOf(id, o, d)
    BY DEF ExtrasOf
  <1>2. e \in C!ResourceChanges(o, d)
    BY <1>1, ResourceParts
  <1>3. e.what = "resource_extras" /\ e.resource = id /\ e.entry = x
    OBVIOUS
  <1>. QED  BY <1>2, <1>3

LEMMA SummaryParts ==
    ASSUME NEW o, NEW d
    PROVE  LET S == C!Summary(o, d) IN
           /\ C!About(S, "field") = C!FieldChanges(o, d)
           /\ C!About(S, "tags") = C!TagChanges(o, d)
           /\ C!About(S, "extension_fields") = C!ExtensionChanges(o, d)
           /\ C!About(S, "extra_fields") = C!ExtraChanges("extra_fields", o.extras, d.extras)
           /\ {e \in S : "resource" \in DOMAIN e} = C!ResourceChanges(o, d)
           /\ \A w \in {"new_resource", "delete_resource"} :
                C!About(S, w) = {e \in C!ResourceChanges(o, d) : e.what = w}
  <1>. DEFINE S == C!Summary(o, d)
              X == C!ExtraChanges("extra_fields", o.extras, d.extras)
              Y == C!ResourceChanges(o, d)
  <1>1. S = C!FieldChanges(o, d) \cup C!TagChanges(o, d) \cup C!ExtensionChanges(o, d)
              \cup X \cup Y
    BY DEF C!Summary
  <1>2. \A e \in C!FieldChanges(o, d) : e.what = "field" /\ "resource" \notin DOMAIN e
    BY FieldEntries
  <1>3. \A e \in C!TagChanges(o, d) : e.what = "tags" /\ "resource" \notin DOMAIN e
    BY TagEntries
  <1>4. \A e \in C!ExtensionChanges(o, d) :
          e.what = "extension_fields" /\ "resource" \notin DOMAIN e
    BY ExtensionEntries
  <1>5. \A e \in X : e.what = "extra_fields" /\ "resource" \notin DOMAIN e
    BY ExtraEntries
  <1>6. \A e \in Y : "resource" \in DOMAIN e
                     /\ e.what \notin {"field", "tags", "extension_fields", "extra_fields"}
    BY ResourceEntries DEF C!Details
  <1>. HIDE DEF S, X, Y
  <1>7. \A w : C!About(S, w) = {e \in S : e.what = w}
    BY DEF C!About
  <1>8. C!About(S, "field") = C!FieldChanges(o, d)
    <2>1. ASSUME NEW e PROVE e \in S /\ e.what = "field" <=> e \in C!FieldChanges(o, d)
      BY <1>1, <1>2, <1>3, <1>4, <1>5, <1>6
    <2>. QED  BY <1>7, <2>1
  <1>9. C!About(S, "tags") = C!TagChanges(o, d)
    <2>1. ASSUME NEW e PROVE e \in S /\ e.what = "tags" <=> e \in C!TagChanges(o, d)
      BY <1>1, <1>2, <1>3, <1>4, <1>5, <1>6
    <2>. QED  BY <1>7, <2>1
  <1>10. C!About(S, "extension_fields") = C!ExtensionChanges(o, d)
    BY <1>1, <1>2, <1>3, <1>4, <1>5, <1>6, <1>7
  <1>11. C!About(S, "extra_fields") = X
    BY <1>1, <1>2, <1>3, <1>4, <1>5, <1>6, <1>7
  <1>12. {e \in S : "resource" \in DOMAIN e} = Y
    BY <1>1, <1>2, <1>3, <1>4, <1>5, <1>6
  <1>13. ASSUME NEW w \in {"new_resource", "delete_resource"}
         PROVE  C!About(S, w) = {e \in Y : e.what = w}
    BY <1>1, <1>2, <1>3, <1>4, <1>5, <1>7
  <1>. QED  BY <1>8, <1>9, <1>10, <1>11, <1>12, <1>13 DEF S, X, Y

\* A value is read off the entry that tells it.
LEMMA ValueRead ==
    ASSUME NEW E, NEW v, NEW z, E = {} => v = z, \A e \in E : C!Same(e.new, z)
    PROVE  C!Same(C!ReadValue(E, v), z)
  <1>1. CASE E = {}
    BY <1>1 DEF C!Same, C!ReadValue
  <1>2. CASE E # {}
    <2>1. PICK e \in E : e = CHOOSE x \in E : TRUE
      BY <1>2
    <2>. QED  BY <1>2, <2>1 DEF C!ReadValue
  <1>. QED  BY <1>1, <1>2

LEMMA SummaryTells == C!SummaryTellsAll
  <1>. DEFINE S == C!Summary(old, new)
              Y == C!ResourceChanges(old, new)
              Of(id) == {e \in Y : e.resource = id}
              Both == DOMAIN old.resources \cap DOMAIN new.resources
  <1>1. ASSUME NEW f \in C!Fields
        PROVE  C!Same(C!ReadValue({e \in C!About(S, "field") : e.key = f}, old.fields[f]),
                      new.fields[f])
    <2>. DEFINE E == {e \in C!FieldChanges(old, new) : e.key = f}
    <2>1. C!About(S, "field") = C!FieldChanges(old, new)
      BY SummaryParts
    <2>2. ASSUME NEW e \in E PROVE C!Same(e.new, new.fields[f])
      BY FieldEntries
    <2>3. E = {} => old.fields[f] = new.fields[f]
      <3>1. ASSUME old.fields[f] # new.fields[f] PROVE E # {}
        <4>. DEFINE e == C!FieldEntry(f, old.fields[f], new.fields[f])
        <4>1. e \in C!FieldChanges(old, new)
          BY <3>1 DEF C!FieldChanges
        <4>2. e.key = f
          BY DEF C!FieldEntry
        <4>. QED  BY <4>1, <4>2
      <3>. QED  BY <3>1
    <2>. HIDE DEF E
    <2>4. C!Same(C!ReadValue(E, old.fields[f]), new.fields[f])
      BY <2>2, <2>3, ValueRead
    <2>. QED  BY <2>1, <2>4 DEF E
  <1>2. new.tags = (old.tags \ C!Keys(C!About(S, "tags"), C!RemoveMethods))
                     \cup C!Keys(C!About(S, "tags"), C!AddMethods)
    <2>1. C!About(S, "tags") = C!TagChanges(old, new)
      BY SummaryParts
    <2>2. C!Keys(C!TagChanges(old, new), C!RemoveMethods) = old.tags \ new.tags
      BY TagEntries, TagEntriesExist DEF C!Keys
    <2>3. C!Keys(C!TagChanges(old, new), C!AddMethods) = new.tags \ old.tags
      BY TagEntries, TagEntriesExist DEF C!Keys
    <2>. QED  BY <2>1, <2>2, <2>3
  <1>3. C!Agree(C!ReadExtras(C!About(S, "extra_fields"), old.extras), new.extras)
    BY SummaryParts, ExtrasRead
  <1>4. ASSUME NEW f \in DOMAIN old.extension \cap DOMAIN new.extension
        PROVE  new.extension[f] =
                 LET E == {e \in C!About(S, "extension_fields") : e.key = f}
                 IN  IF E = {} THEN old.extension[f] ELSE (CHOOSE e \in E : TRUE).new
    <2>. DEFINE E == {e \in C!ExtensionChanges(old, new) : e.key = f}
    <2>1. C!About(S, "extension_fields") = C!ExtensionChanges(old, new)
      BY SummaryParts
    <2>2. \A e \in E : e.new = new.extension[f]
      BY ExtensionEntries
    <2>3. E = {} => old.extension[f] = new.extension[f]
      <3>1. ASSUME old.extension[f] # new.extension[f] PROVE E # {}
        <4>. DEFINE e == [what |-> "extension_fields", key |-> f, new |-> new.extension[f]]
        <4>1. e \in C!ExtensionChanges(old, new)
          BY <3>1 DEF C!ExtensionChanges
        <4>2. e.key = f
          OBVIOUS
        <4>. QED  BY <4>1, <4>2
      <3>. QED  BY <3>1
    <2>. HIDE DEF E
    <2>4. E # {} => (CHOOSE e \in E : TRUE) \in E
      OBVIOUS
    <2>5. new.extension[f] = IF E = {} THEN old.extension[f] ELSE (CHOOSE e \in E : TRUE).new
      BY <2>2, <2>3, <2>4
    <2>. QED  BY <2>1, <2>5 DEF E
  <1>5. DOMAIN new.resources =
          (DOMAIN old.resources \ {e.resource : e \in C!About(S, "delete_resource")})
            \cup {e.resource : e \in C!About(S, "new_resource")}
    <2>1. /\ C!About(S, "delete_resource") = {e \in Y : e.what = "delete_resource"}
          /\ C!About(S, "new_resource") = {e \in Y : e.what = "new_resource"}
      BY SummaryParts
    <2>2. {e.resource : e \in {x \in Y : x.what = "delete_resource"}}
            = DOMAIN old.resources \ DOMAIN new.resources
      BY ResourceEntries, ResourceEntriesExist DEF C!Details
    <2>3. {e.resource : e \in {x \in Y : x.what = "new_resource"}}
            = DOMAIN new.resources \ DOMAIN old.resources
      BY ResourceEntries, ResourceEntriesExist DEF C!Details
    <2>. QED  BY <2>1, <2>2, <2>3
  <1>6. ASSUME NEW id \in Both, NEW f \in C!Details
        PROVE  LET E == C!About(Of(id), f) IN
               /\ E = {} <=> old.resources[id][f] = new.resources[id][f]
               /\ f # "url" => C!Same(C!ReadValue(E, old.resources[id][f]),
                                      new.resources[id][f])
    <2>. DEFINE E == {e \in Y : e.resource = id /\ e.what = f}
    <2>1. C!About(Of(id), f) = E
      BY DEF C!About
    <2>2. ASSUME NEW e \in E
          PROVE  /\ old.resources[id][f] # new.resources[id][f]
                 /\ f # "url" => C!Same(e.new, new.resources[id][f])
      <3>1. e \in C!OneResource(id, old.resources[id], new.resources[id])
        BY <1>6, ResourceEntries DEF C!Details
      <3>. QED  BY <3>1, DetailEntries
    <2>3. E = {} => old.resources[id][f] = new.resources[id][f]
      BY ResourceEntriesExist
    <2>. HIDE DEF E
    <2>4. E = {} <=> old.resources[id][f] = new.resources[id][f]
      BY <2>2, <2>3
    <2>. QED  BY <2>1, <2>2, <2>4, ValueRead
  <1>7. ASSUME NEW id \in Both
        PROVE  C!Agree(C!ReadExtras({e.entry : e \in C!About(Of(id), "resource_extras")},
                                    old.resources[id].extras),
                       new.resources[id].extras)
    <2>. DEFINE X == C!ExtraChanges("extras", old.resources[id].extras,
                                    new.resources[id].extras)
    <2>. DEFINE E == {x \in Y : x.resource = id /\ x.what = "resource_extras"}
    <2>1. {e.entry : e \in E} = X
      <3>1. \A e \in E : e.entry \in X
        BY ResourceEntries DEF C!Details
      <3>2. ASSUME NEW x \in X PROVE \E e \in E : e.entry = x
        <4>1. \E e \in Y : e.what = "resource_extras" /\ e.resource = id /\ e.entry = x
          BY ExtraEntryExists
        <4>. QED  BY <4>1
      <3>. HIDE DEF E, X
      <3>. QED  BY <3>1, <3>2
    <2>2. C!About(Of(id), "resource_extras")
            = {x \in Y : x.resource = id /\ x.what = "resource_extras"}
      BY DEF C!About
    <2>3. C!Agree(C!ReadExtras(X, old.resources[id].extras), new.resources[id].extras)
      BY ExtrasRead
    <2>. QED  BY <2>1, <2>2, <2>3
  <1>8. {e \in S : "resource" \in DOMAIN e} = Y
    BY SummaryParts
  <1>. HIDE DEF S, Y
  <1>9. ASSUME NEW id \in Both
        PROVE  /\ \A f \in {"name", "format", "description"} :
                    C!Same(C!ReadValue(C!About(Of(id), f), old.resources[id][f]),
                           new.resources[id][f])
               /\ C!About(Of(id), "url") = {}
                    <=> old.resources[id].url = new.resources[id].url
    <2>1. {"name", "format", "description", "url"} = C!Details
      BY DEF C!Details
    <2>. HIDE DEF Of, Both
    <2>2. ASSUME NEW f \in {"name", "format", "description"}
          PROVE  C!Same(C!ReadValue(C!About(Of(id), f), old.resources[id][f]),
                        new.resources[id][f])
      BY <1>6, <2>1
    <2>3. C!About(Of(id), "url") = {}
            <=> old.resources[id]["url"] = new.resources[id]["url"]
      BY <1>6, <2>1
    <2>. QED  BY <2>2, <2>3
  <1>. QED  BY <1>1, <1>2, <1>3, <1>4, <1>5, <1>7, <1>8, <1>9 DEF C!SummaryTellsAll, S

\* Whatever fields a site and its extensions have: the summary of the changes
\* of two versions of a dataset tells what the newer one is; of the url of a
\* resource it tells that it is another one, and not which
\* (check_metadata_changes, check_resource_changes).
THEOREM SummaryAlwaysTells == MCSpec => []SummaryTellsAll
  <1>1. SummaryTellsAll
    BY SummaryTells DEF SummaryTellsAll
  <1>. QED  BY <1>1, PTL DEF MCSpec

-----------------------------------------------------------------------------
(* Page views.  The days before the last that has rows are past, and their *)
(* rows count them exactly; so do the rows of the days that a run has gone *)
(* through.  A dataset whose rows a run has yet to make anew has been      *)
(* viewed since the run's start, and is indexed again when it ends.        *)

Run == proc[Cron]

\* There is one row for a url and a day, and it has a total when its dataset
\* is known.
Rowed ==
    /\ T!TypeOK
    /\ IsFiniteSet(rows)
    /\ \A r \in rows :
         /\ r.day <= today
         /\ r.count >= 1
         /\ T!Viewers(r.url, r.day) # {}
         /\ r.pkg \in Datasets <=> r.total # 0
         /\ \A s \in rows : s.url = r.url /\ s.day = r.day => s = r

\* A run goes from its start on, to a day that has come.
Timed ==
    /\ done <= today
    /\ Run.end <= today
    /\ Run.pc # "idle" => 1 <= Run.start /\ Run.start <= Run.day
    /\ Run.pc = "totals" => Run.day <= Run.end
    /\ Run.pc = "rebuild" => Run.day > Run.end
    /\ Run.pc # "rebuild" => Run.todo = {}

\* Days that are past and were summed up.
Summed(d) ==
    \/ d < done
    \/ \E r \in rows : d < r.day
    \/ /\ Run.pc # "idle" /\ d < Run.end
       /\ d < Run.day \/ (d = Run.day /\ Run.pc = "totals")

\* The rows of a day tell its views, and those of the days before it.
Counted(d) ==
    \A url \in Pages :
       /\ T!Viewers(url, d) # {} => \E r \in rows : r.url = url /\ r.day = d
       /\ \A r \in rows : r.url = url /\ r.day = d =>
            /\ r.count = Cardinality(T!Viewers(url, d))
            /\ r.pkg \in Datasets =>
                 /\ r.total = T!Views(url, 1..d)
                 /\ r.recent = T!Views(url, {x \in 1..d : x >= d - Recent})

Exact == \A d \in 1..MaxDay : Summed(d) => Counted(d)

\* Rows keep the dataset that had the name of the page.
Named == \A r \in rows : r.pkg \in Datasets \ renamed => name[r.url] = r.pkg

\* A row since the start of the run is or will be of the dataset.
Waits(d) ==
    \E r \in rows : r.day >= Run.start /\ (r.pkg = d \/ (r.pkg = None /\ name[r.url] = d))

\* The index tells the last total of a dataset, or the run will see to it.
Fresh ==
    ~broken =>
      /\ \A r \in rows : r.pkg = None => Run.pc = "totals" /\ r.day = Run.day
      /\ \A d \in Datasets \ (renamed \cup failed) :
           \/ indexed[d] = T!TotalOf(rows, d)
           \/ Run.pc \in {"day", "totals"} /\ Waits(d)
           \/ d \in Run.todo

Tracked == Rowed /\ Timed /\ Exact /\ Named /\ Fresh

LEMMA TrackingCounts == ASSUME NEW S PROVE T!Cardinality(S) = Cardinality(S)
  BY DEF Cardinality, T!Cardinality

LEMMA LastOf ==
    ASSUME NEW m \in Nat, NEW S \in SUBSET (0..m), S # {}
    PROVE  \E i \in S : \A j \in S : j <= i
  <1>1. {m - i : i \in S} \in SUBSET Nat /\ {m - i : i \in S} # {}
    <2>1. \A i \in S : i \in 0..m
      OBVIOUS
    <2>2. \A i \in S : m - i \in Nat
      BY <2>1
    <2>. QED  BY <2>2
  <1>2. PICK k \in {m - i : i \in S} : \A j \in {m - i : i \in S} : k <= j
    BY <1>1, LeastNumber
  <1>3. PICK i \in S : k = m - i
    BY <1>2
  <1>4. ASSUME NEW j \in S PROVE j <= i
    <2>1. k <= m - j
      BY <1>2
    <2>. QED  BY <1>3, <2>1
  <1>. QED  BY <1>4

LEMMA LastDayIsLast ==
    ASSUME Rowed
    PROVE  /\ T!LastDay \in Nat
           /\ \A r \in rows : r.day <= T!LastDay
           /\ T!LastDay = 0 \/ \E r \in rows : r.day = T!LastDay
  <1>. DEFINE S == {0} \cup {r.day : r \in rows}
  <1>1. S \in SUBSET (0..MaxDay) /\ S # {}
    BY Viewing DEF Rowed, T!TypeOK, T!Rows, T!Days
  <1>2. PICK i \in S : \A j \in S : j <= i
    BY <1>1, LastOf, Viewing
  <1>3. \A j \in S : j \in Nat
    BY <1>1, Viewing
  <1>4. T!LastDay \in S /\ \A j \in S : T!LastDay >= j
    <2>1. i \in S /\ \A j \in S : i >= j
      BY <1>2, <1>3
    <2>2. T!LastDay = CHOOSE x \in S : \A y \in S : x >= y
      BY DEF T!LastDay, T!Max
    <2>. QED  BY <2>1, <2>2
  <1>. QED  BY <1>3, <1>4

LEMMA LaterOf ==
    ASSUME NEW a \in Nat, NEW b \in Nat
    PROVE  /\ T!Max({a, b}) \in Nat
           /\ \A c \in Nat : c < T!Max({a, b}) => c < a \/ c < b
           /\ \A c \in Nat : a <= c /\ b <= c => T!Max({a, b}) <= c
  <1>1. \E x \in {a, b} : \A y \in {a, b} : x >= y
    OBVIOUS
  <1>2. T!Max({a, b}) \in {a, b}
    BY <1>1 DEF T!Max
  <1>. QED  BY <1>2

LEMMA TotalIsNumber ==
    ASSUME NEW Q \in SUBSET T!Rows, NEW d
    PROVE  T!TotalOf(Q, d) \in Nat
  <1>. DEFINE Of == {r \in Q : r.pkg = d}
  <1>1. CASE Of = {}
    BY <1>1 DEF T!TotalOf
  <1>2. CASE Of # {}
    <2>1. {r.day : r \in Of} \in SUBSET (0..MaxDay) /\ {r.day : r \in Of} # {}
      BY <1>2, Viewing DEF T!Rows, T!Days
    <2>2. PICK i \in {r.day : r \in Of} : \A j \in {r.day : r \in Of} : j <= i
      BY <2>1, LastOf, Viewing
    <2>3. \E r \in Of : \A s \in Of : s.day <= r.day
      BY <2>2
    <2>4. T!TotalOf(Q, d) = (CHOOSE r \in Of : \A s \in Of : s.day <= r.day).total
      BY <1>2 DEF T!TotalOf
    <2>5. (CHOOSE r \in Of : \A s \in Of : s.day <= r.day) \in Q
      BY <2>3
    <2>. QED  BY <2>4, <2>5 DEF T!Rows
  <1>. QED  BY <1>1, <1>2

LEMMA TotalOfThese ==
    ASSUME NEW Q, NEW W, NEW d, {r \in Q : r.pkg = d} = {r \in W : r.pkg = d}
    PROVE  T!TotalOf(Q, d) = T!TotalOf(W, d)
  <1>. DEFINE Total(Of) == IF Of = {} THEN 0
                           ELSE (CHOOSE r \in Of : \A s \in Of : s.day <= r.day).total
  <1>1. /\ T!TotalOf(Q, d) = Total({r \in Q : r.pkg = d})
        /\ T!TotalOf(W, d) = Total({r \in W : r.pkg = d})
    BY DEF T!TotalOf
  <1>. HIDE DEF Total
  <1>. QED  BY <1>1

LEMMA ViewersFinite ==
    ASSUME NEW url, NEW d
    PROVE  /\ IsFiniteSet(T!Viewers(url, d)) /\ Cardinality(T!Viewers(url, d)) \in Nat
           /\ T!Viewers(url, d) # {} => Cardinality(T!Viewers(url, d)) >= 1
  <1>1. T!Viewers(url, d) \in SUBSET Visitors
    BY DEF T!Viewers
  <1>2. IsFiniteSet(T!Viewers(url, d))
    BY <1>1, Viewing, FS_Subset
  <1>3. Cardinality(T!Viewers(url, d)) \in Nat
    BY <1>2, FS_CardinalityType
  <1>4. T!Viewers(url, d) # {} => Cardinality(T!Viewers(url, d)) # 0
    BY <1>2, FS_EmptySet
  <1>. QED  BY <1>2, <1>3, <1>4

LEMMA RowsFinite ==
    ASSUME NEW Q \in SUBSET T!Rows,
           \A r, s \in Q : s.url = r.url /\ s.day = r.day => s = r
    PROVE  IsFiniteSet(Q)
  <1>1. IsFiniteSet(1..MaxDay)
    BY FS_Interval, Viewing
  <1>2. IsFiniteSet(Pages \X (1..MaxDay))
    BY <1>1, FS_Product, Viewing
  <1>. DEFINE f == [r \in Q |-> <<r.url, r.day>>]
  <1>3. f \in Injection(Q, Pages \X (1..MaxDay))
    <2>1. f \in [Q -> Pages \X (1..MaxDay)]
      BY DEF T!Rows, T!Urls, T!Days
    <2>. QED  BY <2>1 DEF Injection, IsInjective
  <1>. HIDE DEF f
  <1>. QED  BY <1>2, <1>3, FS_Injection

LEMMA PairsFinite ==
    ASSUME NEW Q \in SUBSET T!Rows, IsFiniteSet(Q)
    PROVE  /\ T!Sum(Q) = Cardinality(UNION {{r} \X (1..r.count) : r \in Q})
           /\ T!Sum(Q) \in Nat
           /\ (\E r \in Q : r.count >= 1) => T!Sum(Q) >= 1
  <1>. DEFINE piece(r) == {r} \X (1..r.count)
              Parts == {piece(r) : r \in Q}
              f == [r \in Q |-> piece(r)]
  <1>1. T!Sum(Q) = Cardinality(UNION Parts)
    BY TrackingCounts DEF T!Sum
  <1>2. IsFiniteSet(Parts)
    <2>1. f \in Surjection(Q, Parts)
      BY DEF Surjection
    <2>. QED  BY <2>1, FS_Surjection
  <1>3. ASSUME NEW r \in Q PROVE IsFiniteSet(piece(r))
    <2>1. r.count \in Int /\ 1 \in Int
      BY DEF T!Rows
    <2>2. IsFiniteSet(1..r.count)
      BY <2>1, FS_Interval
    <2>3. IsFiniteSet({r})
      BY FS_Singleton
    <2>. QED  BY <2>2, <2>3, FS_Product
  <1>4. IsFiniteSet(UNION Parts)
    BY <1>2, <1>3, FS_UNION
  <1>5. Cardinality(UNION Parts) \in Nat
    BY <1>4, FS_CardinalityType
  <1>6. ASSUME NEW r \in Q, r.count >= 1 PROVE T!Sum(Q) >= 1
    <2>1. <<r, 1>> \in piece(r)
      BY <1>6 DEF T!Rows
    <2>2. UNION Parts # {}
      BY <2>1
    <2>3. Cardinality(UNION Parts) # 0
      BY <1>4, <2>2, FS_EmptySet
    <2>. QED  BY <1>1, <1>5, <2>3
  <1>. QED  BY <1>1, <1>5, <1>6

\* The sum of the counts of days is the number of views in these days.
LEMMA SumIsViews ==
    ASSUME NEW Q \in SUBSET T!Rows, NEW url, NEW D \in SUBSET (1..MaxDay),
           \A r \in Q : /\ r.url = url /\ r.day \in D
                        /\ r.count = Cardinality(T!Viewers(url, r.day)),
           \A r, s \in Q : r.day = s.day => r = s,
           \A d \in D : T!Viewers(url, d) # {} => \E r \in Q : r.day = d
    PROVE  T!Sum(Q) = T!Views(url, D)
  <1>. DEFINE Pairs == UNION {{r} \X (1..r.count) : r \in Q}
              Seen == {x \in Visitors \X D : x[1] \in T!Viewers(url, x[2])}
              Of(r) == CHOOSE f \in Bijection(1..r.count, T!Viewers(url, r.day)) : TRUE
              g == [x \in Pairs |-> <<Of(x[1])[x[2]], x[1].day>>]
  <1>1. T!Views(url, D) = Cardinality(Seen)
    BY TrackingCounts DEF T!Views
  <1>2. T!Sum(Q) = Cardinality(Pairs)
    BY TrackingCounts DEF T!Sum
  <1>3. ASSUME NEW r \in Q PROVE Of(r) \in Bijection(1..r.count, T!Viewers(url, r.day))
    <2>1. IsFiniteSet(T!Viewers(url, r.day)) /\ r.count = Cardinality(T!Viewers(url, r.day))
      BY ViewersFinite
    <2>2. Bijection(1..r.count, T!Viewers(url, r.day)) # {}
      BY <2>1, FS_CardinalityType DEF ExistsBijection
    <2>. QED  BY <2>2
  <1>4. ASSUME NEW r \in Q
        PROVE  /\ \A i \in 1..r.count : Of(r)[i] \in T!Viewers(url, r.day)
               /\ \A i, j \in 1..r.count : Of(r)[i] = Of(r)[j] => i = j
               /\ \A v \in T!Viewers(url, r.day) : \E i \in 1..r.count : Of(r)[i] = v
    <2>1. PICK f : f = Of(r)
      OBVIOUS
    <2>2. f \in Bijection(1..r.count, T!Viewers(url, r.day))
      BY <1>3, <2>1
    <2>3. /\ \A i \in 1..r.count : f[i] \in T!Viewers(url, r.day)
          /\ \A i, j \in 1..r.count : f[i] = f[j] => i = j
          /\ \A v \in T!Viewers(url, r.day) : \E i \in 1..r.count : f[i] = v
      BY <2>2 DEF Bijection, Injection, Surjection, IsInjective
    <2>. QED  BY <2>1, <2>3
  <1>. HIDE DEF Of
  <1>5. \A x \in Pairs : /\ x[1] \in Q /\ x[2] \in 1..x[1].count
                         /\ x = <<x[1], x[2]>>
    OBVIOUS
  <1>6. \A r \in Q : \A i \in 1..r.count : <<r, i>> \in Pairs
    OBVIOUS
  <1>. HIDE DEF Pairs
  <1>7. g \in [Pairs -> Seen]
    <2>. SUFFICES ASSUME NEW x \in Pairs PROVE <<Of(x[1])[x[2]], x[1].day>> \in Seen
      OBVIOUS
    <2>1. Of(x[1])[x[2]] \in T!Viewers(url, x[1].day) /\ x[1].day \in D
      BY <1>4, <1>5
    <2>2. T!Viewers(url, x[1].day) \subseteq Visitors
      BY DEF T!Viewers
    <2>. QED  BY <2>1, <2>2
  <1>8. ASSUME NEW x \in Pairs, NEW y \in Pairs, g[x] = g[y] PROVE x = y
    <2>1. x[1].day = y[1].day /\ Of(x[1])[x[2]] = Of(y[1])[y[2]]
      BY <1>8
    <2>2. x[1] = y[1]
      BY <1>5, <2>1
    <2>3. x[2] = y[2]
      BY <1>4, <1>5, <2>1, <2>2
    <2>. QED  BY <1>5, <2>2, <2>3
  <1>9. ASSUME NEW z \in Seen PROVE \E x \in Pairs : g[x] = z
    <2>1. z[2] \in D /\ z[1] \in T!Viewers(url, z[2]) /\ z = <<z[1], z[2]>>
      OBVIOUS
    <2>2. PICK r \in Q : r.day = z[2]
      BY <2>1
    <2>3. PICK i \in 1..r.count : Of(r)[i] = z[1]
      BY <1>4, <2>1, <2>2
    <2>4. <<r, i>> \in Pairs /\ g[<<r, i>>] = <<Of(r)[i], r.day>>
      BY <1>6
    <2>. QED  BY <2>1, <2>2, <2>3, <2>4
  <1>10. g \in Bijection(Pairs, Seen)
    BY <1>7, <1>8, <1>9 DEF Bijection, Injection, Surjection, IsInjective
  <1>11. IsFiniteSet(Seen)
    <2>1. IsFiniteSet(1..MaxDay)
      BY FS_Interval, Viewing
    <2>2. IsFiniteSet(D)
      BY <2>1, FS_Subset
    <2>3. IsFiniteSet(Visitors \X D)
      BY <2>2, FS_Product, Viewing
    <2>. QED  BY <2>3, FS_Subset
  <1>12. ExistsBijection(Seen, Pairs)
    BY <1>10, Fun_ExistsBijSymmetric DEF ExistsBijection
  <1>. HIDE DEF Seen
  <1>13. Cardinality(Pairs) = Cardinality(Seen)
    BY <1>11, <1>12, FS_Bijection
  <1>. QED  BY <1>1, <1>2, <1>13

LEMMA RunTyped ==
    ASSUME T!TypeOK
    PROVE  /\ Run.pc \in {"idle", "day", "totals", "rebuild"}
           /\ Run.day \in Nat /\ Run.start \in Nat /\ Run.end \in Nat
           /\ Run.todo \subseteq Datasets
           /\ today \in Nat /\ done \in Nat
           /\ \A r \in rows : /\ r.day \in 1..MaxDay /\ r.day \in Nat /\ r.count \in Nat
                              /\ r.url \in Pages /\ r.total \in Nat /\ r.recent \in Nat
  <1>1. Run \in T!Procs
    BY DEF T!TypeOK, Run
  <1>2. today \in Nat
    BY Viewing DEF T!TypeOK, T!Days
  <1>3. ASSUME NEW r \in rows
        PROVE  /\ r.day \in 1..MaxDay /\ r.day \in Nat /\ r.count \in Nat
               /\ r.url \in Pages /\ r.total \in Nat /\ r.recent \in Nat
    BY <1>3, Viewing DEF T!TypeOK, T!Rows, T!Urls, T!Days
  <1>. QED  BY <1>1, <1>2, <1>3 DEF T!Procs, T!TypeOK

\* Days that were summed up are past, and so are those before them.
LEMMA SummedPast ==
    ASSUME Rowed, Timed, NEW d \in 1..MaxDay, Summed(d)
    PROVE  d < today /\ \A e \in 1..d : Summed(e)
  <1>1. /\ d \in Nat /\ today \in Nat /\ done \in Nat /\ Run.end \in Nat /\ Run.day \in Nat
        /\ \A r \in rows : r.day \in Nat /\ r.day <= today
        /\ done <= today /\ Run.end <= today
    BY RunTyped, Viewing DEF Rowed, Timed
  <1>2. \A e \in 1..d : e \in Nat /\ e <= d
    BY <1>1
  <1>. QED  BY <1>1, <1>2 DEF Summed

LEMMA ViewsStay ==
    ASSUME NEW url, NEW D,
           \A e \in D : T!Viewers(url, e)' = T!Viewers(url, e)
    PROVE  T!Views(url, D)' = T!Views(url, D)
  <1>1. {x \in Visitors \X D : x[1] \in T!Viewers(url, x[2])}
          = {x \in Visitors \X D : x[1] \in T!Viewers(url, x[2])'}
    OBVIOUS
  <1>. QED  BY <1>1 DEF T!Views, T!Cardinality

LEMMA CountedStays ==
    ASSUME NEW d \in 1..MaxDay, Counted(d),
           \A url \in Pages, e \in 1..d : T!Viewers(url, e)' = T!Viewers(url, e),
           \A r : r.day = d => (r \in rows <=> r \in rows')
    PROVE  Counted(d)'
  <1>1. d \in 1..d
    BY Viewing
  <1>2. ASSUME NEW url \in Pages
        PROVE  /\ T!Viewers(url, d)' = T!Viewers(url, d)
               /\ T!Views(url, 1..d)' = T!Views(url, 1..d)
               /\ T!Views(url, {x \in 1..d : x >= d - Recent})'
                    = T!Views(url, {x \in 1..d : x >= d - Recent})
    BY <1>1, ViewsStay
  <1>3. ASSUME NEW url \in Pages, T!Viewers(url, d)' # {}
        PROVE  \E r \in rows' : r.url = url /\ r.day = d
    BY <1>2, <1>3 DEF Counted
  <1>4. ASSUME NEW url \in Pages, NEW r \in rows', r.url = url, r.day = d
        PROVE  /\ r.count = Cardinality(T!Viewers(url, d)')
               /\ r.pkg \in Datasets =>
                    /\ r.total = T!Views(url, 1..d)'
                    /\ r.recent = T!Views(url, {x \in 1..d : x >= d - Recent})'
    BY <1>2, <1>4 DEF Counted
  <1>. QED  BY <1>3, <1>4 DEF Counted

LEMMA InitTracked == T!Init => Tracked
  <1>. SUFFICES ASSUME T!Init PROVE Tracked
    OBVIOUS
  <1>1. Run = T!Idle /\ T!Idle \in T!Procs
    BY DEF T!Init, Run, T!Idle, T!Procs
  <1>2. Rowed
    <2>1. today \in T!Days
      BY Viewing DEF T!Init, T!Days
    <2>2. proc \in [{Cron} -> T!Procs]
      BY <1>1 DEF T!Init
    <2>3. T!TypeOK
      BY <2>1, <2>2 DEF T!Init, T!TypeOK
    <2>. QED  BY <2>3, FS_EmptySet DEF T!Init, Rowed
  <1>3. Timed
    BY <1>1 DEF T!Init, Timed, T!Idle
  <1>4. Exact
    <2>1. \A d \in 1..MaxDay : ~(d < 0)
      BY Viewing
    <2>. QED  BY <1>1, <2>1 DEF T!Init, Exact, Summed, T!Idle
  <1>5. Named /\ Fresh
    BY DEF T!Init, Named, Fresh, T!TotalOf
  <1>. QED  BY <1>2, <1>3, <1>4, <1>5 DEF Tracked

LEMMA StepView ==
    ASSUME Tracked, NEW url \in T!Urls, NEW v \in Visitors, T!View(url, v)
    PROVE  Tracked'
  <1>1. /\ raw' = raw \cup {<<url, v, today>>}
        /\ UNCHANGED <<today, rows, name, indexed, proc, done, broken, renamed, failed>>
    BY DEF T!View
  <1>2. /\ \A x, d : T!Viewers(x, d) \subseteq T!Viewers(x, d)'
        /\ \A x, d : d # today => T!Viewers(x, d) = T!Viewers(x, d)'
    BY <1>1 DEF T!Viewers
  <1>3. Rowed'
    <2>1. T!TypeOK'
      BY <1>1 DEF Tracked, Rowed, T!TypeOK
    <2>. QED  BY <1>1, <1>2, <2>1 DEF Tracked, Rowed
  <1>4. Timed' /\ Named' /\ Fresh'
    BY <1>1 DEF Tracked, Timed, Named, Fresh, Run, Waits, T!TotalOf
  <1>5. Exact'
    <2>. SUFFICES ASSUME NEW d \in 1..MaxDay, Summed(d)' PROVE Counted(d)'
      BY DEF Exact
    <2>1. Summed(d)
      BY <1>1 DEF Summed, Run
    <2>2. d < today /\ today \in Nat
      BY <2>1, SummedPast, RunTyped DEF Tracked, Rowed
    <2>3. \A x \in Pages, e \in 1..d : T!Viewers(x, e)' = T!Viewers(x, e)
      BY <1>2, <2>2, Viewing
    <2>. QED  BY <1>1, <2>1, <2>3, CountedStays DEF Tracked, Exact
  <1>. QED  BY <1>3, <1>4, <1>5 DEF Tracked

LEMMA StepTick == ASSUME Tracked, T!Tick PROVE Tracked'
  <1>1. /\ today < MaxDay /\ today' = today + 1
        /\ UNCHANGED <<raw, rows, name, indexed, proc, done, broken, renamed, failed>>
    BY DEF T!Tick
  <1>2. \A x, d : T!Viewers(x, d) = T!Viewers(x, d)'
    BY <1>1 DEF T!Viewers
  <1>3. today \in Nat /\ today <= today'
    BY <1>1, RunTyped DEF Tracked, Rowed
  <1>4. Rowed'
    <2>1. T!TypeOK'
      BY <1>1, <1>3, Viewing DEF Tracked, Rowed, T!TypeOK, T!Days
    <2>2. \A r \in rows : r.day <= today'
      BY <1>1, RunTyped DEF Tracked, Rowed
    <2>. QED  BY <1>1, <1>2, <2>1, <2>2 DEF Tracked, Rowed
  <1>5. Timed'
    <2>1. done <= today' /\ Run.end <= today'
      BY <1>1, RunTyped DEF Tracked, Rowed, Timed
    <2>. QED  BY <1>1, <2>1 DEF Tracked, Timed, Run
  <1>6. Named' /\ Fresh'
    BY <1>1 DEF Tracked, Named, Fresh, Run, Waits, T!TotalOf
  <1>7. Exact'
    <2>. SUFFICES ASSUME NEW d \in 1..MaxDay, Summed(d)' PROVE Counted(d)'
      BY DEF Exact
    <2>1. Summed(d)
      BY <1>1 DEF Summed, Run
    <2>. QED  BY <1>1, <1>2, <2>1, CountedStays DEF Tracked, Exact
  <1>. QED  BY <1>4, <1>5, <1>6, <1>7 DEF Tracked

\* What does not touch the views and the rows leaves the counts alone.
LEMMA CountsAlone ==
    ASSUME Tracked, UNCHANGED <<raw, rows>>,
           \A d \in 1..MaxDay : Summed(d)' => Summed(d)
    PROVE  Exact'
  <1>1. \A x, d : T!Viewers(x, d) = T!Viewers(x, d)'
    BY DEF T!Viewers
  <1>2. ASSUME NEW d \in 1..MaxDay, Summed(d)' PROVE Counted(d)'
    BY <1>1, <1>2, CountedStays DEF Tracked, Exact
  <1>. QED  BY <1>2 DEF Exact

LEMMA StepName ==
    ASSUME Tracked, NEW p \in Pages, NEW d \in Datasets, T!Name(p, d)
    PROVE  Tracked'
  <1>1. /\ name[p] = None
        /\ name' = [q \in Pages |-> IF q = p THEN d ELSE IF name[q] = d THEN None ELSE name[q]]
        /\ renamed' = IF \E q \in Pages : name[q] = d THEN renamed \cup {d} ELSE renamed
        /\ indexed' = [indexed EXCEPT ![d] = T!TotalOf(rows, d)]
        /\ failed' = failed \ {d}
        /\ UNCHANGED <<today, raw, rows, proc, done, broken>>
    BY DEF T!Name
  <1>2. \A x, e : T!Viewers(x, e) = T!Viewers(x, e)'
    BY <1>1 DEF T!Viewers
  <1>3. T!TypeOK /\ rows \in SUBSET T!Rows
    BY DEF Tracked, Rowed, T!TypeOK
  <1>4. Rowed'
    <2>1. T!TotalOf(rows, d) \in Nat
      BY <1>3, TotalIsNumber
    <2>2. name' \in [Pages -> Datasets \cup {None}]
      BY <1>1, <1>3 DEF T!TypeOK
    <2>3. indexed' \in [Datasets -> Nat \cup {None}]
      BY <1>1, <1>3, <2>1 DEF T!TypeOK
    <2>4. renamed' \subseteq Datasets /\ failed' \subseteq Datasets
      BY <1>1, <1>3 DEF T!TypeOK
    <2>5. T!TypeOK'
      BY <1>1, <1>3, <2>2, <2>3, <2>4 DEF T!TypeOK
    <2>. QED  BY <1>1, <1>2, <2>5 DEF Tracked, Rowed
  <1>5. Timed'
    BY <1>1 DEF Tracked, Timed, Run
  <1>6. Exact'
    <2>1. \A e \in 1..MaxDay : Summed(e)' => Summed(e)
      BY <1>1 DEF Summed, Run
    <2>. QED  BY <1>1, <2>1, CountsAlone
  <1>7. \A x \in Pages, e \in Datasets \ renamed' : name[x] = e => name'[x] = e
    BY <1>1, Viewing
  <1>8. \A r \in rows : r.url \in Pages
    BY <1>3, RunTyped
  <1>9. Named'
    <2>. SUFFICES ASSUME NEW r \in rows, r.pkg \in Datasets \ renamed'
                  PROVE  name'[r.url] = r.pkg
      BY <1>1 DEF Named
    <2>1. r.pkg \in Datasets \ renamed
      BY <1>1
    <2>2. name[r.url] = r.pkg
      BY <2>1 DEF Tracked, Named
    <2>. QED  BY <1>7, <1>8, <2>2
  <1>10. Fresh'
    <2>0. /\ Run' = Run
          /\ \A e : T!TotalOf(rows, e)' = T!TotalOf(rows, e)
      BY <1>1 DEF Run, T!TotalOf
    <2>. SUFFICES ASSUME ~broken
                  PROVE  /\ \A r \in rows : r.pkg = None => Run.pc = "totals" /\ r.day = Run.day
                         /\ \A e \in Datasets \ (renamed' \cup failed') :
                              \/ indexed'[e] = T!TotalOf(rows, e)
                              \/ Run.pc \in {"day", "totals"} /\ Waits(e)'
                              \/ e \in Run.todo
      BY <1>1, <2>0 DEF Fresh
    <2>1. \A r \in rows : r.pkg = None => Run.pc = "totals" /\ r.day = Run.day
      BY DEF Tracked, Fresh
    <2>2. ASSUME NEW e \in Datasets \ (renamed' \cup failed')
          PROVE  \/ indexed'[e] = T!TotalOf(rows, e)
                 \/ Run.pc \in {"day", "totals"} /\ Waits(e)'
                 \/ e \in Run.todo
      <3>1. CASE e = d
        BY <1>1, <1>3, <3>1 DEF T!TypeOK
      <3>2. CASE e # d
        <4>1. e \in Datasets \ (renamed \cup failed) /\ indexed'[e] = indexed[e]
          BY <1>1, <1>3, <3>2 DEF T!TypeOK
        <4>2. Waits(e) => Waits(e)'
          BY <1>1, <1>7, <1>8 DEF Waits, Run
        <4>. QED  BY <4>1, <4>2 DEF Tracked, Fresh
      <3>. QED  BY <3>1, <3>2
    <2>. QED  BY <2>1, <2>2
  <1>. QED  BY <1>4, <1>5, <1>6, <1>9, <1>10 DEF Tracked

\* A run begins where the days before it are summed up.
LEMMA StepUpdate ==
    ASSUME Tracked, NEW start \in Nat, start = T!DefaultStart \/ start \in 1..today,
           start <= T!DefaultStart, T!Update(Cron, start)
    PROVE  Tracked'
  <1>1. /\ Run.pc = "idle"
        /\ proc' = [proc EXCEPT ![Cron] = [T!Idle EXCEPT !.pc = "day", !.day = start,
                                              !.start = start, !.end = today]]
        /\ UNCHANGED <<today, raw, rows, name, indexed, done, broken, renamed, failed>>
    BY DEF T!Update, Run
  <1>2. T!TypeOK
    BY DEF Tracked, Rowed
  <1>3. Run' = [pc |-> "day", day |-> start, start |-> start, end |-> today, todo |-> {}]
    BY <1>1, <1>2 DEF T!TypeOK, Run, T!Idle
  <1>4. T!LastDay \in Nat /\ today \in Nat
    BY <1>2, LastDayIsLast, RunTyped DEF Tracked
  <1>5. start >= 1
    BY <1>4 DEF T!DefaultStart
  <1>6. Rowed'
    <2>1. Run' \in T!Procs
      BY <1>3, <1>4 DEF T!Procs
    <2>2. proc' \in [{Cron} -> T!Procs]
      BY <1>1, <1>2, <2>1 DEF T!TypeOK, Run
    <2>3. T!TypeOK'
      BY <1>1, <1>2, <2>2 DEF T!TypeOK
    <2>4. \A x, e : T!Viewers(x, e) = T!Viewers(x, e)'
      BY <1>1 DEF T!Viewers
    <2>. QED  BY <1>1, <2>3, <2>4 DEF Tracked, Rowed
  <1>7. Timed'
    BY <1>1, <1>3, <1>4, <1>5 DEF Tracked, Timed
  <1>8. Exact'
    <2>1. ASSUME NEW d \in 1..MaxDay, d < start PROVE \E r \in rows : d < r.day
      <3>1. d \in Nat /\ d >= 1
        BY Viewing
      <3>2. T!LastDay - 2 > 1 /\ d < T!LastDay - 2
        BY <1>4, <2>1, <3>1 DEF T!DefaultStart
      <3>3. PICK r \in rows : r.day = T!LastDay
        BY <1>4, <3>2, LastDayIsLast DEF Tracked
      <3>. QED  BY <1>4, <3>1, <3>2, <3>3
    <2>2. \A d \in 1..MaxDay : Summed(d)' => Summed(d)
      BY <1>1, <1>3, <2>1 DEF Summed
    <2>. QED  BY <1>1, <2>2, CountsAlone
  <1>9. Named'
    BY <1>1 DEF Tracked, Named
  <1>10. Fresh'
    <2>1. /\ Run.todo = {}
          /\ \A e : T!TotalOf(rows, e)' = T!TotalOf(rows, e)
      BY <1>1 DEF T!TotalOf, Tracked, Timed
    <2>. QED  BY <1>1, <1>3, <2>1 DEF Tracked, Fresh
  <1>. QED  BY <1>6, <1>7, <1>8, <1>9, <1>10 DEF Tracked

LEMMA StepSumDay == ASSUME Tracked, T!SumDay(Cron) PROVE Tracked'
  <1>. DEFINE day == Run.day
              made(url) == [url |-> url, day |-> day, by |-> Cron, pkg |-> None,
                            count |-> Cardinality(T!Viewers(url, day)), total |-> 0, recent |-> 0]
              seen == {x \in Pages : T!Viewers(x, day) # {}}
              kept == {r \in rows : r.day # day}
              fresh == {made(url) : url \in seen}
  <1>1. /\ Run.pc = "day" /\ day <= Run.end
        /\ rows' = kept \cup fresh
        /\ proc' = [proc EXCEPT ![Cron].pc = "totals"]
        /\ UNCHANGED <<today, raw, name, indexed, done, broken, renamed, failed>>
    BY TrackingCounts DEF T!SumDay, Run, T!Urls
  <1>2. T!TypeOK
    BY DEF Tracked, Rowed
  <1>3. Run' = [Run EXCEPT !.pc = "totals"] /\ Run \in T!Procs /\ Run' \in T!Procs
    BY <1>1, <1>2 DEF T!TypeOK, Run, T!Procs
  <1>4. /\ Run'.pc = "totals" /\ Run'.day = day /\ Run'.start = Run.start
        /\ Run'.end = Run.end /\ Run'.todo = Run.todo
    BY <1>3 DEF T!Procs
  <1>5. /\ day \in 1..MaxDay /\ day \in Nat /\ Run.start \in Nat /\ Run.end \in Nat
        /\ 1 <= Run.start /\ Run.start <= day /\ day <= today /\ Run.todo = {}
    <2>1. today \in 1..MaxDay /\ 1 <= Run.start /\ Run.start <= day /\ Run.end <= today
      BY <1>1, <1>2 DEF T!TypeOK, T!Days, Tracked, Timed
    <2>. QED  BY <1>1, <1>2, <2>1, RunTyped, Viewing DEF Tracked, Timed
  <1>6. \A x, e : T!Viewers(x, e) = T!Viewers(x, e)'
    BY <1>1 DEF T!Viewers
  <1>. HIDE DEF day
  <1>7. ASSUME NEW url \in seen
        PROVE  /\ made(url) \in T!Rows /\ made(url).url = url /\ made(url).day = day
               /\ made(url).count = Cardinality(T!Viewers(url, day))
               /\ made(url).count >= 1 /\ made(url).pkg = None /\ made(url).total = 0
    <2>1. Cardinality(T!Viewers(url, day)) \in Nat /\ Cardinality(T!Viewers(url, day)) >= 1
      BY ViewersFinite
    <2>. QED  BY <1>5, <2>1, Viewing DEF T!Rows, T!Urls, T!Days
  <1>. HIDE DEF made
  <1>8. ASSUME NEW r \in rows'
        PROVE  \/ r \in rows /\ r.day # day
               \/ /\ r.url \in seen /\ r = made(r.url) /\ r.day = day /\ r.pkg = None
                  /\ r.total = 0 /\ r.count = Cardinality(T!Viewers(r.url, day)) /\ r.count >= 1
    BY <1>1, <1>7
  <1>9. Rowed'
    <2>1. rows' \in SUBSET T!Rows
      BY <1>1, <1>2, <1>7 DEF T!TypeOK
    <2>2. \A r, s \in rows' : s.url = r.url /\ s.day = r.day => s = r
      BY <1>8 DEF Tracked, Rowed
    <2>3. IsFiniteSet(rows')
      BY <2>1, <2>2, RowsFinite
    <2>4. ASSUME NEW r \in rows'
          PROVE  /\ r.day <= today'
                 /\ r.count >= 1
                 /\ T!Viewers(r.url, r.day)' # {}
                 /\ r.pkg \in Datasets <=> r.total # 0
      BY <1>1, <1>5, <1>6, <1>8, Viewing DEF Tracked, Rowed
    <2>5. proc' \in [{Cron} -> T!Procs]
      BY <1>1, <1>2, <1>3 DEF T!TypeOK, Run
    <2>6. T!TypeOK'
      BY <1>1, <1>2, <2>1, <2>5 DEF T!TypeOK
    <2>. QED  BY <2>2, <2>3, <2>4, <2>6 DEF Rowed
  <1>10. Timed'
    <2>1. day = Run.day
      BY DEF day
    <2>. QED  BY <1>1, <1>4, <1>5, <2>1 DEF Tracked, Timed
  <1>11. Exact'
    <2>. SUFFICES ASSUME NEW d \in 1..MaxDay, Summed(d)' PROVE Counted(d)'
      BY DEF Exact
    <2>1. d \in Nat
      BY Viewing
    <2>2. CASE d = day
      <3>1. ASSUME NEW url \in Pages, T!Viewers(url, d) # {}
            PROVE  \E r \in rows' : r.url = url /\ r.day = d
        <4>1. url \in seen
          BY <2>2, <3>1
        <4>. QED  BY <1>1, <1>7, <2>2, <4>1
      <3>2. ASSUME NEW r \in rows', r.day = d
            PROVE  r.count = Cardinality(T!Viewers(r.url, d)) /\ r.pkg = None
        BY <1>8, <2>2, <3>2
      <3>. QED  BY <1>6, <3>1, <3>2, Viewing DEF Counted
    <2>3. CASE d # day
      <3>1. Summed(d)
        <4>1. day = Run.day /\ \A r \in rows : r.day \in Nat
          BY <1>2, RunTyped DEF day
        <4>2. ASSUME NEW r \in rows', d < r.day PROVE Summed(d)
          BY <1>1, <1>5, <1>8, <2>1, <4>1, <4>2 DEF Summed
        <4>3. ASSUME d < Run.end, d < day PROVE Summed(d)
          BY <1>1, <4>1, <4>3 DEF Summed
        <4>. QED  BY <1>1, <1>4, <2>3, <4>2, <4>3 DEF Summed
      <3>2. \A r : r.day = d => (r \in rows <=> r \in rows')
        BY <1>1, <1>7, <2>3
      <3>. QED  BY <1>6, <3>1, <3>2, CountedStays DEF Tracked, Exact
    <2>. QED  BY <2>2, <2>3
  <1>12. Named'
    <2>. SUFFICES ASSUME NEW r \in rows', r.pkg \in Datasets \ renamed
                  PROVE  name[r.url] = r.pkg
      BY <1>1 DEF Named
    <2>1. r \in rows
      BY <1>8, Viewing
    <2>. QED  BY <2>1 DEF Tracked, Named
  <1>13. Fresh'
    <2>. SUFFICES ASSUME ~broken
                  PROVE  /\ \A r \in rows' : r.pkg = None => r.day = day
                         /\ \A d \in Datasets \ (renamed \cup failed) :
                              indexed[d] = T!TotalOf(rows', d) \/ Waits(d)'
      <3>1. \A d : T!TotalOf(rows, d)' = T!TotalOf(rows', d)
        BY DEF T!TotalOf
      <3>. QED  BY <1>1, <1>4, <3>1 DEF Fresh
    <2>1. ASSUME NEW r \in rows', r.pkg = None PROVE r.day = day
      BY <1>1, <1>8, <2>1 DEF Tracked, Fresh
    <2>2. ASSUME NEW d \in Datasets \ (renamed \cup failed), Waits(d) PROVE Waits(d)'
      <3>1. PICK r \in rows : /\ r.day >= Run.start
                              /\ r.pkg = d \/ (r.pkg = None /\ name[r.url] = d)
        BY <2>2 DEF Waits
      <3>2. CASE r.day # day
        BY <1>1, <1>4, <3>1, <3>2 DEF Waits
      <3>3. CASE r.day = day
        <4>1. r.url \in Pages /\ T!Viewers(r.url, r.day) # {}
          BY <1>2, RunTyped DEF Tracked, Rowed
        <4>2. r.url \in seen
          BY <3>3, <4>1
        <4>3. name[r.url] = d
          BY <3>1 DEF Tracked, Named
        <4>4. made(r.url) \in rows'
          BY <1>1, <4>2
        <4>. QED  BY <1>1, <1>4, <1>5, <1>7, <4>2, <4>3, <4>4 DEF Waits
      <3>. QED  BY <3>2, <3>3
    <2>3. ASSUME NEW d \in Datasets \ (renamed \cup failed), ~Waits(d)
          PROVE  T!TotalOf(rows', d) = T!TotalOf(rows, d)
      <3>1. \A r \in rows : r.pkg = d => r.day # day
        BY <1>2, <1>5, <2>3, RunTyped DEF Waits
      <3>2. {r \in rows : r.pkg = d} = {r \in rows' : r.pkg = d}
        BY <1>1, <1>8, <3>1, Viewing
      <3>. QED  BY <3>2, TotalOfThese
    <2>4. ASSUME NEW d \in Datasets \ (renamed \cup failed)
          PROVE  indexed[d] = T!TotalOf(rows, d) \/ Waits(d)
      BY <1>5 DEF Tracked, Fresh
    <2>. QED  BY <2>1, <2>2, <2>3, <2>4
  <1>. QED  BY <1>9, <1>10, <1>11, <1>12, <1>13 DEF Tracked

\* What becomes of a row when the totals are made.
Made(r) == T!Totalled(T!Identified(r))
PastOf(r) == {s \in rows : s.url = r.url /\ s.day <= r.day}
RecentOf(r) == {s \in PastOf(r) : s.day >= r.day - Recent}

LEMMA MadeOf ==
    ASSUME Rowed, NEW r \in rows
    PROVE  /\ Made(r) \in T!Rows
           /\ Made(r).url = r.url /\ Made(r).day = r.day /\ Made(r).count = r.count
           /\ Made(r).pkg \in Datasets <=> Made(r).total # 0
           /\ Made(r).pkg # None
           /\ r.pkg \in Datasets => Made(r) = r
           /\ Made(r).pkg \in Datasets /\ r.pkg \notin Datasets =>
                /\ r.pkg = None /\ Made(r).pkg = name[r.url]
                /\ Made(r).total = T!Sum(PastOf(r)) /\ Made(r).recent = T!Sum(RecentOf(r))
           /\ r.pkg = None /\ name[r.url] \in Datasets => Made(r).pkg = name[r.url]
  <1>. DEFINE id == T!Identified(r)
              Till == PastOf(r)
              Late == RecentOf(r)
  <1>1. T!TypeOK /\ r \in T!Rows /\ r.url \in Pages /\ r.day \in Nat
    BY RunTyped DEF Rowed, T!TypeOK
  <1>2. r.pkg \in Datasets <=> r.total # 0
    BY DEF Rowed
  <1>3. /\ id \in T!Rows
        /\ id.url = r.url /\ id.day = r.day /\ id.count = r.count
        /\ id.total = r.total /\ id.recent = r.recent
        /\ r.pkg # None => id = r
        /\ r.pkg = None => id.pkg = IF name[r.url] = None THEN NotFound ELSE name[r.url]
    <2>1. CASE r.pkg # None
      BY <1>1, <2>1 DEF T!Identified
    <2>2. CASE r.pkg = None
      <3>. DEFINE p == IF name[r.url] = None THEN NotFound ELSE name[r.url]
      <3>1. p \in Datasets \cup {NotFound, None}
        BY <1>1 DEF T!TypeOK
      <3>2. id = [r EXCEPT !.pkg = p]
        BY <1>1, <2>2 DEF T!Identified
      <3>. HIDE DEF p, id
      <3>3. id \in T!Rows /\ id.url = r.url /\ id.day = r.day /\ id.count = r.count
            /\ id.total = r.total /\ id.recent = r.recent /\ id.pkg = p
        BY <1>1, <3>1, <3>2 DEF T!Rows
      <3>. QED  BY <2>2, <3>3 DEF p
    <2>. QED  BY <2>1, <2>2
  <1>. HIDE DEF id
  <1>4. Till \in SUBSET T!Rows /\ Late \in SUBSET T!Rows /\ IsFiniteSet(Till) /\ IsFiniteSet(Late)
    <2>1. IsFiniteSet(rows) /\ Till \in SUBSET rows /\ Late \in SUBSET rows
      BY DEF Rowed, PastOf, RecentOf
    <2>2. IsFiniteSet(Till) /\ IsFiniteSet(Late)
      BY <2>1, FS_Subset
    <2>. QED  BY <1>1, <2>1, <2>2 DEF T!TypeOK
  <1>5. T!Sum(Till) \in Nat /\ T!Sum(Late) \in Nat /\ T!Sum(Till) >= 1
    <2>1. r \in Till /\ r.count >= 1
      BY <1>1 DEF Rowed, PastOf
    <2>. QED  BY <1>4, <2>1, PairsFinite
  <1>6. Made(r) = IF id.total = 0 /\ id.pkg \in Datasets
                  THEN [id EXCEPT !.total = T!Sum(Till), !.recent = T!Sum(Late)]
                  ELSE id
    BY <1>3 DEF Made, T!Totalled, id, PastOf, RecentOf
  <1>. HIDE DEF Till, Late
  <1>7. CASE id.total = 0 /\ id.pkg \in Datasets
    <2>1. /\ Made(r) \in T!Rows /\ Made(r).url = id.url /\ Made(r).day = id.day
          /\ Made(r).count = id.count /\ Made(r).pkg = id.pkg
          /\ Made(r).total = T!Sum(Till) /\ Made(r).recent = T!Sum(Late)
      BY <1>3, <1>5, <1>6, <1>7 DEF T!Rows
    <2>2. r.pkg \notin Datasets
      BY <1>2, <1>3, <1>7
    <2>3. r.pkg = None /\ name[r.url] # None /\ id.pkg = name[r.url]
      BY <1>3, <1>7, <2>2, Viewing
    <2>4. T!Sum(Till) # 0
      BY <1>5
    <2>5. /\ Made(r).url = r.url /\ Made(r).day = r.day /\ Made(r).count = r.count
          /\ Made(r).pkg \in Datasets /\ Made(r).total # 0 /\ Made(r).pkg # None
          /\ Made(r).pkg = name[r.url]
      BY <1>3, <1>7, <2>1, <2>3, <2>4, Viewing
    <2>. QED  BY <2>1, <2>2, <2>3, <2>5 DEF Till, Late
  <1>8. CASE ~(id.total = 0 /\ id.pkg \in Datasets)
    <2>1. Made(r) = id
      BY <1>6, <1>8
    <2>2. CASE r.pkg # None
      <3>1. id = r
        BY <1>3, <2>2
      <3>. QED  BY <1>1, <1>2, <2>1, <2>2, <3>1
    <2>3. CASE r.pkg = None
      <3>1. r.pkg \notin Datasets /\ id.total = 0 /\ id.pkg \notin Datasets
        BY <1>2, <1>3, <1>8, <2>3, Viewing
      <3>2. name[r.url] \notin Datasets /\ id.pkg # None
        BY <1>3, <2>3, <3>1, Viewing
      <3>. QED  BY <1>3, <2>1, <3>1, <3>2
    <2>. QED  BY <2>2, <2>3
  <1>. QED  BY <1>7, <1>8

\* The totals that are made of exact counts are exact.
LEMMA TotalsExact ==
    ASSUME Rowed, Timed, Exact, NEW r \in rows, Summed(r.day), NEW D \in SUBSET (1..r.day)
    PROVE  T!Sum({s \in rows : s.url = r.url /\ s.day \in D}) = T!Views(r.url, D)
  <1>. DEFINE Q == {s \in rows : s.url = r.url /\ s.day \in D}
  <1>1. T!TypeOK /\ r.url \in Pages /\ r.day \in 1..MaxDay
    BY RunTyped DEF Rowed
  <1>2. D \in SUBSET (1..MaxDay)
    BY <1>1, Viewing
  <1>3. \A e \in D : Counted(e)
    BY <1>1, <1>2, SummedPast DEF Exact
  <1>4. Q \in SUBSET T!Rows
    BY <1>1 DEF T!TypeOK
  <1>5. \A s \in Q : s.url = r.url /\ s.day \in D /\ s.count = Cardinality(T!Viewers(r.url, s.day))
    BY <1>1, <1>3 DEF Counted
  <1>6. \A s, t \in Q : s.day = t.day => s = t
    BY DEF Rowed
  <1>7. ASSUME NEW e \in D, T!Viewers(r.url, e) # {} PROVE \E s \in Q : s.day = e
    <2>1. PICK s \in rows : s.url = r.url /\ s.day = e
      BY <1>1, <1>3, <1>7 DEF Counted
    <2>2. s \in Q
      BY <2>1
    <2>. QED  BY <2>1, <2>2
  <1>. HIDE DEF Q
  <1>8. T!Sum(Q) = T!Views(r.url, D)
    BY <1>2, <1>4, <1>5, <1>6, <1>7, SumIsViews
  <1>. QED  BY <1>8 DEF Q

LEMMA StepSumTotals == ASSUME Tracked, T!SumTotals(Cron) PROVE Tracked'
  <1>0. PICK M : M = [r \in rows |-> Made(r)]
    OBVIOUS
  <1>1. /\ Run.pc = "totals"
        /\ rows' = {M[r] : r \in rows}
        /\ proc' = [proc EXCEPT ![Cron].pc = "day", ![Cron].day = @ + 1]
        /\ UNCHANGED <<today, raw, name, indexed, done, broken, renamed, failed>>
    BY <1>0 DEF T!SumTotals, Run, Made
  <1>2. T!TypeOK /\ Rowed /\ Timed /\ Exact
    BY DEF Tracked, Rowed
  <1>M. /\ \A r \in rows : /\ M[r] \in T!Rows
                           /\ M[r].url = r.url /\ M[r].day = r.day /\ M[r].count = r.count
                           /\ M[r].pkg \in Datasets <=> M[r].total # 0
                           /\ M[r].pkg # None
        /\ \A r \in rows : r.pkg \in Datasets => M[r] = r
        /\ \A r \in rows : M[r].pkg \in Datasets /\ r.pkg \notin Datasets =>
                            r.pkg = None /\ M[r].pkg = name[r.url]
        /\ \A r \in rows : r.pkg = None /\ name[r.url] \in Datasets => M[r].pkg = name[r.url]
    <2>. SUFFICES ASSUME NEW r \in rows
                  PROVE  /\ M[r] \in T!Rows
                         /\ M[r].url = r.url /\ M[r].day = r.day /\ M[r].count = r.count
                         /\ M[r].pkg \in Datasets <=> M[r].total # 0
                         /\ M[r].pkg # None
                         /\ r.pkg \in Datasets => M[r] = r
                         /\ M[r].pkg \in Datasets /\ r.pkg \notin Datasets =>
                              r.pkg = None /\ M[r].pkg = name[r.url]
                         /\ r.pkg = None /\ name[r.url] \in Datasets => M[r].pkg = name[r.url]
      OBVIOUS
    <2>1. M[r] = Made(r)
      BY <1>0
    <2>. QED  BY <1>2, <2>1, MadeOf
  <1>3. Run' = [Run EXCEPT !.pc = "day", !.day = @ + 1] /\ Run \in T!Procs
    BY <1>1, <1>2 DEF T!TypeOK, Run
  <1>4. /\ Run'.pc = "day" /\ Run'.day = Run.day + 1 /\ Run'.start = Run.start
        /\ Run'.end = Run.end /\ Run'.todo = Run.todo /\ Run' \in T!Procs
    <2>1. Run.day \in Nat /\ Run.day + 1 \in Nat
      BY <1>2, RunTyped
    <2>. QED  BY <1>3, <2>1 DEF T!Procs
  <1>5. /\ Run.day \in Nat /\ Run.start \in Nat /\ Run.end \in Nat
        /\ 1 <= Run.start /\ Run.start <= Run.day /\ Run.day <= Run.end /\ Run.todo = {}
    BY <1>1, <1>2, RunTyped DEF Timed
  <1>6. \A x, e : T!Viewers(x, e) = T!Viewers(x, e)'
    BY <1>1 DEF T!Viewers
  <1>7. ASSUME NEW s \in rows'
        PROVE  \E r \in rows : s = M[r] /\ s.url = r.url /\ s.day = r.day /\ s.count = r.count
    <2>1. PICK r \in rows : s = M[r]
      BY <1>1
    <2>. QED  BY <2>1, <1>M
  <1>8. \A r \in rows : M[r] \in rows'
    BY <1>1
  <1>9. Rowed'
    <2>1. rows' \in SUBSET T!Rows
      BY <1>1, <1>2, <1>M
    <2>2. \A r, s \in rows' : s.url = r.url /\ s.day = r.day => s = r
      BY <1>7, <1>2 DEF Rowed
    <2>3. IsFiniteSet(rows')
      BY <2>1, <2>2, RowsFinite
    <2>4. ASSUME NEW s \in rows'
          PROVE  /\ s.day <= today'
                 /\ s.count >= 1
                 /\ T!Viewers(s.url, s.day)' # {}
                 /\ s.pkg \in Datasets <=> s.total # 0
      <3>1. PICK r \in rows : s = M[r] /\ s.url = r.url /\ s.day = r.day /\ s.count = r.count
        BY <1>7
      <3>2. s.pkg \in Datasets <=> s.total # 0
        BY <1>2, <3>1, <1>M
      <3>. QED  BY <1>1, <1>2, <1>6, <3>1, <3>2 DEF Rowed
    <2>5. proc' \in [{Cron} -> T!Procs]
      BY <1>1, <1>2, <1>4 DEF T!TypeOK, Run
    <2>6. T!TypeOK'
      BY <1>1, <1>2, <2>1, <2>5 DEF T!TypeOK
    <2>. QED  BY <2>2, <2>3, <2>4, <2>6 DEF Rowed
  <1>10. Timed'
    BY <1>1, <1>2, <1>4, <1>5 DEF Timed
  <1>11. Exact'
    <2>. SUFFICES ASSUME NEW d \in 1..MaxDay, Summed(d)' PROVE Counted(d)'
      BY DEF Exact
    <2>1. d \in Nat /\ d \in 1..d
      BY Viewing
    <2>2. Summed(d)
      BY <1>1, <1>4, <1>5, <1>7, <2>1 DEF Summed
    <2>3. Counted(d)
      BY <1>2, <2>2 DEF Exact
    <2>4. ASSUME NEW url \in Pages, T!Viewers(url, d) # {}
          PROVE  \E s \in rows' : s.url = url /\ s.day = d
      <3>1. PICK r \in rows : r.url = url /\ r.day = d
        BY <2>3, <2>4 DEF Counted
      <3>. QED  BY <1>2, <1>8, <3>1, <1>M
    <2>5. ASSUME NEW s \in rows', s.day = d
          PROVE  /\ s.count = Cardinality(T!Viewers(s.url, d))
                 /\ s.pkg \in Datasets =>
                      /\ s.total = T!Views(s.url, 1..d)
                      /\ s.recent = T!Views(s.url, {x \in 1..d : x >= d - Recent})
      <3>1. PICK r \in rows : s = M[r] /\ s.url = r.url /\ s.day = r.day /\ s.count = r.count
        BY <1>7
      <3>2. r.url \in Pages /\ r.day = d
        BY <1>2, <2>5, <3>1, RunTyped
      <3>3. CASE r.pkg \in Datasets
        <4>1. s = r
          BY <1>2, <3>1, <3>3, <1>M
        <4>. QED  BY <2>3, <3>2, <3>3, <4>1 DEF Counted
      <3>4. CASE r.pkg \notin Datasets
        <4>1. s.count = Cardinality(T!Viewers(s.url, d))
          BY <2>3, <3>1, <3>2 DEF Counted
        <4>2. ASSUME s.pkg \in Datasets
              PROVE  /\ s.total = T!Views(s.url, 1..d)
                     /\ s.recent = T!Views(s.url, {x \in 1..d : x >= d - Recent})
          <5>1. s.total = T!Sum(PastOf(r)) /\ s.recent = T!Sum(RecentOf(r))
            <6>1. s = Made(r)
              BY <1>0, <3>1
            <6>. QED  BY <1>2, <3>4, <4>2, <6>1, MadeOf
          <5>2. \A t \in rows : t.day \in Nat /\ t.day >= 1
            BY <1>2, RunTyped, Viewing
          <5>3. PastOf(r) = {t \in rows : t.url = r.url /\ t.day \in 1..d}
            BY <2>1, <3>2, <5>2 DEF PastOf
          <5>4. RecentOf(r)
                  = {t \in rows : t.url = r.url /\ t.day \in {x \in 1..d : x >= d - Recent}}
            BY <2>1, <3>2, <5>2 DEF PastOf, RecentOf
          <5>5. /\ T!Sum({t \in rows : t.url = r.url /\ t.day \in 1..d}) = T!Views(r.url, 1..d)
                /\ T!Sum({t \in rows : t.url = r.url /\ t.day \in {x \in 1..d : x >= d - Recent}})
                     = T!Views(r.url, {x \in 1..d : x >= d - Recent})
            BY <1>2, <2>2, <3>2, TotalsExact
          <5>. QED  BY <3>1, <5>1, <5>3, <5>4, <5>5
        <4>. QED  BY <4>1, <4>2
      <3>. QED  BY <3>3, <3>4
    <2>6. /\ \A x \in Pages : T!Views(x, 1..d)' = T!Views(x, 1..d)
          /\ \A x \in Pages : T!Views(x, {y \in 1..d : y >= d - Recent})'
                                = T!Views(x, {y \in 1..d : y >= d - Recent})
      BY <1>6, ViewsStay
    <2>7. ASSUME NEW url \in Pages, T!Viewers(url, d)' # {}
          PROVE  \E s \in rows' : s.url = url /\ s.day = d
      BY <1>6, <2>4, <2>7
    <2>8. ASSUME NEW url \in Pages, NEW s \in rows', s.url = url, s.day = d
          PROVE  /\ s.count = Cardinality(T!Viewers(url, d)')
                 /\ s.pkg \in Datasets =>
                      /\ s.total = T!Views(url, 1..d)'
                      /\ s.recent = T!Views(url, {x \in 1..d : x >= d - Recent})'
      BY <1>6, <2>5, <2>6, <2>8
    <2>. QED  BY <2>7, <2>8 DEF Counted
  <1>12. Named'
    <2>. SUFFICES ASSUME NEW s \in rows', s.pkg \in Datasets \ renamed
                  PROVE  name[s.url] = s.pkg
      BY <1>1 DEF Named
    <2>1. PICK r \in rows : s = M[r] /\ s.url = r.url
      BY <1>7
    <2>2. CASE r.pkg \in Datasets
      BY <1>2, <2>1, <2>2, <1>M DEF Tracked, Named
    <2>3. CASE r.pkg \notin Datasets
      BY <1>2, <2>1, <2>3, <1>M
    <2>. QED  BY <2>2, <2>3
  <1>13. Fresh'
    <2>. SUFFICES ASSUME ~broken
                  PROVE  /\ \A s \in rows' : s.pkg # None
                         /\ \A d \in Datasets \ (renamed \cup failed) :
                              indexed[d] = T!TotalOf(rows', d) \/ Waits(d)'
      <3>1. \A d : T!TotalOf(rows, d)' = T!TotalOf(rows', d)
        BY DEF T!TotalOf
      <3>. QED  BY <1>1, <1>4, <3>1 DEF Fresh
    <2>1. \A s \in rows' : s.pkg # None
      BY <1>1, <1>2, <1>M
    <2>2. ASSUME NEW d \in Datasets \ (renamed \cup failed), Waits(d) PROVE Waits(d)'
      <3>1. PICK r \in rows : /\ r.day >= Run.start
                              /\ r.pkg = d \/ (r.pkg = None /\ name[r.url] = d)
        BY <2>2 DEF Waits
      <3>2. M[r].pkg = d /\ M[r].day = r.day
        BY <1>2, <3>1, <1>M
      <3>. QED  BY <1>4, <1>8, <3>1, <3>2 DEF Waits
    <2>3. ASSUME NEW d \in Datasets \ (renamed \cup failed), ~Waits(d)
          PROVE  T!TotalOf(rows', d) = T!TotalOf(rows, d)
      <3>1. ASSUME NEW r \in rows, M[r].pkg = d PROVE r.pkg = d
        <4>1. ASSUME r.pkg \notin Datasets PROVE FALSE
          <5>1. r.pkg = None /\ name[r.url] = d
            BY <1>2, <3>1, <4>1, <1>M
          <5>2. r.day = Run.day
            BY <5>1 DEF Tracked, Fresh
          <5>. QED  BY <1>5, <2>3, <5>1, <5>2 DEF Waits
        <4>2. r.pkg \in Datasets
          BY <4>1
        <4>. QED  BY <1>2, <3>1, <4>2, <1>M
      <3>2. \A r \in rows : r.pkg = d => M[r] = r
        BY <1>2, <1>M
      <3>3. {r \in rows : r.pkg = d} = {r \in rows' : r.pkg = d}
        BY <1>1, <3>1, <3>2
      <3>. QED  BY <3>3, TotalOfThese
    <2>4. ASSUME NEW d \in Datasets \ (renamed \cup failed)
          PROVE  indexed[d] = T!TotalOf(rows, d) \/ Waits(d)
      BY <1>5 DEF Tracked, Fresh
    <2>. QED  BY <2>1, <2>2, <2>3, <2>4
  <1>. QED  BY <1>9, <1>10, <1>11, <1>12, <1>13 DEF Tracked

\* Steps that only change what the process knows, and what is indexed.
LEMMA RowsAlone ==
    ASSUME Tracked, UNCHANGED <<today, raw, rows, name, renamed>>, failed' \subseteq Datasets,
           Run' \in T!Procs, proc' = [proc EXCEPT ![Cron] = Run'],
           indexed' \in [Datasets -> Nat \cup {None}], done' \in Nat, broken' \in BOOLEAN,
           \A d \in 1..MaxDay : Summed(d)' => Summed(d)
    PROVE  Rowed' /\ Exact' /\ Named' /\ \A d : T!TotalOf(rows, d)' = T!TotalOf(rows, d)
  <1>1. \A x, e : T!Viewers(x, e) = T!Viewers(x, e)'
    BY DEF T!Viewers
  <1>2. proc' \in [{Cron} -> T!Procs]
    BY DEF Tracked, Rowed, T!TypeOK
  <1>3. T!TypeOK'
    BY <1>2 DEF Tracked, Rowed, T!TypeOK
  <1>4. Rowed'
    BY <1>1, <1>3 DEF Tracked, Rowed
  <1>5. Exact'
    BY CountsAlone
  <1>6. Named' /\ \A d : T!TotalOf(rows, d)' = T!TotalOf(rows, d)
    BY DEF Tracked, Named, T!TotalOf
  <1>. QED  BY <1>4, <1>5, <1>6

LEMMA StepStartSolr == ASSUME Tracked, T!StartSolr(Cron) PROVE Tracked'
  <1>1. /\ Run.pc = "day" /\ Run.day > Run.end
        /\ proc' = [proc EXCEPT ![Cron].pc = "rebuild", ![Cron].todo = T!Viewed(Cron)]
        /\ UNCHANGED <<today, raw, rows, name, indexed, done, broken, renamed, failed>>
    BY DEF T!StartSolr, Run
  <1>2. T!TypeOK
    BY DEF Tracked, Rowed
  <1>3. T!Viewed(Cron) = {r.pkg : r \in {s \in rows : s.pkg \in Datasets /\ s.day >= Run.start}}
    BY DEF T!Viewed, Run
  <1>4. Run' = [Run EXCEPT !.pc = "rebuild", !.todo = T!Viewed(Cron)] /\ Run \in T!Procs
    BY <1>1, <1>2 DEF T!TypeOK, Run
  <1>5. T!Viewed(Cron) \subseteq Datasets
    BY <1>3
  <1>6. /\ Run'.pc = "rebuild" /\ Run'.day = Run.day /\ Run'.start = Run.start
        /\ Run'.end = Run.end /\ Run'.todo = T!Viewed(Cron) /\ Run' \in T!Procs
    BY <1>4, <1>5 DEF T!Procs
  <1>7. proc' = [proc EXCEPT ![Cron] = Run']
    BY <1>1, <1>2, <1>4 DEF T!TypeOK, Run
  <1>8. Rowed' /\ Exact' /\ Named' /\ \A d : T!TotalOf(rows, d)' = T!TotalOf(rows, d)
    <2>1. \A d \in 1..MaxDay : Summed(d)' => Summed(d)
      BY <1>1, <1>6 DEF Summed
    <2>. QED  BY <1>1, <1>2, <1>6, <1>7, <2>1, RowsAlone DEF T!TypeOK
  <1>9. Timed'
    BY <1>1, <1>6 DEF Tracked, Timed
  <1>10. Fresh'
    <2>1. ASSUME ~broken, NEW d \in Datasets \ (renamed \cup failed), Waits(d) PROVE d \in T!Viewed(Cron)
      <3>1. PICK r \in rows : /\ r.day >= Run.start
                              /\ r.pkg = d \/ (r.pkg = None /\ name[r.url] = d)
        BY <2>1 DEF Waits
      <3>2. r.pkg = d
        BY <1>1, <2>1, <3>1 DEF Tracked, Fresh
      <3>. QED  BY <1>3, <3>1, <3>2
    <2>2. Run.todo = {}
      BY <1>1 DEF Tracked, Timed
    <2>3. ASSUME ~broken, NEW d \in Datasets \ (renamed \cup failed)
          PROVE  indexed[d] = T!TotalOf(rows, d) \/ d \in T!Viewed(Cron)
      BY <2>1, <2>2, <2>3 DEF Tracked, Fresh
    <2>4. ~broken => \A r \in rows : r.pkg # None
      BY <1>1 DEF Tracked, Fresh
    <2>. QED  BY <1>1, <1>6, <1>8, <2>3, <2>4 DEF Fresh
  <1>. QED  BY <1>8, <1>9, <1>10 DEF Tracked

LEMMA StepRebuild == ASSUME Tracked, NEW d \in Datasets, T!Rebuild(Cron, d) PROVE Tracked'
  <1>1. /\ d \in Run.todo
        /\ indexed' = [indexed EXCEPT ![d] = T!TotalOf(rows, d)]
        /\ failed' = failed \ {d}
        /\ proc' = [proc EXCEPT ![Cron].todo = @ \ {d}]
        /\ UNCHANGED <<today, raw, rows, name, done, broken, renamed>>
    BY DEF T!Rebuild, Run
  <1>2. T!TypeOK
    BY DEF Tracked, Rowed
  <1>3. Run' = [Run EXCEPT !.todo = @ \ {d}] /\ Run \in T!Procs
    BY <1>1, <1>2 DEF T!TypeOK, Run
  <1>4. /\ Run'.pc = Run.pc /\ Run'.day = Run.day /\ Run'.start = Run.start
        /\ Run'.end = Run.end /\ Run'.todo = Run.todo \ {d} /\ Run' \in T!Procs
    BY <1>3 DEF T!Procs
  <1>5. proc' = [proc EXCEPT ![Cron] = Run']
    BY <1>1, <1>2, <1>3 DEF T!TypeOK, Run
  <1>6. indexed' \in [Datasets -> Nat \cup {None}]
    BY <1>1, <1>2, TotalIsNumber DEF T!TypeOK
  <1>7. Rowed' /\ Exact' /\ Named' /\ \A e : T!TotalOf(rows, e)' = T!TotalOf(rows, e)
    <2>1. \A e \in 1..MaxDay : Summed(e)' => Summed(e)
      BY <1>1, <1>4 DEF Summed
    <2>2. failed' \subseteq Datasets
      BY <1>1, <1>2 DEF T!TypeOK
    <2>. QED  BY <1>1, <1>2, <1>4, <1>5, <1>6, <2>1, <2>2, RowsAlone DEF T!TypeOK
  <1>8. Timed'
    BY <1>1, <1>4 DEF Tracked, Timed
  <1>9. Fresh'
    <2>1. Run.pc = "rebuild"
      BY <1>1 DEF Tracked, Timed
    <2>2. ASSUME ~broken, NEW e \in Datasets \ (renamed \cup failed')
          PROVE  indexed'[e] = T!TotalOf(rows, e) \/ e \in Run'.todo
      <3>1. CASE e = d
        BY <1>1, <1>2, <3>1 DEF T!TypeOK
      <3>2. CASE e # d
        <4>1. indexed'[e] = indexed[e] /\ e \in Datasets \ (renamed \cup failed)
          BY <1>1, <1>2, <2>2, <3>2 DEF T!TypeOK
        <4>. QED  BY <1>4, <2>1, <2>2, <3>2, <4>1 DEF Tracked, Fresh
      <3>. QED  BY <3>1, <3>2
    <2>3. ~broken => \A r \in rows : r.pkg # None
      BY <2>1 DEF Tracked, Fresh
    <2>. QED  BY <1>1, <1>7, <2>2, <2>3 DEF Fresh
  <1>. QED  BY <1>7, <1>8, <1>9 DEF Tracked

LEMMA StepRebuildFails ==
    ASSUME Tracked, NEW d \in Datasets, T!RebuildFails(Cron, d) PROVE Tracked'
  <1>1. /\ d \in Run.todo
        /\ \E left \in {indexed[d], None} : indexed' = [indexed EXCEPT ![d] = left]
        /\ failed' = failed \cup {d}
        /\ proc' = [proc EXCEPT ![Cron].todo = @ \ {d}]
        /\ UNCHANGED <<today, raw, rows, name, done, broken, renamed>>
    BY DEF T!RebuildFails, Run
  <1>2. T!TypeOK
    BY DEF Tracked, Rowed
  <1>3. Run' = [Run EXCEPT !.todo = @ \ {d}] /\ Run \in T!Procs
    BY <1>1, <1>2 DEF T!TypeOK, Run
  <1>4. /\ Run'.pc = Run.pc /\ Run'.day = Run.day /\ Run'.start = Run.start
        /\ Run'.end = Run.end /\ Run'.todo = Run.todo \ {d} /\ Run' \in T!Procs
    BY <1>3 DEF T!Procs
  <1>5. proc' = [proc EXCEPT ![Cron] = Run']
    BY <1>1, <1>2, <1>3 DEF T!TypeOK, Run
  <1>6. indexed' \in [Datasets -> Nat \cup {None}]
    BY <1>1, <1>2 DEF T!TypeOK
  <1>7. Rowed' /\ Exact' /\ Named' /\ \A e : T!TotalOf(rows, e)' = T!TotalOf(rows, e)
    <2>1. \A e \in 1..MaxDay : Summed(e)' => Summed(e)
      BY <1>1, <1>4 DEF Summed
    <2>2. failed' \subseteq Datasets
      BY <1>1, <1>2 DEF T!TypeOK
    <2>. QED  BY <1>1, <1>2, <1>4, <1>5, <1>6, <2>1, <2>2, RowsAlone DEF T!TypeOK
  <1>8. Timed'
    BY <1>1, <1>4 DEF Tracked, Timed
  <1>9. Fresh'
    <2>1. Run.pc = "rebuild"
      BY <1>1 DEF Tracked, Timed
    <2>2. ASSUME ~broken, NEW e \in Datasets \ (renamed \cup failed')
          PROVE  indexed'[e] = T!TotalOf(rows, e) \/ e \in Run'.todo
      <3>1. e # d /\ e \in Datasets \ (renamed \cup failed)
        BY <1>1, <2>2
      <3>2. indexed'[e] = indexed[e]
        BY <1>1, <1>2, <3>1 DEF T!TypeOK
      <3>. QED  BY <1>4, <2>1, <2>2, <3>1, <3>2 DEF Tracked, Fresh
    <2>3. ~broken => \A r \in rows : r.pkg # None
      BY <2>1 DEF Tracked, Fresh
    <2>. QED  BY <1>1, <1>7, <2>2, <2>3 DEF Fresh
  <1>. QED  BY <1>7, <1>8, <1>9 DEF Tracked

LEMMA IdleTyped == T!Idle \in T!Procs /\ T!Idle.pc = "idle" /\ T!Idle.end = 0 /\ T!Idle.todo = {}
  BY DEF T!Idle, T!Procs

LEMMA StepFinish == ASSUME Tracked, T!Finish(Cron) PROVE Tracked'
  <1>1. /\ Run.pc = "rebuild" /\ Run.todo = {}
        /\ done' = T!Max({done, Run.end})
        /\ proc' = [proc EXCEPT ![Cron] = T!Idle]
        /\ UNCHANGED <<today, raw, rows, name, indexed, broken, renamed, failed>>
    BY DEF T!Finish, Run
  <1>2. T!TypeOK
    BY DEF Tracked, Rowed
  <1>3. Run' = T!Idle /\ proc' = [proc EXCEPT ![Cron] = Run']
    BY <1>1, <1>2 DEF T!TypeOK, Run
  <1>4. /\ done \in Nat /\ Run.end \in Nat /\ Run.day \in Nat /\ today \in Nat
        /\ Run.day > Run.end /\ Run.end <= today /\ done <= today
    BY <1>1, <1>2, RunTyped DEF Tracked, Timed
  <1>5. /\ done' \in Nat /\ done' <= today
        /\ \A e \in Nat : e < done' => e < done \/ e < Run.end
    BY <1>1, <1>4, LaterOf
  <1>6. Rowed' /\ Exact' /\ Named' /\ \A e : T!TotalOf(rows, e)' = T!TotalOf(rows, e)
    <2>1. ASSUME NEW e \in 1..MaxDay, Summed(e)' PROVE Summed(e)
      <3>1. e \in Nat
        BY Viewing
      <3>. QED  BY <1>1, <1>3, <1>4, <1>5, <2>1, <3>1, IdleTyped DEF Summed
    <2>. QED  BY <1>1, <1>2, <1>3, <1>5, <2>1, RowsAlone, IdleTyped DEF T!TypeOK
  <1>7. Timed'
    <2>1. 0 <= today
      BY <1>4
    <2>. QED  BY <1>1, <1>3, <1>5, <2>1, IdleTyped DEF Timed
  <1>8. Fresh'
    BY <1>1, <1>3, <1>6, IdleTyped DEF Tracked, Fresh
  <1>. QED  BY <1>6, <1>7, <1>8 DEF Tracked

LEMMA StepDie == ASSUME Tracked, T!Die(Cron) PROVE Tracked'
  <1>1. /\ proc' = [proc EXCEPT ![Cron] = T!Idle]
        /\ broken' = TRUE
        /\ UNCHANGED <<today, raw, rows, name, indexed, done, renamed, failed>>
    BY DEF T!Die, Run
  <1>2. T!TypeOK
    BY DEF Tracked, Rowed
  <1>3. Run' = T!Idle /\ proc' = [proc EXCEPT ![Cron] = Run']
    BY <1>1, <1>2 DEF T!TypeOK, Run
  <1>4. Rowed' /\ Exact' /\ Named'
    <2>1. \A e \in 1..MaxDay : Summed(e)' => Summed(e)
      BY <1>1, <1>3, IdleTyped DEF Summed
    <2>. QED  BY <1>1, <1>2, <1>3, <2>1, RowsAlone, IdleTyped DEF T!TypeOK
  <1>5. Timed'
    <2>1. 0 <= today
      BY <1>2, RunTyped
    <2>. QED  BY <1>1, <1>3, <2>1, IdleTyped DEF Tracked, Timed
  <1>6. Fresh'
    BY <1>1 DEF Fresh
  <1>. QED  BY <1>4, <1>5, <1>6 DEF Tracked

LEMMA StepTracked == ASSUME Tracked, T!Next PROVE Tracked'
  <1>1. ASSUME NEW url \in T!Urls, NEW v \in Visitors, T!View(url, v) PROVE Tracked'
    BY <1>1, StepView
  <1>2. CASE T!Tick
    BY <1>2, StepTick
  <1>3. ASSUME NEW p \in Pages, NEW d \in Datasets, T!Name(p, d) PROVE Tracked'
    BY <1>3, StepName
  <1>4. T!LastDay \in Nat /\ today \in Nat
    BY LastDayIsLast, RunTyped DEF Tracked, Rowed
  <1>5. T!DefaultStart \in Nat
    BY <1>4 DEF T!DefaultStart
  <1>6. CASE T!Update(Cron, T!DefaultStart)
    BY <1>5, <1>6, StepUpdate
  <1>7. ASSUME NEW s \in 1..today, s <= T!DefaultStart, T!Update(Cron, s) PROVE Tracked'
    <2>1. s \in Nat
      BY <1>4
    <2>. QED  BY <1>7, <2>1, StepUpdate
  <1>8. CASE T!SumDay(Cron)
    BY <1>8, StepSumDay
  <1>9. CASE T!SumTotals(Cron)
    BY <1>9, StepSumTotals
  <1>10. CASE T!StartSolr(Cron)
    BY <1>10, StepStartSolr
  <1>11. CASE T!Finish(Cron)
    BY <1>11, StepFinish
  <1>12. CASE T!Die(Cron)
    BY <1>12, StepDie
  <1>13. ASSUME NEW d \in Datasets, T!Rebuild(Cron, d) PROVE Tracked'
    BY <1>13, StepRebuild
  <1>14. ASSUME NEW d \in Datasets, T!RebuildFails(Cron, d) PROVE Tracked'
    BY <1>14, StepRebuildFails
  <1>. QED
    BY <1>1, <1>2, <1>3, <1>6, <1>7, <1>8, <1>9, <1>10, <1>11, <1>12, <1>13, <1>14 DEF T!Next

LEMMA TrackedStutters ==
    ASSUME Tracked, UNCHANGED <<today, raw, rows, name, indexed, proc, done, broken, renamed, failed>>
    PROVE  Tracked'
  <1>1. Run' = Run /\ proc' = [proc EXCEPT ![Cron] = Run'] /\ Run \in T!Procs
    BY DEF Tracked, Rowed, T!TypeOK, Run
  <1>2. Rowed' /\ Exact' /\ Named' /\ \A e : T!TotalOf(rows, e)' = T!TotalOf(rows, e)
    <2>1. \A e \in 1..MaxDay : Summed(e)' => Summed(e)
      BY <1>1 DEF Summed
    <2>2. /\ indexed \in [Datasets -> Nat \cup {None}] /\ done \in Nat
          /\ broken \in BOOLEAN /\ failed \subseteq Datasets
      BY DEF Tracked, Rowed, T!TypeOK
    <2>. QED  BY <1>1, <2>1, <2>2, RowsAlone
  <1>3. Timed'
    BY <1>1 DEF Tracked, Timed
  <1>4. Fresh'
    BY <1>1, <1>2 DEF Tracked, Fresh, Waits
  <1>. QED  BY <1>2, <1>3, <1>4 DEF Tracked

LEMMA TrackedExact == ASSUME Tracked PROVE T!SummaryExact /\ T!IndexedViews
  <1>1. T!TypeOK
    BY DEF Tracked, Rowed
  <1>2. T!SummaryExact
    <2>. SUFFICES ASSUME NEW url \in Pages, NEW day \in 1..MaxDay, day < done
                  PROVE  LET Q == {r \in rows : r.url = url /\ r.day = day} IN
                         /\ Cardinality(Q) = IF T!Viewers(url, day) = {} THEN 0 ELSE 1
                         /\ \A r \in Q :
                              /\ r.count = Cardinality(T!Viewers(url, day))
                              /\ r.pkg \in Datasets =>
                                   /\ r.total = T!Views(url, 1..day)
                                   /\ r.recent = T!Views(url, {x \in 1..day : x >= day - Recent})
      <3>1. \A x \in T!Urls : x \in Pages
        BY DEF T!Urls
      <3>2. \A r \in rows : r.url \in Pages
        BY <1>1, RunTyped
      <3>. QED  BY <3>1, <3>2, TrackingCounts DEF T!SummaryExact, T!Days
    <2>1. Counted(day)
      BY DEF Tracked, Exact, Summed
    <2>. DEFINE Of == {r \in rows : r.url = url /\ r.day = day}
    <2>2. Cardinality(Of) = IF T!Viewers(url, day) = {} THEN 0 ELSE 1
      <3>1. CASE T!Viewers(url, day) = {}
        <4>1. Of = {}
          BY <3>1 DEF Tracked, Rowed
        <4>. QED  BY <3>1, <4>1, FS_EmptySet
      <3>2. CASE T!Viewers(url, day) # {}
        <4>1. PICK r \in rows : r.url = url /\ r.day = day
          BY <2>1, <3>2 DEF Counted
        <4>2. Of = {r}
          BY <4>1 DEF Tracked, Rowed
        <4>. QED  BY <3>2, <4>2, FS_Singleton
      <3>. QED  BY <3>1, <3>2
    <2>. QED  BY <2>1, <2>2 DEF Counted
  <1>3. T!IndexedViews
    <2>. SUFFICES ASSUME ~broken, proc[Cron].pc = "idle", NEW d \in Datasets \ (renamed \cup failed)
                  PROVE  indexed[d] = T!TotalOf(rows, d)
      BY DEF T!IndexedViews
    <2>1. Run.pc = "idle" /\ Run.todo = {}
      BY DEF Run, Tracked, Timed
    <2>. QED  BY <2>1 DEF Tracked, Fresh
  <1>. QED  BY <1>2, <1>3

\* THE PAGE VIEWS ARE COUNTED: a complete run of the tracking command counts
\* every day before it exactly, whatever runs died before, and datasets that
\* keep their name are sorted by the views that are shown with them, unless
\* their last rebuild failed, which the command passes over.
THEOREM ViewsAlwaysCounted == MCSpec => []ViewsCounted
  <1>. DEFINE all == <<vars, part, pages, changes, followers, tracking, lists, asked>>
  <1>1. MCInit => Tracked
    BY InitTracked DEF MCInit
  <1>2. Tracked /\ [MCNext]_all => Tracked'
    <2>1. ASSUME Tracked, UNCHANGED tracking PROVE Tracked'
      BY <2>1, TrackedStutters DEF tracking
    <2>. QED  BY <2>1, StepTracked DEF MCNext
  <1>3. Tracked => ViewsCounted
    BY TrackedExact DEF ViewsCounted
  <1>. QED  BY <1>1, <1>2, <1>3, PTL DEF MCSpec
-----------------------------------------------------------------------------
(***************************************************************************)
(* Pages of lists.  There are as many pages as hold all items, so that a   *)
(* reader who is told that there is no next page is on the last of them;   *)
(* as he turned every page before, each item of theirs was shown once.     *)
(***************************************************************************)

LEMMA MulStep ==
    ASSUME NEW a \in Int, NEW b \in Int, NEW s \in Nat
    PROVE  /\ a <= b => a * s <= b * s
           /\ a < b => a * s + s <= b * s
           /\ a * s \in Int
  <1>1. a * s \in Int /\ b * s \in Int /\ (b - a) * s = b * s - a * s
    OBVIOUS
  <1>2. \A x \in Nat : x * s >= 0
    OBVIOUS
  <1>3. a <= b => (b - a) * s >= 0
    BY <1>2
  <1>4. a < b => (b - a - 1) * s >= 0
    BY <1>2
  <1>5. (b - a - 1) * s = b * s - a * s - s
    OBVIOUS
  <1>. QED  BY <1>1, <1>3, <1>4, <1>5

LEMMA Quotient ==
    ASSUME NEW c \in Nat, NEW s \in Nat \ {0}
    PROVE  /\ c \div s \in Nat
           /\ (c \div s) * s <= c /\ c < (c \div s) * s + s
  OBVIOUS

LEMMA LesserOf ==
    ASSUME NEW a \in Int, NEW b \in Int
    PROVE  /\ LP!Lesser(a, b) = IF a <= b THEN a ELSE b
           /\ LP!Greater(a, b) = IF a <= b THEN b ELSE a
  BY DEF LP!Lesser, LP!Greater, LP!Min, LP!Max


Addresses == [page : Nat \ {0}, limit : {PerPage}]
Walks == [on : BOOLEAN, seen : [1..MaxItems -> Nat]]

Listed ==
    /\ list \in LP!Kinds
    /\ size \in 0..MaxItems
    /\ address \in Addresses
    /\ walk \in Walks

Walked ==
    walk.on /\ list # "feed" =>
      /\ address.page = 1 \/ address.page <= LP!LastPage(list, address)
      /\ \A i \in 1..size : walk.seen[i] = IF i <= address.page * PerPage THEN 1 ELSE 0

Reading == Listed /\ Walked

LEMMA Sizes ==
    ASSUME NEW k \in LP!Kinds, NEW u \in Addresses
    PROVE  LP!Size(k, u) = PerPage /\ LP!Step(k, u) = PerPage
  <1>1. u.limit = PerPage
    BY DEF Addresses
  <1>2. LP!Lesser(PerPage, RowsMax) = PerPage /\ LP!Lesser(PerPage, AllFieldsMax) = PerPage
    BY Listing, LesserOf
  <1>. QED  BY <1>1, <1>2 DEF LP!Size, LP!Step, LP!Kinds

LEMMA Counts ==
    ASSUME size \in 0..MaxItems, NEW k \in LP!Kinds
    PROVE  /\ LP!Count(k) \in Nat /\ LP!Count(k) <= size
           /\ LP!Count(k) = 0 <=> size = 0
           /\ LP!Count(k) = size \/ LP!Count(k) = ListMax
  <1>1. LP!Lesser(size, ListMax) = IF size <= ListMax THEN size ELSE ListMax
    BY Listing, LesserOf
  <1>. QED  BY <1>1, Listing DEF LP!Count

LEMMA LastPages ==
    ASSUME size \in 0..MaxItems, NEW k \in LP!Kinds, NEW u \in Addresses, NEW last, last = LP!LastPage(k, u)
    PROVE  /\ last \in Nat
           /\ last = 0 <=> size = 0
           /\ last * PerPage \in Int /\ (last - 1) * PerPage \in Int
           /\ size <= last * PerPage
           /\ last # 0 => (last - 1) * PerPage < LP!Count(k)
  <1>. DEFINE c == LP!Count(k)
  <1>1. c \in Nat /\ c <= size /\ (c = 0 <=> size = 0) /\ (c = size \/ c = ListMax) /\ size \in Nat /\ size <= MaxItems
    BY Counts, Listing
  <1>. HIDE DEF c
  <1>2. PerPage \in Nat \ {0} /\ MaxItems \in Nat
    BY Listing
  <1>3. last = IF c = 0 THEN 0 ELSE ((c - 1) \div PerPage) + 1
    BY Sizes DEF LP!LastPage, c
  <1>4. CASE c = 0
    <2>1. last = 0 /\ 0 * PerPage = 0
      BY <1>2, <1>3, <1>4
    <2>2. (0 - 1) * PerPage \in Int
      BY <1>2, MulStep
    <2>. QED  BY <1>1, <1>4, <2>1, <2>2
  <1>5. CASE c # 0
    <2>. DEFINE q == (c - 1) \div PerPage
    <2>1. c - 1 \in Nat
      BY <1>1, <1>5
    <2>2. q \in Nat /\ q * PerPage <= c - 1 /\ c - 1 < q * PerPage + PerPage
      BY <1>2, <2>1, Quotient
    <2>3. last = q + 1
      BY <1>3, <1>5
    <2>. HIDE DEF q
    <2>4. q * PerPage \in Int /\ (q + 1) * PerPage = q * PerPage + PerPage
      BY <1>2, <2>2, MulStep
    <2>5. c <= last * PerPage /\ last * PerPage \in Int
      BY <1>1, <1>2, <2>2, <2>3, <2>4
    <2>6. size <= last * PerPage
      <3>1. CASE c = size
        BY <2>5, <3>1
      <3>2. CASE c = ListMax
        BY <1>1, <1>2, <2>3, <2>5, <3>2, Listing DEF q
      <3>. QED  BY <1>1, <3>1, <3>2
    <2>7. last - 1 = q /\ last \in Nat /\ last # 0
      BY <2>2, <2>3
    <2>. QED  BY <1>1, <1>5, <2>1, <2>2, <2>4, <2>5, <2>6, <2>7 DEF c
  <1>. QED  BY <1>4, <1>5

LEMMA PageItems ==
    ASSUME NEW k \in LP!Kinds, NEW u \in Addresses
    PROVE  /\ LP!Items(k, u) = {i \in 1..size : (u.page - 1) * PerPage < i /\ i <= (u.page - 1) * PerPage + PerPage}
           /\ (u.page - 1) * PerPage \in Int /\ PerPage \in Nat /\ u.page \in Nat
           /\ u.page * PerPage = (u.page - 1) * PerPage + PerPage
  <1>1. u.page \in Nat /\ u.page - 1 \in Int /\ PerPage \in Nat
    BY Listing DEF Addresses
  <1>2. (u.page - 1) * PerPage \in Int
    BY <1>1, MulStep
  <1>3. u.page * PerPage = (u.page - 1) * PerPage + PerPage
    BY <1>1
  <1>. QED  BY <1>1, <1>2, <1>3, Sizes DEF LP!Items

LEMMA ToldPage ==
    ASSUME size \in 0..MaxItems, NEW k \in LP!Kinds, NEW u \in Addresses
    PROVE  /\ LP!LastPage(k, u) \in Nat
           /\ LP!Told(k, u) \in Nat \ {0}
           /\ LP!LastPage(k, u) # 0 =>
                LP!Told(k, u) = IF u.page <= LP!LastPage(k, u) THEN u.page ELSE LP!LastPage(k, u)
           /\ LP!LastPage(k, u) = 0 => LP!Told(k, u) = u.page
  <1>. DEFINE last == LP!LastPage(k, u)
  <1>1. last \in Nat
    BY LastPages
  <1>2. u.page \in Nat \ {0}
    BY DEF Addresses
  <1>3. LP!Greater(u.page, 1) = u.page
    <2>1. u.page \in Int /\ 1 \in Int
      BY <1>2
    <2>. QED  BY <1>2, <2>1, LesserOf
  <1>4. LP!Lesser(u.page, last) = IF u.page <= last THEN u.page ELSE last
    BY <1>1, <1>2, LesserOf
  <1>5. LP!Told(k, u) = IF last = 0 THEN u.page ELSE LP!Lesser(u.page, last)
    BY <1>3 DEF LP!Told
  <1>. HIDE DEF last
  <1>6. /\ LP!Told(k, u) \in Nat \ {0}
        /\ last # 0 => LP!Told(k, u) = IF u.page <= last THEN u.page ELSE last
        /\ last = 0 => LP!Told(k, u) = u.page
    BY <1>1, <1>2, <1>4, <1>5
  <1>. QED  BY <1>1, <1>6 DEF last

-----------------------------------------------------------------------------
LEMMA OpenReads ==
    ASSUME Reading, NEW k \in LP!Kinds, NEW limit \in Limits, LP!Open(k, limit)
    PROVE  Reading'
  <1>1. /\ list' = k /\ size' = size /\ size \in 0..MaxItems
        /\ address' = [page |-> 1, limit |-> PerPage] /\ walk' = LP!Start(k, address')
    BY Listing DEF LP!Open, Reading, Listed
  <1>2. address' \in Addresses /\ address'.page = 1
    BY <1>1 DEF Addresses
  <1>3. LP!Items(k, address') = {i \in 1..size : i <= PerPage}
    <2>1. (1 - 1) * PerPage = 0 /\ PerPage \in Nat
      BY Listing
    <2>2. \A i \in 1..size : i \in Int /\ 0 < i
      BY <1>1
    <2>3. PICK u : u = address'
      OBVIOUS
    <2>4. LP!Items(k, u) = {i \in 1..size : (u.page - 1) * PerPage < i /\ i <= (u.page - 1) * PerPage + PerPage}
      BY <1>2, <2>3, PageItems
    <2>5. LP!Items(k, u) = {i \in 1..size : 0 < i /\ i <= 0 + PerPage}
      BY <1>2, <2>1, <2>3, <2>4
    <2>. QED  BY <2>1, <2>2, <2>3, <2>5
  <1>4. /\ walk'.on = TRUE
        /\ walk'.seen = [i \in 1..MaxItems |-> IF i \in LP!Items(k, address') THEN 1 ELSE 0]
        /\ walk' \in Walks
    BY <1>1 DEF LP!Start, LP!Add, LP!Nowhere, Walks
  <1>5. \A i \in 1..size : i \in 1..MaxItems
    BY <1>1, Listing
  <1>6. 1 * PerPage = PerPage
    BY Listing
  <1>7. Walked'
    <2>1. ASSUME NEW i \in 1..size PROVE walk'.seen[i] = IF i <= PerPage THEN 1 ELSE 0
      BY <1>3, <1>4, <1>5
    <2>. QED  BY <1>1, <1>2, <1>6, <2>1 DEF Walked
  <1>. QED  BY <1>1, <1>2, <1>4, <1>7 DEF Reading, Listed

LEMMA GoToReads ==
    ASSUME Reading, NEW p \in Nat \ {0}, LP!GoTo(p)
    PROVE  Reading'
  <1>1. address' \in Addresses /\ walk' \in Walks /\ walk'.on = FALSE
    BY DEF LP!GoTo, LP!PageUrl, Addresses, Walks, LP!Nowhere
  <1>. QED  BY <1>1 DEF Reading, Listed, Walked, LP!GoTo

LEMMA Added ==
    ASSUME NEW seen \in [1..MaxItems -> Nat], NEW items
    PROVE  /\ LP!Add(seen, items) \in [1..MaxItems -> Nat]
           /\ \A i \in 1..MaxItems : LP!Add(seen, items)[i] = IF i \in items THEN seen[i] + 1 ELSE seen[i]
  BY DEF LP!Add

LEMMA GoOnReads ==
    ASSUME Reading, LP!GoOn
    PROVE  Reading'
  <1>1. PICK p \in LP!NextPage(list, address) : list # "feed" /\ LP!Turn(LP!PageUrl(p))
    BY DEF LP!GoOn
  <1>2. list \in LP!Kinds /\ address \in Addresses /\ size \in 0..MaxItems /\ walk \in Walks
    BY DEF Reading, Listed
  <1>. DEFINE last == LP!LastPage(list, address)
  <1>3. LP!Told(list, address) < last /\ p = LP!Told(list, address) + 1
    BY <1>1 DEF LP!NextPage
  <1>4. last \in Nat /\ LP!Told(list, address) \in Nat \ {0} /\ address.page \in Nat \ {0}
    BY <1>2, ToldPage DEF Addresses
  <1>5. LP!Told(list, address) = address.page
    BY <1>2, <1>3, <1>4, ToldPage
  <1>6. p = address.page + 1 /\ p <= last /\ p \in Nat \ {0} /\ p # 1
    BY <1>3, <1>4, <1>5
  <1>7. address' = [page |-> p, limit |-> PerPage] /\ list' = list /\ size' = size /\ address' \in Addresses
    BY <1>1, <1>6 DEF LP!Turn, LP!PageUrl, Addresses
  <1>8. LP!LastPage(list, address') = last
    BY <1>2, <1>7, Sizes DEF LP!LastPage, LP!Count
  <1>9. CASE ~walk.on
    <2>1. walk' = walk
      BY <1>1, <1>9 DEF LP!Turn
    <2>. QED  BY <1>2, <1>7, <1>9, <2>1 DEF Reading, Listed, Walked
  <1>10. CASE walk.on
    <2>1. walk' = [walk EXCEPT !.seen = LP!Add(@, LP!Items(list, address'))]
      BY <1>1, <1>7, <1>10 DEF LP!Turn, LP!PageUrl
    <2>2. /\ walk' \in Walks /\ walk'.on
          /\ \A i \in 1..MaxItems :
               walk'.seen[i] = IF i \in LP!Items(list, address') THEN walk.seen[i] + 1 ELSE walk.seen[i]
      <3>0. walk.seen \in [1..MaxItems -> Nat]
        BY <1>2 DEF Walks
      <3>1. LP!Add(walk.seen, LP!Items(list, address')) \in [1..MaxItems -> Nat]
        BY <3>0, Added
      <3>2. \A i \in 1..MaxItems : LP!Add(walk.seen, LP!Items(list, address'))[i] =
                 IF i \in LP!Items(list, address') THEN walk.seen[i] + 1 ELSE walk.seen[i]
        BY <3>0, Added
      <3>. QED  BY <1>2, <1>10, <2>1, <3>1, <3>2 DEF Walks
    <2>3. LP!Items(list, address') = {i \in 1..size : address.page * PerPage < i /\ i <= p * PerPage}
      <3>1. address'.page = p /\ p - 1 = address.page
        BY <1>4, <1>6, <1>7
      <3>. QED  BY <1>2, <1>7, <3>1, PageItems
    <2>4. address.page * PerPage <= p * PerPage /\ address.page * PerPage \in Int /\ p * PerPage \in Int
      BY <1>4, <1>6, MulStep, Listing
    <2>5. \A i \in 1..size : walk.seen[i] = IF i <= address.page * PerPage THEN 1 ELSE 0
      BY <1>1, <1>10 DEF Reading, Walked
    <2>6. ASSUME NEW i \in 1..size PROVE walk'.seen[i] = IF i <= p * PerPage THEN 1 ELSE 0
      <3>1. i \in 1..MaxItems /\ i \in Int
        BY <1>2, Listing
      <3>2. CASE i <= address.page * PerPage
        BY <2>2, <2>3, <2>4, <2>5, <3>1, <3>2
      <3>3. CASE ~(i <= address.page * PerPage)
        BY <2>2, <2>3, <2>4, <2>5, <3>1, <3>3
      <3>. QED  BY <3>2, <3>3
    <2>7. Walked'
      BY <1>6, <1>7, <1>8, <2>6 DEF Walked, LP!LastPage, LP!Count, LP!Step
    <2>. QED  BY <1>2, <1>7, <2>2, <2>7 DEF Reading, Listed
  <1>. QED  BY <1>9, <1>10

LEMMA FeedReads ==
    ASSUME Reading, LP!GoOnFeed
    PROVE  Reading'
  <1>1. /\ list = "feed" /\ list' = list /\ size' = size /\ address' = LP!FeedUrl(address.page + 1)
        /\ walk' = [walk EXCEPT !.seen = LP!Add(@, LP!Items(list, address'))]
    BY DEF LP!GoOnFeed, LP!Turn
  <1>2. address' \in Addresses
    BY <1>1 DEF LP!FeedUrl, Addresses
  <1>3. walk' \in Walks
    <2>1. walk \in Walks /\ walk.seen \in [1..MaxItems -> Nat]
      BY DEF Reading, Listed, Walks
    <2>2. LP!Add(walk.seen, LP!Items(list, address')) \in [1..MaxItems -> Nat]
      BY <2>1, Added
    <2>. QED  BY <1>1, <2>1, <2>2 DEF Walks
  <1>. QED  BY <1>1, <1>2, <1>3 DEF Reading, Listed, Walked

LEMMA ChangeReads ==
    ASSUME Reading, NEW m \in 0..MaxItems, LP!Change(m)
    PROVE  Reading'
  <1>1. walk' \in Walks /\ walk'.on = FALSE
    BY DEF LP!Change, Walks, LP!Nowhere
  <1>. QED  BY <1>1 DEF Reading, Listed, Walked, LP!Change

LEMMA ReadingStep ==
    ASSUME Reading, LP!Next \/ UNCHANGED lists
    PROVE  Reading'
  <1>1. CASE \E k \in LP!Kinds, limit \in Limits : LP!Open(k, limit)
    BY <1>1, OpenReads
  <1>2. CASE \E p \in 1..(MaxItems + 1) : LP!GoTo(p)
    <2>1. PICK p \in 1..(MaxItems + 1) : LP!GoTo(p)
      BY <1>2
    <2>2. p \in Nat \ {0}
      BY Listing
    <2>. QED  BY <2>1, <2>2, GoToReads
  <1>3. CASE LP!GoOn
    BY <1>3, GoOnReads
  <1>4. CASE LP!GoOnFeed
    BY <1>4, FeedReads
  <1>5. CASE \E m \in 0..MaxItems : LP!Change(m)
    BY <1>5, ChangeReads
  <1>6. CASE UNCHANGED lists
    BY <1>6 DEF lists, Reading, Listed, Walked, LP!LastPage, LP!Count, LP!Step
  <1>. QED  BY <1>1, <1>2, <1>3, <1>4, <1>5, <1>6 DEF LP!Next

LEMMA InitReading == LP!Init => Reading
  BY Listing DEF LP!Init, Reading, Listed, Walked, LP!Kinds, LP!PageUrl, Addresses, LP!Nowhere, Walks

-----------------------------------------------------------------------------
LEMMA WalksEnd ==
    ASSUME Reading
    PROVE  LP!WalkShowsAll
  <1> SUFFICES ASSUME list # "feed", walk.on, LP!NextPage(list, address) = {}, NEW i \in 1..LP!Count(list)
               PROVE  walk.seen[i] = 1
    BY DEF LP!WalkShowsAll
  <1>1. list \in LP!Kinds /\ address \in Addresses /\ size \in 0..MaxItems
    BY DEF Reading, Listed
  <1>. DEFINE last == LP!LastPage(list, address)
  <1>2. LP!Count(list) \in Nat /\ LP!Count(list) <= size /\ size \in Nat
    BY <1>1, Counts, Listing
  <1>3. i \in 1..size /\ size # 0 /\ i \in Int
    BY <1>2
  <1>4. last \in Nat /\ last # 0 /\ size <= last * PerPage /\ last * PerPage \in Int
    BY <1>1, <1>3, LastPages
  <1>5. LP!Told(list, address) \in Nat /\ ~(LP!Told(list, address) < last)
    BY <1>1, ToldPage DEF LP!NextPage
  <1>6. address.page \in Nat /\ last <= address.page
    BY <1>1, <1>4, <1>5, ToldPage DEF Addresses
  <1>7. last * PerPage <= address.page * PerPage /\ address.page * PerPage \in Int
    BY <1>4, <1>6, MulStep, Listing
  <1>. HIDE DEF last
  <1>8. i <= address.page * PerPage
    BY <1>2, <1>3, <1>4, <1>7
  <1>. QED  BY <1>3, <1>8 DEF Reading, Walked

LEMMA PagesTell ==
    ASSUME Reading
    PROVE  LP!TellsWhatItShows
  <1> SUFFICES ASSUME list # "feed"
               PROVE  \/ LP!Items(list, address) \cap (1..LP!Count(list)) = LP!ToldItems(list, address)
                      \/ address.page > LP!LastPage(list, address) /\ LP!Items(list, address) = {}
    BY DEF LP!TellsWhatItShows
  <1>1. list \in LP!Kinds /\ address \in Addresses /\ size \in 0..MaxItems
    BY DEF Reading, Listed
  <1>2. PICK last : last = LP!LastPage(list, address)
    OBVIOUS
  <1>3. /\ last \in Nat /\ (last = 0 <=> size = 0) /\ size <= last * PerPage /\ last * PerPage \in Int
        /\ address.page \in Nat \ {0} /\ PerPage \in Nat \ {0} /\ size \in Nat
    BY <1>1, <1>2, LastPages, Listing DEF Addresses
  <1>4. PICK c : c = LP!Count(list)
    OBVIOUS
  <1>5. c \in Nat /\ c <= size /\ (c = 0 <=> size = 0)
    BY <1>1, <1>4, Counts
  <1>. DEFINE start == (address.page - 1) * PerPage
  <1>6. /\ LP!Items(list, address) = {i \in 1..size : start < i /\ i <= start + PerPage}
        /\ start \in Int
    BY <1>1, PageItems
  <1>. HIDE DEF start
  <1>7. CASE last = 0
    <2>1. LP!ToldItems(list, address) = {} /\ c = 0
      BY <1>2, <1>3, <1>5, <1>7 DEF LP!ToldItems
    <2>. QED  BY <1>4, <2>1
  <1>8. CASE last # 0 /\ address.page <= last
    <2>1. LP!Told(list, address) = address.page /\ LP!Step(list, address) = PerPage
      BY <1>1, <1>2, <1>8, ToldPage, Sizes
    <2>2. LP!ToldItems(list, address) = (start + 1)..LP!Lesser(start + 1 + PerPage - 1, c)
      BY <1>2, <1>4, <1>8, <2>1 DEF LP!ToldItems, start
    <2>3. LP!Lesser(start + 1 + PerPage - 1, c) = IF start + PerPage <= c THEN start + PerPage ELSE c
      <3>1. start + 1 + PerPage - 1 = start + PerPage /\ start + PerPage \in Int /\ c \in Int
        BY <1>3, <1>5, <1>6
      <3>. QED  BY <3>1, LesserOf
    <2>4. start >= 0
      <3>1. address.page - 1 \in Int /\ 0 <= address.page - 1 /\ 0 * PerPage = 0
        BY <1>3
      <3>2. 0 * PerPage <= (address.page - 1) * PerPage
        BY <1>3, <3>1, MulStep
      <3>. QED  BY <3>1, <3>2 DEF start
    <2>5. \A i : i \in LP!Items(list, address) \cap (1..c) <=> i \in LP!ToldItems(list, address)
      BY <1>3, <1>5, <1>6, <2>2, <2>3, <2>4
    <2>. QED  BY <1>4, <2>5
  <1>9. CASE last # 0 /\ ~(address.page <= last)
    <2>1. last <= address.page - 1 /\ address.page - 1 \in Int
      BY <1>3, <1>9
    <2>2. last * PerPage <= start
      BY <1>3, <2>1, MulStep DEF start
    <2>3. LP!Items(list, address) = {}
      BY <1>3, <1>6, <2>2
    <2>. QED  BY <1>2, <1>3, <1>9, <2>3
  <1>. QED  BY <1>7, <1>8, <1>9

LEMMA LinksTell ==
    ASSUME Reading
    PROVE  LP!LinksLead
  <1>1. list \in LP!Kinds /\ address \in Addresses /\ size \in 0..MaxItems
    BY DEF Reading, Listed
  <1>2. PICK last : last = LP!LastPage(list, address)
    OBVIOUS
  <1>3. last \in Nat /\ (last # 0 => (last - 1) * PerPage < LP!Count(list)) /\ (last - 1) * PerPage \in Int
    BY <1>1, <1>2, LastPages
  <1>4. LP!Count(list) \in Nat /\ LP!Count(list) <= size /\ size \in Nat /\ PerPage \in Nat \ {0}
    BY <1>1, Counts, Listing
  <1>5. ASSUME NEW p \in LP!PageLinks(list, address) PROVE LP!Items(list, LP!PageUrl(p)) # {}
    <2>1. p \in 1..last /\ last # 0 /\ p \in Nat \ {0}
      BY <1>2, <1>3, <1>5 DEF LP!PageLinks
    <2>2. LP!PageUrl(p) \in Addresses /\ LP!PageUrl(p).page = p
      BY <2>1 DEF LP!PageUrl, Addresses
    <2>3. /\ LP!Items(list, LP!PageUrl(p)) = {i \in 1..size : (p - 1) * PerPage < i /\ i <= (p - 1) * PerPage + PerPage}
          /\ (p - 1) * PerPage \in Int
      BY <1>1, <2>2, PageItems
    <2>4. (p - 1) * PerPage <= (last - 1) * PerPage /\ 0 * PerPage <= (p - 1) * PerPage /\ 0 * PerPage = 0
      <3>1. p - 1 <= last - 1 /\ 0 <= p - 1 /\ p - 1 \in Int /\ last - 1 \in Int
        BY <1>3, <2>1
      <3>. QED  BY <1>4, <3>1, MulStep
    <2>5. (p - 1) * PerPage + 1 \in 1..size
      BY <1>3, <1>4, <2>1, <2>3, <2>4
    <2>. QED  BY <1>4, <2>3, <2>5
  <1>6. LP!NextPage(list, address) \subseteq LP!PageLinks(list, address)
    <2> SUFFICES ASSUME NEW p \in LP!NextPage(list, address) PROVE p \in LP!PageLinks(list, address)
      OBVIOUS
    <2>. DEFINE t == LP!Told(list, address)
    <2>1. t < last /\ p = t + 1
      BY <1>2 DEF LP!NextPage
    <2>2. t \in Nat \ {0}
      BY <1>1, ToldPage
    <2>. HIDE DEF t
    <2>3. p \in 1..last /\ p # t /\ p <= t + 2 /\ t <= p + 2 /\ ~(last <= 1)
      BY <1>3, <2>1, <2>2
    <2>. QED  BY <1>2, <2>3 DEF LP!PageLinks, t
  <1>. QED  BY <1>5, <1>6 DEF LP!LinksLead

-----------------------------------------------------------------------------
(***************************************************************************)
(* Data requests.  A request keeps its place among those that were there   *)
(* before it; new ones are put in front or between, so that places only    *)
(* grow, and what was on a page is on that page or a later one.            *)
(***************************************************************************)

LEMMA RequestsCounted == ASSUME NEW S PROVE DR!Cardinality(S) = Cardinality(S)
  BY DEF Cardinality, DR!Cardinality

LEMMA EarlierOf ==
    ASSUME NEW a \in Int, NEW b \in Int
    PROVE  /\ DR!Min({a, b}) = IF a <= b THEN a ELSE b
           /\ DR!Max({a, b}) = IF a <= b THEN b ELSE a
  BY DEF DR!Min, DR!Max

LEMMA PageCount ==
    ASSUME NEW c \in Nat, NEW s \in Nat \ {0}, NEW p, p = (c + s - 1) \div s
    PROVE  /\ p \in Nat /\ p * s \in Nat
           /\ c <= p * s /\ p * s < c + s
           /\ p = 0 <=> c = 0
  <1>1. /\ p \in Nat /\ p * s \in Int
        /\ p * s <= c + s - 1 /\ c + s - 1 < p * s + s
    BY Quotient, MulStep
  <1>2. p = 0 => c = 0
    <2>1. ASSUME p = 0 PROVE p * s = 0
      BY <2>1
    <2>. QED  BY <1>1, <2>1
  <1>3. p # 0 => c # 0
    <2>1. 0 < p => 0 * s + s <= p * s
      BY <1>1, MulStep
    <2>. QED  BY <1>1, <2>1
  <1>4. p * s >= 0
    BY <1>1, MulStep
  <1>. QED  BY <1>1, <1>2, <1>3, <1>4

LEMMA FewPages ==
    ASSUME NEW c \in Nat, NEW s \in Nat \ {0}
    PROVE  (c + s - 1) \div s <= c
  <1>1. PICK p : p = (c + s - 1) \div s
    OBVIOUS
  <1>2. p \in Nat /\ p * s \in Nat /\ p * s < c + s
    BY <1>1, PageCount
  <1>3. c < p => c * s + s <= p * s
    BY <1>2, MulStep
  <1>4. 1 * c <= s * c /\ 1 * c = c /\ s * c = c * s /\ c * s \in Int
    BY MulStep
  <1>. QED  BY <1>1, <1>2, <1>3, <1>4

LEMMA MorePages ==
    ASSUME NEW c \in Nat, NEW d \in Nat, c <= d, NEW s \in Nat \ {0},
           NEW p, p = (c + s - 1) \div s, NEW q, q = (d + s - 1) \div s
    PROVE  p <= q
  <1>1. p \in Nat /\ p * s \in Nat /\ p * s < c + s
    BY PageCount
  <1>2. q \in Nat /\ q * s \in Nat /\ d <= q * s
    BY PageCount
  <1>3. q < p => q * s + s <= p * s
    BY <1>1, <1>2, MulStep
  <1>. QED  BY <1>1, <1>2, <1>3

-----------------------------------------------------------------------------
Askers == [page : Nat, last : Nat, sort : DR!Sorts, status : DR!Statuses,
            shown : SUBSET (1..MaxRequests), there : SUBSET (1..MaxRequests)]

Put ==
    /\ dataRequests \in Seq(DR!DataRequest) /\ Len(dataRequests) <= MaxRequests
    /\ date \in 0..LastDate
    /\ reader \in Askers
    /\ \A i \in DOMAIN dataRequests : dataRequests[i].id <= Len(dataRequests)
    /\ \A i, j \in DOMAIN dataRequests : dataRequests[i].id = dataRequests[j].id => i = j

OfReader == DR!Filtered(reader.status)

Turned ==
    reader.page > 0 =>
       /\ reader.page <= MaxRequests
       /\ reader.last <= DR!TotalPages(OfReader, RequestsPage)
       /\ reader.there \subseteq DR!Titles(OfReader)
       /\ \A i \in OfReader :
            dataRequests[i].id \in reader.there /\ DR!Rank(OfReader, reader.sort, i) <= reader.page * RequestsPage
              => dataRequests[i].id \in reader.shown
       /\ reader.page >= reader.last => reader.there \subseteq reader.shown

Asked == Put /\ Turned

LEMMA SomeRequests ==
    ASSUME Put, NEW status
    PROVE  /\ DR!Filtered(status) \subseteq 1..Len(dataRequests)
           /\ Len(dataRequests) \in Nat
           /\ DOMAIN dataRequests = 1..Len(dataRequests)
           /\ IsFiniteSet(DR!Filtered(status))
           /\ Cardinality(DR!Filtered(status)) \in Nat
           /\ Cardinality(DR!Filtered(status)) <= Len(dataRequests)
  <1>1. Len(dataRequests) \in Nat /\ DOMAIN dataRequests = 1..Len(dataRequests)
    BY DEF Put
  <1>2. DR!Filtered(status) \subseteq 1..Len(dataRequests)
    BY <1>1 DEF DR!Filtered
  <1>3. IsFiniteSet(1..Len(dataRequests)) /\ Cardinality(1..Len(dataRequests)) = Len(dataRequests)
    <2>1. Cardinality(1..Len(dataRequests)) = IF 1 > Len(dataRequests) THEN 0 ELSE Len(dataRequests) - 1 + 1
      BY <1>1, FS_Interval
    <2>. QED  BY <1>1, <2>1, FS_Interval
  <1>. QED  BY <1>1, <1>2, <1>3, FS_Subset, FS_CardinalityType

LEMMA RankInList ==
    ASSUME NEW S, IsFiniteSet(S), NEW sort, NEW i \in S
    PROVE  DR!Rank(S, sort, i) \in 1..Cardinality(S)
  <1>. DEFINE B == {j \in S : j = i \/ DR!Before(sort, j, i)}
  <1>1. B \subseteq S /\ {i} \subseteq B
    OBVIOUS
  <1>. HIDE DEF B
  <1>2. IsFiniteSet(B) /\ Cardinality(B) <= Cardinality(S)
    BY <1>1, FS_Subset
  <1>3. Cardinality({i}) = 1 /\ Cardinality({i}) <= Cardinality(B)
    BY <1>1, <1>2, FS_Subset, FS_Singleton
  <1>4. Cardinality(B) \in Nat /\ Cardinality(S) \in Nat
    BY <1>2, FS_CardinalityType
  <1>5. Cardinality(B) \in 1..Cardinality(S)
    BY <1>2, <1>3, <1>4
  <1>. QED  BY <1>5, RequestsCounted DEF DR!Rank, B

-----------------------------------------------------------------------------
LEMMA Posted ==
    ASSUME Put, DR!Post
    PROVE  /\ DOMAIN dataRequests' = 1..(Len(dataRequests) + 1) /\ Len(dataRequests') = Len(dataRequests) + 1
           /\ dataRequests' \in Seq(DR!DataRequest)
           /\ dataRequests'[1] = [id |-> Len(dataRequests) + 1, open |-> TRUE, day |-> date]
           /\ \A i \in DOMAIN dataRequests : dataRequests'[i + 1] = dataRequests[i]
  <1>. DEFINE first == [id |-> Len(dataRequests) + 1, open |-> TRUE, day |-> date]
  <1>1. Len(dataRequests) \in Nat /\ DOMAIN dataRequests = 1..Len(dataRequests) /\ dataRequests \in Seq(DR!DataRequest)
    BY DEF Put
  <1>2. first \in DR!DataRequest
    <2>1. Len(dataRequests) < MaxRequests
      BY DEF DR!Post
    <2>. QED  BY <1>1, <2>1, Asking DEF DR!DataRequest, Put
  <1>. HIDE DEF first
  <1>3. <<first>> \in Seq(DR!DataRequest) /\ Len(<<first>>) = 1 /\ <<first>>[1] = first
    BY <1>2
  <1>4. dataRequests' = <<first>> \o dataRequests
    BY DEF DR!Post, first
  <1>5. dataRequests' \in Seq(DR!DataRequest) /\ Len(dataRequests') = Len(dataRequests) + 1
    BY <1>1, <1>3, <1>4
  <1>6. DOMAIN dataRequests' = 1..(Len(dataRequests) + 1)
    BY <1>5
  <1>7. \A k \in 1..(Len(dataRequests) + 1) :
           dataRequests'[k] = IF k <= 1 THEN first ELSE dataRequests[k - 1]
    BY <1>1, <1>3, <1>4
  <1>8. dataRequests'[1] = first
    BY <1>1, <1>7
  <1>9. ASSUME NEW i \in DOMAIN dataRequests PROVE dataRequests'[i + 1] = dataRequests[i]
    <2>1. i + 1 \in 1..(Len(dataRequests) + 1) /\ ~(i + 1 <= 1) /\ i + 1 - 1 = i
      BY <1>1
    <2>. QED  BY <1>7, <2>1
  <1>. QED  BY <1>5, <1>6, <1>8, <1>9 DEF first

LEMMA PutPosts ==
    ASSUME Put, DR!Post
    PROVE  Put'
  <1>1. Len(dataRequests) \in Nat /\ DOMAIN dataRequests = 1..Len(dataRequests) /\ Len(dataRequests) < MaxRequests
    BY DEF Put, DR!Post
  <1>2. \A i \in DOMAIN dataRequests : dataRequests[i].id \in Nat /\ dataRequests[i].id <= Len(dataRequests)
    <2>1. \A i \in DOMAIN dataRequests : dataRequests[i] \in DR!DataRequest
      BY DEF Put
    <2>. QED  BY <2>1 DEF Put, DR!DataRequest
  <1>3. \A k \in DOMAIN dataRequests' : k = 1 \/ (k - 1 \in DOMAIN dataRequests /\ dataRequests'[k] = dataRequests[k - 1])
    <2> SUFFICES ASSUME NEW k \in DOMAIN dataRequests', k # 1
                 PROVE  k - 1 \in DOMAIN dataRequests /\ dataRequests'[k] = dataRequests[k - 1]
      OBVIOUS
    <2>1. k - 1 \in 1..Len(dataRequests) /\ k = (k - 1) + 1
      BY <1>1, Posted
    <2>. QED  BY <1>1, <2>1, Posted
  <1>4. dataRequests'[1].id = Len(dataRequests) + 1
    BY Posted
  <1>5. ASSUME NEW k \in DOMAIN dataRequests' PROVE dataRequests'[k].id <= Len(dataRequests')
    BY <1>1, <1>2, <1>3, <1>4, Posted
  <1>6. ASSUME NEW k \in DOMAIN dataRequests', NEW l \in DOMAIN dataRequests', dataRequests'[k].id = dataRequests'[l].id
        PROVE  k = l
    <2>1. k = 1 <=> l = 1
      BY <1>1, <1>2, <1>3, <1>4, <1>6
    <2>2. ASSUME k # 1, l # 1 PROVE k = l
      <3>1. k - 1 \in DOMAIN dataRequests /\ l - 1 \in DOMAIN dataRequests
            /\ dataRequests[k - 1].id = dataRequests[l - 1].id
        BY <1>3, <1>6, <2>2
      <3>2. k - 1 = l - 1
        BY <3>1 DEF Put
      <3>3. k \in Int /\ l \in Int
        BY Posted, <1>1
      <3>. QED  BY <3>2, <3>3
    <2>. QED  BY <2>1, <2>2
  <1>7. dataRequests' \in Seq(DR!DataRequest) /\ Len(dataRequests') <= MaxRequests
    BY <1>1, Posted, Asking
  <1>8. UNCHANGED <<date, reader>>
    BY DEF DR!Post
  <1>. QED  BY <1>5, <1>6, <1>7, <1>8 DEF Put

LEMMA FilteredPosts ==
    ASSUME Put, DR!Post, NEW status
    PROVE  /\ \A i \in DR!Filtered(status) : i + 1 \in DR!Filtered(status)'
           /\ \A k \in DR!Filtered(status)' : k = 1 \/ (k - 1 \in DR!Filtered(status) /\ k = (k - 1) + 1)
           /\ IsFiniteSet(DR!Filtered(status)')
           /\ Cardinality(DR!Filtered(status)') \in Nat
           /\ Cardinality(DR!Filtered(status)) <= Cardinality(DR!Filtered(status)')
  <1>. DEFINE f == [j \in DR!Filtered(status) |-> j + 1]
  <1>1. Len(dataRequests) \in Nat /\ DOMAIN dataRequests = 1..Len(dataRequests)
    BY DEF Put
  <1>2. ASSUME NEW i \in DR!Filtered(status) PROVE i + 1 \in DR!Filtered(status)'
    <2>1. i \in DOMAIN dataRequests /\ i + 1 \in DOMAIN dataRequests' /\ dataRequests'[i + 1] = dataRequests[i]
      BY <1>1, Posted DEF DR!Filtered
    <2>. QED  BY <2>1 DEF DR!Filtered
  <1>3. ASSUME NEW k \in DR!Filtered(status)', k # 1
        PROVE  k - 1 \in DR!Filtered(status) /\ k = (k - 1) + 1
    <2>1. k \in DOMAIN dataRequests' /\ k - 1 \in DOMAIN dataRequests /\ k = (k - 1) + 1
      BY <1>1, <1>3, Posted DEF DR!Filtered
    <2>2. dataRequests'[k] = dataRequests[k - 1]
      BY <2>1, Posted
    <2>. QED  BY <2>1, <2>2 DEF DR!Filtered
  <1>4. IsFiniteSet(DR!Filtered(status)')
    <2>1. Len(dataRequests) + 1 \in Int /\ DOMAIN dataRequests' = 1..(Len(dataRequests) + 1)
      BY Posted DEF Put
    <2>2. DR!Filtered(status)' \subseteq 1..(Len(dataRequests) + 1)
      BY <2>1 DEF DR!Filtered
    <2>. QED  BY <2>1, <2>2, FS_Interval, FS_Subset
  <1>5. f \in Injection(DR!Filtered(status), DR!Filtered(status)')
    <2>1. \A j \in DR!Filtered(status) : j \in Int
      BY SomeRequests
    <2>. QED  BY <1>2, <2>1 DEF Injection, IsInjective
  <1>. QED  BY <1>2, <1>3, <1>4, <1>5, FS_Injection, FS_CardinalityType

LEMMA RanksGrow ==
    ASSUME Put, DR!Post, NEW status, NEW sort, NEW i \in DR!Filtered(status)
    PROVE  /\ DR!Rank(DR!Filtered(status), sort, i) <= DR!Rank(DR!Filtered(status), sort, i + 1)'
           /\ DR!Rank(DR!Filtered(status), sort, i + 1)' \in Nat
  <1>. DEFINE A == {j \in DR!Filtered(status) : j = i \/ DR!Before(sort, j, i)}
              B == {j \in DR!Filtered(status)' : j = i + 1 \/ DR!Before(sort, j, i + 1)'}
              f == [j \in A |-> j + 1]
  <1>1. IsFiniteSet(DR!Filtered(status)')
    BY FilteredPosts
  <1>2. \A j \in DOMAIN dataRequests : dataRequests'[j + 1] = dataRequests[j]
    BY Posted
  <1>3. DR!Filtered(status) \subseteq DOMAIN dataRequests /\ DR!Filtered(status) \subseteq Int
    BY SomeRequests
  <1>4. ASSUME NEW j \in A PROVE j + 1 \in B
    <2>1. j \in DR!Filtered(status) /\ j + 1 \in DR!Filtered(status)'
      BY FilteredPosts
    <2>2. j = i \/ DR!Before(sort, j, i)
      OBVIOUS
    <2>3. dataRequests'[j + 1] = dataRequests[j] /\ dataRequests'[i + 1] = dataRequests[i] /\ i \in Int /\ j \in Int
      BY <1>2, <1>3, <2>1
    <2>4. j < i => j + 1 < i + 1
      BY <2>3
    <2>5. DR!Before(sort, j, i) => DR!Before(sort, j + 1, i + 1)'
      BY <2>3, <2>4, Zenon DEF DR!Before
    <2>. QED  BY <2>1, <2>2, <2>5
  <1>5. IsFiniteSet(B)
    BY <1>1, FS_Subset
  <1>6. \A j \in A : j \in Int
    BY <1>3
  <1>. HIDE DEF A, B
  <1>7. f \in Injection(A, B)
    BY <1>4, <1>6 DEF Injection, IsInjective
  <1>8. Cardinality(A) <= Cardinality(B) /\ Cardinality(B) \in Nat
    BY <1>5, <1>7, FS_Injection, FS_CardinalityType
  <1>. QED  BY <1>8, RequestsCounted DEF A, B, DR!Rank

LEMMA PostAsks ==
    ASSUME Asked, DR!Post
    PROVE  Asked'
  <1>1. Put' /\ Put
    BY PutPosts DEF Asked
  <1>2. reader' = reader /\ reader \in Askers
    BY <1>1 DEF DR!Post, Put
  <1>3. ASSUME reader.page > 0 PROVE Turned'
    <2>1. /\ reader.page <= MaxRequests /\ reader.last <= DR!TotalPages(OfReader, RequestsPage)
          /\ reader.there \subseteq DR!Titles(OfReader)
          /\ \A i \in OfReader :
               dataRequests[i].id \in reader.there /\ DR!Rank(OfReader, reader.sort, i) <= reader.page * RequestsPage
                 => dataRequests[i].id \in reader.shown
          /\ reader.page >= reader.last => reader.there \subseteq reader.shown
      BY <1>3 DEF Turned, Asked
    <2>2. \A i \in DOMAIN dataRequests : dataRequests'[i + 1] = dataRequests[i]
      BY Posted, <1>1
    <2>3. OfReader \subseteq DOMAIN dataRequests /\ \A i \in OfReader : i + 1 \in OfReader'
      BY <1>1, <1>2, FilteredPosts, SomeRequests DEF OfReader
    <2>4. reader.there \subseteq DR!Titles(OfReader)'
      <3> SUFFICES ASSUME NEW x \in DR!Titles(OfReader) PROVE x \in DR!Titles(OfReader)'
        BY <2>1
      <3>1. PICK i \in OfReader : x = dataRequests[i].id
        BY DEF DR!Titles
      <3>2. x = dataRequests'[i + 1].id /\ i + 1 \in OfReader'
        BY <2>2, <2>3, <3>1
      <3>. QED  BY <3>2 DEF DR!Titles
    <2>5. ASSUME NEW k \in OfReader', dataRequests'[k].id \in reader.there,
                 DR!Rank(OfReader, reader.sort, k)' <= reader.page * RequestsPage
          PROVE  dataRequests'[k].id \in reader.shown
      <3>1. k = 1 \/ (k - 1 \in OfReader /\ k = (k - 1) + 1)
        BY <1>1, <1>2, FilteredPosts DEF OfReader
      <3>2. k # 1
        <4>1. PICK i \in OfReader : dataRequests'[k].id = dataRequests[i].id
          BY <2>1, <2>5 DEF DR!Titles
        <4>2. dataRequests[i].id <= Len(dataRequests) /\ Len(dataRequests) \in Nat
          BY <1>1, <2>3, <4>1 DEF Put
        <4>3. dataRequests'[1].id = Len(dataRequests) + 1
          BY <1>1, Posted
        <4>. QED  BY <4>1, <4>2, <4>3
      <3>. DEFINE i == k - 1
      <3>3. i \in OfReader /\ k = i + 1
        BY <3>1, <3>2
      <3>. HIDE DEF i
      <3>4. /\ DR!Rank(OfReader, reader.sort, i) <= DR!Rank(OfReader, reader.sort, k)'
            /\ DR!Rank(OfReader, reader.sort, k)' \in Nat
        <4>1. PICK status, order : status = reader.status /\ order = reader.sort
          OBVIOUS
        <4>2. i \in DR!Filtered(status)
          BY <3>3, <4>1 DEF OfReader
        <4>3. /\ DR!Rank(DR!Filtered(status), order, i) <= DR!Rank(DR!Filtered(status), order, i + 1)'
              /\ DR!Rank(DR!Filtered(status), order, i + 1)' \in Nat
          BY <1>1, <4>2, RanksGrow
        <4>4. DR!Rank(OfReader, reader.sort, i) = DR!Rank(DR!Filtered(status), order, i)
          BY <4>1 DEF OfReader
        <4>5. DR!Rank(OfReader, reader.sort, k)' = DR!Rank(DR!Filtered(status), order, i + 1)'
          BY <4>1, <3>3, <1>2, RequestsCounted DEF OfReader, DR!Filtered, DR!Rank, DR!Before
        <4>. QED  BY <4>3, <4>4, <4>5
      <3>5. DR!Rank(OfReader, reader.sort, i) \in Int /\ reader.page * RequestsPage \in Int
        <4>1. IsFiniteSet(OfReader) /\ Cardinality(OfReader) \in Nat
          BY <1>1, SomeRequests DEF OfReader
        <4>2. DR!Rank(OfReader, reader.sort, i) \in 1..Cardinality(OfReader)
          BY <3>3, <4>1, RankInList
        <4>3. reader.page \in Int /\ RequestsPage \in Nat
          BY <1>2, Asking DEF Askers
        <4>. QED  BY <4>1, <4>2, <4>3, MulStep
      <3>6. DR!Rank(OfReader, reader.sort, i) <= reader.page * RequestsPage
        BY <2>5, <3>4, <3>5
      <3>7. dataRequests'[k].id = dataRequests[i].id
        BY <2>2, <2>3, <3>3
      <3>. QED  BY <2>1, <2>5, <3>3, <3>6, <3>7
    <2>6. reader.last <= DR!TotalPages(OfReader, RequestsPage)'
      <3>1. /\ Cardinality(OfReader) \in Nat /\ Cardinality(OfReader') \in Nat
            /\ Cardinality(OfReader) <= Cardinality(OfReader')
        <4>1. \A status : /\ Cardinality(DR!Filtered(status)) \in Nat
                          /\ Cardinality(DR!Filtered(status)') \in Nat
                          /\ Cardinality(DR!Filtered(status)) <= Cardinality(DR!Filtered(status)')
          BY <1>1, FilteredPosts, SomeRequests
        <4>. QED  BY <4>1, <1>2 DEF OfReader, DR!Filtered
      <3>2. DR!TotalPages(OfReader, RequestsPage) <= DR!TotalPages(OfReader', RequestsPage)
        BY <3>1, MorePages, Asking, RequestsCounted DEF DR!TotalPages
      <3>3. DR!TotalPages(OfReader, RequestsPage) \in Nat /\ DR!TotalPages(OfReader', RequestsPage) \in Nat /\ reader.last \in Nat
        <4>1. \A c \in Nat : (c + RequestsPage - 1) \div RequestsPage \in Nat
          BY Asking, PageCount
        <4>2. reader.last \in Nat
          BY <1>2 DEF Askers
        <4>. QED  BY <3>1, <4>1, <4>2, RequestsCounted DEF DR!TotalPages
      <3>. QED  BY <2>1, <3>2, <3>3, RequestsCounted DEF DR!TotalPages
    <2>. QED  BY <1>2, <2>1, <2>4, <2>5, <2>6 DEF Turned
  <1>4. ASSUME ~(reader.page > 0) PROVE Turned'
    BY <1>2, <1>4 DEF Turned
  <1>. QED  BY <1>1, <1>3, <1>4 DEF Asked

-----------------------------------------------------------------------------
LEMMA PageShown ==
    ASSUME NEW S, IsFiniteSet(S), NEW want \in Nat, NEW s \in Nat \ {0}
    PROVE  /\ DR!TotalPages(S, s) \in Nat /\ Cardinality(S) \in Nat /\ Cardinality(S) <= DR!TotalPages(S, s) * s
           /\ DR!TotalPages(S, s) * s \in Int
           /\ DR!CurrentPage(S, want, s) \in Nat \ {0}
           /\ DR!TotalPages(S, s) > 0 => DR!CurrentPage(S, want, s) <= DR!TotalPages(S, s)
           /\ want = 1 \/ (1 <= want /\ want <= DR!TotalPages(S, s)) => DR!CurrentPage(S, want, s) = want
  <1>1. Cardinality(S) \in Nat
    BY FS_CardinalityType
  <1>2. DR!TotalPages(S, s) \in Nat /\ Cardinality(S) <= DR!TotalPages(S, s) * s /\ DR!TotalPages(S, s) * s \in Int
    <2>1. DR!TotalPages(S, s) = (Cardinality(S) + s - 1) \div s
      BY RequestsCounted DEF DR!TotalPages
    <2>. QED  BY <1>1, <2>1, PageCount
  <1>3. DR!Max({1, want}) = IF 1 <= want THEN want ELSE 1
    <2>1. want \in Int /\ 1 \in Int
      OBVIOUS
    <2>. QED  BY <2>1, EarlierOf
  <1>4. \A a \in Nat : DR!Min({a, DR!TotalPages(S, s)}) = IF a <= DR!TotalPages(S, s) THEN a ELSE DR!TotalPages(S, s)
    BY <1>2, EarlierOf
  <1>. DEFINE final == DR!TotalPages(S, s)
              m == DR!Max({1, want})
  <1>5. m \in Nat \ {0} /\ final \in Nat
    BY <1>2, <1>3
  <1>6. DR!CurrentPage(S, want, s) = IF final > 0 THEN (IF m <= final THEN m ELSE final) ELSE 1
    BY <1>4, <1>5 DEF DR!CurrentPage
  <1>7. m = IF 1 <= want THEN want ELSE 1
    BY <1>3
  <1>. HIDE DEF final, m
  <1>8. /\ DR!CurrentPage(S, want, s) \in Nat \ {0}
        /\ final > 0 => DR!CurrentPage(S, want, s) <= final
        /\ want = 1 \/ (1 <= want /\ want <= final) => DR!CurrentPage(S, want, s) = want
    BY <1>5, <1>6, <1>7
  <1>. QED  BY <1>1, <1>2, <1>8 DEF final

LEMMA ShowsPage ==
    ASSUME Put, UNCHANGED <<dataRequests, date>>, NEW r \in Askers, NEW want \in Nat, DR!Show(r, want),
           MaxRequests > 0, r.there \subseteq DR!Titles(DR!Filtered(r.status)),
           \A i \in DR!Filtered(r.status) :
               dataRequests[i].id \in r.there
               /\ DR!Rank(DR!Filtered(r.status), r.sort, i) <= (DR!CurrentPage(DR!Filtered(r.status), want, RequestsPage) - 1) * RequestsPage
               => dataRequests[i].id \in r.shown
    PROVE  Asked'
  <1>. DEFINE S == DR!Filtered(r.status)
              p == DR!CurrentPage(S, want, RequestsPage)
              start == (p - 1) * RequestsPage
              got == DR!Titles(DR!Items(r.status, r.sort, want, RequestsPage))
  <1>1. IsFiniteSet(S) /\ S \subseteq DOMAIN dataRequests /\ Cardinality(S) \in Nat
    BY SomeRequests
  <1>2. /\ DR!TotalPages(S, RequestsPage) \in Nat /\ Cardinality(S) <= DR!TotalPages(S, RequestsPage) * RequestsPage
        /\ DR!TotalPages(S, RequestsPage) * RequestsPage \in Int /\ p \in Nat \ {0}
    BY <1>1, PageShown, Asking
  <1>3. start \in Int /\ p * RequestsPage = start + RequestsPage /\ RequestsPage \in Nat /\ start + RequestsPage \in Int
    <2>1. p - 1 \in Int /\ RequestsPage \in Nat
      BY <1>2, Asking
    <2>2. start \in Int
      BY <2>1, MulStep
    <2>3. p * RequestsPage = (p - 1) * RequestsPage + RequestsPage
      BY <2>1, <1>2
    <2>. QED  BY <2>1, <2>2, <2>3
  <1>4. reader' = [r EXCEPT !.page = p, !.last = DR!TotalPages(S, RequestsPage), !.shown = @ \cup got]
    BY DEF DR!Show
  <1>5. \A i \in S : start < DR!Rank(S, r.sort, i) /\ DR!Rank(S, r.sort, i) <= start + RequestsPage
                    => dataRequests[i].id \in got
    BY DEF DR!Items, DR!Titles
  <1>6. got \subseteq 1..MaxRequests
    <2>1. \A i \in DOMAIN dataRequests : dataRequests[i] \in DR!DataRequest
      BY DEF Put
    <2>2. \A i \in DOMAIN dataRequests : dataRequests[i].id \in 1..MaxRequests
      BY <2>1 DEF DR!DataRequest
    <2>. QED  BY <1>1, <2>2 DEF DR!Items, DR!Titles
  <1>. HIDE DEF p, start, got, S
  <1>7. \A i \in S : DR!Rank(S, r.sort, i) \in Int /\ DR!Rank(S, r.sort, i) <= Cardinality(S)
    BY <1>1, RankInList
  <1>8. /\ reader'.page = p /\ reader'.last = DR!TotalPages(S, RequestsPage) /\ reader'.shown = r.shown \cup got
        /\ reader'.there = r.there /\ reader'.sort = r.sort /\ reader'.status = r.status
        /\ reader' \in Askers
    BY <1>2, <1>4, <1>6 DEF Askers
  <1>9. OfReader' = S
    BY <1>8 DEF OfReader, S, DR!Filtered
  <1>10. \A i \in S : dataRequests[i].id \in r.there /\ DR!Rank(S, r.sort, i) <= p * RequestsPage
                      => dataRequests[i].id \in r.shown \cup got
    <2> SUFFICES ASSUME NEW i \in S, dataRequests[i].id \in r.there, DR!Rank(S, r.sort, i) <= p * RequestsPage
                 PROVE  dataRequests[i].id \in r.shown \cup got
      OBVIOUS
    <2>1. CASE DR!Rank(S, r.sort, i) <= start
      BY <2>1 DEF S, p, start
    <2>2. CASE ~(DR!Rank(S, r.sort, i) <= start)
      <3>1. start < DR!Rank(S, r.sort, i) /\ DR!Rank(S, r.sort, i) <= start + RequestsPage
        BY <2>2, <1>3, <1>7
      <3>. QED  BY <3>1, <1>5
    <2>. QED  BY <2>1, <2>2
  <1>11. ASSUME p >= DR!TotalPages(S, RequestsPage) PROVE r.there \subseteq r.shown \cup got
    <2> SUFFICES ASSUME NEW x \in r.there PROVE x \in r.shown \cup got
      OBVIOUS
    <2>1. PICK i \in S : x = dataRequests[i].id
      BY DEF DR!Titles, S
    <2>2. DR!TotalPages(S, RequestsPage) * RequestsPage <= p * RequestsPage
      BY <1>2, <1>3, <1>11, MulStep
    <2>3. DR!Rank(S, r.sort, i) <= p * RequestsPage
      BY <1>1, <1>2, <1>3, <1>7, <2>2
    <2>. QED  BY <1>10, <2>1, <2>3
  <1>12. \A i : DR!Rank(OfReader, reader.sort, i)' = DR!Rank(S, r.sort, i)
    BY <1>8, <1>9, RequestsCounted DEF DR!Rank, DR!Before
  <1>13. DR!Titles(OfReader)' = DR!Titles(S) /\ DR!TotalPages(OfReader, RequestsPage)' = DR!TotalPages(S, RequestsPage)
    BY <1>9, RequestsCounted DEF DR!Titles, DR!TotalPages
  <1>14. Put'
    BY <1>8 DEF Put
  <1>15. reader'.last <= DR!TotalPages(OfReader, RequestsPage)'
    BY <1>2, <1>8, <1>13
  <1>16. reader'.there \subseteq DR!Titles(OfReader)'
    BY <1>8, <1>13 DEF S
  <1>17. \A i \in OfReader' :
            dataRequests'[i].id \in reader'.there /\ DR!Rank(OfReader, reader.sort, i)' <= reader'.page * RequestsPage
              => dataRequests'[i].id \in reader'.shown
    BY <1>8, <1>9, <1>10, <1>12
  <1>18. reader'.page >= reader'.last => reader'.there \subseteq reader'.shown
    BY <1>8, <1>11
  <1>19. reader'.page <= MaxRequests
    <2>1. Cardinality(S) <= MaxRequests /\ MaxRequests \in Nat
      BY SomeRequests, Asking DEF Put, S
    <2>2. DR!TotalPages(S, RequestsPage) <= Cardinality(S)
      BY <1>1, FewPages, RequestsCounted, Asking DEF DR!TotalPages
    <2>3. p = 1 \/ p <= DR!TotalPages(S, RequestsPage)
      <3>1. DR!TotalPages(S, RequestsPage) = 0 => p = 1
        BY DEF p, DR!CurrentPage
      <3>. QED  BY <1>1, <1>2, <3>1, PageShown, Asking DEF p
    <2>. QED  BY <1>1, <1>2, <1>8, <2>1, <2>2, <2>3
  <1>. QED  BY <1>14, <1>15, <1>16, <1>17, <1>18, <1>19 DEF Asked, Turned

LEMMA OpenAsks ==
    ASSUME Asked, NEW status \in DR!Statuses, NEW sort \in DR!Sorts, DR!Open(status, sort)
    PROVE  Asked'
  <1>1. PICK want \in 1..MaxRequests :
           DR!Show([DR!NoReader EXCEPT !.status = status, !.sort = sort,
                    !.there = IF want = 1 THEN DR!Titles(DR!Filtered(status)) ELSE {}], want)
    BY DEF DR!Open
  <1>. DEFINE seen == IF want = 1 THEN DR!Titles(DR!Filtered(status)) ELSE {}
              r == [DR!NoReader EXCEPT !.status = status, !.sort = sort, !.there = seen]
  <1>2. Put /\ UNCHANGED <<dataRequests, date>>
    BY DEF Asked, DR!Open
  <1>3. \A i \in DOMAIN dataRequests : dataRequests[i].id \in 1..MaxRequests
    <2>1. \A i \in DOMAIN dataRequests : dataRequests[i] \in DR!DataRequest
      BY <1>2 DEF Put
    <2>. QED  BY <2>1 DEF DR!DataRequest
  <1>4. seen \in SUBSET (1..MaxRequests) /\ seen \subseteq DR!Titles(DR!Filtered(status))
    BY <1>3 DEF DR!Titles, DR!Filtered
  <1>5. r \in Askers /\ r.there = seen /\ r.status = status /\ r.sort = sort
    <2>. HIDE DEF seen
    <2>. QED  BY <1>4 DEF Askers, DR!NoReader
  <1>6. DR!Show(r, want) /\ want \in Nat
    BY <1>1
  <1>7. ASSUME NEW i \in DR!Filtered(status), dataRequests[i].id \in seen,
               DR!Rank(DR!Filtered(status), sort, i) <= (DR!CurrentPage(DR!Filtered(status), want, RequestsPage) - 1) * RequestsPage
        PROVE  FALSE
    <2>1. want = 1
      BY <1>7
    <2>2. IsFiniteSet(DR!Filtered(status)) /\ Cardinality(DR!Filtered(status)) \in Nat
      BY <1>2, SomeRequests
    <2>3. DR!CurrentPage(DR!Filtered(status), want, RequestsPage) = 1
      BY <1>6, <2>1, <2>2, PageShown, Asking
    <2>4. DR!Rank(DR!Filtered(status), sort, i) \in 1..Cardinality(DR!Filtered(status))
      BY <2>2, RankInList
    <2>5. (1 - 1) * RequestsPage = 0
      BY Asking
    <2>. QED  BY <1>7, <2>2, <2>3, <2>4, <2>5
  <1>. HIDE DEF r, seen
  <1>8. MaxRequests > 0
    BY Asking
  <1>. QED  BY <1>2, <1>4, <1>5, <1>6, <1>7, <1>8, ShowsPage

LEMMA TurnAsks ==
    ASSUME Asked, DR!TurnPage
    PROVE  Asked'
  <1>1. /\ reader.page > 0 /\ reader.page < reader.last /\ DR!Show(reader, reader.page + 1)
        /\ UNCHANGED <<dataRequests, date>> /\ Put /\ reader \in Askers /\ Turned
    BY DEF DR!TurnPage, Asked, Put
  <1>2. reader.page \in Nat /\ reader.last \in Nat
    BY <1>1 DEF Askers
  <1>3. IsFiniteSet(OfReader)
    BY <1>1, SomeRequests DEF OfReader
  <1>4. reader.last <= DR!TotalPages(OfReader, RequestsPage) /\ DR!TotalPages(OfReader, RequestsPage) \in Nat
    BY <1>1, <1>2, <1>3, PageShown, Asking DEF Turned
  <1>5. DR!CurrentPage(OfReader, reader.page + 1, RequestsPage) = reader.page + 1
    <2>1. reader.page + 1 \in Nat /\ 1 <= reader.page + 1 /\ reader.page + 1 <= DR!TotalPages(OfReader, RequestsPage)
      BY <1>1, <1>2, <1>4
    <2>. QED  BY <1>3, <2>1, PageShown, Asking
  <1>6. (reader.page + 1) - 1 = reader.page /\ reader.page + 1 \in Nat
    BY <1>2
  <1>7. \A i \in OfReader :
           dataRequests[i].id \in reader.there
           /\ DR!Rank(OfReader, reader.sort, i) <= (DR!CurrentPage(OfReader, reader.page + 1, RequestsPage) - 1) * RequestsPage
           => dataRequests[i].id \in reader.shown
    BY <1>1, <1>5, <1>6 DEF Turned
  <1>8. PICK r, want : r = reader /\ want = reader.page + 1
    OBVIOUS
  <1>9. r \in Askers /\ want \in Nat /\ DR!Show(r, want) /\ r.there \subseteq DR!Titles(DR!Filtered(r.status))
    BY <1>1, <1>6, <1>8 DEF Turned, OfReader
  <1>10. \A i \in DR!Filtered(r.status) :
               dataRequests[i].id \in r.there
               /\ DR!Rank(DR!Filtered(r.status), r.sort, i) <= (DR!CurrentPage(DR!Filtered(r.status), want, RequestsPage) - 1) * RequestsPage
               => dataRequests[i].id \in r.shown
    BY <1>7, <1>8 DEF OfReader
  <1>11. MaxRequests > 0
    <2>1. reader.page <= MaxRequests
      BY <1>1 DEF Turned
    <2>. QED  BY <1>1, <1>2, <2>1, Asking
  <1>. QED  BY <1>1, <1>9, <1>10, <1>11, ShowsPage

LEMMA TurnedStays ==
    ASSUME UNCHANGED <<dataRequests, reader>>, Turned
    PROVE  Turned'
  <1>1. OfReader' = OfReader
    BY DEF OfReader, DR!Filtered
  <1>2. \A i : DR!Rank(OfReader, reader.sort, i)' = DR!Rank(OfReader, reader.sort, i)
    BY <1>1, RequestsCounted DEF DR!Rank, DR!Before
  <1>3. DR!Titles(OfReader)' = DR!Titles(OfReader) /\ DR!TotalPages(OfReader, RequestsPage)' = DR!TotalPages(OfReader, RequestsPage)
    BY <1>1, RequestsCounted DEF DR!Titles, DR!TotalPages
  <1>. QED  BY <1>1, <1>2, <1>3 DEF Turned

LEMMA AskedStep ==
    ASSUME Asked, DR!Next \/ UNCHANGED asked
    PROVE  Asked'
  <1>1. CASE DR!Post
    BY <1>1, PostAsks
  <1>2. CASE DR!NextDay
    <2>1. /\ dataRequests' = dataRequests /\ reader' = reader /\ date' = date + 1 /\ date < LastDate
          /\ Put /\ Turned /\ date \in 0..LastDate /\ LastDate \in Nat
      BY <1>2, Asking DEF DR!NextDay, Asked, Put
    <2>2. Put'
      BY <2>1 DEF Put
    <2>3. Turned'
      BY <2>1, TurnedStays
    <2>. QED  BY <2>2, <2>3 DEF Asked
  <1>3. CASE \E status \in DR!Statuses, sort \in DR!Sorts : DR!Open(status, sort)
    BY <1>3, OpenAsks
  <1>4. CASE DR!TurnPage
    BY <1>4, TurnAsks
  <1>5. CASE DR!Leave
    <2>1. dataRequests' = dataRequests /\ date' = date /\ reader' = DR!NoReader /\ Put
      BY <1>5 DEF DR!Leave, Asked
    <2>2. DR!NoReader \in Askers /\ DR!NoReader.page = 0
      BY DEF DR!NoReader, Askers, DR!Sorts, DR!Statuses
    <2>3. Put'
      BY <2>1, <2>2 DEF Put
    <2>4. Turned'
      BY <2>1, <2>2 DEF Turned
    <2>. QED  BY <2>3, <2>4 DEF Asked
  <1>6. CASE UNCHANGED asked
    <2>1. Turned' /\ Put /\ UNCHANGED <<dataRequests, date, reader>>
      BY <1>6, TurnedStays DEF asked, Asked
    <2>. QED  BY <2>1 DEF Asked, Put
  <1>. QED  BY <1>1, <1>2, <1>3, <1>4, <1>5, <1>6 DEF DR!Next

LEMMA InitAsked == DR!Init => Asked
  <1> SUFFICES ASSUME DR!Init PROVE Asked
    OBVIOUS
  <1>1. PICK open \in [1..Samples -> BOOLEAN], dates \in [1..Samples -> Dates] :
           dataRequests = [i \in 1..Samples |-> [id |-> i, open |-> open[i], day |-> dates[i]]]
    BY DEF DR!Init
  <1>2. Samples \in Nat /\ Samples <= MaxRequests /\ Dates \subseteq 0..LastDate
    BY Asking
  <1>3. \A i \in 1..Samples : [id |-> i, open |-> open[i], day |-> dates[i]] \in DR!DataRequest
    <2>1. \A i \in 1..Samples : i \in 1..MaxRequests /\ open[i] \in BOOLEAN /\ dates[i] \in 0..LastDate
      <3> SUFFICES ASSUME NEW i \in 1..Samples
                   PROVE  i \in 1..MaxRequests /\ open[i] \in BOOLEAN /\ dates[i] \in 0..LastDate
        OBVIOUS
      <3>1. i \in 1..MaxRequests
        BY <1>2, Asking
      <3>2. dates[i] \in Dates /\ open[i] \in BOOLEAN
        OBVIOUS
      <3>. QED  BY <1>2, <3>1, <3>2
    <2>. QED  BY <2>1 DEF DR!DataRequest
  <1>4. dataRequests \in Seq(DR!DataRequest) /\ Len(dataRequests) = Samples /\ DOMAIN dataRequests = 1..Samples
    BY <1>1, <1>2, <1>3
  <1>5. date \in 0..LastDate
    <2>1. PICK i \in Dates : \A j \in Dates : j <= i
      BY LastOf, Asking
    <2>2. DR!Max(Dates) \in Dates
      BY <2>1 DEF DR!Max
    <2>. QED  BY <2>2, <1>2 DEF DR!Init
  <1>6. \A i \in 1..Samples : dataRequests[i].id = i
    BY <1>1
  <1>7. reader \in Askers /\ reader.page = 0
    BY DEF DR!Init, DR!NoReader, Askers, DR!Sorts, DR!Statuses
  <1>. QED  BY <1>2, <1>4, <1>5, <1>6, <1>7 DEF Asked, Put, Turned

-----------------------------------------------------------------------------
LEMMA PagesHold ==
    ASSUME Put, NEW status, NEW sort
    PROVE  UNION {DR!Titles(DR!Items(status, sort, p, RequestsPage)) : p \in 1..DR!TotalPages(DR!Filtered(status), RequestsPage)}
             = DR!Titles(DR!Filtered(status))
  <1>. DEFINE S == DR!Filtered(status)
              final == DR!TotalPages(S, RequestsPage)
  <1>1. IsFiniteSet(S) /\ Cardinality(S) \in Nat
    BY SomeRequests
  <1>2. final \in Nat /\ Cardinality(S) <= final * RequestsPage /\ final * RequestsPage \in Int /\ RequestsPage \in Nat \ {0}
    BY <1>1, PageShown, Asking
  <1>3. \A p \in 1..final : DR!CurrentPage(S, p, RequestsPage) = p
    BY <1>1, <1>2, PageShown
  <1>4. \A p : DR!Titles(DR!Items(status, sort, p, RequestsPage)) \subseteq DR!Titles(S)
    BY DEF DR!Titles, DR!Items
  <1>5. ASSUME NEW i \in S
        PROVE  \E p \in 1..final : i \in DR!Items(status, sort, p, RequestsPage)
    <2>. DEFINE k == DR!Rank(S, sort, i)
                q == (k - 1) \div RequestsPage
    <2>1. k \in 1..Cardinality(S)
      BY <1>1, RankInList
    <2>2. k - 1 \in Nat /\ k \in Nat
      BY <2>1, <1>1
    <2>. HIDE DEF k
    <2>3. q \in Nat /\ q * RequestsPage <= k - 1 /\ k - 1 < q * RequestsPage + RequestsPage
      BY <2>2, <1>2, Quotient
    <2>. HIDE DEF q
    <2>4. q * RequestsPage \in Int
      BY <2>3, <1>2, MulStep
    <2>5. q < final
      <3>1. final <= q => final * RequestsPage <= q * RequestsPage
        BY <1>2, <2>3, MulStep
      <3>2. q * RequestsPage < final * RequestsPage
        BY <1>1, <1>2, <2>1, <2>2, <2>3, <2>4
      <3>. QED  BY <1>2, <2>3, <2>4, <3>1, <3>2
    <2>6. q + 1 \in 1..final /\ (q + 1) - 1 = q
      BY <1>2, <2>3, <2>5
    <2>7. DR!CurrentPage(S, q + 1, RequestsPage) - 1 = q
      BY <1>3, <2>6
    <2>8. q * RequestsPage < k /\ k <= q * RequestsPage + RequestsPage
      BY <2>2, <2>3, <2>4, <1>2
    <2>9. i \in DR!Items(status, sort, q + 1, RequestsPage)
      BY <2>7, <2>8 DEF DR!Items, k
    <2>. QED  BY <2>6, <2>9
  <1>6. DR!Titles(S) \subseteq UNION {DR!Titles(DR!Items(status, sort, p, RequestsPage)) : p \in 1..final}
    <2> SUFFICES ASSUME NEW x \in DR!Titles(S)
                 PROVE  \E p \in 1..final : x \in DR!Titles(DR!Items(status, sort, p, RequestsPage))
      OBVIOUS
    <2>1. PICK i \in S : x = dataRequests[i].id
      BY DEF DR!Titles
    <2>. QED  BY <1>5, <2>1 DEF DR!Titles
  <1>. QED  BY <1>4, <1>6

LEMMA CountedAll ==
    ASSUME Put, NEW status
    PROVE  DR!RequestCount(status) = Cardinality(DR!Filtered(status))
  <1>. DEFINE S == DR!Filtered("all")
  <1>1. /\ IsFiniteSet(S) /\ Cardinality(S) \in Nat /\ Cardinality(S) <= Len(dataRequests)
        /\ Len(dataRequests) \in Nat
    BY SomeRequests
  <1>2. Cardinality(S) <= CountPage /\ CountPage \in Nat \ {0}
    BY <1>1, Asking DEF Put
  <1>3. DR!CurrentPage(S, 1, CountPage) = 1
    BY <1>1, <1>2, PageShown
  <1>4. (1 - 1) * CountPage = 0 /\ 0 + CountPage = CountPage
    BY <1>2
  <1>5. \A i \in S : 0 < DR!Rank(S, "newest", i) /\ DR!Rank(S, "newest", i) <= CountPage
    BY <1>1, <1>2, RankInList
  <1>6. DR!Items("all", "newest", 1, CountPage) = S
    BY <1>3, <1>4, <1>5 DEF DR!Items
  <1>7. S \cap DR!Filtered(status) = DR!Filtered(status)
    BY DEF DR!Filtered
  <1>. QED  BY <1>6, <1>7, RequestsCounted DEF DR!RequestCount

LEMMA TitlesApart ==
    ASSUME Put, NEW status
    PROVE  Cardinality(DR!Titles(DR!Filtered(status))) = Cardinality(DR!Filtered(status))
  <1>. DEFINE S == DR!Filtered(status)
              f == [i \in S |-> dataRequests[i].id]
  <1>1. IsFiniteSet(S) /\ S \subseteq DOMAIN dataRequests
    BY SomeRequests
  <1>2. \A i, j \in S : dataRequests[i].id = dataRequests[j].id => i = j
    BY <1>1 DEF Put
  <1>3. f \in Bijection(S, DR!Titles(S))
    BY <1>2 DEF Bijection, Injection, Surjection, IsInjective, DR!Titles
  <1>. QED  BY <1>1, <1>3, FS_Bijection DEF ExistsBijection

LEMMA AskedAgrees ==
    ASSUME Asked
    PROVE  DR!NoneMissed /\ DR!CountsAgree
  <1>1. Put /\ Turned
    BY DEF Asked
  <1>2. DR!NoneMissed
    <2>1. reader.page \in Nat
      BY <1>1 DEF Put, Askers
    <2>. QED  BY <1>1 DEF Turned, DR!NoneMissed
  <1>3. DR!CountsAgree
    BY <1>1, PagesHold, CountedAll, TitlesApart, RequestsCounted DEF DR!CountsAgree
  <1>. QED  BY <1>2, <1>3

\* THE PAGES ARE TURNED: whoever goes on from the first page of a list until
\* there is no next one has seen every item once, pages tell what they show
\* and link to pages that have items; readers of the data requests miss none
\* that was there when they began, and the counter tells how many there are.
THEOREM PagesAlwaysTurned == MCSpec => []PagesTurned
  <1>. DEFINE all == <<vars, part, pages, changes, followers, tracking, lists, asked>>
              Inv == Reading /\ Asked
  <1>1. MCInit => Inv
    BY InitReading, InitAsked DEF MCInit
  <1>2. ASSUME Inv, [MCNext]_all PROVE Inv'
    <2>1. Reading'
      BY <1>2, ReadingStep DEF MCNext
    <2>2. Asked'
      BY <1>2, AskedStep DEF MCNext
    <2>. QED  BY <2>1, <2>2
  <1>3. Inv => PagesTurned
    BY WalksEnd, PagesTell, LinksTell, AskedAgrees DEF PagesTurned, LP!ListsPaged
  <1>. QED  BY <1>1, <1>2, <1>3, PTL DEF MCSpec


\* No page is opened that is far past the end, and no item shown more often
\* than there are items.
Bounded ==
    /\ address.page <= MaxItems + 1
    /\ \A i \in 1..MaxItems : walk.seen[i] <= MaxItems

LEMMA TurnBounds ==
    ASSUME Reading, Bounded, LP!GoOn
    PROVE  Bounded'
  <1>1. PICK p \in LP!NextPage(list, address) : list # "feed" /\ LP!Turn(LP!PageUrl(p))
    BY DEF LP!GoOn
  <1>2. list \in LP!Kinds /\ address \in Addresses /\ size \in 0..MaxItems /\ walk \in Walks
    BY DEF Reading, Listed
  <1>3. PICK last : last = LP!LastPage(list, address)
    OBVIOUS
  <1>4. LP!Told(list, address) < last /\ p = LP!Told(list, address) + 1
    BY <1>1, <1>3 DEF LP!NextPage
  <1>5. /\ last \in Nat /\ LP!Told(list, address) \in Nat \ {0} /\ address.page \in Nat \ {0}
        /\ MaxItems \in Nat /\ PerPage \in Nat \ {0} /\ size \in Nat /\ size <= MaxItems
    BY <1>2, <1>3, ToldPage, Listing DEF Addresses
  <1>6. p = address.page + 1 /\ p <= last
    BY <1>2, <1>3, <1>4, <1>5, ToldPage
  <1>7. p <= MaxItems
    <2>1. /\ last # 0 /\ (last - 1) * PerPage < LP!Count(list) /\ LP!Count(list) <= size
          /\ (last - 1) * PerPage \in Int /\ LP!Count(list) \in Nat
      BY <1>2, <1>3, <1>4, <1>5, LastPages, Counts
    <2>2. 1 * (last - 1) <= PerPage * (last - 1)
      <3>1. last - 1 \in Nat
        BY <1>5, <2>1
      <3>. QED  BY <1>5, <3>1, MulStep
    <2>3. 1 * (last - 1) = last - 1 /\ PerPage * (last - 1) = (last - 1) * PerPage
      BY <1>5
    <2>. QED  BY <1>5, <1>6, <2>1, <2>2, <2>3
  <1>8. /\ address' = LP!PageUrl(p) /\ size' = size
        /\ walk' = IF walk.on THEN [walk EXCEPT !.seen = LP!Add(@, LP!Items(list, LP!PageUrl(p)))] ELSE walk
    BY <1>1 DEF LP!Turn
  <1>9. address'.page = p
    BY <1>8 DEF LP!PageUrl
  <1>10. ASSUME walk.on, NEW i \in 1..MaxItems PROVE walk'.seen[i] <= MaxItems
    <2>1. walk.seen \in [1..MaxItems -> Nat]
      BY <1>2 DEF Walks
    <2>2. walk'.seen[i] = IF i \in LP!Items(list, LP!PageUrl(p)) THEN walk.seen[i] + 1 ELSE walk.seen[i]
      <3>1. walk'.seen = LP!Add(walk.seen, LP!Items(list, LP!PageUrl(p)))
        BY <1>2, <1>8, <1>10 DEF Walks
      <3>. QED  BY <2>1, <3>1, Added
    <2>3. ASSUME i \in LP!Items(list, LP!PageUrl(p)) PROVE walk.seen[i] = 0
      <3>1. LP!PageUrl(p) \in Addresses /\ LP!PageUrl(p).page = p
        BY <1>5, <1>6 DEF LP!PageUrl, Addresses
      <3>2. p - 1 = address.page
        BY <1>5, <1>6
      <3>3. i \in 1..size /\ (p - 1) * PerPage < i /\ (p - 1) * PerPage \in Int
        BY <1>2, <2>3, <3>1, PageItems
      <3>4. walk.seen[i] = IF i <= address.page * PerPage THEN 1 ELSE 0
        BY <1>1, <1>10, <3>3 DEF Reading, Walked
      <3>. QED  BY <1>5, <3>2, <3>3, <3>4
    <2>. QED  BY <1>5, <2>2, <2>3 DEF Bounded
  <1>11. ASSUME ~walk.on, NEW i \in 1..MaxItems PROVE walk'.seen[i] <= MaxItems
    BY <1>8, <1>11 DEF Bounded
  <1>12. \A i \in 1..MaxItems : walk'.seen[i] <= MaxItems
    BY <1>10, <1>11
  <1>13. address'.page <= MaxItems + 1
    BY <1>5, <1>6, <1>7, <1>9
  <1>. QED  BY <1>12, <1>13 DEF Bounded

LEMMA BoundedStep ==
    ASSUME Reading, Bounded, LP!Next \/ UNCHANGED lists
    PROVE  Bounded'
  <1>. DEFINE once(S) == [i \in 1..MaxItems |-> IF i \in S THEN 1 ELSE 0]
  <1>1. MaxItems \in Nat /\ \A i \in 1..MaxItems : 1 <= MaxItems
    BY Listing
  <1>2. \A i \in 1..MaxItems : LP!Nowhere.seen[i] = 0
    BY DEF LP!Nowhere
  <1>3. ASSUME NEW k \in LP!Kinds, NEW limit \in Limits, LP!Open(k, limit) PROVE Bounded'
    <2>1. address'.page = 1 /\ walk'.seen = LP!Add(LP!Nowhere.seen, LP!Items(k, address'))
      BY <1>3 DEF LP!Open, LP!Start
    <2>2. LP!Nowhere.seen \in [1..MaxItems -> Nat]
      BY DEF LP!Nowhere
    <2>3. \A i \in 1..MaxItems : walk'.seen[i] \in {0, 1}
      BY <1>2, <2>1, <2>2, Added
    <2>. QED  BY <1>1, <2>1, <2>3 DEF Bounded
  <1>4. ASSUME NEW p \in 1..(MaxItems + 1), LP!GoTo(p) PROVE Bounded'
    <2>1. address'.page = p /\ walk' = LP!Nowhere
      BY <1>4 DEF LP!GoTo, LP!PageUrl
    <2>. QED  BY <1>1, <1>2, <2>1 DEF Bounded
  <1>5. CASE LP!GoOn
    BY <1>5, TurnBounds
  <1>6. CASE LP!GoOnFeed
    <2>1. /\ address'.page = 1 /\ \A i \in 1..size : walk.seen[i] < MaxItems
          /\ walk'.seen = LP!Add(walk.seen, LP!Items(list, LP!FeedUrl(address.page + 1)))
      <3>1. walk \in Walks
        BY DEF Reading, Listed
      <3>. QED  BY <1>6, <3>1 DEF LP!GoOnFeed, LP!Turn, LP!FeedUrl, Walks
    <2>2. walk.seen \in [1..MaxItems -> Nat] /\ LP!Items(list, LP!FeedUrl(address.page + 1)) \subseteq 1..size
      BY DEF Reading, Listed, Walks, LP!Items
    <2>3. ASSUME NEW i \in 1..MaxItems PROVE walk'.seen[i] <= MaxItems
      <3>1. walk'.seen[i] = IF i \in LP!Items(list, LP!FeedUrl(address.page + 1))
                            THEN walk.seen[i] + 1 ELSE walk.seen[i]
        BY <2>1, <2>2, Added
      <3>. QED  BY <1>1, <2>1, <2>2, <3>1 DEF Bounded
    <2>. QED  BY <1>1, <2>1, <2>3 DEF Bounded
  <1>7. ASSUME NEW m \in 0..MaxItems, LP!Change(m) PROVE Bounded'
    <2>1. address' = address /\ walk' = LP!Nowhere
      BY <1>7 DEF LP!Change
    <2>. QED  BY <1>1, <1>2, <2>1 DEF Bounded
  <1>8. CASE UNCHANGED lists
    BY <1>8 DEF lists, Bounded
  <1>. QED  BY <1>3, <1>4, <1>5, <1>6, <1>7, <1>8 DEF LP!Next

LEMMA InitBounded == ASSUME LP!Init PROVE Bounded
  BY Listing DEF LP!Init, LP!PageUrl, LP!Nowhere, Bounded

LEMMA ListsTyped == ASSUME Reading, Bounded PROVE LP!TypeOK
  <1>1. /\ list \in LP!Kinds /\ size \in 0..MaxItems /\ address \in Addresses /\ walk \in Walks
        /\ MaxItems \in Nat
    BY Listing DEF Reading, Listed
  <1>2. address \in [page : 1..(MaxItems + 1), limit : Limits \cup {PerPage}]
    BY <1>1 DEF Bounded, Addresses
  <1>3. walk.on \in BOOLEAN /\ \A i \in 1..MaxItems : walk.seen[i] \in 0..MaxItems
    BY <1>1 DEF Bounded, Walks
  <1>. QED  BY <1>1, <1>2, <1>3 DEF LP!TypeOK

LEMMA AskedTyped == ASSUME Asked PROVE DR!TypeOK
  <1>1. Put /\ Turned /\ MaxRequests \in Nat
    BY Asking DEF Asked
  <1>2. reader \in Askers
    BY <1>1 DEF Put
  <1>3. reader.page \in 0..MaxRequests
    BY <1>1, <1>2 DEF Turned, Askers
  <1>. QED  BY <1>1, <1>2, <1>3 DEF Put, Askers, DR!TypeOK

-----------------------------------------------------------------------------
(* The types of all of them.                                               *)

\* Users are not purged, and rows are of objects that are not; a request that
\* finds its object purged inserts none.
Following ==
    /\ RowsOfUsers
    /\ \A u \in Users : state[u] # "gone"
    /\ \A w \in Savers : request[w] # None => request[w][1] # request[w][2]
    /\ \A f \in followed : state[f[2]] # "gone" /\ f[1] # f[2]

LEMMA InitFollowing == ASSUME F!Init PROVE Following
  BY DEF F!Init, Following, RowsOfUsers, F!Objects

LEMMA StepFollowing ==
    ASSUME KindsApart, Following, F!Next
    PROVE  Following'
  <1>0. /\ RowsOfUsers /\ RowsOfUsers'
        /\ followed \subseteq Users \X F!Objects
        /\ state \in [F!Objects -> {"active", "deleted", "gone"}]
        /\ request \in [Savers -> (Users \X F!Objects) \cup {None}]
        /\ Users \subseteq F!Objects
    BY FollowingKept DEF Following, RowsOfUsers, F!Objects
  <1>1. ASSUME NEW w \in Savers, NEW u \in Users, NEW o \in F!Objects,
               F!follow_user(w, u, o) \/ F!follow_dataset(w, u, o) \/ F!follow_group(w, u, o)
        PROVE  Following'
    <2>1. request' = [request EXCEPT ![w] = <<u, o>>] /\ UNCHANGED <<state, followed>>
      BY <1>1 DEF F!follow_user, F!follow_dataset, F!follow_group, F!Follow
    <2>2. u # o
      BY <1>1 DEF F!follow_user, F!follow_dataset, F!follow_group, F!Follow, KindsApart,
                  F!UserFollowingDataset, F!UserFollowingGroup
    <2>. QED  BY <1>0, <2>1, <2>2 DEF Following
  <1>2. ASSUME NEW w \in Savers, F!follower_dict_save(w) PROVE Following'
    <2>1. /\ request[w] # None
          /\ followed' = IF state[request[w][2]] = "gone" THEN followed
                         ELSE followed \cup {request[w]}
          /\ request' = [request EXCEPT ![w] = None] /\ UNCHANGED state
      BY <1>2 DEF F!follower_dict_save
    <2>2. \A x \in Savers : request'[x] # None => request'[x][1] # request'[x][2]
      BY <1>0, <2>1 DEF Following
    <2>3. ASSUME NEW f \in followed' PROVE state[f[2]] # "gone" /\ f[1] # f[2]
      BY <2>1 DEF Following
    <2>. QED  BY <1>0, <2>1, <2>2, <2>3 DEF Following
  <1>3. ASSUME NEW u \in Users, NEW o \in F!Objects,
               F!unfollow_user(u, o) \/ F!unfollow_dataset(u, o) \/ F!unfollow_group(u, o)
        PROVE  Following'
    <2>1. followed' = followed \ {<<u, o>>} /\ UNCHANGED <<state, request>>
      BY <1>3 DEF F!unfollow_user, F!unfollow_dataset, F!unfollow_group, F!_unfollow
    <2>. QED  BY <1>0, <2>1 DEF Following
  <1>4. ASSUME NEW o \in F!Objects, NEW s \in {"active", "deleted"}, F!SetState(o, s)
        PROVE  Following'
    <2>1. state' = [state EXCEPT ![o] = s] /\ UNCHANGED <<followed, request>>
      BY <1>4 DEF F!SetState
    <2>2. \A x \in F!Objects : state[x] # "gone" => state'[x] # "gone"
      BY <1>0, <2>1
    <2>. QED  BY <1>0, <2>1, <2>2 DEF Following
  <1>5. ASSUME NEW o \in F!Objects, F!Purge(o) PROVE Following'
    <2>1. /\ o \notin Users /\ state' = [state EXCEPT ![o] = "gone"]
          /\ followed' = {f \in followed : f[2] # o} /\ UNCHANGED request
      BY <1>5 DEF F!Purge
    <2>2. \A x \in F!Objects : x # o => state'[x] = state[x]
      BY <1>0, <2>1
    <2>3. \A u \in Users : state'[u] # "gone"
      BY <1>0, <2>1, <2>2 DEF Following
    <2>4. ASSUME NEW f \in followed' PROVE state'[f[2]] # "gone" /\ f[1] # f[2]
      <3>1. f \in followed /\ f[2] # o /\ f[2] \in F!Objects
        BY <1>0, <2>1
      <3>. QED  BY <2>2, <3>1 DEF Following
    <2>. QED  BY <1>0, <2>1, <2>3, <2>4 DEF Following
  <1>. QED  BY <1>1, <1>2, <1>3, <1>4, <1>5 DEF F!Next

LEMMA FollowersTyped == ASSUME Following PROVE F!TypeOK
  <1>1. \A f \in followed : "gone" \notin {state[f[1]], state[f[2]]} /\ f[1] # f[2]
    <2>. SUFFICES ASSUME NEW f \in followed
                  PROVE  state[f[1]] # "gone" /\ state[f[2]] # "gone" /\ f[1] # f[2]
      OBVIOUS
    <2>1. f[1] \in Users
      BY DEF Following, RowsOfUsers
    <2>. QED  BY <2>1 DEF Following
  <1>. QED  BY <1>1 DEF Following, RowsOfUsers, F!TypeOK

\* A page is a record, of a stream that has so many activities at most.
Leaves ==
    /\ Leafed
    /\ n \in 0..MaxActivities
    /\ page = [after |-> page.after, before |-> page.before, shown |-> page.shown,
               more |-> page.more, of |-> page.of]

LEMMA PageIsRecord ==
    ASSUME NEW a, NEW b
    PROVE  LET p == P!Page(a, b) IN
           p = [after |-> p.after, before |-> p.before, shown |-> p.shown,
                more |-> p.more, of |-> p.of]
  BY DEF P!Page

LEMMA StepLeaves == ASSUME PageLimits, Leaves, P!Next PROVE Leaves'
  <1>1. Leafed'
    BY PageTurns DEF Leaves
  <1>2. CASE P!Grow
    BY <1>1, <1>2 DEF P!Grow, Leaves, PageLimits
  <1>3. CASE P!First \/ P!Older \/ P!Newer
    <2>1. n' = n /\ \E a, b : page' = P!Page(a, b)
      BY <1>3 DEF P!First, P!Older, P!Newer
    <2>2. PICK a, b : page' = P!Page(a, b)
      BY <2>1
    <2>3. PICK p : p = P!Page(a, b)
      OBVIOUS
    <2>4. p = [after |-> p.after, before |-> p.before, shown |-> p.shown,
               more |-> p.more, of |-> p.of]
      BY <2>3, PageIsRecord
    <2>. QED  BY <1>1, <2>1, <2>2, <2>3, <2>4 DEF Leaves
  <1>. QED  BY <1>2, <1>3 DEF P!Next

LEMMA InitLeaves == ASSUME PageLimits, P!Init PROVE Leaves
  <1>1. Leafed /\ n \in 0..MaxActivities
    BY InitLeafed DEF P!Init
  <1>2. PICK p : p = P!Page(None, None)
    OBVIOUS
  <1>3. p = [after |-> p.after, before |-> p.before, shown |-> p.shown,
             more |-> p.more, of |-> p.of]
    BY <1>2, PageIsRecord
  <1>4. page = p
    BY <1>2 DEF P!Init
  <1>. QED  BY <1>1, <1>3, <1>4 DEF Leaves

LEMMA TruthValue ==
    ASSUME NEW i \in Int, NEW k \in Int, NEW x, x = (i > k)
    PROVE  x \in BOOLEAN
  OBVIOUS

LEMMA PagesTyped == ASSUME PageLimits, Leaves PROVE P!TypeOK
  <1>1. /\ n \in Nat /\ page.of \in 0..n /\ BaseLimit \in Nat
        /\ FirstPage(page) \/ OlderPage(page) \/ NewerPage(page)
    BY DEF Leaves, Leafed, PageLimits
  <1>2. /\ page.after \in Nat \cup {None} /\ page.before \in Nat \cup {None}
        /\ page.more \in BOOLEAN
    <2>1. page.after \in Nat \cup {None} /\ page.before \in Nat \cup {None}
      BY <1>1 DEF FirstPage, OlderPage, NewerPage
    <2>2. CASE FirstPage(page)
      <3>1. page.of \in Int /\ BaseLimit \in Int /\ page.more = (page.of > BaseLimit)
        BY <1>1, <2>2 DEF FirstPage
      <3>. QED  BY <2>1, <3>1, TruthValue
    <2>3. CASE OlderPage(page)
      <3>1. /\ page.before - 1 \in Int /\ BaseLimit \in Int
            /\ page.more = (page.before - 1 > BaseLimit)
        BY <1>1, <2>3 DEF OlderPage
      <3>. QED  BY <2>1, <3>1, TruthValue
    <2>4. CASE NewerPage(page)
      <3>1. /\ page.of - page.after \in Int /\ BaseLimit \in Int
            /\ page.more = (page.of - page.after > BaseLimit)
        BY <1>1, <2>4 DEF NewerPage
      <3>. QED  BY <2>1, <3>1, TruthValue
    <2>. QED  BY <1>1, <2>1, <2>2, <2>3, <2>4
  <1>3. page.shown \in SUBSET (1..n)
    <2>1. CASE FirstPage(page)
      BY <1>1, <2>1 DEF FirstPage, Larger
    <2>2. CASE OlderPage(page)
      BY <1>1, <2>2 DEF OlderPage, Larger
    <2>3. CASE NewerPage(page)
      BY <1>1, <2>3 DEF NewerPage, Smaller
    <2>. QED  BY <1>1, <2>1, <2>2, <2>3
  <1>4. PICK a, b, s, m, o : page = [after |-> a, before |-> b, shown |-> s, more |-> m, of |-> o]
                             /\ a = page.after /\ b = page.before /\ s = page.shown
                             /\ m = page.more /\ o = page.of
    BY DEF Leaves
  <1>5. page \in [after : Nat \cup {None}, before : Nat \cup {None},
                  shown : SUBSET (1..n), more : BOOLEAN, of : 0..n]
    BY <1>1, <1>2, <1>3, <1>4
  <1>. QED  BY <1>5 DEF P!TypeOK, Leaves

\* TYPE CORRECTNESS of all that is reported: activities have times that have
\* been, pages times that the stream has, rows of the follower tables have
\* both their ends, and summary rows have days that have come.
THEOREM TypesAlwaysRight ==
    ASSUME PageLimits, KindsApart
    PROVE  MCSpec => []TypesOK
  <1>. DEFINE all == <<vars, part, pages, changes, followers, tracking, lists, asked>>
              Inv == /\ Mails /\ Leaves /\ Following /\ Tracked /\ Reading /\ Bounded /\ Asked
                     /\ old \in Versions1 /\ new \in Versions1
                     /\ part \in {"streams", "racing", "pages", "changes", "followers", "tracking",
                                 "lists", "data requests"}
  <1>1. MCInit => Inv
    <2>1. MCInit => Mails /\ Leaves /\ Following /\ Tracked
      BY InitMails, InitLeaves, InitFollowing, InitTracked DEF MCInit
    <2>2. MCInit => Reading /\ Bounded /\ Asked
      BY InitReading, InitBounded, InitAsked DEF MCInit
    <2>. QED  BY <2>1, <2>2 DEF MCInit, C!Init
  <1>2. ASSUME Inv, [MCNext]_all PROVE Inv'
    <2>1. Mails'
      BY <1>2, NextRaces, StepMails, StuttersMail DEF MCNext
    <2>2. Leaves'
      <3>1. ASSUME UNCHANGED pages PROVE Leaves'
        BY <1>2, <3>1 DEF pages, Leaves, Leafed, OlderPage, FirstPage, NewerPage
      <3>. QED  BY <1>2, <3>1, StepLeaves DEF MCNext
    <2>3. Following'
      <3>1. ASSUME UNCHANGED followers PROVE Following'
        BY <1>2, <3>1 DEF followers, Following, RowsOfUsers
      <3>. QED  BY <1>2, <3>1, StepFollowing DEF MCNext
    <2>4. Tracked'
      <3>1. ASSUME UNCHANGED tracking PROVE Tracked'
        BY <1>2, <3>1, TrackedStutters DEF tracking
      <3>. QED  BY <1>2, <3>1, StepTracked DEF MCNext
    <2>5. old' \in Versions1 /\ new' \in Versions1
      BY <1>2 DEF MCNext, C!Next, C!Save, changes
    <2>6. part' = part
      BY <1>2 DEF MCNext
    <2>7. Reading' /\ Bounded'
      BY <1>2, ReadingStep, BoundedStep DEF MCNext
    <2>8. Asked'
      BY <1>2, AskedStep DEF MCNext
    <2>. QED  BY <1>2, <2>1, <2>2, <2>3, <2>4, <2>5, <2>6, <2>7, <2>8
  <1>3. Inv => TypesOK
    <2>1. Inv => TypeOK /\ P!TypeOK /\ C!TypeOK /\ F!TypeOK /\ T!TypeOK
      BY PagesTyped, FollowersTyped DEF Mails, Typed, C!TypeOK, Tracked, Rowed
    <2>2. Inv => LP!TypeOK /\ DR!TypeOK
      BY ListsTyped, AskedTyped
    <2>. HIDE DEF Inv
    <2>3. Inv => part \in {"streams", "racing", "pages", "changes", "followers", "tracking",
                           "lists", "data requests"}
      BY DEF Inv
    <2>. QED  BY <2>1, <2>2, <2>3 DEF TypesOK
  <1>. QED  BY <1>1, <1>2, <1>3, PTL DEF MCSpec
=============================================================================
