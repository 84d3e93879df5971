------------------------------ MODULE WebForms ------------------------------
(***************************************************************************)
(* The forms of a dataset and its resources in browser tabs.  A dataset is *)
(* made in two stages: the first form makes a draft, the second adds       *)
(* resources and publishes it.  The same views serve both: which form a    *)
(* page has is decided when it is rendered, and what a posted form does    *)
(* when it arrives, when the dataset may have changed.  Publishing is a    *)
(* request of several transactions that writes back what it has read.      *)
(***************************************************************************)
EXTENDS Naturals, FiniteSets

CONSTANTS
    Tabs,
    Contents,           \* what the fields of a dataset may be
    Resources,          \* bound: resources that are ever made
    RequiresResources,  \* ckan.dataset.create_on_ui_requires_resources
    MaxRunning,         \* posted forms that are served at the same time
    Nothing

VARIABLES
    pkg,     \* the dataset: its state, its fields and its resources
    used,    \* resources that were ever made
    tab,     \* tab[t]: the page that is shown
    job      \* job[t]: what is left to do of the form that t has posted

vars == <<pkg, used, tab, job>>

Package == [state : {"none", "draft", "active", "deleted"},
            fields : Contents \cup {Nothing}, res : SUBSET Resources]
Page == [form : {"blank", "wizard", "edit", "resource", "resource edit"},
         seen : {"none", "draft", "active", "deleted"},
         res : Resources \cup {Nothing}]

Blank == [form |-> "blank", seen |-> "none", res |-> Nothing]
Idle == [pc |-> "idle", copy |-> Nothing]

TypeOK ==
    /\ pkg \in Package
    /\ used \subseteq Resources /\ pkg.res \subseteq used
    /\ tab \in [Tabs -> Page]
    /\ \A t \in Tabs : /\ job[t].pc \in {"idle", "show", "publish"}
                       /\ job[t].copy \in Package \cup {Nothing}
                       /\ job[t].pc = "publish" <=> job[t].copy # Nothing

Init ==
    /\ pkg = [state |-> "none", fields |-> Nothing, res |-> {}]
    /\ used = {}
    /\ tab = [t \in Tabs |-> Blank]
    /\ job = [t \in Tabs |-> Idle]

-----------------------------------------------------------------------------
(* Pages. *)

Show(t, form, res) ==
    /\ job[t] = Idle
    /\ tab' = [tab EXCEPT ![t] = [form |-> form, seen |-> pkg.state, res |-> res]]
    /\ UNCHANGED <<pkg, used, job>>

\* The form of a new dataset.
NewPage(t) ==
    /\ job[t] = Idle
    /\ tab' = [tab EXCEPT ![t] = [Blank EXCEPT !.form = "wizard"]]
    /\ UNCHANGED <<pkg, used, job>>

Exists == pkg.state # "none"

\* A draft gets the form of the first stage, with its name.
EditPage(t) ==
    /\ Exists
    /\ Show(t, IF pkg.state = "draft" THEN "wizard" ELSE "edit", Nothing)

ResourcePage(t) == Exists /\ Show(t, "resource", Nothing)

\* A resource of a draft is edited with the form of the second stage.
ResourceEditPage(t) ==
    \E r \in pkg.res :
        Show(t, IF pkg.state = "draft" THEN "resource" ELSE "resource edit", r)

-----------------------------------------------------------------------------
(* Posted forms. *)

Post(t) ==
    /\ tab[t] # Blank
    /\ job[t] = Idle
    /\ Cardinality({u \in Tabs : job[u] # Idle}) < MaxRunning

Done(t) ==
    /\ tab' = [tab EXCEPT ![t] = Blank]
    /\ job' = [job EXCEPT ![t] = Idle]

\* The tab stays until the rest is done.
Continue(t, next) ==
    /\ job' = [job EXCEPT ![t] = next]
    /\ UNCHANGED tab

\* The first stage, new: a draft; it is published at once, in another
\* transaction, if no resource is required.  A name that is taken fails.
PostNew(t) ==
    /\ Post(t)
    /\ tab[t].form = "wizard" /\ tab[t].seen = "none"
    /\ ~Exists
    /\ \E c \in Contents : pkg' = [state |-> "draft", fields |-> c, res |-> {}]
    /\ UNCHANGED used
    /\ IF RequiresResources THEN Done(t)
                            ELSE Continue(t, [pc |-> "publish", copy |-> pkg'])

\* The first stage again: package_update, as a draft.
PostAgain(t) ==
    /\ Post(t)
    /\ tab[t].form = "wizard" /\ tab[t].seen # "none"
    /\ \E c \in Contents : pkg' = [pkg EXCEPT !.state = "draft", !.fields = c]
    /\ UNCHANGED used
    /\ Done(t)

\* The form of a dataset that is no draft does not have its state.
PostEdit(t) ==
    /\ Post(t)
    /\ tab[t].form = "edit"
    /\ \E c \in Contents : pkg' = [pkg EXCEPT !.fields = c]
    /\ UNCHANGED used
    /\ Done(t)

Buttons(t) == IF tab[t].seen = "draft" THEN {"go-dataset", "again", "go-metadata"}
                                       ELSE {"again", "go-dataset-complete"}

\* Mutant of PostEmpty: the resources are not looked at.
PostEmptyUnchecked(t) ==
    /\ Post(t)
    /\ tab[t].form = "resource"
    /\ \E save \in Buttons(t) \ {"go-dataset-complete"} :
         IF save = "go-dataset" THEN Done(t) ELSE Continue(t, [Idle EXCEPT !.pc = "show"])
    /\ UNCHANGED <<pkg, used>>

\* The form of a resource, without data: a way back, or what is left is to
\* publish, whichever other button it was, if there is any resource.
PostEmpty(t) ==
    /\ Post(t)
    /\ tab[t].form = "resource"
    /\ \E save \in Buttons(t) \ {"go-dataset-complete"} :
         IF save = "go-dataset" \/ pkg.res = {}
         THEN Done(t)
         ELSE Continue(t, [Idle EXCEPT !.pc = "show"])
    /\ UNCHANGED <<pkg, used>>

\* With data: the resource is made, or updated if it is still there.
PostResource(t) ==
    /\ Post(t)
    /\ tab[t].form \in {"resource", "resource edit"}
    /\ IF tab[t].res = Nothing
       THEN \E r \in Resources \ used : /\ pkg' = [pkg EXCEPT !.res = @ \cup {r}]
                                        /\ used' = used \cup {r}
       ELSE UNCHANGED <<pkg, used>>
    /\ \E save \in Buttons(t) :
         IF /\ save = "go-metadata" /\ tab[t].form = "resource"
            /\ tab[t].res \in pkg.res \cup {Nothing}
         THEN Continue(t, [Idle EXCEPT !.pc = "show"])
         ELSE Done(t)

\* package_show
ReadBack(t) ==
    /\ job[t].pc = "show"
    /\ Continue(t, [pc |-> "publish", copy |-> pkg])
    /\ UNCHANGED <<pkg, used>>

\* package_update with what was shown, made active ("XXX race condition if
\* another user edits/deletes").
Publish(t) ==
    /\ job[t].pc = "publish"
    /\ pkg' = [job[t].copy EXCEPT !.state = "active"]
    /\ UNCHANGED used
    /\ Done(t)

\* A process that serves a form may die between its transactions.
Die(t) ==
    /\ job[t] # Idle
    /\ UNCHANGED <<pkg, used>>
    /\ Done(t)

Quiet == Cardinality({u \in Tabs : job[u] # Idle}) < MaxRunning

DeleteResource ==
    /\ Quiet
    /\ \E r \in pkg.res : pkg' = [pkg EXCEPT !.res = @ \ {r}]
    /\ UNCHANGED <<used, tab, job>>

DeleteDataset ==
    /\ Quiet
    /\ Exists
    /\ pkg' = [pkg EXCEPT !.state = "deleted"]
    /\ UNCHANGED <<used, tab, job>>

Next ==
    \/ \E t \in Tabs :
         \/ NewPage(t) \/ EditPage(t) \/ ResourcePage(t) \/ ResourceEditPage(t)
         \/ PostNew(t) \/ PostAgain(t) \/ PostEdit(t) \/ PostEmpty(t) \/ PostResource(t)
         \/ ReadBack(t) \/ Publish(t) \/ Die(t)
    \/ DeleteResource
    \/ DeleteDataset

Spec == Init /\ [][Next]_vars

-----------------------------------------------------------------------------
\* A dataset that was published or deleted becomes a draft again only by a
\* form that was rendered while it was one (EditView.get).
BackByOldForm ==
    pkg'.state = "draft" /\ pkg.state \notin {"none", "draft"} =>
        \E t \in Tabs : tab[t].form = "wizard" /\ tab[t].seen = "draft" /\ tab'[t] = Blank

\* A dataset is published with a resource, if one is required ("You must add
\* at least one data resource").
PublishedWithResource ==
    pkg.state # "active" /\ pkg'.state = "active" /\ RequiresResources => pkg'.res # {}

\* The fields of a dataset change only by a form of the dataset.
FieldsByForm ==
    pkg'.fields # pkg.fields =>
        \E t \in Tabs : /\ tab[t].form \in {"wizard", "edit"}
                        /\ job[t] = Idle
                        /\ tab'[t] # tab[t] \/ job'[t] # job[t]

Kept == BackByOldForm /\ PublishedWithResource /\ FieldsByForm
=============================================================================
