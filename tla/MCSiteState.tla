---------------------------- MODULE MCSiteState ----------------------------
(***************************************************************************)
(* What a site keeps, for TLC and for proofs: a table of the DataStore,    *)
(* options that are set while the site runs, forms, roles, tags, and what  *)
(* is patched.  They share no state: the one that part names runs, and the *)
(* others stay in an initial state.                                        *)
(***************************************************************************)
EXTENDS SiteConfig, Sequences

CONSTANTS
    Workers, Null,
    Keys, Numbers, Batches, PaginateBy, RowsMax, DumpLimits, MaxRows, MaxRequests,
    Tabs, Contents, Resources, Nothing,
    p1, Users, FirstAdmins, RoleNames, MaxRoles, MaxEdits, Nobody,
    Datasets, TagNames, Vocabularies, Labels, Free, MayRename, MaxTags,
    RaceNames,  \* bound: names of the tags that requests race for
    Text, New, Taken, Empty, Missing, Org1, Org2,
    MaxChanged  \* bound: columns of a row that patches have changed

VARIABLES
    part,
    table, unique, rows, serial, storeJob, dump, requests, \* the table
    pkg, used, tab, formJob,                               \* forms
    roles, sysadmins, member, roleJob, edits,              \* roles
    label, tag, link, deleted, index, tagJob,              \* tags
    kind, who, stored, shown, field, refused               \* patches

store == <<table, unique, rows, serial, storeJob, dump, requests>>
forms == <<pkg, used, tab, formJob>>
given == <<roles, sysadmins, member, roleJob, edits>>
tags == <<label, tag, link, deleted, index, tagJob>>
patches == <<kind, who, stored, shown, field, refused>>

-----------------------------------------------------------------------------
One == CHOOSE w \in Workers : TRUE

\* One request for the table after another, beside a download; or a race
\* without one.
S == INSTANCE DataStore WITH
        Values <- Numbers, Methods <- {"insert", "update", "upsert"},
        Alone <- {"delete"}, Limits <- DumpLimits, job <- storeJob
R == INSTANCE DataStore WITH
        Values <- Numbers, Methods <- {"insert", "update", "upsert"},
        Alone <- {}, Limits <- DumpLimits, job <- storeJob

OneByOne == S!Next /\ \A w \in Workers \ {One} : UNCHANGED storeJob[w]

\* Forms of a site that asks for resources, and of one that does not.
F == INSTANCE WebForms WITH
        RequiresResources <- TRUE, MaxRunning <- 1, job <- formJob
Q == INSTANCE WebForms WITH
        RequiresResources <- FALSE, MaxRunning <- 1, job <- formJob

G == INSTANCE PortalRoles WITH
        Processes <- {p1}, Names <- RoleNames, job <- roleJob

\* Requests for tags one after another, or a race.
T == INSTANCE Tags WITH Names <- TagNames, job <- tagJob

TagsOneByOne == T!Next /\ \A w \in Workers \ {One} : UNCHANGED tagJob[w]

TagsRace ==
    /\ T!Next
    /\ \A i \in T!Ids : tag'[i].name \in RaceNames \cup {T!None}
    /\ \A w \in Workers : \A t \in tagJob'[w].tags : t.name \in RaceNames

P == INSTANCE Patches WITH UnownedAllowed <- FALSE, errors <- refused

\* What Run is good for.
ASSUME FourAtMost ==
    \A k \in P!Kinds : \A f \in P!Columns[k] :
        Len(P!ShowSchema[k][f]) <= 4 /\ Len(P!UpdateSchema[k][f]) <= 4

-----------------------------------------------------------------------------
StateInit == Init /\ S!Init /\ F!Init /\ G!Init /\ T!Init /\ P!Init

StateNext ==
    /\ UNCHANGED part
    /\ \/ part = "store" /\ OneByOne /\ UNCHANGED <<vars, forms, given, tags, patches>>
       \/ part = "store race" /\ R!Next /\ UNCHANGED dump.pc
          /\ UNCHANGED <<vars, forms, given, tags, patches>>
       \/ part = "options" /\ Next /\ UNCHANGED <<store, forms, given, tags, patches>>
       \/ part = "forms" /\ F!Next /\ UNCHANGED <<vars, store, given, tags, patches>>
       \/ part = "forms quick" /\ Q!Next /\ UNCHANGED <<vars, store, given, tags, patches>>
       \/ part = "roles" /\ G!Next /\ UNCHANGED <<vars, store, forms, tags, patches>>
       \/ part = "tags" /\ TagsOneByOne /\ UNCHANGED <<vars, store, forms, given, patches>>
       \/ part = "tags race" /\ TagsRace /\ UNCHANGED <<vars, store, forms, given, patches>>
       \/ part = "patches" /\ P!Next /\ UNCHANGED <<vars, store, forms, given, tags>>

StateSpec == StateInit /\ [][StateNext]_<<part, vars, store, forms, given, tags, patches>>

-----------------------------------------------------------------------------
\* A download gives every row that was there all the time, whatever is added
\* meanwhile, none twice and all in order (DataStore).
DumpWhole == part = "store" => S!DumpMissesNone /\ S!DumpInOrder

\* What was written is there when the transaction has committed, of an upsert
\* too if no other request races it (DataStore).
RecordsLand ==
    [][\A w \in Workers : S!Commits(w) /\ (part = "store" \/ storeJob[w].method # "upsert") => S!Landed(w)]_store

\* Forms change what they show, of the dataset as it was shown, and publish
\* it with the resources that are required (WebForms).
FormsKept == [][IF part = "forms quick" THEN Q!Kept ELSE F!Kept]_forms

\* A user gets the role that he is given in an organization (PortalRoles).
RoleUpdated == G!RoleUpdated

\* A dataset has the tags that it was saved with, and is found by them (Tags).
TagsKept ==
    /\ [][T!SavesTags]_<<part, tags>>
    /\ [](part \in {"tags", "tags race"} => T!IndexTagsCurrent)
    /\ [](part = "tags" => T!TagFindsAll)

\* A patch of one field changes or is refused for that field only, and no
\* private dataset loses its organization (Patches).
PatchesOne == [][part = "patches" => P!OnlyField /\ P!PrivateOwned']_patches
=============================================================================
