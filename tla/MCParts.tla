------------------------------ MODULE MCParts ------------------------------
(***************************************************************************)
(* The rows that a dataset shares with others, for TLC: the members of     *)
(* organizations, and the list of its resources.  They share no state: one *)
(* of them runs in each behaviour, racing or one request after another,    *)
(* and the other stays in its initial state.                               *)
(***************************************************************************)
EXTENDS Membership

CONSTANTS
    Resources, Nobody,
    MaxVersion,        \* bound: how many files are uploaded
    FewRows, Raced     \* bounds of the races

VARIABLES
    part,
    list, file, table, lock, job, version, omitted, cut, claimed

resources == <<list, file, table, lock, job, version, omitted, cut, claimed>>

One == CHOOSE w \in Workers : TRUE
Org1 == CHOOSE o \in Orgs : TRUE
Res1 == CHOOSE r \in Resources : TRUE

-----------------------------------------------------------------------------
(* Members.  The race is about one organization. *)

MR == INSTANCE Membership WITH
        AllowUnowned <- FALSE, ByName <- TRUE, MayStop <- TRUE,
        MaxRequests <- MaxRequests - 2

OneByOne == Next /\ \A w \in Workers \ {One} : UNCHANGED request[w]

MembersRace ==
    /\ MR!Next
    /\ \A o \in Orgs \ {Org1} : \A w \in Workers : request'[w].org # o
    /\ \A i \in Rows : i > FewRows => UNCHANGED member[i]

-----------------------------------------------------------------------------
(* Resources.  The race is about few of them; package_update, which does    *)
(* not take the lock first, and the DataStore run alone in it.  Requests    *)
(* that come one after another upload no files; their clients say           *)
(* otherwise than a flag, and give changed resources to package_update, of  *)
(* one resource only (they are alike).  Those of a race leave the flags as  *)
(* they are.  Requests die at that resource only.                           *)

R == INSTANCE Resources WITH
        Alone <- {"package", "datastore"}, rows <- list

ResourcesOneByOne ==
    /\ R!Next
    /\ \A w \in Workers \ {One} : UNCHANGED job[w]
    /\ UNCHANGED version
    /\ R!Claims(job'[One]) \cup job'[One].changed \subseteq {Res1}

ResourcesRace ==
    /\ R!Next
    /\ \A w \in Workers : job'[w].id \in Raced \cup {Nobody} /\ R!Claims(job'[w]) = {}

-----------------------------------------------------------------------------
MCInit ==
    /\ part \in {"members", "members race", "resources", "resources race"}
    /\ Init
    /\ R!Init

MCNext ==
    /\ UNCHANGED part
    /\ \/ part = "members" /\ OneByOne /\ UNCHANGED resources
       \/ part = "members race" /\ MembersRace /\ UNCHANGED resources
       \/ part = "resources" /\ ResourcesOneByOne /\ UNCHANGED vars
       \/ part = "resources race" /\ ResourcesRace /\ UNCHANGED vars
    /\ cut' \subseteq {Res1}

MCSpec == MCInit /\ [][MCNext]_<<vars, part, resources>>

-----------------------------------------------------------------------------
(* What Membership promises when requests are served one after another and *)
(* name their objects by id.                                               *)

\* A user or dataset is joined to an organization by at most one active row,
\* an active row for a dataset names its owner, and an organization has had
\* somebody to administer it.  A user that was removed from an organization
\* has no rights left in it; an organization is deleted without datasets, and
\* with its rows.
MembersRight ==
    /\ [](part = "members" => OneMembership /\ MemberIsOwner /\ Administered)
    /\ [][part = "members" => RemovesAll /\ DeletesEmpty /\ DeletesRows]_vars

-----------------------------------------------------------------------------
(* What Resources promises. *)

\* A resource leaves the list only by a request that means it.
ResourceNotLost == [][R!LeavesOnPurpose]_<<part, resources>>

\* The active resources are numbered without a gap, and the stored file is
\* the one that the row describes.  When requests are served one after
\* another, a resource that is shown says that it has a table if and only if
\* it has one, unless a client said otherwise and the DataStore has not set
\* its flag since, and the table goes with resource_delete.
ResourcesRight ==
    /\ R!TypeOK /\ R!Numbered /\ R!FileDescribed
    /\ part = "resources" => R!FlagTellsTable /\ R!DeletedDropped
=============================================================================
