------------------------------ MODULE MCAccess ------------------------------
(***************************************************************************)
(* Who is who and who may do what, for TLC: accounts, the hierarchy of the *)
(* organizations, the datasets of two of them, and the authorization       *)
(* functions, side by side.  One of them runs in each behaviour; the       *)
(* others stay in an initial state.                                        *)
(***************************************************************************)
EXTENDS Accounts, TLC

CONSTANTS u1, u2, o1, o2, o3, o4, d1, NoOrg, Sysadmin, Anon, Org1, Group1

VARIABLES
    part,
    org, parents, role, pkg, collab, label, alive, invited, exposed,
    option, users, roles, package, collaborator, by   \* permissions

permissions == <<option, users, roles, package, collaborator, by>>
visibility == <<org, parents, role, pkg, collab, label, alive, invited, exposed>>

\* Visibility, and what is proved of it: four organizations and a user who has
\* several roles.
H == INSTANCE Visibility_proofs WITH
        Users <- {u1}, Outsiders <- {}, Orgs <- {o1, o2, o3, o4}, Datasets <- {},
        Roles <- {"admin", "member"}, States <- {}, Cascading <- {"admin"}, MaxParents <- 1,
        Deletable <- {u1}, CreateUnowned <- TRUE, MaxRecurses <- 1, None <- NoOrg

\* A private dataset, an insider and an outsider, and two organizations.
D == INSTANCE Visibility_proofs WITH
        Users <- {u1, u2}, Outsiders <- {u2}, Orgs <- {o1, o2}, Datasets <- {d1},
        Roles <- {"admin"}, States <- {"active", "deleted"}, Cascading <- {"admin"}, MaxParents <- 1,
        Deletable <- {}, CreateUnowned <- TRUE, MaxRecurses <- 1, None <- NoOrg

\* Every option that opens something, but that only the sysadmin deletes groups
\* and that there are no admins among the collaborators.
P == INSTANCE Permissions_proofs WITH
        Users <- {u1, u2}, Org <- Org1, Group <- Group1, None <- NoOrg,
        Given <- [x \in {Org1, Group1} |-> IF x = Org1 THEN {"admin", "editor"} ELSE {"member"}],
        Capacity <- {"editor"}, Creators <- {u1},
        OptionSets <- {{"create_dataset_if_not_in_organization", "create_unowned_dataset",
                        "anon_create_dataset", "allow_dataset_collaborators",
                        "user_delete_organizations", "allow_collaborators_to_change_owner_org"}},
        alive <- users, role <- roles, pkg <- package, collab <- collaborator

\* Processes are alike, and so are two of the organizations.
Symmetry == Permutations(Workers) \cup Permutations({o1, o2})

MCInit ==
    /\ part \in {"accounts", "hierarchy", "datasets", "permissions"}
    /\ Init
    /\ P!Init
    /\ IF part = "datasets" THEN D!Init ELSE H!Init

MCNext ==
    /\ UNCHANGED part
    /\ \/ part = "accounts" /\ Next /\ UNCHANGED <<visibility, permissions>>
       \/ part = "hierarchy" /\ H!Next /\ UNCHANGED <<vars, permissions>>
       \/ part = "datasets" /\ D!Next /\ UNCHANGED <<vars, permissions>>
       \/ part = "permissions" /\ P!Next /\ UNCHANGED <<vars, visibility>>

MCSpec == MCInit /\ [][MCNext]_<<vars, part, visibility, permissions>>

\* The types of the state of the part that runs.
TypesOK ==
    CASE part = "accounts" -> TypeOK
      [] part = "hierarchy" -> H!TypeOK
      [] part = "datasets" -> D!TypeOK
      [] part = "permissions" -> P!TypeOK

\* Looking down the hierarchy from where a user has a role finds the same
\* organizations as looking up from each of them, and none that is deleted
\* (Visibility).
HierarchyAgrees ==
    /\ part = "hierarchy" => H!HierarchyAgrees /\ H!DeletedGrantsNothing
    /\ part = "datasets" => D!HierarchyAgrees /\ D!DeletedGrantsNothing

\* A search finds the datasets that the user may be shown, and whoever may
\* change one may be shown it (Visibility).
ReadersAgree == part = "datasets" => D!ReadersAgree

\* Outsiders do not let themselves in (Visibility).
NoIntrusion == part = "datasets" => D!NoIntrusion

\* Nobody gives what he does not have, a group has what its own members put
\* there, whoever may change a dataset may read it by every way there is, and
\* the account of another is open to its reset key only (Permissions).
GivesHisOwn ==
    /\ [][part = "permissions" => P!GivesOnlyHis /\ P!GroupedByMembers]_permissions
    /\ [](part = "permissions" => P!WaysAgree)
=============================================================================
