----------------------------- MODULE Visibility -----------------------------
(***************************************************************************)
(* Who may see and change what: organizations and their hierarchy, roles,  *)
(* dataset collaborators and the permission labels of datasets.            *)
(*                                                                         *)
(* The same question is answered in two ways.  To change something the     *)
(* code looks up the hierarchy, from the organization to those above it;   *)
(* to list and to search it looks down, from the organizations in which    *)
(* the user has a role.  A dataset is shown and found by labels, and the   *)
(* search index holds the labels of the time when it was indexed.          *)
(***************************************************************************)
EXTENDS Naturals, FiniteSets

CONSTANTS
    Users,         \* registered users who are not sysadmins
    Outsiders,     \* users who have no role at first, and whom nobody knows
    Orgs,
    Datasets,
    Roles,         \* bound: the roles that are given
    States,        \* bound: the states that datasets are given
    Cascading,     \* ckan.auth.roles_that_cascade_to_sub_groups
    MaxParents,    \* bound: how many parents an organization is given
    Deletable,     \* bound: the users that a sysadmin may delete
    CreateUnowned, \* ckan.auth.create_unowned_dataset
    MaxRecurses,   \* MAX_RECURSES of the two queries of the hierarchy
    None

AllRoles == {"admin", "editor", "member"}

VARIABLES
    org,       \* org[o]: the state of organization o
    parents,   \* the active rows <<child, parent>> of the hierarchy
    role,      \* role[o][u]: the capacity of the active row of u in o
    pkg,       \* pkg[d]: the row of dataset d
    collab,    \* collab[d][u]: the capacity of u as a collaborator
    label,     \* label[d]: the permission labels in the search index
    alive,     \* users that are not deleted
    invited,   \* outsiders whom somebody let in
    exposed    \* datasets that somebody made accessible to outsiders

vars == <<org, parents, role, pkg, collab, label, alive, invited, exposed>>

Packages == [state : {"active", "draft", "deleted"}, private : BOOLEAN,
             owner : Orgs \cup {None}, creator : Users]
Labels == ({"collaborator"} \X Datasets) \cup ({"member"} \X Orgs)
            \cup ({"creator"} \X Users) \cup {<<"public", None>>}

TypeOK ==
    /\ org \in [Orgs -> {"none", "active", "deleted"}]
    /\ parents \subseteq Orgs \X Orgs
    /\ role \in [Orgs -> [Users -> AllRoles \cup {None}]]
    /\ pkg \in [Datasets -> Packages \cup {None}]
    /\ collab \in [Datasets -> [Users -> AllRoles \cup {None}]]
    /\ label \in [Datasets -> SUBSET Labels]
    /\ alive \subseteq Users
    /\ invited \subseteq Outsiders
    /\ exposed \subseteq Datasets
    /\ \A o \in Orgs : org[o] = "none" =>
         /\ \A u \in Users : role[o][u] = None
         /\ \A r \in parents : o \notin {r[1], r[2]}

Init ==
    /\ org = [o \in Orgs |-> "none"]
    /\ parents = {}
    /\ role = [o \in Orgs |-> [u \in Users |-> None]]
    /\ pkg = [d \in Datasets |-> None]
    /\ collab = [d \in Datasets |-> [u \in Users |-> None]]
    /\ label = [d \in Datasets |-> {}]
    /\ alive = Users
    /\ invited = {}
    /\ exposed = {}

-----------------------------------------------------------------------------
(* Permissions. *)

\* ROLE_PERMISSIONS; a role with the permission "admin" has every other.
Permits(r, permission) ==
    \/ r = "admin"
    \/ r = "editor" /\ permission \in {"read", "delete_dataset", "create_dataset",
                                       "update_dataset", "manage_group"}
    \/ r = "member" /\ permission \in {"read", "manage_group"}

\* _has_user_permission_for_groups
Holds(u, permission, G, R) ==
    \E g \in G : role[g][u] \in R /\ Permits(role[g][u], permission)

\* A path of at most MaxRecurses + 1 steps of rel from o to p: the recursive
\* queries start with one step, and recurse MAX_RECURSES times.
Reaches(o, p, rel) ==
    \E n \in 1..MaxRecurses + 1 : \E path \in [0..n -> Orgs] :
        /\ path[0] = o /\ path[n] = p
        /\ \A i \in 1..n : <<path[i - 1], path[i]>> \in rel

\* Whether g is in get_parent_group_hierarchy of o,
Above(g, o) == org[g] = "active" /\ Reaches(o, g, parents)

\* and whether o is in get_children_group_hierarchy of g.
Below(o, g) ==
    LET children == {<<r[2], r[1]>> : r \in parents} IN
    org[o] = "active" /\ Reaches(g, o, children)

\* Mutant of HasPermission: only the organizations one level above count.
HasPermissionNear(o, u, permission) ==
    /\ org[o] # "none"
    /\ \/ Holds(u, permission, {o}, AllRoles)
       \/ Holds(u, permission,
                {p \in Orgs : <<o, p>> \in parents /\ org[p] = "active"}, Cascading)

\* has_user_permission_for_group_or_org: of whatever state o is.
HasPermission(o, u, permission) ==
    /\ org[o] # "none"
    /\ \/ Holds(u, permission, {o}, AllRoles)
       \/ \E g \in Orgs : Holds(u, permission, {g}, Cascading) /\ Above(g, o)

\* has_user_permission_for_some_org
HasPermissionSomewhere(u, permission) ==
    Holds(u, permission, {o \in Orgs : org[o] = "active"}, AllRoles)

\* organization_list_for_user, and whether o is in it.
Lists(u, permission, o) ==
    /\ org[o] = "active"
    /\ \/ Holds(u, permission, {o}, AllRoles)
       \/ \E g \in Orgs : Holds(u, permission, {g}, Cascading) /\ Below(o, g)
OrgsFor(u, permission) == {o \in Orgs : Lists(u, permission, o)}

IsCollaborator(u, d, R) == collab[d][u] \in R

\* get_dataset_labels
LabelsOf(d, p) ==
    IF p.state = "active" /\ ~p.private THEN {<<"public", None>>}
    ELSE {<<"collaborator", d>>,
          IF p.owner # None THEN <<"member", p.owner>> ELSE <<"creator", p.creator>>}

\* get_user_dataset_labels
UserLabels(u) ==
    {<<"public", None>>, <<"creator", u>>}
    \cup ({"member"} \X OrgsFor(u, "read"))
    \cup ({"collaborator"} \X {d \in Datasets : collab[d][u] # None})

\* The authorization of package_show and of package_search.
CanShow(u, d) == u \in alive /\ pkg[d] # None /\ LabelsOf(d, pkg[d]) \cap UserLabels(u) # {}
CanFind(u, d) == u \in alive /\ pkg[d] # None /\ label[d] \cap UserLabels(u) # {}

MayCreate(u) == CreateUnowned \/ HasPermissionSomewhere(u, "create_dataset")

\* The authorization of package_update, and of package_delete.
CanUpdate(u, d) ==
    /\ u \in alive
    /\ pkg[d] # None
    /\ \/ /\ pkg[d].owner # None
          /\ HasPermission(pkg[d].owner, u, "update_dataset")
       \/ pkg[d].owner = None /\ MayCreate(u)
       \/ IsCollaborator(u, d, {"admin", "editor"})

\* can_manage_collaborators
ManagesCollaborators(u, d) ==
    /\ u \in alive
    /\ pkg[d] # None
    /\ \/ pkg[d].owner = None /\ CreateUnowned /\ pkg[d].creator = u
       \/ pkg[d].owner # None /\ HasPermission(pkg[d].owner, u, "membership")
       \/ IsCollaborator(u, d, {"admin"})

Administers(u, o, permission) == u \in alive /\ HasPermission(o, u, permission)

-----------------------------------------------------------------------------
(* Organizations. *)

Unknown == Outsiders \ invited

\* The creator becomes the first admin.
OrgCreate(u, o) ==
    /\ u \in alive
    /\ org[o] = "none"
    /\ org' = [org EXCEPT ![o] = "active"]
    /\ role' = [role EXCEPT ![o][u] = "admin"]
    /\ UNCHANGED <<parents, pkg, collab, label, alive, invited, exposed>>

\* organization_update: group_member_save makes the rows of the parents those
\* that are listed.
OrgUpdate(u, o) ==
    /\ Administers(u, o, "update")
    /\ \E P \in SUBSET {p \in Orgs : org[p] = "active"} :
         /\ Cardinality(P) <= MaxParents
         /\ parents' = {r \in parents : r[1] # o} \cup ({o} \X P)
    /\ parents' # parents
    /\ invited' = IF u \in Unknown THEN invited
                  ELSE invited \cup {v \in Outsiders : \E g \in Orgs : role[g][v] # None}
    /\ UNCHANGED <<org, role, pkg, collab, label, alive, exposed>>

\* Mutant of OrgDelete: the datasets are not indexed again.
OrgDeleteUnindexed(u, o) ==
    LET Owned == {d \in Datasets :
                    pkg[d] # None /\ pkg[d].owner = o /\ pkg[d].state # "deleted"} IN
    /\ Administers(u, o, "delete")
    /\ org[o] = "active"
    /\ Owned = {} \/ CreateUnowned
    /\ org' = [org EXCEPT ![o] = "deleted"]
    /\ parents' = {r \in parents : o \notin {r[1], r[2]}}
    /\ role' = [role EXCEPT ![o] = [v \in Users |-> None]]
    /\ pkg' = [d \in Datasets |-> IF d \in Owned THEN [pkg[d] EXCEPT !.owner = None]
                                                 ELSE pkg[d]]
    /\ exposed' = exposed \cup Owned
    /\ UNCHANGED <<collab, label, alive, invited>>

\* organization_delete, by id: its datasets have no owner then, but those that
\* are deleted; its rows of every kind are deleted, which indexes the datasets.
OrgDelete(u, o) ==
    LET Owned == {d \in Datasets :
                    pkg[d] # None /\ pkg[d].owner = o /\ pkg[d].state # "deleted"}
        rows == [d \in Datasets |-> IF d \in Owned THEN [pkg[d] EXCEPT !.owner = None]
                                                   ELSE pkg[d]]
    IN
    /\ Administers(u, o, "delete")
    /\ org[o] = "active"
    /\ Owned = {} \/ CreateUnowned
    /\ org' = [org EXCEPT ![o] = "deleted"]
    /\ parents' = {r \in parents : o \notin {r[1], r[2]}}
    /\ role' = [role EXCEPT ![o] = [v \in Users |-> None]]
    /\ pkg' = rows
    /\ label' = [d \in Datasets |-> IF d \in Owned THEN LabelsOf(d, rows[d]) ELSE label[d]]
    /\ exposed' = exposed \cup Owned
    /\ UNCHANGED <<collab, alive, invited>>

\* A sysadmin sets the state of a deleted organization to active: its rows
\* stay deleted.
OrgRestore(o) ==
    /\ org[o] = "deleted"
    /\ org' = [org EXCEPT ![o] = "active"]
    /\ UNCHANGED <<parents, role, pkg, collab, label, alive, invited, exposed>>

\* organization_member_create; admins cannot demote themselves.
MemberCreate(u, o, v) ==
    /\ Administers(u, o, "membership")
    /\ \E r \in Roles :
         /\ (u = v /\ role[o][v] = "admin") => r = "admin"
         /\ role' = [role EXCEPT ![o][v] = r]
    /\ invited' = IF u \in Unknown THEN invited ELSE invited \cup ({v} \cap Outsiders)
    /\ UNCHANGED <<org, parents, pkg, collab, label, alive, exposed>>

\* organization_member_delete
MemberDelete(u, o, v) ==
    /\ Administers(u, o, "update")
    /\ role[o][v] # None
    /\ role' = [role EXCEPT ![o][v] = None]
    /\ UNCHANGED <<org, parents, pkg, collab, label, alive, invited, exposed>>

\* user_delete, by a sysadmin: every row of the user is deleted.
UserDelete(v) ==
    /\ v \in alive
    /\ alive' = alive \ {v}
    /\ role' = [o \in Orgs |-> [role[o] EXCEPT ![v] = None]]
    /\ collab' = [d \in Datasets |-> [collab[d] EXCEPT ![v] = None]]
    /\ UNCHANGED <<org, parents, pkg, label, invited, exposed>>

\* user_patch, by a sysadmin: the rows stay deleted.
UserRestore(v) ==
    /\ v \notin alive
    /\ alive' = alive \cup {v}
    /\ UNCHANGED <<org, parents, role, pkg, collab, label, invited, exposed>>

-----------------------------------------------------------------------------
(* Datasets. *)

\* A dataset is written and indexed; it is exposed by whoever gives it to an
\* organization whose members include outsiders, or to none.
Put(u, d, p) ==
    /\ p.private => p.owner # None
    /\ pkg' = [pkg EXCEPT ![d] = p]
    /\ label' = [label EXCEPT ![d] = LabelsOf(d, p)]
    /\ exposed' = IF \/ u \in Unknown
                     \/ /\ p.owner # None
                        /\ ~\E v \in Unknown : Lists(v, "read", p.owner)
                        /\ ~\E v \in Unknown : HasPermission(p.owner, v, "read")
                  THEN exposed ELSE exposed \cup {d}
    /\ UNCHANGED <<org, parents, role, collab, alive, invited>>

\* owner_org_validator, when the owner is o.
OwnerAllowed(u, d, o) ==
    IF o = None THEN CreateUnowned
    ELSE /\ org[o] # "none"
         /\ pkg[d] = None => HasPermission(o, u, "create_dataset")
         /\ pkg[d] # None /\ pkg[d].owner # o =>
              /\ HasPermission(o, u, "create_dataset")
              /\ IsCollaborator(u, d, {"admin", "editor"}) =>
                   pkg[d].owner # None /\ Lists(u, "update_dataset", pkg[d].owner)

DatasetCreate(u, d) ==
    /\ u \in alive
    /\ pkg[d] = None
    /\ MayCreate(u)
    /\ \E p \in [state : States \ {"deleted"}, private : BOOLEAN,
                  owner : Orgs \cup {None}, creator : {u}] :
         OwnerAllowed(u, d, p.owner) /\ Put(u, d, p)

\* What may be written over dataset d.
Versions(d) == [state : States, private : BOOLEAN,
                owner : Orgs \cup {None}, creator : {pkg[d].creator}] \ {pkg[d]}

\* Mutant of DatasetUpdate: whoever may create datasets may update this one.
DatasetUpdateAny(u, d) ==
    /\ pkg[d] # None
    /\ CanUpdate(u, d) \/ (u \in alive /\ MayCreate(u))
    /\ \E p \in Versions(d) : OwnerAllowed(u, d, p.owner) /\ Put(u, d, p)

\* package_update, and package_delete, which sets the state.
DatasetUpdate(u, d) ==
    /\ CanUpdate(u, d)
    /\ \E p \in Versions(d) : OwnerAllowed(u, d, p.owner) /\ Put(u, d, p)

\* package_owner_org_update, by a sysadmin.
OwnerOrgUpdate(d, o) ==
    /\ pkg[d] # None
    /\ o # pkg[d].owner /\ (o # None => org[o] # "none")
    /\ pkg' = [pkg EXCEPT ![d].owner = o]
    /\ label' = [label EXCEPT ![d] = LabelsOf(d, [pkg[d] EXCEPT !.owner = o])]
    /\ exposed' = exposed \cup {d}
    /\ UNCHANGED <<org, parents, role, collab, alive, invited>>

\* bulk_update_private, bulk_update_public and bulk_update_delete
BulkUpdate(u, o, d) ==
    /\ pkg[d] # None /\ pkg[d].owner = o
    /\ Administers(u, o, "update")
    /\ \E p \in {[pkg[d] EXCEPT !.private = TRUE], [pkg[d] EXCEPT !.private = FALSE],
                 [pkg[d] EXCEPT !.state = "deleted"]} \ {pkg[d]} :
         /\ pkg' = [pkg EXCEPT ![d] = p]
         /\ label' = [label EXCEPT ![d] = LabelsOf(d, p)]
    /\ UNCHANGED <<org, parents, role, collab, alive, invited, exposed>>

\* package_collaborator_create and package_collaborator_delete
Collaborate(u, d, v) ==
    /\ ManagesCollaborators(u, d)
    /\ \E r \in (Roles \cup {None}) \ {collab[d][v]} :
         /\ collab' = [collab EXCEPT ![d][v] = r]
         /\ invited' = IF u \in Unknown \/ r = None THEN invited
                       ELSE invited \cup ({v} \cap Outsiders)
    /\ UNCHANGED <<org, parents, role, pkg, label, alive, exposed>>

Next ==
    \/ \E u \in Users, o \in Orgs :
         \/ OrgCreate(u, o)
         \/ OrgDelete(u, o)
         \/ OrgUpdate(u, o)
         \/ \E v \in Users : MemberCreate(u, o, v) \/ MemberDelete(u, o, v)
         \/ \E d \in Datasets : BulkUpdate(u, o, d)
    \/ \E u \in Users, d \in Datasets :
         \/ DatasetCreate(u, d)
         \/ DatasetUpdate(u, d)
         \/ \E v \in Users : Collaborate(u, d, v)
    \/ \E o \in Orgs : OrgRestore(o)
    \/ \E v \in Deletable : UserDelete(v) \/ UserRestore(v)
    \/ \E d \in Datasets, o \in Orgs \cup {None} : OwnerOrgUpdate(d, o)

Spec == Init /\ [][Next]_vars

-----------------------------------------------------------------------------
(* Properties. *)

Permissions == {"read", "create_dataset", "update_dataset", "membership"}

\* Looking down the hierarchy from where a user has a role finds the same
\* active organizations as looking up from each of them.
HierarchyAgrees ==
    \A u \in Users, permission \in Permissions :
        OrgsFor(u, permission) =
          {o \in Orgs : org[o] = "active" /\ HasPermission(o, u, permission)}

\* A deleted organization gives nobody any permission, and takes part in no
\* hierarchy.
DeletedGrantsNothing ==
    \A o \in Orgs : org[o] = "deleted" =>
        /\ \A u \in Users, permission \in Permissions : ~HasPermission(o, u, permission)
        /\ \A r \in parents : o \notin {r[1], r[2]}

\* A search finds the datasets that the user may be shown, and no others.
SearchAgrees == \A u \in Users, d \in Datasets : CanFind(u, d) <=> CanShow(u, d)

\* Whoever may change a dataset that has an active owner may be shown it.
EditorsRead ==
    \A u \in Users, d \in Datasets :
        (CanUpdate(u, d) /\ pkg[d].owner # None /\ org[pkg[d].owner] = "active")
            => CanShow(u, d)

\* Searching, showing and changing agree.
ReadersAgree == SearchAgrees /\ EditorsRead

\* No sequence of their own requests lets outsiders, whom nobody let in, see a
\* private dataset that somebody else created and nobody gave away.
NoIntrusion ==
    \A u \in Unknown, d \in Datasets \ exposed :
        (pkg[d] # None /\ pkg[d].creator \notin Outsiders
           /\ (pkg[d].private \/ pkg[d].state # "active")) => ~CanShow(u, d)
=============================================================================
