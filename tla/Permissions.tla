---------------------------- MODULE Permissions ----------------------------
(***************************************************************************)
(* The authorization functions, for one dataset, one organization and one  *)
(* group: what each lets a visitor, a user and a sysadmin do, under the    *)
(* options of ckan.auth, and the requests that change what others may do.  *)
(*                                                                         *)
(* Every authorization function is an operator of its own name.  Most end  *)
(* in a question about another: is_authorized answers for sysadmins and    *)
(* deleted users at each of these turns.                                   *)
(***************************************************************************)
EXTENDS Naturals, FiniteSets

CONSTANTS
    Users,       \* registered users who are not sysadmins
    Sysadmin,
    Anon,        \* a visitor who is not logged in
    Org, Group,
    Given,       \* bound: the roles that are given in the organization and the group
    Capacity,    \* bound: the capacities of collaborators that are given
    Creators,    \* bound: who creates a dataset
    OptionSets,  \* bound: the sets of options of ckan.auth that are switched on
    None

Askers == Users \cup {Sysadmin, Anon}
Roles == {"admin", "editor", "member"}

VARIABLES
    option,  \* the options of ckan.auth that are true
    alive,   \* users who are not deleted
    role,    \* role[x][u]: the active row of user u in the organization or group
    pkg,     \* the row of the dataset
    collab,  \* collab[u]: the capacity of u as a collaborator of the dataset
    by       \* who made the last request

vars == <<option, alive, role, pkg, collab, by>>

Packages == [state : {"active", "deleted"}, private : BOOLEAN,
             owner : {Org, None}, creator : Users \cup {Anon}, groups : SUBSET {Group}]

TypeOK ==
    /\ option \in OptionSets
    /\ alive \subseteq Users
    /\ role \in [{Org, Group} -> [Users -> Roles \cup {None}]]
    /\ pkg \in Packages \cup {None}
    /\ collab \in [Users -> Roles \cup {None}]
    /\ by \in Askers
    /\ \A u \in Users \ alive : role[Org][u] = None /\ role[Group][u] = None

-----------------------------------------------------------------------------
(* What roles and options permit. *)

\* ROLE_PERMISSIONS; "admin" stands for every permission.
Permits(r, permission) ==
    \/ r = "admin"
    \/ r = "editor" /\ permission \in {"read", "delete_dataset", "create_dataset",
                                       "update_dataset", "manage_group"}
    \/ r = "member" /\ permission \in {"read", "manage_group"}

Config(permission) == permission \in option

\* has_user_permission_for_group_or_org
Has(u, x, permission) ==
    \/ u = Sysadmin
    \/ u \in Users /\ role[x][u] # None /\ Permits(role[x][u], permission)

\* has_user_permission_for_some_org
HasSomewhere(u, permission) == Has(u, Org, permission)

Collaborates(u, R) == u \in Users /\ collab[u] \in R

\* can_manage_collaborators
ManagesCollaborators(u) ==
    \/ /\ pkg.owner = None /\ pkg.creator = u
       /\ Config("create_dataset_if_not_in_organization") /\ Config("create_unowned_dataset")
    \/ pkg.owner # None /\ Has(u, pkg.owner, "membership")
    \/ Collaborates(u, {"admin"})

\* get_collaborator_capacities
Capacities == {"editor", "member"} \cup
              (IF Config("allow_admin_collaborators") THEN {"admin"} ELSE {})

\* is_authorized, of a function that says rule, and that anonymous visitors
\* may call or not.
Allowed(u, anonymous, rule) ==
    /\ u \in Users => u \in alive
    /\ \/ u = Sysadmin
       \/ (anonymous \/ u # Anon) /\ rule

-----------------------------------------------------------------------------
(* Datasets and their resources. *)

\* Who may create datasets that belong to nobody.
CreatesUnowned(u) ==
    LET open == /\ Config("create_dataset_if_not_in_organization")
                /\ Config("create_unowned_dataset") IN
    IF u = Anon THEN open /\ Config("anon_create_dataset")
    ELSE open \/ HasSomewhere(u, "create_dataset")

\* _check_group_auth: the groups that the dataset is not in yet.
ManagesGroups(u, groups) == \A x \in groups : Has(u, x, "manage_group")

package_create(u, owner, groups) ==
    Allowed(u, TRUE, /\ CreatesUnowned(u)
                     /\ ManagesGroups(u, groups)
                     /\ owner # None => Has(u, owner, "create_dataset"))

\* A collaborator whom the organization does not let in is not asked about
\* the groups.
package_update(u, groups) ==
    Allowed(u, TRUE,
      LET owned == IF pkg.owner # None THEN Has(u, pkg.owner, "update_dataset")
                   ELSE CreatesUnowned(u) IN
      \/ owned /\ ManagesGroups(u, groups \ pkg.groups)
      \/ /\ ~owned /\ Config("allow_dataset_collaborators")
         /\ Collaborates(u, {"admin", "editor"}))

package_patch(u) == Allowed(u, FALSE, package_update(u, {}))
package_revise(u) == Allowed(u, FALSE, package_update(u, {}))
package_change_state(u) == Allowed(u, FALSE, package_update(u, {}))
package_delete(u) == Allowed(u, FALSE, package_update(u, {}))
resource_create(u) == Allowed(u, FALSE, package_update(u, {}))
resource_update(u) == Allowed(u, FALSE, package_update(u, {}))
resource_patch(u) == Allowed(u, FALSE, resource_update(u))
resource_delete(u) == Allowed(u, FALSE, package_delete(u))

\* The views of a resource.
resource_view_create(u) == Allowed(u, FALSE, resource_create(u))
resource_view_update(u) == Allowed(u, FALSE, resource_update(u))
resource_view_delete(u) == Allowed(u, FALSE, resource_delete(u))

\* Relationships of the dataset with itself stand for those with others.
package_relationship_create(u) == Allowed(u, FALSE, package_update(u, {}))
package_relationship_delete(u) == Allowed(u, FALSE, package_relationship_create(u))

\* DefaultPermissionLabels: the labels of the dataset and of the user meet.
package_show(u) ==
    Allowed(u, TRUE,
      \/ pkg.state = "active" /\ ~pkg.private
      \/ Config("allow_dataset_collaborators") /\ Collaborates(u, Roles)
      \/ pkg.owner # None /\ Has(u, pkg.owner, "read")
      \/ pkg.owner = None /\ u # Anon /\ pkg.creator = u)

resource_show(u) == Allowed(u, TRUE, package_show(u))
resource_view_show(u) == Allowed(u, TRUE, resource_show(u))
package_relationships_list(u) == Allowed(u, TRUE, package_show(u))

package_collaborator_create(u) == Allowed(u, FALSE, ManagesCollaborators(u))
package_collaborator_delete(u) == Allowed(u, FALSE, ManagesCollaborators(u))
package_collaborator_list(u) == Allowed(u, TRUE, u # Anon /\ ManagesCollaborators(u))

\* Functions that refuse everybody whom is_authorized asks them about.
SysadminOnly(u) == Allowed(u, FALSE, FALSE)
dataset_purge(u) == SysadminOnly(u)
package_owner_org_update(u) == SysadminOnly(u)

-----------------------------------------------------------------------------
(* Organizations and groups. *)

group_create(u) == Allowed(u, FALSE, Config("user_create_groups"))
group_update(u, x) == Allowed(u, FALSE, Has(u, x, "update"))
group_patch(u, x) == Allowed(u, FALSE, group_update(u, x))
group_delete(u, x) ==
    Allowed(u, FALSE,
            /\ Config(IF x = Org THEN "user_delete_organizations" ELSE "user_delete_groups")
            /\ Has(u, x, "delete"))
bulk_update_private(u) == Allowed(u, FALSE, Has(u, Org, "update"))

group_member_create(u, x) == Allowed(u, FALSE, Has(u, x, "membership"))
user_invite(u, x) == Allowed(u, FALSE, group_member_create(u, x))

\* Mutant of member_create: who manages a group adds what he likes.
member_createAny(u, x, table) == Allowed(u, FALSE, Has(u, x, "manage_group"))

\* member_create: of a group, but not of an organization, its members add and
\* remove the datasets.
member_create(u, x, table) ==
    Allowed(u, FALSE,
            Has(u, x, IF x = Group /\ table = "package" THEN "manage_group" ELSE "update"))

member_delete(u, x, table) == Allowed(u, FALSE, member_create(u, x, table))

\* group_show, with the users of the group or without.
group_show(u, x, users) ==
    Allowed(u, TRUE, ~users \/ Config("public_user_details") \/ Has(u, x, "read"))

-----------------------------------------------------------------------------
(* Accounts and their tokens. *)

user_show(u) == Allowed(u, TRUE, Config("public_user_details") \/ u # Anon)
user_list(u, email) == Allowed(u, TRUE, ~email /\ (Config("public_user_details") \/ u # Anon))

\* Anybody who sends the reset key of an account, key, may update it.
user_update(u, v, key) == Allowed(u, TRUE, key \/ u = v)

user_delete(u) == SysadminOnly(u)
api_token_create(u, v) == Allowed(u, FALSE, u = v)
api_token_revoke(u, v) == Allowed(u, FALSE, u = v)
api_token_list(u, v) == Allowed(u, TRUE, u # Anon /\ u = v)
followee_list(u, v) == Allowed(u, TRUE, u # Anon /\ u = v)

\* The lists and the terms of a site, and what is counted in it, are for all.
package_list(u) == Allowed(u, TRUE, TRUE)
follower_count(u) == Allowed(u, TRUE, TRUE)
tag_autocomplete(u) == Allowed(u, TRUE, TRUE)
user_autocomplete(u) == Allowed(u, TRUE, user_list(u, FALSE))

\* Who follows what, the options and the jobs of a site are for its sysadmins.
follower_list(u) == SysadminOnly(u)
config_option_show(u) == SysadminOnly(u)
config_option_update(u) == SysadminOnly(u)
job_clear(u) == SysadminOnly(u)
vocabulary_create(u) == SysadminOnly(u)
task_status_update(u) == SysadminOnly(u)

-----------------------------------------------------------------------------
(* Requests. *)

Init ==
    /\ option \in OptionSets
    /\ alive = Users
    /\ role = [x \in {Org, Group} |-> [u \in Users |-> None]]
    /\ pkg = None
    /\ collab = [u \in Users |-> None]
    /\ by = Sysadmin

\* member_create of a user, which organization_member_create and
\* group_member_create end in after they have asked for "membership"; an admin
\* may not revoke what he is himself.
AddUser(u, x, v, r) ==
    /\ member_create(u, x, "user")
    /\ v \in alive
    /\ role[x][v] # r
    /\ u = v => role[x][v] # "admin"
    /\ role' = [role EXCEPT ![x][v] = r]
    /\ by' = u
    /\ UNCHANGED <<option, alive, pkg, collab>>

\* group_member_delete and organization_member_delete: the authorization is
\* that of member_delete.
DropUser(u, x, v) ==
    /\ member_delete(u, x, "user")
    /\ role[x][v] # None
    /\ role' = [role EXCEPT ![x][v] = None]
    /\ by' = u
    /\ UNCHANGED <<option, alive, pkg, collab>>

\* member_create and member_delete of the dataset in the group.
JoinDataset(u, in) ==
    /\ pkg # None
    /\ IF in THEN member_create(u, Group, "package") ELSE member_delete(u, Group, "package")
    /\ in # (Group \in pkg.groups)
    /\ pkg' = [pkg EXCEPT !.groups = IF in THEN {Group} ELSE {}]
    /\ by' = u
    /\ UNCHANGED <<option, alive, role, collab>>

\* owner_org_validator, of a new owner: collaborators may not move the dataset
\* unless the organization lets them.
MayOwn(u, owner) ==
    IF owner = None THEN Config("create_unowned_dataset")
    ELSE /\ Has(u, owner, "create_dataset")
         /\ (/\ pkg # None
             /\ Config("allow_dataset_collaborators")
             /\ ~Config("allow_collaborators_to_change_owner_org")
             /\ Collaborates(u, {"admin", "editor"}))
               => pkg.owner # None /\ Has(u, pkg.owner, "update_dataset")

\* package_membership_list_save: rows are added and removed for the groups
\* that the user may read.
Membership(u, old, new) ==
    {x \in {Group} : IF Has(u, x, "read") THEN x \in new ELSE x \in old}

Create(u, owner, private, groups) ==
    /\ pkg = None
    /\ package_create(u, owner, groups)
    /\ private => owner # None
    /\ MayOwn(u, owner)
    /\ pkg' = [state |-> "active", private |-> private, owner |-> owner,
               creator |-> u,
               groups |-> Membership(u, {}, groups)]
    /\ by' = u
    /\ UNCHANGED <<option, alive, role, collab>>

\* package_update, of data in which the dataset is active.
Update(u, owner, private, groups) ==
    /\ pkg # None
    /\ package_update(u, groups)
    /\ private => owner # None
    /\ owner # pkg.owner => MayOwn(u, owner)
    /\ pkg' = [pkg EXCEPT !.state = "active", !.owner = owner, !.private = private,
                          !.groups = Membership(u, pkg.groups, groups)]
    /\ pkg' # pkg
    /\ by' = u
    /\ UNCHANGED <<option, alive, role, collab>>

\* bulk_update_private and bulk_update_public
Bulk(u, private) ==
    /\ pkg # None /\ pkg.owner = Org
    /\ pkg.private # private
    /\ bulk_update_private(u)
    /\ pkg' = [pkg EXCEPT !.private = private]
    /\ by' = u
    /\ UNCHANGED <<option, alive, role, collab>>

Delete(u) ==
    /\ pkg # None /\ pkg.state # "deleted"
    /\ package_delete(u)
    /\ pkg' = [pkg EXCEPT !.state = "deleted"]
    /\ by' = u
    /\ UNCHANGED <<option, alive, role, collab>>

Purge(u) ==
    /\ pkg # None
    /\ dataset_purge(u)
    /\ pkg' = None
    /\ collab' = [v \in Users |-> None]
    /\ by' = u
    /\ UNCHANGED <<option, alive, role>>

\* package_collaborator_create
Collaborate(u, v, capacity) ==
    /\ pkg # None
    /\ package_collaborator_create(u)
    /\ Config("allow_dataset_collaborators")
    /\ v \in alive
    /\ capacity \in Capacities \ {collab[v]}
    /\ collab' = [collab EXCEPT ![v] = capacity]
    /\ by' = u
    /\ UNCHANGED <<option, alive, role, pkg>>

\* package_collaborator_delete
Uncollaborate(u, v) ==
    /\ pkg # None
    /\ package_collaborator_delete(u)
    /\ Config("allow_dataset_collaborators")
    /\ collab[v] # None
    /\ collab' = [collab EXCEPT ![v] = None]
    /\ by' = u
    /\ UNCHANGED <<option, alive, role, pkg>>

UserDelete(u, v) ==
    /\ user_delete(u)
    /\ v \in alive
    /\ alive' = alive \ {v}
    /\ role' = [x \in {Org, Group} |-> [role[x] EXCEPT ![v] = None]]
    /\ collab' = [collab EXCEPT ![v] = None]
    /\ by' = u
    /\ UNCHANGED <<option, pkg>>

Next ==
    \E u \in Askers :
       \/ \E v \in Users, x \in {Org, Group} :
            \/ \E r \in Given[x] : AddUser(u, x, v, r)
            \/ DropUser(u, x, v)
       \/ \E in \in BOOLEAN : JoinDataset(u, in)
       \/ \E owner \in {Org, None}, private \in BOOLEAN, groups \in SUBSET {Group} :
            \/ u \in Creators /\ Create(u, owner, private, groups)
            \/ Update(u, owner, private, groups)
       \/ \E private \in BOOLEAN : Bulk(u, private)
       \/ Delete(u) \/ Purge(u)
       \/ \E v \in Users :
            \/ \E capacity \in Capacity : Collaborate(u, v, capacity)
            \/ Uncollaborate(u, v)
            \/ UserDelete(u, v)

Spec == Init /\ [][Next]_vars

-----------------------------------------------------------------------------
(* Properties. *)

\* What u may do to the organization or group x.
GroupPowers(u, x) ==
    {a \in {"update", "patch", "delete", "invite", "join", "drop", "bulk", "users"} :
       CASE a = "update" -> group_update(u, x)
         [] a = "patch" -> group_patch(u, x)
         [] a = "delete" -> group_delete(u, x)
         [] a = "invite" -> user_invite(u, x)
         [] a = "join" -> member_create(u, x, "user")
         [] a = "drop" -> member_delete(u, x, "user")
         [] a = "bulk" -> bulk_update_private(u)
         [] a = "users" -> group_show(u, x, TRUE)}

\* What u may do to the dataset.
DatasetPowers(u) ==
    IF pkg = None THEN {} ELSE
    {a \in {"update", "patch", "resource", "views", "relate", "show", "collaborators"} :
       CASE a = "update" -> package_update(u, {})
         [] a = "patch" -> package_patch(u) /\ package_revise(u) /\ package_delete(u)
                             /\ package_change_state(u)
         [] a = "resource" -> resource_create(u) /\ resource_patch(u) /\ resource_delete(u)
         [] a = "views" -> resource_view_create(u) /\ resource_view_update(u)
                             /\ resource_view_delete(u)
         [] a = "relate" -> package_relationship_create(u) /\ package_relationship_delete(u)
         [] a = "show" -> resource_view_show(u) /\ package_relationships_list(u)
         [] a = "collaborators" -> package_collaborator_create(u) /\ package_collaborator_list(u)}

\* A request gives nobody a power over an organization, a group or a dataset
\* that stays with an organization, which who made it did not have; the sysadmin
\* has every power over a dataset (WaysAgree).
GivesOnlyHis ==
    /\ \A x \in {Org, Group}, v \in Users : role'[x][v] # role[x][v] =>
         GroupPowers(v, x)' \subseteq GroupPowers(v, x) \cup GroupPowers(by', x)
    /\ (/\ pkg # None /\ pkg' # None /\ pkg.owner = Org /\ pkg'.owner = Org
        /\ by' # Sysadmin /\ <<pkg, collab, role[Org]>>' # <<pkg, collab, role[Org]>>) =>
         LET his == DatasetPowers(by') IN
         \A v \in Users : DatasetPowers(v)' \subseteq DatasetPowers(v) \cup his

\* A dataset enters and leaves a group by the request of somebody whom the
\* group lets manage what it has.
GroupedByMembers ==
    (pkg # None /\ pkg' # None /\ pkg.groups # pkg'.groups) => Has(by', Group, "manage_group")

\* What u may do in the site as such.
SitePowers(u) ==
    {a \in {"read", "users", "groups", "jobs"} :
       CASE a = "read" -> package_list(u) /\ follower_count(u) /\ tag_autocomplete(u)
         [] a = "users" -> user_show(u) /\ user_list(u, FALSE) /\ user_autocomplete(u)
         [] a = "groups" -> group_create(u)
         [] a = "jobs" -> /\ follower_list(u) /\ config_option_show(u) /\ config_option_update(u)
                          /\ job_clear(u) /\ vocabulary_create(u) /\ task_status_update(u)}

\* What u may do with the account of v, and with its tokens, if key tells
\* whether the request has the reset key of v.
AccountPowers(u, v, key) ==
    {a \in {"update", "tokens", "follows"} :
       CASE a = "update" -> user_update(u, v, key)
         [] a = "tokens" -> api_token_create(u, v) /\ api_token_revoke(u, v) /\ api_token_list(u, v)
         [] a = "follows" -> followee_list(u, v)}

\* A registered user who may update the dataset may do so by every action
\* there is for it, and may read it, unless it belongs to nobody.  He may do
\* whatever a visitor may, and the sysadmin whatever he may.  The account of
\* another is closed to him and to visitors, but for an update with the reset
\* key that was mailed to that other.
WaysAgree ==
    /\ \A u \in Users \cup {Sysadmin} :
         "update" \in DatasetPowers(u) =>
            /\ {"patch", "resource", "views", "relate"} \subseteq DatasetPowers(u)
            /\ pkg.owner # None => "show" \in DatasetPowers(u)
    /\ \A u \in alive :
         /\ DatasetPowers(Anon) \subseteq DatasetPowers(u)
         /\ DatasetPowers(u) \subseteq DatasetPowers(Sysadmin)
         /\ SitePowers(Anon) \subseteq SitePowers(u)
         /\ SitePowers(u) \subseteq SitePowers(Sysadmin)
         /\ \A key \in BOOLEAN : AccountPowers(u, u, key) = AccountPowers(Sysadmin, u, key)
         /\ \A x \in {Org, Group} : GroupPowers(Anon, x) \subseteq GroupPowers(u, x)
    /\ \A u \in alive \cup {Anon}, v \in Users, key \in BOOLEAN :
         u # v => AccountPowers(u, v, key) = IF key THEN {"update"} ELSE {}
=============================================================================
