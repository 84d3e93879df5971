------------------------- MODULE Permissions_proofs -------------------------
(***************************************************************************)
(* For any users, options, roles that are given and capacities: by a       *)
(* request nobody gives what he does not have, and whoever may change a    *)
(* dataset may do so in every way.                                         *)
(***************************************************************************)
EXTENDS Permissions, TLAPS

\* What the theorems assume of the constants: names differ, and the bounds are
\* bounds.
Proper ==
    /\ Sysadmin \notin Users /\ Anon \notin Users /\ Sysadmin # Anon
    /\ None \notin Roles \cup {Org, Group} \cup Packages
    /\ Given \in [{Org, Group} -> SUBSET Roles]
    /\ Capacity \subseteq Roles
    /\ Creators \subseteq Users \cup {Anon}

-----------------------------------------------------------------------------
(* Types. *)

LEMMA InitTyped ==
    ASSUME Init
    PROVE  TypeOK
  BY DEF Init, TypeOK, Askers

\* One more role, or one less, of a user who is not deleted.
LEMMA RoleTyped ==
    ASSUME TypeOK, NEW x \in {Org, Group}, NEW v \in Users, NEW r \in Roles \cup {None},
           v \in alive \/ r = None, role' = [role EXCEPT ![x][v] = r],
           by' \in Askers, UNCHANGED <<option, alive, pkg, collab>>
    PROVE  TypeOK'
  <1>1. role' \in [{Org, Group} -> [Users -> Roles \cup {None}]]
    BY DEF TypeOK
  <1>2. \A u \in Users \ alive : role'[Org][u] = None /\ role'[Group][u] = None
    BY DEF TypeOK
  <1>. QED  BY <1>1, <1>2 DEF TypeOK

\* Another row of the dataset.
LEMMA PackageTyped ==
    ASSUME TypeOK, pkg' \in Packages \cup {None}, by' \in Askers,
           UNCHANGED <<option, alive, role, collab>>
    PROVE  TypeOK'
  BY DEF TypeOK

\* Other collaborators.
LEMMA CollabTyped ==
    ASSUME TypeOK, NEW v \in Users, NEW c \in Roles \cup {None},
           collab' = [collab EXCEPT ![v] = c],
           by' \in Askers, UNCHANGED <<option, alive, role, pkg>>
    PROVE  TypeOK'
  BY DEF TypeOK

LEMMA StepTyped ==
    ASSUME Proper, TypeOK, Next
    PROVE  TypeOK'
  <1>1. PICK u \in Askers :
          \/ \E v \in Users, x \in {Org, Group} :
               \/ \E r \in Given[x] : AddUser(u, x, v, r)
               \/ DropUser(u, x, v)
          \/ \E in \in BOOLEAN : JoinDataset(u, in)
          \/ \E owner \in {Org, None}, private \in BOOLEAN, groups \in SUBSET {Group} :
               \/ u \in Creators /\ Create(u, owner, private, groups)
               \/ Update(u, owner, private, groups)
          \/ \E private \in BOOLEAN : Bulk(u, private)
          \/ Delete(u) \/ Purge(u)
          \/ \E v \in Users :
               \/ \E capacity \in Capacity : Collaborate(u, v, capacity)
               \/ Uncollaborate(u, v)
               \/ UserDelete(u, v)
    BY DEF Next
  <1>2. ASSUME NEW v \in Users, NEW x \in {Org, Group}, NEW r \in Given[x], AddUser(u, x, v, r)
        PROVE  TypeOK'
    <2>1. r \in Roles
      BY DEF Proper
    <2>. QED  BY <1>2, <2>1, RoleTyped DEF AddUser
  <1>3. ASSUME NEW v \in Users, NEW x \in {Org, Group}, DropUser(u, x, v)
        PROVE  TypeOK'
    BY <1>3, RoleTyped DEF DropUser
  <1>4. ASSUME NEW in \in BOOLEAN, JoinDataset(u, in)
        PROVE  TypeOK'
    <2>1. pkg \in Packages
      BY <1>4 DEF JoinDataset, TypeOK
    <2>2. pkg' \in Packages
      BY <1>4, <2>1 DEF JoinDataset, Packages
    <2>. QED  BY <1>4, <2>2, PackageTyped DEF JoinDataset
  <1>5. ASSUME NEW owner \in {Org, None}, NEW private \in BOOLEAN, NEW groups \in SUBSET {Group},
               u \in Creators, Create(u, owner, private, groups)
        PROVE  TypeOK'
    <2>1. pkg' \in Packages
      BY <1>5 DEF Create, Packages, Membership, Proper
    <2>. QED  BY <1>5, <2>1, PackageTyped DEF Create
  <1>6. ASSUME NEW owner \in {Org, None}, NEW private \in BOOLEAN, NEW groups \in SUBSET {Group},
               Update(u, owner, private, groups)
        PROVE  TypeOK'
    <2>1. pkg \in Packages
      BY <1>6 DEF Update, TypeOK
    <2>2. Membership(u, pkg.groups, groups) \in SUBSET {Group}
      BY DEF Membership
    <2>3. pkg' \in Packages
      BY <1>6, <2>1, <2>2 DEF Update, Packages
    <2>. QED  BY <1>6, <2>3, PackageTyped DEF Update
  <1>7. ASSUME NEW private \in BOOLEAN, Bulk(u, private)
        PROVE  TypeOK'
    <2>1. pkg \in Packages
      BY <1>7 DEF Bulk, TypeOK
    <2>2. pkg' \in Packages
      BY <1>7, <2>1 DEF Bulk, Packages
    <2>. QED  BY <1>7, <2>2, PackageTyped DEF Bulk
  <1>8. CASE Delete(u)
    <2>1. pkg \in Packages
      BY <1>8 DEF Delete, TypeOK
    <2>2. pkg' \in Packages
      BY <1>8, <2>1 DEF Delete, Packages
    <2>. QED  BY <1>8, <2>2, PackageTyped DEF Delete
  <1>9. CASE Purge(u)
    BY <1>9 DEF Purge, TypeOK
  <1>10. ASSUME NEW v \in Users, NEW c \in Capacity, Collaborate(u, v, c)
         PROVE  TypeOK'
    BY <1>10, CollabTyped DEF Collaborate, Proper
  <1>11. ASSUME NEW v \in Users, Uncollaborate(u, v)
         PROVE  TypeOK'
    BY <1>11, CollabTyped DEF Uncollaborate
  <1>12. ASSUME NEW v \in Users, UserDelete(u, v)
         PROVE  TypeOK'
    BY <1>12 DEF UserDelete, TypeOK
  <1>. QED  BY <1>1, <1>2, <1>3, <1>4, <1>5, <1>6, <1>7, <1>8, <1>9, <1>10, <1>11, <1>12

-----------------------------------------------------------------------------
(* Powers over an organization or a group. *)

\* What each power is.
LEMMA GroupPowersAre ==
    ASSUME NEW u, NEW x
    PROVE  /\ "update" \in GroupPowers(u, x) <=> group_update(u, x)
           /\ "patch" \in GroupPowers(u, x) <=> group_patch(u, x)
           /\ "delete" \in GroupPowers(u, x) <=> group_delete(u, x)
           /\ "invite" \in GroupPowers(u, x) <=> user_invite(u, x)
           /\ "join" \in GroupPowers(u, x) <=> member_create(u, x, "user")
           /\ "drop" \in GroupPowers(u, x) <=> member_delete(u, x, "user")
           /\ "bulk" \in GroupPowers(u, x) <=> bulk_update_private(u)
           /\ "users" \in GroupPowers(u, x) <=> group_show(u, x, TRUE)
  BY DEF GroupPowers

\* The same of the next state.
LEMMA GroupPowersWillBe ==
    ASSUME NEW u \in Users, NEW x
    PROVE  /\ "update" \in GroupPowers(u, x)' <=> group_update(u, x)'
           /\ "patch" \in GroupPowers(u, x)' <=> group_patch(u, x)'
           /\ "delete" \in GroupPowers(u, x)' <=> group_delete(u, x)'
           /\ "invite" \in GroupPowers(u, x)' <=> user_invite(u, x)'
           /\ "join" \in GroupPowers(u, x)' <=> member_create(u, x, "user")'
           /\ "drop" \in GroupPowers(u, x)' <=> member_delete(u, x, "user")'
           /\ "bulk" \in GroupPowers(u, x)' <=> bulk_update_private(u)'
           /\ "users" \in GroupPowers(u, x)' <=> group_show(u, x, TRUE)'
           /\ GroupPowers(u, x)' \subseteq
                {"update", "patch", "delete", "invite", "join", "drop", "bulk", "users"}
  BY DEF GroupPowers

\* The sysadmin has all of them.
LEMMA SysadminPowers ==
    ASSUME Proper, NEW x
    PROVE  {"update", "patch", "delete", "invite", "join", "drop", "bulk", "users"}
             \subseteq GroupPowers(Sysadmin, x)
  <1>1. \A anonymous, rule : Allowed(Sysadmin, anonymous, rule)
    BY DEF Allowed, Proper
  <1>. QED  BY <1>1, GroupPowersAre
            DEF group_update, group_patch, group_delete, user_invite, member_create,
                member_delete, bulk_update_private, group_show

\* Who may update an organization or a group is its admin, or the sysadmin.
LEMMA UpdatersAreAdmins ==
    ASSUME Proper, NEW u \in Askers, NEW x \in {Org, Group}, u # Sysadmin,
           Allowed(u, FALSE, Has(u, x, "update"))
    PROVE  u \in alive \cap Users /\ role[x][u] = "admin"
  BY DEF Allowed, Has, Permits, Askers

\* An admin has all powers but those that options or other roles give.
LEMMA AdminPowers ==
    ASSUME Proper, NEW u \in alive \cap Users, NEW x \in {Org, Group}, role[x][u] = "admin"
    PROVE  /\ {"update", "patch", "invite", "join", "drop", "users"} \subseteq GroupPowers(u, x)
           /\ Config(IF x = Org THEN "user_delete_organizations" ELSE "user_delete_groups")
                => "delete" \in GroupPowers(u, x)
           /\ x = Org => "bulk" \in GroupPowers(u, x)
  <1>1. \A permission : Has(u, x, permission)
    BY DEF Has, Permits, Proper, Roles
  <1>. QED  BY <1>1, GroupPowersAre
            DEF Allowed, group_update, group_patch, group_delete, user_invite, member_create,
                group_member_create, member_delete, bulk_update_private, group_show, Proper

\* Powers follow from the role in the organization or group, the role in the
\* organization, and the options.
LEMMA PowersNeedRoles ==
    ASSUME Proper, NEW v \in Users, NEW x \in {Org, Group}, UNCHANGED option,
           alive' \subseteq alive,
           role'[x][v] = None \/ role'[x][v] = role[x][v],
           role'[Org][v] = None \/ role'[Org][v] = role[Org][v]
    PROVE  GroupPowers(v, x)' \subseteq GroupPowers(v, x)
  <1>1. \A permission : /\ Has(v, x, permission)' => Has(v, x, permission)
                        /\ Has(v, Org, permission)' => Has(v, Org, permission)
    BY DEF Has, Proper
  <1>. QED  BY <1>1, GroupPowersAre, GroupPowersWillBe
            DEF Allowed, group_update, group_patch, group_delete, user_invite, member_create,
                group_member_create, member_delete, bulk_update_private, group_show, Proper, Config

\* A change of the roles in an organization or a group gives nobody a power
\* that who makes it does not have.
LEMMA RolesGiveHis ==
    ASSUME Proper, TypeOK, Next, NEW x \in {Org, Group}, NEW v \in Users,
           role'[x][v] # role[x][v]
    PROVE  GroupPowers(v, x)' \subseteq GroupPowers(v, x) \cup GroupPowers(by', x)
  <1>1. PICK u \in Askers, w \in Users, y \in {Org, Group} :
          \/ \E r \in Given[y] : AddUser(u, y, w, r)
          \/ DropUser(u, y, w)
          \/ UserDelete(u, w)
    <2>1. /\ \A u, in : ~ JoinDataset(u, in)
          /\ \A u, owner, private, groups :
               ~ Create(u, owner, private, groups) /\ ~ Update(u, owner, private, groups)
          /\ \A u, private : ~ Bulk(u, private)
          /\ \A u : ~ Delete(u) /\ ~ Purge(u)
          /\ \A u, w, c : ~ Collaborate(u, w, c) /\ ~ Uncollaborate(u, w)
      BY DEF JoinDataset, Create, Update, Bulk, Delete, Purge, Collaborate, Uncollaborate
    <2>2. PICK u \in Askers :
            \E w \in Users :
               \/ \E y \in {Org, Group} :
                    \/ \E r \in Given[y] : AddUser(u, y, w, r)
                    \/ DropUser(u, y, w)
               \/ UserDelete(u, w)
      BY <2>1, Zenon DEF Next
    <2>. QED  BY <2>2
  <1>2. CASE \E r \in Given[y] : AddUser(u, y, w, r)
    <2>1. PICK r \in Given[y] : AddUser(u, y, w, r)
      BY <1>2
    <2>2. y = x /\ w = v /\ by' = u /\ role' = [role EXCEPT ![x][v] = r]
      BY <2>1 DEF AddUser, TypeOK
    <2>3. CASE u = Sysadmin
      BY <2>2, <2>3, SysadminPowers, GroupPowersWillBe
    <2>4. CASE u # Sysadmin
      <3>1. Allowed(u, FALSE, Has(u, x, "update"))
        BY <2>1, <2>2 DEF AddUser, member_create
      <3>2. u \in alive \cap Users /\ role[x][u] = "admin"
        BY <2>4, <3>1, UpdatersAreAdmins
      <3>3. UNCHANGED <<option, alive>> /\ (x # Org => role'[Org] = role[Org])
        BY <2>1, <2>2 DEF AddUser, TypeOK
      <3>4. "bulk" \in GroupPowers(v, x)' => "bulk" \in GroupPowers(v, x) \/ x = Org
        BY <3>3, GroupPowersAre, GroupPowersWillBe
           DEF bulk_update_private, Allowed, Has
      <3>5. "delete" \in GroupPowers(v, x)'
              => Config(IF x = Org THEN "user_delete_organizations" ELSE "user_delete_groups")
        BY <3>3, GroupPowersWillBe DEF group_delete, Allowed, Config, Proper
      <3>6. GroupPowers(by', x) = GroupPowers(u, x)
        BY <2>2
      <3>7. GroupPowers(v, x)' \subseteq
              {"update", "patch", "delete", "invite", "join", "drop", "bulk", "users"}
        BY GroupPowersWillBe
      <3>. QED  BY <3>2, <3>4, <3>5, <3>6, <3>7, AdminPowers
    <2>. QED  BY <2>3, <2>4
  <1>3. CASE DropUser(u, y, w)
    BY <1>3, PowersNeedRoles DEF DropUser, TypeOK
  <1>4. CASE UserDelete(u, w)
    BY <1>4, PowersNeedRoles DEF UserDelete, TypeOK
  <1>. QED  BY <1>1, <1>2, <1>3, <1>4

-----------------------------------------------------------------------------
(* Powers over the dataset. *)

\* What each power is.
LEMMA DatasetPowersAre ==
    ASSUME NEW u, pkg # None
    PROVE  /\ "update" \in DatasetPowers(u) <=> package_update(u, {})
           /\ "patch" \in DatasetPowers(u) <=>
                /\ package_patch(u) /\ package_revise(u) /\ package_delete(u)
                /\ package_change_state(u)
           /\ "resource" \in DatasetPowers(u) <=>
                resource_create(u) /\ resource_patch(u) /\ resource_delete(u)
           /\ "views" \in DatasetPowers(u) <=>
                resource_view_create(u) /\ resource_view_update(u) /\ resource_view_delete(u)
           /\ "relate" \in DatasetPowers(u) <=>
                package_relationship_create(u) /\ package_relationship_delete(u)
           /\ "show" \in DatasetPowers(u) <=>
                resource_view_show(u) /\ package_relationships_list(u)
           /\ "collaborators" \in DatasetPowers(u) <=>
                package_collaborator_create(u) /\ package_collaborator_list(u)
           /\ DatasetPowers(u) \subseteq
                {"update", "patch", "resource", "views", "relate", "show", "collaborators"}
  BY DEF DatasetPowers

\* There are three questions behind them: who may update, who may read and who
\* may manage the collaborators.
LEMMA ThreePowers ==
    ASSUME Proper, NEW u \in Askers, pkg # None
    PROVE  /\ u # Anon => \A a \in {"patch", "resource", "views", "relate"} :
                 a \in DatasetPowers(u) <=> package_update(u, {})
           /\ u = Anon => DatasetPowers(u) \cap {"patch", "resource", "views", "relate"} = {}
           /\ "show" \in DatasetPowers(u) <=> package_show(u)
           /\ "collaborators" \in DatasetPowers(u) <=> package_collaborator_create(u)
  <1>1. \A anonymous, r :
          /\ Allowed(u, TRUE, Allowed(u, anonymous, r)) <=> Allowed(u, anonymous, r)
          /\ u # Anon => /\ Allowed(u, FALSE, Allowed(u, TRUE, r)) <=> Allowed(u, TRUE, r)
                         /\ Allowed(u, FALSE, Allowed(u, FALSE, r)) <=> Allowed(u, FALSE, r)
          /\ u = Anon => ~ Allowed(u, FALSE, r)
    BY DEF Allowed, Proper
  <1>2. /\ package_update(u, {}) <=> Allowed(u, TRUE, package_update(u, {}))
        /\ u # Anon => (Allowed(u, FALSE, package_update(u, {})) <=> package_update(u, {}))
    BY DEF Allowed, package_update
  <1>3. ASSUME u # Anon
        PROVE  /\ package_patch(u) <=> package_update(u, {})
               /\ package_revise(u) <=> package_update(u, {})
               /\ package_change_state(u) <=> package_update(u, {})
               /\ package_delete(u) <=> package_update(u, {})
               /\ resource_create(u) <=> package_update(u, {})
               /\ resource_update(u) <=> package_update(u, {})
               /\ package_relationship_create(u) <=> package_update(u, {})
    BY <1>2, <1>3
       DEF package_patch, package_revise, package_change_state, package_delete,
           resource_create, resource_update, package_relationship_create
  <1>4. ASSUME u # Anon
        PROVE  /\ resource_patch(u) <=> package_update(u, {})
               /\ resource_delete(u) <=> package_update(u, {})
               /\ resource_view_create(u) <=> package_update(u, {})
               /\ resource_view_update(u) <=> package_update(u, {})
               /\ package_relationship_delete(u) <=> package_update(u, {})
    <2>1. /\ resource_patch(u) <=> Allowed(u, FALSE, package_update(u, {}))
          /\ resource_delete(u) <=> Allowed(u, FALSE, package_update(u, {}))
          /\ resource_view_create(u) <=> Allowed(u, FALSE, package_update(u, {}))
          /\ resource_view_update(u) <=> Allowed(u, FALSE, package_update(u, {}))
          /\ package_relationship_delete(u) <=> Allowed(u, FALSE, package_update(u, {}))
      BY <1>3, <1>4
         DEF resource_patch, resource_delete, resource_view_create, resource_view_update,
             package_relationship_delete, Allowed
    <2>. QED  BY <1>2, <1>4, <2>1
  <1>5. u # Anon => (resource_view_delete(u) <=> package_update(u, {}))
    BY <1>2, <1>4 DEF resource_view_delete, Allowed
  <1>6. u = Anon => /\ ~ package_patch(u) /\ ~ resource_create(u)
                    /\ ~ resource_view_create(u) /\ ~ package_relationship_create(u)
    BY <1>1 DEF package_patch, resource_create, resource_view_create, package_relationship_create
  <1>7. /\ resource_view_show(u) <=> package_show(u)
        /\ package_relationships_list(u) <=> package_show(u)
    BY DEF resource_view_show, package_relationships_list, resource_show, package_show, Allowed
  <1>8. package_collaborator_create(u) => package_collaborator_list(u)
    BY DEF package_collaborator_list, package_collaborator_create, Allowed
  <1>. QED  BY <1>3, <1>4, <1>5, <1>6, <1>7, <1>8, DatasetPowersAre

Three ==
    pkg # None => \A u \in Askers :
       /\ u # Anon => \A a \in {"update", "patch", "resource", "views", "relate"} :
            a \in DatasetPowers(u) <=> package_update(u, {})
       /\ "show" \in DatasetPowers(u) <=> package_show(u)
       /\ "collaborators" \in DatasetPowers(u) <=> package_collaborator_create(u)
       /\ DatasetPowers(u) \subseteq
            {"update", "patch", "resource", "views", "relate", "show", "collaborators"}

\* They are three in every state.
LEMMA AlwaysThree ==
    ASSUME Proper
    PROVE  Three /\ Three'
  <1>1. Three
    BY ThreePowers, DatasetPowersAre DEF Three
  <1>. QED  BY <1>1, PTL

\* What the three questions come to for a user, of a dataset of the
\* organization.
Owned ==
    pkg # None /\ pkg.owner = Org => \A u \in Users :
       /\ package_update(u, {}) <=>
            /\ u \in alive
            /\ \/ Has(u, Org, "update_dataset")
               \/ Config("allow_dataset_collaborators") /\ Collaborates(u, {"admin", "editor"})
       /\ package_show(u) <=>
            /\ u \in alive
            /\ \/ pkg.state = "active" /\ ~pkg.private
               \/ Config("allow_dataset_collaborators") /\ Collaborates(u, Roles)
               \/ Has(u, Org, "read")
       /\ package_collaborator_create(u) <=>
            u \in alive /\ (Has(u, Org, "membership") \/ Collaborates(u, {"admin"}))

LEMMA AlwaysOwned ==
    ASSUME Proper
    PROVE  Owned /\ Owned'
  <1>1. Owned
    <2>. SUFFICES ASSUME pkg # None, pkg.owner = Org, NEW u \in Users
                  PROVE  /\ package_update(u, {}) <=>
                              /\ u \in alive
                              /\ \/ Has(u, Org, "update_dataset")
                                 \/ /\ Config("allow_dataset_collaborators")
                                    /\ Collaborates(u, {"admin", "editor"})
                         /\ package_show(u) <=>
                              /\ u \in alive
                              /\ \/ pkg.state = "active" /\ ~pkg.private
                                 \/ /\ Config("allow_dataset_collaborators")
                                    /\ Collaborates(u, Roles)
                                 \/ Has(u, Org, "read")
                         /\ package_collaborator_create(u) <=>
                              /\ u \in alive
                              /\ Has(u, Org, "membership") \/ Collaborates(u, {"admin"})
      BY DEF Owned
    <2>1. u # Sysadmin /\ u # Anon /\ Org # None
      BY DEF Proper
    <2>2. ManagesGroups(u, {} \ pkg.groups)
      BY DEF ManagesGroups
    <2>3. package_update(u, {}) <=>
            /\ u \in alive
            /\ \/ Has(u, Org, "update_dataset")
               \/ Config("allow_dataset_collaborators") /\ Collaborates(u, {"admin", "editor"})
      BY <2>1, <2>2 DEF package_update, Allowed
    <2>. QED  BY <2>1, <2>3 DEF package_show, package_collaborator_create, ManagesCollaborators, Allowed
  <1>. QED  BY <1>1, PTL

\* An admin of the organization, or of the collaborators, has all powers.
LEMMA AllPowers ==
    ASSUME Proper, pkg # None, pkg.owner = Org, NEW u \in alive \cap Users,
           \/ role[Org][u] = "admin"
           \/ Config("allow_dataset_collaborators") /\ collab[u] = "admin"
    PROVE  {"update", "patch", "resource", "views", "relate", "show", "collaborators"}
             \subseteq DatasetPowers(u)
  <1>1. u \in Askers /\ u # Anon
    BY DEF Proper, Askers
  <1>2. role[Org][u] = "admin" => \A permission : Has(u, Org, permission)
    BY DEF Has, Permits, Proper, Roles
  <1>3. package_update(u, {}) /\ package_show(u) /\ package_collaborator_create(u)
    BY <1>2, AlwaysOwned DEF Owned, Collaborates, Roles
  <1>. QED  BY <1>1, <1>3, AlwaysThree DEF Three

\* Who has no more roles, and finds the dataset no more public, has no more powers.
LEMMA FewerPowers ==
    ASSUME Proper, pkg # None, pkg.owner = Org, pkg' # None, pkg'.owner = Org,
           NEW v \in Users, UNCHANGED option, alive' \subseteq alive,
           role'[Org][v] = None \/ role'[Org][v] = role[Org][v],
           collab'[v] = None \/ collab'[v] = collab[v]
    PROVE  /\ DatasetPowers(v)' \subseteq DatasetPowers(v) \cup {"show"}
           /\ (pkg'.state = "active" /\ ~pkg'.private => pkg.state = "active" /\ ~pkg.private)
                => DatasetPowers(v)' \subseteq DatasetPowers(v)
  <1>1. v \in Askers /\ v # Anon
    BY DEF Proper, Askers
  <1>2. \A permission : Has(v, Org, permission)' => Has(v, Org, permission)
    BY DEF Has, Proper
  <1>3. \A R \in SUBSET Roles : Collaborates(v, R)' => Collaborates(v, R)
    BY DEF Collaborates, Proper
  <1>4. package_update(v, {})' => package_update(v, {})
    BY <1>2, <1>3, AlwaysOwned DEF Owned, Config, Roles
  <1>5. package_collaborator_create(v)' => package_collaborator_create(v)
    BY <1>2, <1>3, AlwaysOwned DEF Owned, Roles
  <1>6. (pkg'.state = "active" /\ ~pkg'.private => pkg.state = "active" /\ ~pkg.private)
          => (package_show(v)' => package_show(v))
    BY <1>2, <1>3, AlwaysOwned DEF Owned, Config
  <1>. QED  BY <1>1, <1>4, <1>5, <1>6, AlwaysThree DEF Three

\* A request about the dataset, its collaborators or the roles in its
\* organization gives nobody a power over it that who makes it does not have.
LEMMA DatasetGivesHis ==
    ASSUME Proper, TypeOK, Next, pkg # None, pkg' # None, pkg.owner = Org, pkg'.owner = Org,
           by' # Sysadmin, <<pkg, collab, role[Org]>>' # <<pkg, collab, role[Org]>>,
           NEW v \in Users
    PROVE  DatasetPowers(v)' \subseteq DatasetPowers(v) \cup DatasetPowers(by')
  <1>. DEFINE All == {"update", "patch", "resource", "views", "relate", "show", "collaborators"}
  <1>1. PICK u \in Askers :
          \/ \E w \in Users, x \in {Org, Group} :
               \/ \E r \in Given[x] : AddUser(u, x, w, r)
               \/ DropUser(u, x, w)
          \/ \E in \in BOOLEAN : JoinDataset(u, in)
          \/ \E owner \in {Org, None}, private \in BOOLEAN, groups \in SUBSET {Group} :
               \/ u \in Creators /\ Create(u, owner, private, groups)
               \/ Update(u, owner, private, groups)
          \/ \E private \in BOOLEAN : Bulk(u, private)
          \/ Delete(u) \/ Purge(u)
          \/ \E w \in Users :
               \/ \E capacity \in Capacity : Collaborate(u, w, capacity)
               \/ Uncollaborate(u, w)
               \/ UserDelete(u, w)
    BY Zenon DEF Next
  <1>2. pkg \in Packages /\ v \in Askers /\ v # Anon
    BY DEF TypeOK, Proper, Askers
  <1>3. DatasetPowers(v)' \subseteq All
    BY <1>2, AlwaysThree DEF Three
  <1>4. ASSUME All \subseteq DatasetPowers(u), by' = u
        PROVE  DatasetPowers(v)' \subseteq DatasetPowers(v) \cup DatasetPowers(by')
    BY <1>3, <1>4
  <1>5. ASSUME "show" \in DatasetPowers(u), by' = u, UNCHANGED <<option, alive, role, collab>>
        PROVE  DatasetPowers(v)' \subseteq DatasetPowers(v) \cup DatasetPowers(by')
    <2>1. DatasetPowers(v)' \subseteq DatasetPowers(v) \cup {"show"}
      BY <1>5, FewerPowers
    <2>. QED  BY <1>5, <2>1
  <1>6. ASSUME NEW w \in Users, NEW x \in {Org, Group}, NEW r \in Given[x], AddUser(u, x, w, r)
        PROVE  DatasetPowers(v)' \subseteq DatasetPowers(v) \cup DatasetPowers(by')
    <2>1. x = Org /\ by' = u
      BY <1>6 DEF AddUser, TypeOK
    <2>2. Allowed(u, FALSE, Has(u, Org, "update"))
      BY <1>6, <2>1 DEF AddUser, member_create
    <2>3. u \in alive \cap Users /\ role[Org][u] = "admin"
      BY <2>1, <2>2, UpdatersAreAdmins
    <2>. QED  BY <1>4, <2>1, <2>3, AllPowers
  <1>7. ASSUME NEW w \in Users, NEW x \in {Org, Group}, DropUser(u, x, w)
        PROVE  DatasetPowers(v)' \subseteq DatasetPowers(v) \cup DatasetPowers(by')
    <2>1. role'[Org][v] = None \/ role'[Org][v] = role[Org][v]
      BY <1>7 DEF DropUser, TypeOK
    <2>. QED  BY <1>7, <2>1, FewerPowers DEF DropUser
  <1>8. ASSUME NEW in \in BOOLEAN, JoinDataset(u, in)
        PROVE  DatasetPowers(v)' \subseteq DatasetPowers(v) \cup DatasetPowers(by')
    <2>1. pkg'.state = pkg.state /\ pkg'.private = pkg.private
      BY <1>2, <1>8 DEF JoinDataset, Packages
    <2>. QED  BY <1>8, <2>1, FewerPowers DEF JoinDataset
  <1>9. ASSUME NEW owner \in {Org, None}, NEW private \in BOOLEAN, NEW groups \in SUBSET {Group},
               Update(u, owner, private, groups)
        PROVE  DatasetPowers(v)' \subseteq DatasetPowers(v) \cup DatasetPowers(by')
    <2>1. package_update(u, groups) /\ by' = u /\ u # Sysadmin
      BY <1>9 DEF Update
    <2>2. u \in alive \cap Users
      BY <2>1 DEF package_update, Allowed, Has, Collaborates, Askers, Proper
    <2>3. \/ Has(u, Org, "update_dataset")
          \/ Config("allow_dataset_collaborators") /\ Collaborates(u, {"admin", "editor"})
      BY <2>1, <2>2 DEF package_update, Allowed, Proper
    <2>4. package_show(u)
      <3>1. Has(u, Org, "update_dataset") => Has(u, Org, "read")
        BY DEF Has, Permits
      <3>. QED  BY <2>2, <2>3, <3>1, AlwaysOwned DEF Owned, Collaborates, Roles
    <2>5. "show" \in DatasetPowers(u)
      BY <2>4, AlwaysThree DEF Three
    <2>. QED  BY <1>5, <1>9, <2>1, <2>5 DEF Update
  <1>10. ASSUME NEW private \in BOOLEAN, Bulk(u, private)
         PROVE  DatasetPowers(v)' \subseteq DatasetPowers(v) \cup DatasetPowers(by')
    <2>1. by' = u /\ Allowed(u, FALSE, Has(u, Org, "update"))
      BY <1>10 DEF Bulk, bulk_update_private
    <2>2. u \in alive \cap Users /\ role[Org][u] = "admin"
      BY <2>1, UpdatersAreAdmins
    <2>. QED  BY <1>4, <2>1, <2>2, AllPowers
  <1>11. CASE Delete(u)
    <2>1. pkg'.state = "deleted"
      BY <1>2, <1>11 DEF Delete, Packages
    <2>. QED  BY <1>11, <2>1, FewerPowers DEF Delete
  <1>12. ASSUME NEW w \in Users, NEW c \in Capacity, Collaborate(u, w, c)
         PROVE  DatasetPowers(v)' \subseteq DatasetPowers(v) \cup DatasetPowers(by')
    <2>1. by' = u /\ u # Sysadmin /\ Config("allow_dataset_collaborators")
      BY <1>12 DEF Collaborate
    <2>2. u \in alive \cap Users
      BY <1>12, <2>1 DEF Collaborate, package_collaborator_create, Allowed, Askers
    <2>3. Has(u, Org, "membership") \/ Collaborates(u, {"admin"})
      BY <1>12, <2>2, AlwaysOwned DEF Collaborate, Owned
    <2>4. role[Org][u] = "admin" \/ collab[u] = "admin"
      BY <2>1, <2>3 DEF Has, Permits, Collaborates
    <2>. QED  BY <1>4, <2>1, <2>2, <2>4, AllPowers
  <1>13. ASSUME NEW w \in Users, Uncollaborate(u, w)
         PROVE  DatasetPowers(v)' \subseteq DatasetPowers(v) \cup DatasetPowers(by')
    <2>1. collab'[v] = None \/ collab'[v] = collab[v]
      BY <1>13 DEF Uncollaborate, TypeOK
    <2>. QED  BY <1>13, <2>1, FewerPowers DEF Uncollaborate
  <1>14. /\ \A owner, private, groups : ~ Create(u, owner, private, groups)
         /\ ~ Purge(u)
         /\ \A w : ~ UserDelete(u, w)
    BY DEF Create, Purge, UserDelete, user_delete, SysadminOnly, Allowed
  <1>. QED  BY <1>1, <1>6, <1>7, <1>8, <1>9, <1>10, <1>11, <1>12, <1>13, <1>14

\* The dataset comes to a group, and leaves it, by somebody who may manage what
\* the group has.
LEMMA MembersGroup ==
    ASSUME Proper, TypeOK, Next
    PROVE  GroupedByMembers
  <1>. SUFFICES ASSUME pkg # None, pkg' # None, pkg.groups # pkg'.groups
                PROVE  Has(by', Group, "manage_group")
    BY DEF GroupedByMembers
  <1>1. pkg \in Packages
    BY DEF TypeOK
  <1>2. /\ \A u, x, w, r : ~ AddUser(u, x, w, r) /\ ~ DropUser(u, x, w)
        /\ \A u, owner, private, groups : ~ Create(u, owner, private, groups)
        /\ \A u, private : ~ Bulk(u, private)
        /\ \A u : ~ Delete(u) /\ ~ Purge(u)
        /\ \A u, w, c : ~ Collaborate(u, w, c) /\ ~ Uncollaborate(u, w) /\ ~ UserDelete(u, w)
    BY <1>1 DEF AddUser, DropUser, Create, Bulk, Delete, Purge, Collaborate, Uncollaborate,
               UserDelete, Packages
  <1>3. PICK u \in Askers :
          \/ \E in \in BOOLEAN : JoinDataset(u, in)
          \/ \E owner \in {Org, None}, private \in BOOLEAN, groups \in SUBSET {Group} :
               Update(u, owner, private, groups)
    BY <1>2, Zenon DEF Next
  <1>4. ASSUME NEW in \in BOOLEAN, JoinDataset(u, in)
        PROVE  Has(by', Group, "manage_group")
    BY <1>4 DEF JoinDataset, member_create, member_delete, Allowed, Has
  <1>5. ASSUME NEW owner \in {Org, None}, NEW private \in BOOLEAN, NEW groups \in SUBSET {Group},
               Update(u, owner, private, groups)
        PROVE  Has(by', Group, "manage_group")
    <2>1. by' = u /\ Membership(u, pkg.groups, groups) # pkg.groups
      BY <1>1, <1>5 DEF Update, Packages
    <2>2. pkg.groups \subseteq {Group}
      BY <1>1 DEF Packages
    <2>3. Has(u, Group, "read")
      BY <2>1, <2>2 DEF Membership
    <2>4. Has(u, Group, "manage_group")
      BY <2>3 DEF Has, Permits
    <2>. QED  BY <2>1, <2>4
  <1>. QED  BY <1>3, <1>4, <1>5

-----------------------------------------------------------------------------
(* The functions agree in every state. *)

LEMMA AgreeOnDatasets ==
    ASSUME Proper, TypeOK
    PROVE  /\ \A u \in Users \cup {Sysadmin} :
                "update" \in DatasetPowers(u) =>
                  /\ {"patch", "resource", "views", "relate"} \subseteq DatasetPowers(u)
                  /\ pkg.owner # None => "show" \in DatasetPowers(u)
           /\ \A u \in alive :
                /\ DatasetPowers(Anon) \subseteq DatasetPowers(u)
                /\ DatasetPowers(u) \subseteq DatasetPowers(Sysadmin)
  <1>1. CASE pkg = None
    BY <1>1 DEF DatasetPowers
  <1>2. CASE pkg # None
    <2>. USE <1>2
    <2>1. /\ package_update(Sysadmin, {}) /\ package_show(Sysadmin)
          /\ package_collaborator_create(Sysadmin)
      BY DEF package_update, package_show, package_collaborator_create, Allowed, Proper
    <2>2. {"update", "patch", "resource", "views", "relate", "show", "collaborators"}
            \subseteq DatasetPowers(Sysadmin)
      BY <2>1, AlwaysThree DEF Three, Askers, Proper
    <2>3. ASSUME NEW u \in Users, "update" \in DatasetPowers(u)
          PROVE  /\ {"patch", "resource", "views", "relate"} \subseteq DatasetPowers(u)
                 /\ pkg.owner # None => "show" \in DatasetPowers(u)
      <3>1. u \in Askers /\ u # Anon
        BY DEF Askers, Proper
      <3>2. package_update(u, {})
        BY <2>3, <3>1, AlwaysThree DEF Three
      <3>3. pkg.owner = None \/ pkg.owner = Org
        BY DEF TypeOK, Packages
      <3>4. pkg.owner = Org => package_show(u)
        <4>1. Has(u, Org, "update_dataset") => Has(u, Org, "read")
          BY DEF Has, Permits
        <4>. QED  BY <3>2, <4>1, AlwaysOwned DEF Owned, Collaborates, Roles
      <3>. QED  BY <3>1, <3>2, <3>3, <3>4, AlwaysThree DEF Three
    <2>4. ASSUME NEW u \in alive
          PROVE  /\ DatasetPowers(Anon) \subseteq DatasetPowers(u)
                 /\ DatasetPowers(u) \subseteq DatasetPowers(Sysadmin)
      <3>1. u \in Users /\ u \in Askers /\ u # Anon /\ Anon \in Askers
        BY DEF Askers, Proper, TypeOK
      <3>2. package_update(Anon, {}) => package_update(u, {})
        <4>1. \A g : ManagesGroups(g, {} \ pkg.groups)
          BY DEF ManagesGroups
        <4>2. package_update(Anon, {}) => pkg.owner = None /\ CreatesUnowned(Anon)
          BY DEF package_update, Allowed, Has, Collaborates, Proper
        <4>3. CreatesUnowned(Anon) => CreatesUnowned(u)
          BY <3>1 DEF CreatesUnowned
        <4>. QED  BY <3>1, <4>1, <4>2, <4>3 DEF package_update, Allowed
      <3>3. package_show(Anon) => package_show(u)
        BY <3>1 DEF package_show, Allowed, Has, Collaborates, Proper
      <3>4. ~ package_collaborator_create(Anon)
        BY DEF package_collaborator_create, Allowed, Proper
      <3>5. DatasetPowers(Anon) \subseteq {"update", "show"}
        BY <3>1, <3>4, ThreePowers, DatasetPowersAre DEF Proper
      <3>6. "update" \in DatasetPowers(Anon) => "update" \in DatasetPowers(u)
        BY <3>2, DatasetPowersAre
      <3>7. "show" \in DatasetPowers(Anon) => "show" \in DatasetPowers(u)
        BY <3>1, <3>3, AlwaysThree DEF Three
      <3>8. DatasetPowers(u) \subseteq
              {"update", "patch", "resource", "views", "relate", "show", "collaborators"}
        BY DatasetPowersAre
      <3>. QED  BY <2>2, <3>5, <3>6, <3>7, <3>8
    <2>5. "update" \in DatasetPowers(Sysadmin) =>
            /\ {"patch", "resource", "views", "relate"} \subseteq DatasetPowers(Sysadmin)
            /\ "show" \in DatasetPowers(Sysadmin)
      BY <2>2
    <2>. QED  BY <2>3, <2>4, <2>5
  <1>. QED  BY <1>1, <1>2

LEMMA AgreeOnSite ==
    ASSUME Proper, TypeOK, NEW u \in alive
    PROVE  SitePowers(Anon) \subseteq SitePowers(u) /\ SitePowers(u) \subseteq SitePowers(Sysadmin)
  <1>1. u \in Users /\ u # Anon /\ u # Sysadmin /\ Anon \notin Users /\ Sysadmin \notin Users
        /\ Anon # Sysadmin
    BY DEF Proper, TypeOK
  <1>2. \A v : /\ "read" \in SitePowers(v) <=>
                    package_list(v) /\ follower_count(v) /\ tag_autocomplete(v)
               /\ "users" \in SitePowers(v) <=>
                    user_show(v) /\ user_list(v, FALSE) /\ user_autocomplete(v)
               /\ "groups" \in SitePowers(v) <=> group_create(v)
               /\ "jobs" \in SitePowers(v) <=>
                    /\ follower_list(v) /\ config_option_show(v) /\ config_option_update(v)
                    /\ job_clear(v) /\ vocabulary_create(v) /\ task_status_update(v)
               /\ SitePowers(v) \subseteq {"read", "users", "groups", "jobs"}
    BY DEF SitePowers
  <1>3. /\ package_list(u) /\ follower_count(u) /\ tag_autocomplete(u)
        /\ user_show(Anon) => user_show(u)
        /\ user_list(u, FALSE) /\ user_autocomplete(u)
        /\ ~ group_create(Anon) /\ ~ follower_list(Anon)
    BY <1>1 DEF package_list, follower_count, tag_autocomplete, user_show, user_list,
               user_autocomplete, group_create, follower_list, SysadminOnly, Allowed
  <1>4. \A anonymous, rule : Allowed(Sysadmin, anonymous, rule)
    BY <1>1 DEF Allowed
  <1>5. {"read", "users", "groups", "jobs"} \subseteq SitePowers(Sysadmin)
    <2>1. /\ package_list(Sysadmin) /\ follower_count(Sysadmin) /\ tag_autocomplete(Sysadmin)
          /\ user_show(Sysadmin) /\ user_list(Sysadmin, FALSE) /\ user_autocomplete(Sysadmin)
          /\ group_create(Sysadmin) /\ follower_list(Sysadmin) /\ config_option_show(Sysadmin)
          /\ config_option_update(Sysadmin) /\ job_clear(Sysadmin)
          /\ vocabulary_create(Sysadmin) /\ task_status_update(Sysadmin)
      BY <1>4 DEF package_list, follower_count, tag_autocomplete, user_show, user_list,
               user_autocomplete, group_create, follower_list, config_option_show,
               config_option_update, job_clear, vocabulary_create, task_status_update, SysadminOnly
    <2>. QED  BY <1>2, <2>1
  <1>. QED  BY <1>2, <1>3, <1>5

\* The account of another is open to the reset key only.
LEMMA AgreeOnAccounts ==
    ASSUME Proper, TypeOK
    PROVE  /\ \A u \in alive, key \in BOOLEAN : AccountPowers(u, u, key) = AccountPowers(Sysadmin, u, key)
           /\ \A u \in alive \cup {Anon}, v \in Users, key \in BOOLEAN :
                u # v => AccountPowers(u, v, key) = IF key THEN {"update"} ELSE {}
  <1>1. /\ alive \subseteq Users /\ Sysadmin \notin Users /\ Anon \notin Users /\ Anon # Sysadmin
    BY DEF Proper, TypeOK
  <1>2. \A a, v, key :
          /\ "update" \in AccountPowers(a, v, key) <=> user_update(a, v, key)
          /\ "tokens" \in AccountPowers(a, v, key) <=>
               api_token_create(a, v) /\ api_token_revoke(a, v) /\ api_token_list(a, v)
          /\ "follows" \in AccountPowers(a, v, key) <=> followee_list(a, v)
          /\ AccountPowers(a, v, key) \subseteq {"update", "tokens", "follows"}
    BY DEF AccountPowers
  <1>3. ASSUME NEW u \in alive, NEW key \in BOOLEAN
        PROVE  AccountPowers(u, u, key) = AccountPowers(Sysadmin, u, key)
    <2>1. \A a \in {u, Sysadmin} :
            /\ user_update(a, u, key) /\ api_token_create(a, u) /\ api_token_revoke(a, u)
            /\ api_token_list(a, u) /\ followee_list(a, u)
      BY <1>1 DEF user_update, api_token_create, api_token_revoke, api_token_list, followee_list,
                 Allowed
    <2>2. \A a \in {u, Sysadmin} : AccountPowers(a, u, key) = {"update", "tokens", "follows"}
      BY <1>2, <2>1
    <2>. QED  BY <2>2
  <1>4. ASSUME NEW u \in alive \cup {Anon}, NEW v \in Users, NEW key \in BOOLEAN, u # v
        PROVE  AccountPowers(u, v, key) = IF key THEN {"update"} ELSE {}
    <2>1. ~ api_token_create(u, v) /\ ~ followee_list(u, v)
      BY <1>1, <1>4 DEF api_token_create, followee_list, Allowed
    <2>2. user_update(u, v, key) <=> key
      BY <1>1, <1>4 DEF user_update, Allowed
    <2>. QED  BY <1>2, <2>1, <2>2
  <1>. QED  BY <1>3, <1>4

LEMMA AgreeOnGroups ==
    ASSUME Proper, TypeOK, NEW u \in alive, NEW x \in {Org, Group}
    PROVE  GroupPowers(Anon, x) \subseteq GroupPowers(u, x)
  <1>1. u \in Users /\ u # Anon /\ u # Sysadmin /\ Anon \notin Users /\ Anon # Sysadmin
    BY DEF Proper, TypeOK
  <1>2. \A rule : ~ Allowed(Anon, FALSE, rule)
    BY <1>1 DEF Allowed
  <1>3. /\ ~ group_update(Anon, x) /\ ~ group_patch(Anon, x) /\ ~ group_delete(Anon, x)
        /\ ~ user_invite(Anon, x) /\ ~ member_create(Anon, x, "user")
        /\ ~ member_delete(Anon, x, "user") /\ ~ bulk_update_private(Anon)
    BY <1>2 DEF group_update, group_patch, group_delete, user_invite, member_create,
               member_delete, bulk_update_private
  <1>4. group_show(Anon, x, TRUE) => group_show(u, x, TRUE)
    BY <1>1 DEF group_show, Allowed, Has
  <1>5. GroupPowers(Anon, x) \subseteq
          {"update", "patch", "delete", "invite", "join", "drop", "bulk", "users"}
    BY DEF GroupPowers
  <1>. QED  BY <1>3, <1>4, <1>5, GroupPowersAre

LEMMA WaysFromTypes ==
    ASSUME Proper, TypeOK
    PROVE  WaysAgree
  BY AgreeOnDatasets, AgreeOnSite, AgreeOnAccounts, AgreeOnGroups DEF WaysAgree

LEMMA StepGives ==
    ASSUME Proper, TypeOK, Next
    PROVE  GivesOnlyHis /\ GroupedByMembers
  BY RolesGiveHis, DatasetGivesHis, MembersGroup DEF GivesOnlyHis

-----------------------------------------------------------------------------
(* The theorems. *)

\* Roles, capacities and the dataset stay of their type, and deleted users
\* have no roles.
THEOREM TypeCorrect == ASSUME Proper PROVE Spec => []TypeOK
  <1>1. TypeOK /\ [Next]_vars => TypeOK'
    <2>1. TypeOK /\ UNCHANGED vars => TypeOK'
      BY DEF TypeOK, vars
    <2>. QED  BY <2>1, StepTyped
  <1>. QED  BY <1>1, InitTyped, PTL DEF Spec

\* No request gives anybody a power over an organization, a group or a dataset
\* of the organization that who makes it does not have, and datasets enter and
\* leave a group by those who manage what it has.
THEOREM NobodyGivesMore ==
    ASSUME Proper
    PROVE  Spec => [][GivesOnlyHis /\ GroupedByMembers]_vars
  <1>1. TypeOK /\ [Next]_vars => [GivesOnlyHis /\ GroupedByMembers]_vars
    BY StepGives
  <1>. QED  BY <1>1, TypeCorrect, PTL DEF Spec

\* Whoever may change the dataset may do so by every action there is for it, a
\* user may do what a visitor may, and the sysadmin what any user may.  Without
\* its reset key nobody has a power over the account of another, and with it
\* the power to update it only.
THEOREM WaysAlwaysAgree == ASSUME Proper PROVE Spec => []WaysAgree
  BY TypeCorrect, WaysFromTypes, PTL

=============================================================================
