-------------------------- MODULE Visibility_proofs --------------------------
(***************************************************************************)
(* For any number of users, organizations and datasets, and whatever the   *)
(* depth of the hierarchy: looking down it finds what looking up does, a   *)
(* deleted organization gives nobody anything, and datasets are found,     *)
(* shown and changed by the same people.  And, where the recursion of the  *)
(* hierarchy is not cut: nobody comes to see by his own requests what      *)
(* others keep private.                                                    *)
(***************************************************************************)
EXTENDS Visibility, FiniteSetTheorems, WellFoundedInduction, TLAPS

States3 == {"active", "draft", "deleted"}

\* What the theorems assume of the constants: None is no role, organization or
\* row, and the bounds are bounds.
Proper ==
    /\ None \notin AllRoles \cup Orgs \cup Packages
    /\ Roles \subseteq AllRoles
    /\ States \subseteq States3
    /\ MaxRecurses \in Nat
    /\ Deletable \subseteq Users

\* An organization that is not active has no members and no place in the
\* hierarchy.
Closed ==
    \A o \in Orgs : org[o] # "active" =>
        /\ \A u \in Users : role[o][u] = None
        /\ \A r \in parents : o \notin {r[1], r[2]}

\* The index has the labels that the rows have.
Labelled == \A d \in Datasets : pkg[d] # None => label[d] = LabelsOf(d, pkg[d])

IInv == TypeOK /\ Closed /\ Labelled

-----------------------------------------------------------------------------
(* The hierarchy read upwards and downwards. *)

\* A path that is walked backwards is a path of the converse.
LEMMA Backwards ==
    ASSUME MaxRecurses \in Nat, NEW rel, NEW converse, NEW o \in Orgs, NEW p \in Orgs,
           \A x, y \in Orgs : <<x, y>> \in rel => <<y, x>> \in converse,
           Reaches(o, p, rel)
    PROVE  Reaches(p, o, converse)
  <1>0. PICK n \in 1..MaxRecurses + 1 : \E path \in [0..n -> Orgs] :
          /\ path[0] = o /\ path[n] = p
          /\ \A i \in 1..n : <<path[i - 1], path[i]>> \in rel
    BY DEF Reaches
  <1>1. PICK path \in [0..n -> Orgs] :
          /\ path[0] = o /\ path[n] = p
          /\ \A i \in 1..n : <<path[i - 1], path[i]>> \in rel
    BY <1>0
  <1>. DEFINE back == [i \in 0..n |-> path[n - i]]
  <1>2. n \in Nat /\ n >= 1
    OBVIOUS
  <1>3. \A i \in 0..n : n - i \in 0..n
    BY <1>2
  <1>4. back \in [0..n -> Orgs]
    BY <1>3
  <1>5. back[0] = p /\ back[n] = o
    BY <1>1, <1>2
  <1>6. ASSUME NEW i \in 1..n
        PROVE  <<back[i - 1], back[i]>> \in converse
    <2>1. n - i + 1 \in 1..n /\ i - 1 \in 0..n /\ i \in 0..n /\ n - i + 1 \in 0..n /\ n - i \in 0..n
      BY <1>2
    <2>2. <<path[(n - i + 1) - 1], path[n - i + 1]>> \in rel
      BY <1>1, <2>1
    <2>3. (n - i + 1) - 1 = n - i /\ n - (i - 1) = n - i + 1
      BY <1>2
    <2>4. <<path[n - i + 1], path[n - i]>> \in converse
      BY <2>1, <2>2, <2>3
    <2>. QED  BY <2>1, <2>3, <2>4
  <1>. QED  BY <1>4, <1>5, <1>6 DEF Reaches

\* Above and Below are each other's converse, between active organizations.
LEMMA UpIsDown ==
    ASSUME MaxRecurses \in Nat, TypeOK, NEW o \in Orgs, NEW g \in Orgs,
           org[o] = "active", org[g] = "active"
    PROVE  Above(g, o) <=> Below(o, g)
  <1>. DEFINE children == {<<r[2], r[1]>> : r \in parents}
  <1>1. \A x, y \in Orgs : <<x, y>> \in parents => <<y, x>> \in children
    OBVIOUS
  <1>2. ASSUME NEW x \in Orgs, NEW y \in Orgs, <<x, y>> \in children
        PROVE  <<y, x>> \in parents
    <2>1. PICK r \in parents : <<x, y>> = <<r[2], r[1]>>
      BY <1>2
    <2>2. PICK a \in Orgs, b \in Orgs : r = <<a, b>>
      BY DEF TypeOK
    <2>. QED  BY <2>1, <2>2
  <1>. HIDE DEF children
  <1>3. Reaches(o, g, parents) => Reaches(g, o, children)
    BY <1>1, Backwards
  <1>4. Reaches(g, o, children) => Reaches(o, g, parents)
    BY <1>2, Backwards
  <1>. QED  BY <1>3, <1>4 DEF Above, Below, children

\* The first step of a path leaves its organization.
LEMMA ReachesFrom ==
    ASSUME MaxRecurses \in Nat, NEW o, NEW p, NEW rel, Reaches(o, p, rel)
    PROVE  \E x \in Orgs : <<o, x>> \in rel
  <1>0. PICK n \in 1..MaxRecurses + 1 : \E path \in [0..n -> Orgs] :
          /\ path[0] = o
          /\ \A i \in 1..n : <<path[i - 1], path[i]>> \in rel
    BY DEF Reaches
  <1>1. PICK path \in [0..n -> Orgs] :
          /\ path[0] = o
          /\ \A i \in 1..n : <<path[i - 1], path[i]>> \in rel
    BY <1>0
  <1>2. 1 \in 1..n /\ 1 - 1 = 0 /\ 1 \in 0..n
    OBVIOUS
  <1>. QED  BY <1>1, <1>2

-----------------------------------------------------------------------------
(* Roles and permissions. *)

LEMMA HoldersHaveRole ==
    ASSUME Proper, NEW u, NEW permission, NEW g, NEW R, Holds(u, permission, {g}, R)
    PROVE  role[g][u] # None
  BY DEF Proper, Holds, Permits, AllRoles

\* Whoever has a permission has it for an active organization.
LEMMA PermittedIsActive ==
    ASSUME Proper, TypeOK, Closed, NEW o \in Orgs, NEW u \in Users, NEW permission,
           HasPermission(o, u, permission)
    PROVE  org[o] = "active"
  <1>1. CASE Holds(u, permission, {o}, AllRoles)
    BY <1>1, HoldersHaveRole DEF Closed
  <1>2. ASSUME NEW g \in Orgs, Above(g, o)
        PROVE  org[o] = "active"
    <2>1. PICK x \in Orgs : <<o, x>> \in parents
      BY <1>2, ReachesFrom DEF Above, Proper
    <2>. QED  BY <2>1 DEF Closed
  <1>. QED  BY <1>1, <1>2 DEF HasPermission

LEMMA ListedIsPermitted ==
    ASSUME Proper, TypeOK, Closed, NEW o \in Orgs, NEW u \in Users, NEW permission
    PROVE  Lists(u, permission, o) <=> org[o] = "active" /\ HasPermission(o, u, permission)
  <1>1. ASSUME NEW g \in Orgs, org[o] = "active", Holds(u, permission, {g}, Cascading)
        PROVE  Above(g, o) <=> Below(o, g)
    <2>1. org[g] = "active"
      BY <1>1, HoldersHaveRole DEF Closed
    <2>. QED  BY <1>1, <2>1, UpIsDown DEF Proper
  <1>. QED  BY <1>1 DEF Lists, HasPermission

LEMMA HierarchyFromInv ==
    ASSUME Proper, TypeOK, Closed
    PROVE  HierarchyAgrees
  BY ListedIsPermitted DEF HierarchyAgrees, OrgsFor

LEMMA DeletedFromInv ==
    ASSUME Proper, TypeOK, Closed
    PROVE  DeletedGrantsNothing
  <1> SUFFICES ASSUME NEW o \in Orgs, org[o] = "deleted"
               PROVE  /\ \A u \in Users, permission \in Permissions : ~HasPermission(o, u, permission)
                      /\ \A r \in parents : o \notin {r[1], r[2]}
    BY DEF DeletedGrantsNothing
  <1>1. org[o] # "active"
    OBVIOUS
  <1>. QED  BY <1>1, PermittedIsActive DEF Closed

LEMMA ReadersFromInv ==
    ASSUME Proper, IInv
    PROVE  ReadersAgree
  <1>1. SearchAgrees
    BY DEF IInv, Labelled, SearchAgrees, CanFind, CanShow
  <1>2. ASSUME NEW u \in Users, NEW d \in Datasets, CanUpdate(u, d), pkg[d].owner # None,
               org[pkg[d].owner] = "active"
        PROVE  CanShow(u, d)
    <2>1. u \in alive /\ pkg[d] # None /\ pkg[d].owner \in Orgs
      BY <1>2 DEF CanUpdate, IInv, TypeOK, Packages
    <2>2. CASE pkg[d].state = "active" /\ ~pkg[d].private
      BY <2>1, <2>2 DEF CanShow, LabelsOf, UserLabels
    <2>. DEFINE o == pkg[d].owner
    <2>3. CASE ~(pkg[d].state = "active" /\ ~pkg[d].private) /\ HasPermission(o, u, "update_dataset")
      <3>1. HasPermission(o, u, "read")
        BY <2>3 DEF HasPermission, Holds, Permits
      <3>2. o \in OrgsFor(u, "read")
        BY <1>2, <2>1, <3>1, ListedIsPermitted DEF OrgsFor, IInv
      <3>3. <<"member", o>> \in UserLabels(u)
        BY <3>2 DEF UserLabels
      <3>4. <<"member", o>> \in LabelsOf(d, pkg[d])
        BY <1>2, <2>3 DEF LabelsOf
      <3>. QED  BY <2>1, <3>3, <3>4 DEF CanShow
    <2>4. CASE ~(pkg[d].state = "active" /\ ~pkg[d].private)
                 /\ IsCollaborator(u, d, {"admin", "editor"})
      <3>1. collab[d][u] # None
        BY <2>4 DEF IsCollaborator, Proper, AllRoles
      <3>2. <<"collaborator", d>> \in UserLabels(u)
        BY <3>1 DEF UserLabels
      <3>3. <<"collaborator", d>> \in LabelsOf(d, pkg[d])
        BY <2>4 DEF LabelsOf
      <3>. QED  BY <2>1, <3>2, <3>3 DEF CanShow
    <2>. QED  BY <1>2, <2>1, <2>2, <2>3, <2>4 DEF CanUpdate
  <1>. QED  BY <1>1, <1>2 DEF ReadersAgree, EditorsRead
-----------------------------------------------------------------------------
(* The invariant is inductive. *)

\* TypeOK but for what it says of organizations that nobody created, which
\* Closed says of every organization that is not active.
Types ==
    /\ org \in [Orgs -> {"none", "active", "deleted"}]
    /\ parents \subseteq Orgs \X Orgs
    /\ role \in [Orgs -> [Users -> AllRoles \cup {None}]]
    /\ pkg \in [Datasets -> Packages \cup {None}]
    /\ collab \in [Datasets -> [Users -> AllRoles \cup {None}]]
    /\ label \in [Datasets -> SUBSET Labels]
    /\ alive \subseteq Users
    /\ invited \subseteq Outsiders
    /\ exposed \subseteq Datasets

LEMMA InvIsTypes == IInv <=> Types /\ Closed /\ Labelled
  BY DEF IInv, TypeOK, Types, Closed

LEMMA LabelsTyped ==
    ASSUME Proper, NEW d \in Datasets, NEW p \in Packages
    PROVE  LabelsOf(d, p) \in SUBSET Labels
  <1>1. p.owner \in Orgs \cup {None} /\ p.creator \in Users
    BY DEF Packages
  <1>. QED  BY <1>1 DEF LabelsOf, Labels

LEMMA InitInv == Init => Types /\ Closed /\ Labelled
  BY DEF Init, Types, Closed, Labelled

LEMMA OrgCreateStep ==
    ASSUME Proper, IInv, NEW u \in Users, NEW o \in Orgs, OrgCreate(u, o)
    PROVE  IInv'
  <1>1. Types /\ Closed /\ Labelled
    BY InvIsTypes
  <1>2. Types'
    BY <1>1 DEF Types, OrgCreate, AllRoles
  <1>3. Closed'
    BY <1>1 DEF Types, Closed, OrgCreate
  <1>4. Labelled'
    BY <1>1 DEF Labelled, OrgCreate, LabelsOf
  <1>. QED  BY <1>2, <1>3, <1>4, InvIsTypes DEF IInv, TypeOK, Types, Closed, Labelled

LEMMA OrgUpdateStep ==
    ASSUME Proper, IInv, NEW u \in Users, NEW o \in Orgs, OrgUpdate(u, o)
    PROVE  IInv'
  <1>1. Types /\ Closed /\ Labelled
    BY InvIsTypes
  <1>2. PICK P \in SUBSET {p \in Orgs : org[p] = "active"} :
          parents' = {r \in parents : r[1] # o} \cup ({o} \X P)
    BY DEF OrgUpdate
  <1>3. org[o] = "active"
    BY PermittedIsActive DEF OrgUpdate, Administers, IInv
  <1>4. Types'
    <2>1. parents' \subseteq Orgs \X Orgs
      BY <1>1, <1>2 DEF Types
    <2>2. invited' \subseteq Outsiders
      BY <1>1 DEF Types, OrgUpdate
    <2>. QED  BY <1>1, <2>1, <2>2 DEF Types, OrgUpdate
  <1>5. Closed'
    <2>1. \A r \in parents' : r \in parents \/ (r[1] = o /\ r[2] \in P)
      BY <1>2
    <2>. QED  BY <1>1, <1>3, <2>1 DEF Types, Closed, OrgUpdate
  <1>6. Labelled'
    BY <1>1 DEF Labelled, OrgUpdate, LabelsOf
  <1>. QED  BY <1>4, <1>5, <1>6 DEF IInv, TypeOK, Types, Closed, Labelled

LEMMA OrgDeleteStep ==
    ASSUME Proper, IInv, NEW u \in Users, NEW o \in Orgs, OrgDelete(u, o)
    PROVE  IInv'
  <1>1. Types /\ Closed /\ Labelled
    BY InvIsTypes
  <1>. DEFINE Owned == {d \in Datasets :
                  pkg[d] # None /\ pkg[d].owner = o /\ pkg[d].state # "deleted"}
              rows == [d \in Datasets |-> IF d \in Owned THEN [pkg[d] EXCEPT !.owner = None]
                                                          ELSE pkg[d]]
  <1>2. /\ org' = [org EXCEPT ![o] = "deleted"]
        /\ parents' = {r \in parents : o \notin {r[1], r[2]}}
        /\ role' = [role EXCEPT ![o] = [v \in Users |-> None]]
        /\ pkg' = rows
        /\ label' = [d \in Datasets |-> IF d \in Owned THEN LabelsOf(d, rows[d]) ELSE label[d]]
        /\ exposed' = exposed \cup Owned
        /\ UNCHANGED <<collab, alive, invited>>
    BY DEF OrgDelete
  <1>3. ASSUME NEW d \in Owned
        PROVE  rows[d] \in Packages
    <2>1. pkg[d] \in Packages
      BY <1>1, <1>3 DEF Types
    <2>. QED  BY <1>3, <2>1 DEF Packages
  <1>. HIDE DEF Owned
  <1>4. Owned \subseteq Datasets
    BY DEF Owned
  <1>5. rows \in [Datasets -> Packages \cup {None}]
    BY <1>1, <1>3, <1>4 DEF Types
  <1>6. \A d \in Datasets : d \notin Owned => rows[d] = pkg[d]
    OBVIOUS
  <1>. HIDE DEF rows
  <1>7. Types'
    <2>1. label' \in [Datasets -> SUBSET Labels]
      BY <1>1, <1>2, <1>3, <1>4, LabelsTyped DEF Types
    <2>. QED  BY <1>1, <1>2, <1>4, <1>5, <2>1 DEF Types
  <1>8. Closed'
    BY <1>1, <1>2 DEF Types, Closed
  <1>9. Labelled'
    <2> SUFFICES ASSUME NEW d \in Datasets, pkg'[d] # None
                 PROVE  label'[d] = LabelsOf(d, pkg'[d])
      BY DEF Labelled, LabelsOf
    <2>. QED  BY <1>1, <1>2, <1>6 DEF Labelled
  <1>. QED  BY <1>7, <1>8, <1>9 DEF IInv, TypeOK, Types, Closed, Labelled

LEMMA OrgRestoreStep ==
    ASSUME Proper, IInv, NEW o \in Orgs, OrgRestore(o)
    PROVE  IInv'
  <1>1. Types /\ Closed /\ Labelled
    BY InvIsTypes
  <1>2. Types' /\ Closed' /\ Labelled'
    BY <1>1 DEF Types, Closed, Labelled, LabelsOf, OrgRestore
  <1>. QED  BY <1>2 DEF IInv, TypeOK, Types, Closed, Labelled

LEMMA MemberStep ==
    ASSUME Proper, IInv, NEW u \in Users, NEW o \in Orgs, NEW v \in Users,
           MemberCreate(u, o, v) \/ MemberDelete(u, o, v)
    PROVE  IInv'
  <1>1. Types /\ Closed /\ Labelled
    BY InvIsTypes
  <1>2. org[o] = "active"
    BY PermittedIsActive DEF MemberCreate, MemberDelete, Administers, IInv
  <1>3. PICK r \in AllRoles \cup {None} : role' = [role EXCEPT ![o][v] = r]
    BY DEF MemberCreate, MemberDelete, Proper
  <1>4. /\ invited' \subseteq Outsiders
        /\ UNCHANGED <<org, parents, pkg, collab, label, alive, exposed>>
    BY <1>1 DEF MemberCreate, MemberDelete, Types
  <1>5. Types'
    BY <1>1, <1>3, <1>4 DEF Types
  <1>6. Closed'
    BY <1>1, <1>2, <1>3, <1>4 DEF Types, Closed
  <1>7. Labelled'
    BY <1>1, <1>4 DEF Labelled, LabelsOf
  <1>. QED  BY <1>5, <1>6, <1>7 DEF IInv, TypeOK, Types, Closed, Labelled

LEMMA UserStep ==
    ASSUME Proper, IInv, NEW v \in Users, UserDelete(v) \/ UserRestore(v)
    PROVE  IInv'
  <1>1. Types /\ Closed /\ Labelled
    BY InvIsTypes
  <1>2. /\ alive' \subseteq Users
        /\ role' \in [Orgs -> [Users -> AllRoles \cup {None}]]
        /\ collab' \in [Datasets -> [Users -> AllRoles \cup {None}]]
        /\ \A o \in Orgs, u \in Users : role'[o][u] \in {role[o][u], None}
        /\ UNCHANGED <<org, parents, pkg, label, invited, exposed>>
    <2>1. CASE UserDelete(v)
      <3>1. \A o \in Orgs : /\ role'[o] = [role[o] EXCEPT ![v] = None]
                            /\ role'[o] \in [Users -> AllRoles \cup {None}]
        BY <1>1, <2>1 DEF Types, UserDelete
      <3>2. role' \in [Orgs -> [Users -> AllRoles \cup {None}]]
        BY <2>1, <3>1 DEF UserDelete
      <3>3. collab' \in [Datasets -> [Users -> AllRoles \cup {None}]]
        BY <1>1, <2>1 DEF Types, UserDelete
      <3>4. ASSUME NEW o \in Orgs, NEW u \in Users
            PROVE  role'[o][u] \in {role[o][u], None}
        <4>1. role[o] \in [Users -> AllRoles \cup {None}]
          BY <1>1 DEF Types
        <4>2. role'[o] = [role[o] EXCEPT ![v] = None]
          BY <3>1
        <4>. QED  BY <4>1, <4>2
      <3>. QED  BY <1>1, <2>1, <3>2, <3>3, <3>4 DEF Types, UserDelete
    <2>2. CASE UserRestore(v)
      BY <1>1, <2>2 DEF Types, UserRestore
    <2>. QED  BY <2>1, <2>2
  <1>3. Types' /\ Closed' /\ Labelled'
    BY <1>1, <1>2 DEF Types, Closed, Labelled, LabelsOf
  <1>. QED  BY <1>3 DEF IInv, TypeOK, Types, Closed, Labelled

\* Every write of a dataset's row indexes it.
LEMMA RowStep ==
    ASSUME Proper, IInv, NEW d \in Datasets, NEW p \in Packages,
           pkg' = [pkg EXCEPT ![d] = p],
           label' = [label EXCEPT ![d] = LabelsOf(d, p)],
           exposed' \in SUBSET Datasets,
           UNCHANGED <<org, parents, role, collab, alive, invited>>
    PROVE  IInv'
  <1>1. Types /\ Closed /\ Labelled
    BY InvIsTypes
  <1>2. LabelsOf(d, p) \in SUBSET Labels
    BY LabelsTyped
  <1>3. Types'
    BY <1>1, <1>2 DEF Types
  <1>4. Closed'
    BY <1>1 DEF Closed
  <1>5. Labelled'
    <2> SUFFICES ASSUME NEW e \in Datasets, pkg'[e] # None
                 PROVE  label'[e] = LabelsOf(e, pkg'[e])
      BY DEF Labelled, LabelsOf
    <2>. QED  BY <1>1 DEF Types, Labelled
  <1>. QED  BY <1>3, <1>4, <1>5 DEF IInv, TypeOK, Types, Closed, Labelled

LEMMA PutStep ==
    ASSUME Proper, IInv, NEW u \in Users, NEW d \in Datasets, NEW p \in Packages, Put(u, d, p)
    PROVE  IInv'
  <1>1. exposed' \in SUBSET Datasets
    BY DEF Put, IInv, TypeOK
  <1>. QED  BY <1>1, RowStep DEF Put

LEMMA DatasetStep ==
    ASSUME Proper, IInv, NEW u \in Users, NEW d \in Datasets,
           DatasetCreate(u, d) \/ DatasetUpdate(u, d)
    PROVE  IInv'
  <1>1. CASE DatasetCreate(u, d)
    <2>1. PICK p \in [state : States \ {"deleted"}, private : BOOLEAN,
                      owner : Orgs \cup {None}, creator : {u}] : Put(u, d, p)
      BY <1>1 DEF DatasetCreate
    <2>2. p \in Packages
      BY DEF Packages, Proper, States3
    <2>. QED  BY <2>1, <2>2, PutStep
  <1>2. CASE DatasetUpdate(u, d)
    <2>1. PICK p \in Versions(d) : Put(u, d, p)
      BY <1>2 DEF DatasetUpdate
    <2>2. pkg[d] \in Packages
      BY <1>2 DEF DatasetUpdate, CanUpdate, IInv, TypeOK
    <2>3. p \in Packages
      BY <2>2 DEF Versions, Packages, Proper, States3
    <2>. QED  BY <2>1, <2>3, PutStep
  <1>. QED  BY <1>1, <1>2

LEMMA OwnerOrgUpdateStep ==
    ASSUME Proper, IInv, NEW d \in Datasets, NEW o \in Orgs \cup {None}, OwnerOrgUpdate(d, o)
    PROVE  IInv'
  <1>. DEFINE p == [pkg[d] EXCEPT !.owner = o]
  <1>1. pkg[d] \in Packages
    BY DEF OwnerOrgUpdate, IInv, TypeOK
  <1>2. p \in Packages
    BY <1>1 DEF Packages
  <1>3. pkg' = [pkg EXCEPT ![d] = p]
    BY DEF OwnerOrgUpdate
  <1>4. exposed' \in SUBSET Datasets
    BY DEF OwnerOrgUpdate, IInv, TypeOK
  <1>. QED  BY <1>2, <1>3, <1>4, RowStep DEF OwnerOrgUpdate

LEMMA BulkUpdateStep ==
    ASSUME Proper, IInv, NEW u \in Users, NEW o \in Orgs, NEW d \in Datasets, BulkUpdate(u, o, d)
    PROVE  IInv'
  <1>1. pkg[d] \in Packages
    BY DEF BulkUpdate, IInv, TypeOK
  <1>2. PICK p \in {[pkg[d] EXCEPT !.private = TRUE], [pkg[d] EXCEPT !.private = FALSE],
                    [pkg[d] EXCEPT !.state = "deleted"]} :
          /\ pkg' = [pkg EXCEPT ![d] = p]
          /\ label' = [label EXCEPT ![d] = LabelsOf(d, p)]
    BY DEF BulkUpdate
  <1>3. p \in Packages
    BY <1>1 DEF Packages
  <1>4. exposed' \in SUBSET Datasets
    BY DEF BulkUpdate, IInv, TypeOK
  <1>. QED  BY <1>2, <1>3, <1>4, RowStep DEF BulkUpdate

LEMMA CollaborateStep ==
    ASSUME Proper, IInv, NEW u \in Users, NEW d \in Datasets, NEW v \in Users,
           Collaborate(u, d, v)
    PROVE  IInv'
  <1>1. Types /\ Closed /\ Labelled
    BY InvIsTypes
  <1>2. PICK r \in AllRoles \cup {None} : collab' = [collab EXCEPT ![d][v] = r]
    BY DEF Collaborate, Proper
  <1>3. /\ invited' \subseteq Outsiders
        /\ UNCHANGED <<org, parents, role, pkg, label, alive, exposed>>
    BY <1>1 DEF Collaborate, Types
  <1>4. Types'
    BY <1>1, <1>2, <1>3 DEF Types
  <1>5. Closed' /\ Labelled'
    BY <1>1, <1>3 DEF Closed, Labelled, LabelsOf
  <1>. QED  BY <1>4, <1>5 DEF IInv, TypeOK, Types, Closed, Labelled

LEMMA StepInv ==
    ASSUME Proper, IInv, [Next]_vars
    PROVE  IInv'
  <1>1. CASE UNCHANGED vars
    <2>1. Types /\ Closed /\ Labelled
      BY InvIsTypes
    <2>2. UNCHANGED <<org, parents, role, pkg, collab, label, alive, invited, exposed>>
      BY <1>1 DEF vars
    <2>3. Types' /\ Closed'
      BY <2>1, <2>2 DEF Types, Closed
    <2>4. Labelled'
      BY <2>1, <2>2 DEF Labelled, LabelsOf
    <2>. QED  BY <2>3, <2>4 DEF IInv, TypeOK, Types, Closed, Labelled
  <1>2. CASE Next
    <2>1. CASE \E u \in Users, o \in Orgs : \/ OrgCreate(u, o) \/ OrgDelete(u, o) \/ OrgUpdate(u, o)
      BY <2>1, OrgCreateStep, OrgDeleteStep, OrgUpdateStep
    <2>2. CASE \E u \in Users, o \in Orgs, v \in Users : MemberCreate(u, o, v) \/ MemberDelete(u, o, v)
      BY <2>2, MemberStep
    <2>3. CASE \E u \in Users, o \in Orgs, d \in Datasets : BulkUpdate(u, o, d)
      BY <2>3, BulkUpdateStep
    <2>4. CASE \E u \in Users, d \in Datasets : DatasetCreate(u, d) \/ DatasetUpdate(u, d)
      BY <2>4, DatasetStep
    <2>5. CASE \E u \in Users, d \in Datasets, v \in Users : Collaborate(u, d, v)
      BY <2>5, CollaborateStep
    <2>6. CASE \E o \in Orgs : OrgRestore(o)
      BY <2>6, OrgRestoreStep
    <2>7. CASE \E v \in Deletable : UserDelete(v) \/ UserRestore(v)
      BY <2>7, UserStep DEF Proper
    <2>8. CASE \E d \in Datasets, o \in Orgs \cup {None} : OwnerOrgUpdate(d, o)
      BY <2>8, OwnerOrgUpdateStep
    <2>. QED  BY <1>2, <2>1, <2>2, <2>3, <2>4, <2>5, <2>6, <2>7, <2>8 DEF Next
  <1>. QED  BY <1>1, <1>2

\* However organizations, members, collaborators and datasets are created,
\* changed and deleted, only active organizations have members and places in
\* the hierarchy, and the index has the labels of the rows.
THEOREM InvAlways ==
    ASSUME Proper
    PROVE  Spec => []IInv
  <1>1. Init => IInv
    BY InitInv DEF IInv, TypeOK, Types, Closed, Init
  <1>2. IInv /\ [Next]_vars => IInv'
    BY StepInv
  <1>. QED  BY <1>1, <1>2, PTL DEF Spec

\* Every state of the program is of the types that the model gives it.
THEOREM TypeCorrect ==
    ASSUME Proper
    PROVE  Spec => []TypeOK
  <1>1. IInv => TypeOK
    BY DEF IInv
  <1>. QED  BY <1>1, InvAlways, PTL

\* organization_list_for_user, which looks down the hierarchy, lists the active
\* organizations for which has_user_permission_for_group_or_org, which looks
\* up, gives the permission: however deep the hierarchy is.
THEOREM HierarchyAlwaysAgrees ==
    ASSUME Proper
    PROVE  Spec => []HierarchyAgrees
  <1>1. IInv => HierarchyAgrees
    BY HierarchyFromInv DEF IInv
  <1>. QED  BY <1>1, InvAlways, PTL

\* A deleted organization gives nobody a permission, and is nobody's parent or
\* child.
THEOREM DeletedAlwaysGrantsNothing ==
    ASSUME Proper
    PROVE  Spec => []DeletedGrantsNothing
  <1>1. IInv => DeletedGrantsNothing
    BY DeletedFromInv DEF IInv
  <1>. QED  BY <1>1, InvAlways, PTL

\* A search finds for everybody exactly the datasets that package_show shows
\* him, and whoever may change a dataset of an active organization may see it.
THEOREM ReadersAlwaysAgree ==
    ASSUME Proper
    PROVE  Spec => []ReadersAgree
  <1>1. IInv => ReadersAgree
    BY ReadersFromInv
  <1>. QED  BY <1>1, InvAlways, PTL

-----------------------------------------------------------------------------
(* Paths.                                                                  *)

\* A set of natural numbers that is not empty has a least element.
LEMMA LeastNumber ==
    ASSUME NEW T \in SUBSET Nat, T # {}
    PROVE  \E m \in T : \A k \in T : m <= k
  <1>. DEFINE R == OpToRel(<, Nat)
  <1>1. IsWellFoundedOn(R, Nat)
    BY NatLessThanWellFounded
  <1>2. \A x, y \in Nat : x < y => <<x, y>> \in R
    BY DEF OpToRel
  <1>. HIDE DEF R
  <1>3. PICK m \in T : \A k \in T : <<k, m>> \notin R
    BY <1>1, WFMin
  <1>4. ASSUME NEW k \in T PROVE m <= k
    <2>1. k \in Nat /\ m \in Nat
      OBVIOUS
    <2>2. ~ (k < m)
      BY <1>2, <1>3, <2>1, Zenon
    <2>. QED  BY <2>1, <2>2
  <1>. QED  BY <1>4

\* A path of n steps of rel from o to p.
Path(path, n, o, p, rel) ==
    /\ path \in [0..n -> Orgs]
    /\ path[0] = o /\ path[n] = p
    /\ \A i \in 1..n : <<path[i - 1], path[i]>> \in rel

\* The recursion of the queries is never cut: there are not more organizations
\* than steps.
Uncut == IsFiniteSet(Orgs) /\ Cardinality(Orgs) <= MaxRecurses + 1

LEMMA ReachesByPath ==
    ASSUME NEW o, NEW p, NEW rel
    PROVE  Reaches(o, p, rel) <=> \E n \in 1..MaxRecurses + 1 : \E path : Path(path, n, o, p, rel)
  BY DEF Reaches, Path

\* A path that has more steps than there are organizations comes to one of
\* them twice, and can do without the steps in between.
LEMMA Shortcut ==
    ASSUME IsFiniteSet(Orgs), NEW n \in Nat \ {0}, Cardinality(Orgs) < n,
           NEW o, NEW p, NEW rel, NEW path, Path(path, n, o, p, rel)
    PROVE  \E m \in 1..n - 1 : \E short : Path(short, m, o, p, rel)
  <1>. DEFINE visits == [i \in 1..n |-> path[i]]
  <1>1. visits \in [1..n -> Orgs]
    BY DEF Path
  <1>2. IsFiniteSet(1..n) /\ Cardinality(1..n) = n
    BY FS_Interval
  <1>3. Cardinality(Orgs) \in Nat
    BY FS_CardinalityType
  <1>4. \E x, y \in 1..n : x # y /\ visits[x] = visits[y]
    <2>. HIDE DEF visits
    <2>. QED  BY <1>1, <1>2, <1>3, FS_PigeonHole
  <1>5. PICK i \in 1..n, j \in 1..n : i < j /\ path[i] = path[j]
    BY <1>4
  <1>. DEFINE m == n - (j - i)
              short == [k \in 0..m |-> IF k <= i THEN path[k] ELSE path[k + (j - i)]]
  <1>6. m \in 1..n - 1
    BY <1>5
  <1>7. short \in [0..m -> Orgs]
    BY <1>5 DEF Path
  <1>8. short[0] = o
    BY <1>5 DEF Path
  <1>9. short[m] = p
    <2>1. CASE m <= i
      <3>1. m = i /\ j = n
        BY <1>5, <2>1
      <3>. QED  BY <1>5, <3>1 DEF Path
    <2>2. CASE m > i
      BY <1>5, <2>2 DEF Path
    <2>. QED  BY <2>1, <2>2
  <1>10. ASSUME NEW k \in 1..m
         PROVE  <<short[k - 1], short[k]>> \in rel
    <2>1. CASE k <= i
      BY <1>5, <2>1 DEF Path
    <2>2. CASE k > i
      <3>. DEFINE l == k + (j - i)
      <3>1. l \in 1..n /\ short[k] = path[l]
        BY <1>5, <2>2
      <3>2. short[k - 1] = path[l - 1]
        <4>1. CASE k - 1 = i
          <5>1. l - 1 = j
            BY <1>5, <4>1
          <5>. QED  BY <1>5, <4>1, <5>1
        <4>2. CASE k - 1 > i
          BY <1>5, <4>2
        <4>. QED  BY <2>2, <4>1, <4>2
      <3>. QED  BY <3>1, <3>2 DEF Path
    <2>. QED  BY <2>1, <2>2
  <1>. HIDE DEF short, m
  <1>. QED  BY <1>6, <1>7, <1>8, <1>9, <1>10 DEF Path

\* Two paths make one.
LEMMA Joined ==
    ASSUME NEW m \in Nat, NEW n \in Nat, NEW o, NEW p, NEW q, NEW rel,
           NEW first, Path(first, m, o, p, rel),
           NEW second, Path(second, n, p, q, rel)
    PROVE  \E path : Path(path, m + n, o, q, rel)
  <1>. DEFINE path == [i \in 0..m + n |-> IF i <= m THEN first[i] ELSE second[i - m]]
  <1>1. path \in [0..m + n -> Orgs]
    BY DEF Path
  <1>2. path[0] = o /\ path[m + n] = q
    BY DEF Path
  <1>3. ASSUME NEW i \in 1..m + n
        PROVE  <<path[i - 1], path[i]>> \in rel
    <2>1. CASE i <= m
      BY <2>1 DEF Path
    <2>2. CASE i = m + 1
      <3>1. path[i - 1] = second[0] /\ path[i] = second[1] /\ 1 \in 1..n
        BY <2>2 DEF Path
      <3>2. <<second[1 - 1], second[1]>> \in rel /\ 1 - 1 = 0
        BY <3>1 DEF Path
      <3>3. <<second[0], second[1]>> \in rel
        BY <3>2
      <3>. HIDE DEF path
      <3>. QED  BY <3>1, <3>3, Zenon
    <2>3. CASE i > m + 1
      <3>1. path[i - 1] = second[(i - m) - 1] /\ path[i] = second[i - m] /\ i - m \in 1..n
        BY <2>3
      <3>. QED  BY <3>1 DEF Path
    <2>. QED  BY <2>1, <2>2, <2>3
  <1>. HIDE DEF path
  <1>. QED  BY <1>1, <1>2, <1>3 DEF Path

\* Where the recursion is not cut, what is reached is reached in few steps.
LEMMA AnyPath ==
    ASSUME Uncut, MaxRecurses \in Nat, NEW n \in Nat \ {0}, NEW o, NEW p, NEW rel,
           NEW path, Path(path, n, o, p, rel)
    PROVE  Reaches(o, p, rel)
  <1>. DEFINE T == {k \in Nat \ {0} : \E short : Path(short, k, o, p, rel)}
  <1>1. T \in SUBSET Nat /\ T # {}
    OBVIOUS
  <1>2. PICK k \in T : \A l \in T : k <= l
    <2>. HIDE DEF T
    <2>. QED  BY <1>1, LeastNumber
  <1>3. PICK short : Path(short, k, o, p, rel)
    OBVIOUS
  <1>4. Cardinality(Orgs) \in Nat
    BY FS_CardinalityType DEF Uncut
  <1>5. CASE Cardinality(Orgs) < k
    <2>1. PICK l \in 1..k - 1 : \E shorter : Path(shorter, l, o, p, rel)
      BY <1>3, <1>5, Shortcut DEF Uncut
    <2>2. l \in T
      BY <2>1
    <2>. QED  BY <1>2, <2>2
  <1>6. CASE k <= Cardinality(Orgs)
    <2>1. k \in 1..MaxRecurses + 1
      BY <1>4, <1>6 DEF Uncut
    <2>. QED  BY <1>3, <2>1, ReachesByPath
  <1>. QED  BY <1>4, <1>5, <1>6

LEMMA ReachesOn ==
    ASSUME Uncut, MaxRecurses \in Nat, NEW o, NEW p, NEW q, NEW rel,
           Reaches(o, p, rel), Reaches(p, q, rel)
    PROVE  Reaches(o, q, rel)
  <1>1. PICK m \in 1..MaxRecurses + 1 : \E path : Path(path, m, o, p, rel)
    BY ReachesByPath
  <1>2. PICK n \in 1..MaxRecurses + 1 : \E path : Path(path, n, p, q, rel)
    BY ReachesByPath
  <1>3. m + n \in Nat \ {0} /\ m \in Nat /\ n \in Nat
    OBVIOUS
  <1>. QED  BY <1>1, <1>2, <1>3, Joined, AnyPath

\* A path of which only the steps from x are new comes by x, or was there.
LEMMA ReachesBefore ==
    ASSUME MaxRecurses \in Nat, NEW o, NEW p, NEW rel, NEW new, NEW x,
           \A r \in new : r[1] # x => r \in rel,
           Reaches(o, p, new)
    PROVE  Reaches(o, p, rel) \/ o = x \/ Reaches(o, x, rel)
  <1>1. PICK n \in 1..MaxRecurses + 1 : \E path : Path(path, n, o, p, new)
    BY ReachesByPath
  <1>2. PICK path : Path(path, n, o, p, new)
    BY <1>1
  <1>. DEFINE T == {i \in 0..n : path[i] = x}
  <1>3. CASE \A i \in 0..n : path[i] # x
    <2>1. \A i \in 1..n : <<path[i - 1], path[i]>> \in rel
      <3> SUFFICES ASSUME NEW i \in 1..n PROVE <<path[i - 1], path[i]>> \in rel
        OBVIOUS
      <3>1. <<path[i - 1], path[i]>> \in new /\ path[i - 1] # x
        BY <1>2, <1>3 DEF Path
      <3>. QED  BY <3>1
    <2>. QED  BY <1>2, <2>1, ReachesByPath DEF Path
  <1>4. CASE \E i \in 0..n : path[i] = x
    <2>1. T \in SUBSET Nat /\ T # {}
      BY <1>4
    <2>2. PICK i \in T : \A j \in T : i <= j
      <3>. HIDE DEF T
      <3>. QED  BY <2>1, LeastNumber
    <2>3. CASE i = 0
      BY <1>2, <2>2, <2>3 DEF Path
    <2>4. CASE i # 0
      <3>. DEFINE front == [j \in 0..i |-> path[j]]
      <3>1. i \in 1..n /\ path[i] = x
        BY <2>2, <2>4
      <3>2. \A j \in 1..i : <<front[j - 1], front[j]>> \in rel
        <4> SUFFICES ASSUME NEW j \in 1..i PROVE <<path[j - 1], path[j]>> \in rel
          BY <3>1
        <4>1. <<path[j - 1], path[j]>> \in new /\ j - 1 \in 0..n
          BY <1>2, <3>1 DEF Path
        <4>2. path[j - 1] # x
          BY <2>2, <3>1, <4>1
        <4>. QED  BY <4>1, <4>2
      <3>3. /\ front \in [0..i -> Orgs]
            /\ front[0] = o /\ front[i] = x
        BY <1>2, <3>1 DEF Path
      <3>. HIDE DEF front
      <3>5. Path(front, i, o, x, rel)
        BY <3>2, <3>3 DEF Path
      <3>4. i \in 1..MaxRecurses + 1
        BY <3>1
      <3>. QED  BY <3>4, <3>5, ReachesByPath
    <2>. QED  BY <2>3, <2>4
  <1>. QED  BY <1>3, <1>4

-----------------------------------------------------------------------------
(* Nobody gets in who was not let in.                                      *)

\* What the theorem assumes beyond Proper: the recursion is not cut, and admins
\* are admins of what is below, as they are unless the site changes that.
Contained == Uncut /\ "admin" \in Cascading /\ Outsiders \subseteq Users

\* The datasets of insiders that nobody gave away.
Kept(d) == d \notin exposed /\ pkg[d] # None /\ pkg[d].creator \notin Outsiders

\* They have an owner, in which no outsider has a permission whom nobody let in.
Guarded ==
    \A d \in Datasets :
        /\ pkg[d] = None => \A u \in Users : collab[d][u] = None
        /\ Kept(d) =>
             /\ pkg[d].owner \in Orgs
             /\ org[pkg[d].owner] # "none"
             /\ \A u \in Unknown :
                  collab[d][u] = None /\ ~HasPermission(pkg[d].owner, u, "read")

\* Every permission comes with that to read.
LEMMA PermittedReads ==
    ASSUME NEW o, NEW u, NEW permission, HasPermission(o, u, permission)
    PROVE  HasPermission(o, u, "read")
  BY DEF HasPermission, Holds, Permits

LEMMA GuardedHides ==
    ASSUME Proper, TypeOK, Closed, Guarded, Outsiders \subseteq Users
    PROVE  NoIntrusion
  <1> SUFFICES ASSUME NEW u \in Unknown, NEW d \in Datasets, Kept(d),
                      pkg[d].private \/ pkg[d].state # "active"
               PROVE  LabelsOf(d, pkg[d]) \cap UserLabels(u) = {}
    BY DEF NoIntrusion, Kept, CanShow
  <1>. DEFINE o == pkg[d].owner
  <1>1. o \in Orgs /\ ~HasPermission(o, u, "read") /\ collab[d][u] = None
    BY DEF Guarded
  <1>2. u \in Users
    BY DEF Unknown
  <1>3. o \notin OrgsFor(u, "read")
    BY <1>1, <1>2, ListedIsPermitted DEF OrgsFor
  <1>4. LabelsOf(d, pkg[d]) = {<<"collaborator", d>>, <<"member", o>>}
    BY <1>1 DEF LabelsOf, Proper
  <1>5. <<"collaborator", d>> \notin UserLabels(u)
    BY <1>1 DEF UserLabels
  <1>6. <<"member", o>> \notin UserLabels(u)
    BY <1>3 DEF UserLabels
  <1>. QED  BY <1>4, <1>5, <1>6

\* Whoever may change the members or the parents of an organization is an
\* admin, who has every permission in what is below.
LEMMA AdminsBelow ==
    ASSUME Proper, Contained, TypeOK, Closed, NEW u \in Users, NEW x \in Orgs, NEW o \in Orgs,
           NEW permission \in {"update", "membership", "delete"},
           HasPermission(x, u, permission),
           org[o] # "none",
           o = x \/ Reaches(o, x, parents)
    PROVE  HasPermission(o, u, "read")
  <1>1. CASE o = x
    BY <1>1, PermittedReads
  <1>2. CASE Reaches(o, x, parents)
    <2>1. org[x] = "active"
      BY PermittedIsActive
    <2>2. CASE Holds(u, permission, {x}, AllRoles)
      <3>1. role[x][u] = "admin"
        BY <2>2 DEF Holds, Permits
      <3>2. Holds(u, "read", {x}, Cascading)
        BY <3>1 DEF Holds, Permits, Contained
      <3>. QED  BY <1>2, <2>1, <3>2 DEF HasPermission, Above
    <2>3. CASE \E g \in Orgs : Holds(u, permission, {g}, Cascading) /\ Above(g, x)
      <3>1. PICK g \in Orgs : Holds(u, permission, {g}, Cascading) /\ Above(g, x)
        BY <2>3
      <3>2. Reaches(o, g, parents)
        BY <1>2, <3>1, ReachesOn DEF Above, Contained, Proper
      <3>3. Holds(u, "read", {g}, Cascading)
        BY <3>1 DEF Holds, Permits
      <3>. QED  BY <3>1, <3>2, <3>3 DEF HasPermission, Above
    <2>. QED  BY <2>2, <2>3 DEF HasPermission
  <1>. QED  BY <1>1, <1>2

\* The datasets are guarded as before if their owners are the same, and nobody
\* whom nobody let in gets a permission in one.
LEMMA GuardedByRoles ==
    ASSUME Guarded, Outsiders \subseteq Users,
           \A d \in Datasets :
              /\ pkg'[d] = None => pkg[d] = None
              /\ Kept(d)' => Kept(d) /\ pkg'[d].owner = pkg[d].owner
              /\ \A u \in Users : collab'[d][u] \in {collab[d][u], None},
           Unknown' \subseteq Unknown,
           \A o \in Orgs : org[o] # "none" => org'[o] # "none",
           \A o \in Orgs, u \in Unknown' :
               org[o] # "none" /\ (\A v \in Unknown : ~HasPermission(o, v, "read"))
                 => ~HasPermission(o, u, "read")'
    PROVE  Guarded'
  <1> SUFFICES ASSUME NEW d \in Datasets
               PROVE  /\ pkg'[d] = None => \A u \in Users : collab'[d][u] = None
                      /\ Kept(d)' =>
                           /\ pkg'[d].owner \in Orgs
                           /\ org'[pkg'[d].owner] # "none"
                           /\ \A u \in Unknown' :
                                collab'[d][u] = None /\ ~HasPermission(pkg[d].owner, u, "read")'
    BY DEF Guarded
  <1>1. Unknown' \subseteq Users
    BY DEF Unknown
  <1>. QED  BY <1>1 DEF Guarded

LEMMA ReachesMore ==
    ASSUME NEW o, NEW p, NEW rel, NEW more, rel \subseteq more, Reaches(o, p, rel)
    PROVE  Reaches(o, p, more)
  BY DEF Reaches

\* Who loses roles gets no permission by it.
LEMMA PermissionLost ==
    ASSUME NEW u, NEW o \in Orgs, org[o] # "none",
           parents' \subseteq parents,
           \A g \in Orgs :
              /\ role'[g][u] \in {role[g][u], None}
              /\ role'[g][u] # None /\ org'[g] = "active" => org[g] = "active",
           Proper,
           HasPermission(o, u, "read")'
    PROVE  HasPermission(o, u, "read")
  <1>1. ASSUME NEW g \in Orgs, NEW R, Holds(u, "read", {g}, R)'
        PROVE  Holds(u, "read", {g}, R) /\ role'[g][u] # None
    BY <1>1 DEF Holds, Permits, Proper, AllRoles
  <1>2. CASE Holds(u, "read", {o}, AllRoles)'
    BY <1>1, <1>2 DEF HasPermission
  <1>3. CASE \E g \in Orgs : (Holds(u, "read", {g}, Cascading) /\ Above(g, o))'
    <2>1. PICK g \in Orgs : (Holds(u, "read", {g}, Cascading) /\ Above(g, o))'
      BY <1>3
    <2>2. Above(g, o)
      BY <1>1, <2>1, ReachesMore DEF Above
    <2>. QED  BY <1>1, <2>1, <2>2 DEF HasPermission
  <1>. QED  BY <1>2, <1>3 DEF HasPermission

\* The last step of a path comes to its organization.
LEMMA ReachesTo ==
    ASSUME MaxRecurses \in Nat, NEW o, NEW p, NEW rel, Reaches(o, p, rel)
    PROVE  \E x \in Orgs : <<x, p>> \in rel
  <1>1. PICK n \in 1..MaxRecurses + 1 : \E path : Path(path, n, o, p, rel)
    BY ReachesByPath
  <1>2. PICK path : Path(path, n, o, p, rel)
    BY <1>1
  <1>3. n \in 1..n /\ n - 1 \in 0..n
    OBVIOUS
  <1>. QED  BY <1>2, <1>3 DEF Path

LEMMA GuardedOrgCreate ==
    ASSUME Proper, Contained, IInv, Guarded, NEW w \in Users, NEW x \in Orgs, OrgCreate(w, x)
    PROVE  Guarded'
  <1>1. Types /\ Closed
    BY InvIsTypes
  <1>2. ASSUME NEW o \in Orgs, NEW u \in Unknown, org[o] # "none", HasPermission(o, u, "read")'
        PROVE  HasPermission(o, u, "read")
    <2>1. u \in Users /\ o # x
      BY <1>2 DEF Contained, Unknown, OrgCreate
    <2>2. \A g \in Orgs : g # x => role'[g][u] = role[g][u] /\ org'[g] = org[g]
      BY <1>1, <2>1 DEF Types, OrgCreate
    <2>3. CASE Holds(u, "read", {o}, AllRoles)'
      BY <1>2, <2>1, <2>2, <2>3 DEF Holds, HasPermission
    <2>4. CASE \E g \in Orgs : (Holds(u, "read", {g}, Cascading) /\ Above(g, o))'
      <3>1. PICK g \in Orgs : (Holds(u, "read", {g}, Cascading) /\ Above(g, o))'
        BY <2>4
      <3>2. Reaches(o, g, parents)
        BY <3>1 DEF Above, OrgCreate
      <3>3. PICK y \in Orgs : <<y, g>> \in parents
        BY <3>2, ReachesTo DEF Proper
      <3>4. g # x
        BY <1>1, <3>3 DEF Closed, OrgCreate
      <3>5. Holds(u, "read", {g}, Cascading) /\ Above(g, o)
        BY <2>2, <3>1, <3>2, <3>4 DEF Holds, Above
      <3>. QED  BY <1>2, <3>5 DEF HasPermission
    <2>. QED  BY <1>2, <2>3, <2>4 DEF HasPermission
  <1>3. \A o \in Orgs : org[o] # "none" => org'[o] # "none"
    BY <1>1 DEF Types, OrgCreate
  <1>4. /\ Unknown' = Unknown
        /\ \A d \in Datasets : Kept(d)' => Kept(d)
        /\ UNCHANGED <<pkg, collab>>
    BY DEF OrgCreate, Unknown, Kept
  <1>. QED  BY <1>2, <1>3, <1>4, GuardedByRoles DEF Contained

\* An outsider who changes the parents of an organization is an admin of all
\* that is below it.
LEMMA GuardedOrgUpdate ==
    ASSUME Proper, Contained, IInv, Guarded, NEW w \in Users, NEW x \in Orgs, OrgUpdate(w, x)
    PROVE  Guarded'
  <1>1. TypeOK /\ Closed
    BY DEF IInv
  <1>2. /\ UNCHANGED <<org, role, pkg, collab, alive, exposed>>
        /\ Unknown' \subseteq Unknown
        /\ \A d \in Datasets : Kept(d)' => Kept(d)
    BY DEF OrgUpdate, Unknown, Kept
  <1>3. ASSUME NEW o \in Orgs, NEW u \in Unknown', org[o] # "none",
               \A v \in Unknown : ~HasPermission(o, v, "read")
        PROVE  ~HasPermission(o, u, "read")'
    <2>1. CASE w \notin Unknown
      <3>1. \A g \in Orgs : role'[g][u] = None
        BY <1>2, <2>1 DEF OrgUpdate, Unknown
      <3>. QED  BY <3>1 DEF HasPermission, Holds, Permits, Proper, AllRoles
    <2>2. CASE w \in Unknown
      <3>1. ~(o = x \/ Reaches(o, x, parents))
        BY <1>1, <1>3, <2>2, AdminsBelow DEF OrgUpdate, Administers
      <3>2. \A r \in parents' : r[1] # x => r \in parents
        BY DEF OrgUpdate
      <3>3. \A g \in Orgs : Above(g, o)' => Above(g, o)
        BY <1>2, <3>1, <3>2, ReachesBefore DEF Above, Proper
      <3>4. \A R, g : Holds(u, "read", {g}, R)' => Holds(u, "read", {g}, R)
        BY <1>2 DEF Holds
      <3>5. u \in Unknown
        BY <1>2
      <3>. QED  BY <1>2, <1>3, <3>3, <3>4, <3>5 DEF HasPermission
    <2>. QED  BY <2>1, <2>2
  <1>. QED  BY <1>2, <1>3, GuardedByRoles DEF Contained

LEMMA GuardedOrgDelete ==
    ASSUME Proper, Contained, IInv, Guarded, NEW w \in Users, NEW x \in Orgs, OrgDelete(w, x)
    PROVE  Guarded'
  <1>1. Types /\ Closed
    BY InvIsTypes
  <1>. DEFINE Owned == {d \in Datasets :
                  pkg[d] # None /\ pkg[d].owner = x /\ pkg[d].state # "deleted"}
  <1>2. /\ org' = [org EXCEPT ![x] = "deleted"]
        /\ parents' \subseteq parents
        /\ role' = [role EXCEPT ![x] = [v \in Users |-> None]]
        /\ \A d \in Datasets \ Owned : pkg'[d] = pkg[d]
        /\ exposed' = exposed \cup Owned
        /\ UNCHANGED <<collab, invited>>
    BY DEF OrgDelete
  <1>3. ASSUME NEW d \in Owned
        PROVE  pkg'[d] # None
    <2>1. pkg[d] \in Packages
      BY <1>1, <1>3 DEF Types
    <2>2. [pkg[d] EXCEPT !.owner = None] \in Packages
      BY <2>1 DEF Packages
    <2>3. pkg'[d] = [pkg[d] EXCEPT !.owner = None]
      BY <1>3 DEF OrgDelete
    <2>. QED  BY <2>2, <2>3 DEF Proper
  <1>4. \A d \in Datasets :
           /\ pkg'[d] = None => pkg[d] = None
           /\ Kept(d)' => Kept(d) /\ pkg'[d].owner = pkg[d].owner
    <2>. HIDE DEF Owned
    <2>. QED  BY <1>2, <1>3 DEF Kept
  <1>5. /\ \A o \in Orgs : org[o] # "none" => org'[o] # "none"
        /\ \A g \in Orgs : org'[g] = "active" => org[g] = "active"
        /\ \A g \in Orgs, u \in Users : role'[g][u] \in {role[g][u], None}
        /\ Unknown' = Unknown /\ Unknown \subseteq Users
    <2>. HIDE DEF Owned
    <2>. QED  BY <1>1, <1>2 DEF Types, Unknown, Contained
  <1>. HIDE DEF Owned
  <1>6. \A o \in Orgs, u \in Unknown :
           org[o] # "none" /\ HasPermission(o, u, "read")' => HasPermission(o, u, "read")
    BY <1>2, <1>5, PermissionLost
  <1>. QED  BY <1>2, <1>4, <1>5, <1>6, GuardedByRoles DEF Contained

LEMMA GuardedOrgRestore ==
    ASSUME Proper, Contained, IInv, Guarded, NEW x \in Orgs, OrgRestore(x)
    PROVE  Guarded'
  <1>1. Types /\ Closed
    BY InvIsTypes
  <1>2. /\ UNCHANGED <<parents, role, pkg, collab, invited, exposed>>
        /\ \A g \in Orgs : g # x => org'[g] = org[g]
        /\ org'[x] = "active"
        /\ \A u \in Users : role[x][u] = None
    BY <1>1 DEF OrgRestore, Types, Closed
  <1>3. Unknown' = Unknown /\ Unknown \subseteq Users
    BY <1>2 DEF Unknown, Contained
  <1>4. \A o \in Orgs, u \in Unknown :
           org[o] # "none" /\ HasPermission(o, u, "read")' => HasPermission(o, u, "read")
    BY <1>2, <1>3, PermissionLost
  <1>5. \A d \in Datasets : Kept(d)' => Kept(d)
    BY <1>2 DEF Kept
  <1>6. \A o \in Orgs : org[o] # "none" => org'[o] # "none"
    BY <1>2
  <1>. QED  BY <1>2, <1>3, <1>4, <1>5, <1>6, GuardedByRoles DEF Contained

\* An outsider who gives somebody a role in an organization is an admin of all
\* that is below it.
LEMMA GuardedMember ==
    ASSUME Proper, Contained, IInv, Guarded, NEW w \in Users, NEW x \in Orgs, NEW v \in Users,
           MemberCreate(w, x, v) \/ MemberDelete(w, x, v)
    PROVE  Guarded'
  <1>1. Types /\ TypeOK /\ Closed
    BY InvIsTypes DEF IInv
  <1>2. /\ UNCHANGED <<org, parents, pkg, collab, exposed>>
        /\ Unknown' \subseteq Unknown /\ Unknown \subseteq Users
        /\ \A d \in Datasets : Kept(d)' => Kept(d)
    BY DEF MemberCreate, MemberDelete, Unknown, Kept, Contained
  <1>3. \A g \in Orgs, u \in Users : g # x \/ u # v => role'[g][u] = role[g][u]
    BY <1>1 DEF MemberCreate, MemberDelete, Types
  <1>4. ASSUME NEW o \in Orgs, NEW u \in Unknown', org[o] # "none",
               \A y \in Unknown : ~HasPermission(o, y, "read")
        PROVE  ~HasPermission(o, u, "read")'
    <2>1. u \in Unknown /\ u \in Users /\ ~HasPermission(o, u, "read")
      BY <1>2, <1>4
    <2>2. CASE \A g \in Orgs : role'[g][u] \in {role[g][u], None}
      BY <1>2, <1>4, <2>1, <2>2, PermissionLost
    <2>3. CASE u = v /\ MemberCreate(w, x, v)
      <3>1. w \in Unknown
        BY <1>4, <2>1, <2>3 DEF MemberCreate, Unknown
      <3>2. ~(o = x \/ Reaches(o, x, parents))
        BY <1>1, <1>4, <2>3, <3>1, AdminsBelow DEF MemberCreate, Administers
      <3>3. ~Holds(u, "read", {o}, AllRoles)'
        BY <1>3, <1>4, <2>1, <3>2 DEF Holds, HasPermission
      <3>4. ASSUME NEW g \in Orgs, Above(g, o)', Holds(u, "read", {g}, Cascading)'
            PROVE  FALSE
        <4>1. Above(g, o) /\ g # x
          BY <1>2, <3>2, <3>4 DEF Above
        <4>2. Holds(u, "read", {g}, Cascading)
          BY <1>3, <2>1, <3>4, <4>1 DEF Holds
        <4>. QED  BY <1>4, <2>1, <4>1, <4>2 DEF HasPermission
      <3>. QED  BY <3>3, <3>4 DEF HasPermission
    <2>4. CASE MemberDelete(w, x, v)
      BY <1>1, <1>3, <2>1, <2>2, <2>4 DEF MemberDelete, Types
    <2>5. CASE u # v
      BY <1>3, <2>1, <2>2, <2>5
    <2>. QED  BY <2>3, <2>4, <2>5
  <1>. QED  BY <1>2, <1>4, GuardedByRoles DEF Contained

LEMMA GuardedUser ==
    ASSUME Proper, Contained, IInv, Guarded, NEW v \in Users, UserDelete(v) \/ UserRestore(v)
    PROVE  Guarded'
  <1>1. Types
    BY InvIsTypes
  <1>2. /\ \A o \in Orgs, u \in Users : role'[o][u] \in {role[o][u], None}
        /\ \A d \in Datasets, u \in Users : collab'[d][u] \in {collab[d][u], None}
        /\ UNCHANGED <<org, parents, pkg, invited, exposed>>
    <2>1. CASE UserDelete(v)
      <3>1. \A o \in Orgs : role'[o] = [role[o] EXCEPT ![v] = None] /\ role[o] \in [Users -> AllRoles \cup {None}]
        BY <1>1, <2>1 DEF Types, UserDelete
      <3>2. \A d \in Datasets : collab'[d] = [collab[d] EXCEPT ![v] = None] /\ collab[d] \in [Users -> AllRoles \cup {None}]
        BY <1>1, <2>1 DEF Types, UserDelete
      <3>. QED  BY <2>1, <3>1, <3>2 DEF UserDelete
    <2>2. CASE UserRestore(v)
      BY <2>2 DEF UserRestore
    <2>. QED  BY <2>1, <2>2
  <1>3. Unknown' = Unknown /\ Unknown \subseteq Users
    BY <1>2 DEF Unknown, Contained
  <1>4. \A o \in Orgs, u \in Unknown :
           org[o] # "none" /\ HasPermission(o, u, "read")' => HasPermission(o, u, "read")
    BY <1>2, <1>3, PermissionLost
  <1>5. \A d \in Datasets : Kept(d)' => Kept(d)
    BY <1>2 DEF Kept
  <1>. QED  BY <1>2, <1>3, <1>4, <1>5, GuardedByRoles DEF Contained

-----------------------------------------------------------------------------
\* Nothing but one dataset changes.
LEMMA GuardedRow ==
    ASSUME Proper, Contained, Guarded, NEW d \in Datasets, NEW p \in Packages,
           pkg \in [Datasets -> Packages \cup {None}],
           pkg' = [pkg EXCEPT ![d] = p],
           exposed \subseteq exposed',
           UNCHANGED <<org, parents, role, collab, alive, invited>>,
           d \notin exposed' /\ p.creator \notin Outsiders =>
             /\ p.owner \in Orgs
             /\ org[p.owner] # "none"
             /\ \A u \in Unknown :
                  collab[d][u] = None /\ ~HasPermission(p.owner, u, "read")
    PROVE  Guarded'
  <1>1. Unknown' = Unknown
    BY DEF Unknown
  <1>2. SUFFICES ASSUME NEW e \in Datasets
                 PROVE  (/\ pkg[e] = None => \A u \in Users : collab[e][u] = None
                         /\ Kept(e) =>
                              /\ pkg[e].owner \in Orgs
                              /\ org[pkg[e].owner] # "none"
                              /\ \A u \in Unknown :
                                   collab[e][u] = None /\ ~HasPermission(pkg[e].owner, u, "read"))'
    BY DEF Guarded
  <1>3. CASE e = d
    <2>1. pkg'[e] = p /\ p # None
      BY <1>3 DEF Proper
    <2>2. ASSUME Kept(e)'
          PROVE  /\ p.owner \in Orgs
                 /\ org[p.owner] # "none"
                 /\ \A u \in Unknown : collab[d][u] = None /\ ~HasPermission(p.owner, u, "read")
      BY <1>3, <2>1, <2>2 DEF Kept
    <2>3. \A u : HasPermission(pkg[e].owner, u, "read")' <=> HasPermission(p.owner, u, "read")
      BY <2>1 DEF HasPermission, Holds, Above
    <2>. QED  BY <1>1, <1>3, <2>1, <2>2, <2>3
  <1>4. CASE e # d
    <2>1. pkg'[e] = pkg[e] /\ (Kept(e)' => Kept(e))
      BY <1>4 DEF Kept
    <2>2. \A u : HasPermission(pkg[e].owner, u, "read")' <=> HasPermission(pkg[e].owner, u, "read")
      BY <2>1 DEF HasPermission, Holds, Above
    <2>. QED  BY <1>1, <2>1, <2>2 DEF Guarded
  <1>. QED  BY <1>3, <1>4

\* Where nothing but the dataset changes, roles give what they gave.
LEMMA GuardedPut ==
    ASSUME Proper, Contained, IInv, Guarded, NEW u \in Users, NEW d \in Datasets,
           NEW p \in Packages, u \in Unknown => p.creator \in Outsiders,
           d \notin exposed /\ p.creator \notin Outsiders => \A v \in Unknown : collab[d][v] = None,
           OwnerAllowed(u, d, p.owner), Put(u, d, p)
    PROVE  Guarded'
  <1>1. Types
    BY InvIsTypes
  <1>2. exposed \subseteq exposed' /\ pkg' = [pkg EXCEPT ![d] = p]
    BY DEF Put
  <1>3. ASSUME d \notin exposed', p.creator \notin Outsiders
        PROVE  /\ p.owner \in Orgs
               /\ org[p.owner] # "none"
               /\ \A v \in Unknown : collab[d][v] = None /\ ~HasPermission(p.owner, v, "read")
    <2>1. p.owner # None /\ ~\E v \in Unknown : HasPermission(p.owner, v, "read")
      BY <1>3 DEF Put
    <2>2. p.owner \in Orgs /\ org[p.owner] # "none"
      BY <2>1 DEF OwnerAllowed, Packages
    <2>. QED  BY <1>2, <1>3, <2>1, <2>2
  <1>. QED  BY <1>1, <1>2, <1>3, GuardedRow DEF Put, Types

LEMMA GuardedDatasetCreate ==
    ASSUME Proper, Contained, IInv, Guarded, NEW u \in Users, NEW d \in Datasets,
           DatasetCreate(u, d)
    PROVE  Guarded'
  <1>1. PICK p \in [state : States \ {"deleted"}, private : BOOLEAN,
                    owner : Orgs \cup {None}, creator : {u}] :
               OwnerAllowed(u, d, p.owner) /\ Put(u, d, p)
    BY DEF DatasetCreate
  <1>2. p \in Packages /\ p.creator = u
    BY <1>1 DEF Packages, Proper, States3
  <1>3. \A v \in Unknown : collab[d][v] = None
    BY DEF Guarded, DatasetCreate, Unknown, Contained
  <1>4. u \in Unknown => p.creator \in Outsiders
    BY <1>2 DEF Unknown
  <1>. QED  BY <1>1, <1>2, <1>3, <1>4, GuardedPut

\* Outsiders may not change what they may not read.
LEMMA UnknownUpdatesNothing ==
    ASSUME Proper, Contained, Guarded, NEW u \in Unknown, NEW d \in Datasets, Kept(d)
    PROVE  ~CanUpdate(u, d) /\ ~ManagesCollaborators(u, d)
  <1>1. /\ pkg[d].owner \in Orgs /\ pkg[d].owner # None
        /\ collab[d][u] = None /\ None \notin {"admin", "editor"}
        /\ ~HasPermission(pkg[d].owner, u, "read")
    BY DEF Guarded, Proper, AllRoles
  <1>2. /\ ~HasPermission(pkg[d].owner, u, "update_dataset")
        /\ ~HasPermission(pkg[d].owner, u, "membership")
    BY <1>1, PermittedReads
  <1>. QED  BY <1>1, <1>2 DEF CanUpdate, ManagesCollaborators, IsCollaborator

LEMMA GuardedDatasetUpdate ==
    ASSUME Proper, Contained, IInv, Guarded, NEW u \in Users, NEW d \in Datasets,
           DatasetUpdate(u, d)
    PROVE  Guarded'
  <1>1. PICK p \in Versions(d) : OwnerAllowed(u, d, p.owner) /\ Put(u, d, p)
    BY DEF DatasetUpdate
  <1>2. Types /\ pkg[d] # None /\ pkg[d] \in Packages
    BY InvIsTypes DEF DatasetUpdate, CanUpdate, Types
  <1>3. p \in Packages /\ p.creator = pkg[d].creator
    BY <1>1, <1>2 DEF Versions, Packages, Proper, States3
  <1>4. CASE Kept(d)
    <2>1. u \notin Unknown
      BY <1>4, UnknownUpdatesNothing DEF DatasetUpdate
    <2>2. \A v \in Unknown : collab[d][v] = None
      BY <1>4 DEF Guarded
    <2>. QED  BY <1>1, <1>3, <2>1, <2>2, GuardedPut
  <1>5. CASE ~Kept(d)
    <2>1. d \in exposed \/ p.creator \in Outsiders
      BY <1>2, <1>3, <1>5 DEF Kept
    <2>. QED  BY <1>1, <1>2, <1>3, <2>1, GuardedRow DEF Put, Types
  <1>. QED  BY <1>4, <1>5

LEMMA GuardedOwnerOrgUpdate ==
    ASSUME Proper, Contained, IInv, Guarded, NEW d \in Datasets, NEW o \in Orgs \cup {None},
           OwnerOrgUpdate(d, o)
    PROVE  Guarded'
  <1>. DEFINE p == [pkg[d] EXCEPT !.owner = o]
  <1>1. Types /\ pkg[d] \in Packages
    BY InvIsTypes DEF OwnerOrgUpdate, Types
  <1>2. p \in Packages
    BY <1>1 DEF Packages
  <1>3. pkg' = [pkg EXCEPT ![d] = p]
    BY DEF OwnerOrgUpdate
  <1>4. d \in exposed' /\ exposed \subseteq exposed'
    BY DEF OwnerOrgUpdate
  <1>. HIDE DEF p
  <1>. QED  BY <1>1, <1>2, <1>3, <1>4, GuardedRow DEF OwnerOrgUpdate, Types

LEMMA GuardedBulkUpdate ==
    ASSUME Proper, Contained, IInv, Guarded, NEW u \in Users, NEW o \in Orgs, NEW d \in Datasets,
           BulkUpdate(u, o, d)
    PROVE  Guarded'
  <1>1. Types /\ pkg[d] # None /\ pkg[d] \in Packages
    BY InvIsTypes DEF BulkUpdate, Types
  <1>2. PICK p : /\ p \in {[pkg[d] EXCEPT !.private = TRUE], [pkg[d] EXCEPT !.private = FALSE],
                            [pkg[d] EXCEPT !.state = "deleted"]}
                 /\ pkg' = [pkg EXCEPT ![d] = p]
    BY DEF BulkUpdate
  <1>3. p \in Packages /\ p.owner = pkg[d].owner /\ p.creator = pkg[d].creator
    BY <1>1, <1>2 DEF Packages
  <1>4. exposed' = exposed
    BY DEF BulkUpdate
  <1>5. d \notin exposed' /\ p.creator \notin Outsiders => Kept(d)
    BY <1>1, <1>3, <1>4 DEF Kept
  <1>. QED  BY <1>1, <1>2, <1>3, <1>4, <1>5, GuardedRow DEF BulkUpdate, Types, Guarded

LEMMA GuardedCollaborate ==
    ASSUME Proper, Contained, IInv, Guarded, NEW u \in Users, NEW d \in Datasets, NEW v \in Users,
           Collaborate(u, d, v)
    PROVE  Guarded'
  <1>1. Types
    BY InvIsTypes
  <1>2. UNCHANGED <<org, parents, role, pkg, label, alive, exposed>>
    BY DEF Collaborate
  <1>3. PICK r : /\ collab' = [collab EXCEPT ![d][v] = r]
                 /\ u \in Unknown \/ r = None \/ v \notin Unknown'
                 /\ Unknown' \subseteq Unknown
    BY DEF Collaborate, Unknown
  <1>4. Kept(d) => u \notin Unknown
    BY UnknownUpdatesNothing DEF Collaborate
  <1>5. pkg[d] # None
    BY DEF Collaborate, ManagesCollaborators
  <1> SUFFICES ASSUME NEW e \in Datasets
               PROVE  (/\ pkg[e] = None => \A w \in Users : collab[e][w] = None
                       /\ Kept(e) =>
                            /\ pkg[e].owner \in Orgs
                            /\ org[pkg[e].owner] # "none"
                            /\ \A w \in Unknown :
                                 collab[e][w] = None /\ ~HasPermission(pkg[e].owner, w, "read"))'
    BY DEF Guarded
  <1>6. \A w : HasPermission(pkg[e].owner, w, "read")' <=> HasPermission(pkg[e].owner, w, "read")
    BY <1>2 DEF HasPermission, Holds, Above
  <1>7. Kept(e)' => Kept(e)
    BY <1>2 DEF Kept
  <1>8. pkg[e] = None => \A w \in Users : collab'[e][w] = None
    BY <1>1, <1>3, <1>5 DEF Guarded, Types
  <1>9. ASSUME Kept(e), NEW w \in Unknown'
        PROVE  collab'[e][w] = None
    <2>1. w \in Unknown /\ w \in Users /\ collab[e][w] = None
      BY <1>3, <1>9 DEF Guarded, Unknown, Contained
    <2>. QED  BY <1>1, <1>3, <1>4, <1>9, <2>1 DEF Types
  <1>. QED  BY <1>2, <1>3, <1>6, <1>7, <1>8, <1>9 DEF Guarded

LEMMA StepGuarded ==
    ASSUME Proper, Contained, IInv, Guarded, [Next]_vars
    PROVE  Guarded'
  <1>1. CASE UNCHANGED vars
    <2>1. UNCHANGED <<org, parents, role, pkg, collab, label, alive, invited, exposed>>
      BY <1>1 DEF vars
    <2>2. \A d \in Datasets : \A u :
             HasPermission(pkg[d].owner, u, "read")' <=> HasPermission(pkg[d].owner, u, "read")
      BY <2>1 DEF HasPermission, Holds, Above
    <2>3. Unknown' = Unknown /\ \A d \in Datasets : Kept(d)' <=> Kept(d)
      BY <2>1 DEF Unknown, Kept
    <2>. QED  BY <2>1, <2>2, <2>3 DEF Guarded
  <1>2. CASE Next
    <2>1. ASSUME NEW u \in Users, NEW o \in Orgs,
                 \/ OrgCreate(u, o)
                 \/ OrgDelete(u, o)
                 \/ OrgUpdate(u, o)
                 \/ \E v \in Users : MemberCreate(u, o, v) \/ MemberDelete(u, o, v)
                 \/ \E d \in Datasets : BulkUpdate(u, o, d)
          PROVE  Guarded'
      BY <2>1, GuardedOrgCreate, GuardedOrgDelete, GuardedOrgUpdate, GuardedMember, GuardedBulkUpdate
    <2>2. ASSUME NEW u \in Users, NEW d \in Datasets,
                 \/ DatasetCreate(u, d)
                 \/ DatasetUpdate(u, d)
                 \/ \E v \in Users : Collaborate(u, d, v)
          PROVE  Guarded'
      BY <2>2, GuardedDatasetCreate, GuardedDatasetUpdate, GuardedCollaborate
    <2>3. CASE \E o \in Orgs : OrgRestore(o)
      BY <2>3, GuardedOrgRestore
    <2>4. CASE \E v \in Deletable : UserDelete(v) \/ UserRestore(v)
      BY <2>4, GuardedUser DEF Proper
    <2>5. CASE \E d \in Datasets, o \in Orgs \cup {None} : OwnerOrgUpdate(d, o)
      BY <2>5, GuardedOwnerOrgUpdate
    <2>. QED  BY <1>2, <2>1, <2>2, <2>3, <2>4, <2>5 DEF Next
  <1>. QED  BY <1>1, <1>2

LEMMA InitGuarded == Init => Guarded
  BY DEF Init, Guarded, Kept

\* Whatever outsiders ask for, in whatever order and however the others change
\* the hierarchy, the roles and the datasets in between: nobody sees a private
\* dataset of an insider that nobody gave away, but whom somebody let in.
THEOREM NeverIntrusion ==
    ASSUME Proper, Contained
    PROVE  Spec => []NoIntrusion
  <1>1. Init => IInv /\ Guarded
    BY InitInv, InvIsTypes, InitGuarded
  <1>2. (IInv /\ Guarded) /\ [Next]_vars => (IInv /\ Guarded)'
    BY StepInv, StepGuarded
  <1>3. IInv /\ Guarded => NoIntrusion
    BY GuardedHides DEF IInv, Contained
  <1>. QED  BY <1>1, <1>2, <1>3, PTL DEF Spec
=============================================================================
