---------------------------- MODULE PortalRoles ----------------------------
(***************************************************************************)
(* The roles of the portal (views/role.py).  They are a list in the memory *)
(* of a web process: processes do not share it, and a new process starts   *)
(* with the default one.  A sysadmin gives a role to a user, by its number *)
(* in the list; what it means is looked up by its name.  A role in an      *)
(* organization is given in up to three transactions.                      *)
(***************************************************************************)
EXTENDS Naturals, Sequences, FiniteSets, SequencesExt

CONSTANTS
    Processes,      \* web processes
    Users,
    FirstAdmins,    \* the users that are sysadmins from the start
    Names,          \* names a role may be given, besides the default ones
    Nobody,
    MaxRoles,       \* bound: how many roles a process has
    MaxEdits        \* bound: how often roles are edited

\* The default roles, from the highest to the lowest.
System == "system"
Town == "town"
Data == "data"
Viewer == "viewer"
Defaults == <<System, Town, Data, Viewer>>
AllNames == ToSet(Defaults) \cup Names

\* ROLE_ORG_MAPPING: "member" for any other name.
Capacity(name) ==
    CASE name \in {System, Town} -> "admin"
      [] name = Data -> "editor"
      [] OTHER -> "member"

Capacities == {"admin", "editor", "member"}

VARIABLES
    roles,       \* roles[p]: the names of the roles of process p
    sysadmins,
    member,      \* member[u]: the row that joins u to the organization
    job,         \* job[p]: what p is doing
    edits

vars == <<roles, sysadmins, member, job, edits>>

\* A member row is kept when it is deleted, with its capacity.
Member == [state : {"none", "active", "deleted"}, capacity : Capacities]
NoMember == [state |-> "none", capacity |-> "member"]

Idle == [pc |-> "idle", by |-> Nobody, user |-> Nobody, role |-> Viewer, had |-> NoMember]

TypeOK ==
    /\ roles \in [Processes -> Seq(AllNames)]
    /\ sysadmins \subseteq Users
    /\ member \in [Users -> Member]
    /\ \A p \in Processes :
         /\ job[p].pc \in {"idle", "remove", "promote", "add"}
         /\ job[p].role \in AllNames
    /\ edits \in 0..MaxEdits

Init ==
    /\ roles = [p \in Processes |-> Defaults]
    /\ sysadmins = FirstAdmins
    /\ member = [u \in Users |-> NoMember]
    /\ job = [p \in Processes |-> Idle]
    /\ edits = 0

-----------------------------------------------------------------------------
\* Process p serves the sysadmin a.
Serves(p, a) == job[p].pc = "idle" /\ a \in sysadmins

\* index: the role with a number gets a name, or a role is added.
Edit(p, a, name) ==
    /\ Serves(p, a)
    /\ edits < MaxEdits
    /\ \/ \E i \in DOMAIN roles[p] : roles' = [roles EXCEPT ![p][i] = name]
       \/ Len(roles[p]) < MaxRoles /\ roles' = [roles EXCEPT ![p] = Append(@, name)]
    /\ edits' = edits + 1
    /\ UNCHANGED <<sysadmins, member, job>>

\* The process is replaced by a new one.
Restart(p) ==
    /\ job[p].pc = "idle"
    /\ roles[p] # Defaults
    /\ roles' = [roles EXCEPT ![p] = Defaults]
    /\ UNCHANGED <<sysadmins, member, job, edits>>

\* update_user_role
UpdateUserRole(p, a, u, i) ==
    /\ Serves(p, a)
    /\ i \in DOMAIN roles[p]
    /\ sysadmins' = IF roles[p][i] = System THEN sysadmins \cup {u} ELSE sysadmins \ {u}
    /\ UNCHANGED <<roles, member, job, edits>>

\* update_user_org: the user's row is deleted; he becomes a sysadmin, if the
\* role says so; and a member with the capacity of the role.
UpdateUserOrg(p, a, u, i) ==
    /\ Serves(p, a)
    /\ i \in DOMAIN roles[p]
    /\ job' = [job EXCEPT ![p] = [pc |-> "remove", by |-> a, user |-> u,
                                  role |-> roles[p][i], had |-> member[u]]]
    /\ UNCHANGED <<roles, sysadmins, member, edits>>

\* May the user of the request still change the members of the organization?
Allowed(p) ==
    LET a == job[p].by
    IN  a \in sysadmins \/ (member[a].state = "active" /\ member[a].capacity = "admin")

\* organization_member_delete
RemoveMember(p) ==
    LET u == job[p].user
    IN  /\ job[p].pc = "remove"
        /\ IF Allowed(p)
           THEN /\ member' = IF member[u].state = "active"
                             THEN [member EXCEPT ![u].state = "deleted"] ELSE member
                /\ job' = [job EXCEPT ![p].pc = IF job[p].role = System THEN "promote" ELSE "add"]
           ELSE job' = [job EXCEPT ![p] = Idle] /\ UNCHANGED member
        /\ UNCHANGED <<roles, sysadmins, edits>>

Promote(p) ==
    /\ job[p].pc = "promote"
    /\ sysadmins' = sysadmins \cup {job[p].user}
    /\ job' = [job EXCEPT ![p].pc = "add"]
    /\ UNCHANGED <<roles, member, edits>>

\* member_create: a row that there is is used again, but not by an admin
\* for a lower capacity of his own.
Denied(p) ==
    LET u == job[p].user
    IN  \/ ~Allowed(p)
        \/ /\ u = job[p].by
           /\ member[u].state # "none"
           /\ member[u].capacity = "admin"
           /\ Capacity(job[p].role) # "admin"

\* Mutant of AddMember: a row that was deleted stays so.
AddMemberOnly(p) ==
    /\ job[p].pc = "add"
    /\ member' = IF Denied(p) THEN member
                 ELSE [member EXCEPT ![job[p].user] =
                         [state |-> IF @.state = "none" THEN "active" ELSE @.state,
                          capacity |-> Capacity(job[p].role)]]
    /\ job' = [job EXCEPT ![p] = Idle]
    /\ UNCHANGED <<roles, sysadmins, edits>>

AddMember(p) ==
    /\ job[p].pc = "add"
    /\ member' = IF Denied(p) THEN member
                 ELSE [member EXCEPT ![job[p].user] =
                         [state |-> "active", capacity |-> Capacity(job[p].role)]]
    /\ job' = [job EXCEPT ![p] = Idle]
    /\ UNCHANGED <<roles, sysadmins, edits>>

Next ==
    \E p \in Processes :
        \/ \E a \in Users, name \in AllNames : Edit(p, a, name)
        \/ Restart(p)
        \/ \E a, u \in Users, i \in DOMAIN roles[p] :
             UpdateUserRole(p, a, u, i) \/ UpdateUserOrg(p, a, u, i)
        \/ RemoveMember(p)
        \/ Promote(p)
        \/ AddMember(p)

Spec == Init /\ [][Next]_vars

-----------------------------------------------------------------------------
\* A user whose role in an organization is updated has the new one at the end,
\* or the one he had (update_user_org: "Kullanicinin organizasyon rolunu
\* gunceller", it updates the user's role in the organization).  It holds for
\* one process, and for whoever does not update his own role.
RoleUpdated ==
    [][\A p \in Processes :
         LET u == job[p].user
         IN  job[p].pc # "idle" /\ job'[p].pc = "idle" /\ u # job[p].by =>
               \/ member'[u] = job[p].had
               \/ member'[u] = [state |-> "active", capacity |-> Capacity(job[p].role)]]_vars
=============================================================================
