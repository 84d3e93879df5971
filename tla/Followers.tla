----------------------------- MODULE Followers -----------------------------
(***************************************************************************)
(* What users follow: the rows of three tables, for users, for datasets    *)
(* and for groups, organizations among them, and what a site tells of them *)
(* in lists, counts and buttons.                                           *)
(*                                                                         *)
(* Whatever is deleted disappears from all of these and comes back when it *)
(* is restored; its rows stay.                                             *)
(***************************************************************************)
EXTENDS Naturals, FiniteSets, Sequences, SequencesExt

CONSTANTS Workers, Users, Datasets, Groups, Organizations, None

Objects == Users \cup Datasets \cup Groups \cup Organizations

VARIABLES
    state,    \* state[o]: whether o is active, deleted or gone
    follows,  \* the rows <<follower, object>>
    job       \* job[w]: the row that a request of worker w will insert

vars == <<state, follows, job>>

TypeOK ==
    /\ state \in [Objects -> {"active", "deleted", "gone"}]
    /\ follows \subseteq Users \X Objects
    /\ job \in [Workers -> (Users \X Objects) \cup {None}]
    /\ \A f \in follows : "gone" \notin {state[f[1]], state[f[2]]} /\ f[1] # f[2]

Init ==
    /\ state = [o \in Objects |-> "active"]
    /\ follows = {}
    /\ job = [w \in Workers |-> None]

-----------------------------------------------------------------------------
(* What is told. *)

\* ModelFollowingModel._get: rows whose follower and object are not deleted.
Rows == {f \in follows : state[f[1]] # "deleted" /\ state[f[2]] # "deleted"}

\* The tables have a class each: the set of the objects it has rows for.
\* One class holds groups and organizations.
UserFollowingUser == Users
UserFollowingDataset == Datasets
UserFollowingGroup == Groups \cup Organizations

Followers(class, o) == {u \in Users : o \in class /\ <<u, o>> \in Rows}
Followees(class, u) == {o \in class : <<u, o>> \in Rows}

_am_following(class, u, o) == u \in Followers(class, o)
am_following_user(u, o) == _am_following(UserFollowingUser, u, o)
am_following_dataset(u, o) == _am_following(UserFollowingDataset, u, o)
am_following_group(u, o) == _am_following(UserFollowingGroup, u, o)

_follower_count(class, o) == Cardinality(Followers(class, o))
user_follower_count(o) == _follower_count(UserFollowingUser, o)
dataset_follower_count(o) == _follower_count(UserFollowingDataset, o)
group_follower_count(o) == _follower_count(UserFollowingGroup, o)
organization_follower_count(o) == group_follower_count(o)

_follower_list(class, o) == SetToSeq(Followers(class, o))
user_follower_list(o) == _follower_list(UserFollowingUser, o)
dataset_follower_list(o) == _follower_list(UserFollowingDataset, o)
group_follower_list(o) == _follower_list(UserFollowingGroup, o)
organization_follower_list(o) == _follower_list(UserFollowingGroup, o)

\* The lists of what u follows, one for each kind.
user_followee_list(u) == Followees(UserFollowingUser, u)
dataset_followee_list(u) == Followees(UserFollowingDataset, u)

\* Mutant of _group_or_org_followee_list: groups and organizations alike.
AnyGroups(u, is_org) == Followees(UserFollowingGroup, u)

_group_or_org_followee_list(u, is_org) ==
    {o \in Followees(UserFollowingGroup, u) : is_org <=> o \in Organizations}

group_followee_list(u) == _group_or_org_followee_list(u, FALSE)
organization_followee_list(u) == _group_or_org_followee_list(u, TRUE)

\* followee_list: the four lists one after another.
followee_list(u) ==
    SetToSeq(user_followee_list(u)) \o SetToSeq(dataset_followee_list(u))
      \o SetToSeq(group_followee_list(u)) \o SetToSeq(organization_followee_list(u))

\* _followee_count of the rows of a class: the class is not looked at.
_followee_count(u, class, is_org) == Cardinality(_group_or_org_followee_list(u, is_org))

user_followee_count(u) == _followee_count(u, UserFollowingUser, FALSE)
dataset_followee_count(u) == _followee_count(u, UserFollowingDataset, FALSE)
group_followee_count(u) == _followee_count(u, UserFollowingGroup, FALSE)
organization_followee_count(u) == _followee_count(u, UserFollowingGroup, TRUE)
followee_count(u) ==
    _followee_count(u, UserFollowingUser, FALSE)
      + _followee_count(u, UserFollowingDataset, FALSE)
      + _followee_count(u, UserFollowingGroup, FALSE)

-----------------------------------------------------------------------------
(* Requests. *)

\* The object is found, of whatever state, and no row.  A user whom somebody
\* deletes is logged out.
Follow(w, class, u, o) ==
    /\ job[w] = None
    /\ o \in class
    /\ state[u] = "active" /\ state[o] # "gone"
    /\ ~_am_following(class, u, o)
    /\ job' = [job EXCEPT ![w] = <<u, o>>]
    /\ UNCHANGED <<state, follows>>

follow_user(w, u, o) == u # o /\ Follow(w, UserFollowingUser, u, o)
follow_dataset(w, u, o) == Follow(w, UserFollowingDataset, u, o)
follow_group(w, u, o) == Follow(w, UserFollowingGroup, u, o)

\* The row is inserted, unless the key is taken by a row that was hidden or
\* was inserted meanwhile, or the object is gone: the request fails.
follower_dict_save(w) ==
    /\ job[w] # None
    /\ follows' = IF state[job[w][2]] = "gone" THEN follows ELSE follows \cup {job[w]}
    /\ job' = [job EXCEPT ![w] = None]
    /\ UNCHANGED state

\* Of what is deleted no row is found.
_unfollow(class, u, o) ==
    /\ state[u] = "active"
    /\ _am_following(class, u, o)
    /\ follows' = follows \ {<<u, o>>}
    /\ UNCHANGED <<state, job>>

unfollow_user(u, o) == _unfollow(UserFollowingUser, u, o)
unfollow_dataset(u, o) == _unfollow(UserFollowingDataset, u, o)
unfollow_group(u, o) == _unfollow(UserFollowingGroup, u, o)

\* user_delete, package_delete, group_delete, and the updates that restore.
SetState(o, s) ==
    /\ s = "deleted" => state[o] = "active"
    /\ s = "active" => state[o] = "deleted"
    /\ state' = [state EXCEPT ![o] = s]
    /\ UNCHANGED <<follows, job>>

\* dataset_purge and group_purge: the rows go with the object.  Users are not
\* purged.
Purge(o) ==
    /\ o \notin Users /\ state[o] # "gone"
    /\ state' = [state EXCEPT ![o] = "gone"]
    /\ follows' = {f \in follows : f[2] # o}
    /\ UNCHANGED job

Next ==
    \/ \E w \in Workers :
         \/ \E u \in Users, o \in Objects :
              follow_user(w, u, o) \/ follow_dataset(w, u, o) \/ follow_group(w, u, o)
         \/ follower_dict_save(w)
    \/ \E u \in Users, o \in Objects :
         unfollow_user(u, o) \/ unfollow_dataset(u, o) \/ unfollow_group(u, o)
    \/ \E o \in Objects, s \in {"active", "deleted"} : SetState(o, s)
    \/ \E o \in Objects : Purge(o)

Spec == Init /\ [][Next]_vars

-----------------------------------------------------------------------------
(* Properties. *)

\* The button to follow, the followers of an object and the list of what a user follows
\* tell the same, the list names nothing twice, and followers are counted
\* right.
FollowersAgree ==
    \A u \in Users : LET list == followee_list(u) IN
       /\ IsInjective(list)
       /\ \A o \in Objects :
            o \in ToSet(list) <=>
              am_following_user(u, o) \/ am_following_dataset(u, o) \/ am_following_group(u, o)
       /\ \A o \in Users : am_following_user(u, o) <=> u \in ToSet(user_follower_list(o))
       /\ \A o \in Datasets : am_following_dataset(u, o) <=> u \in ToSet(dataset_follower_list(o))
       /\ \A o \in Groups : am_following_group(u, o) <=> u \in ToSet(group_follower_list(o))
       /\ \A o \in Organizations :
            /\ am_following_group(u, o) <=> u \in ToSet(organization_follower_list(o))
            /\ organization_follower_count(o) = Len(organization_follower_list(o))
       /\ \A o \in Objects :
            user_follower_count(o) + dataset_follower_count(o) + group_follower_count(o)
              = Cardinality({f \in Rows : f[2] = o})
       /\ group_followee_count(u) = Cardinality(group_followee_list(u))
       /\ organization_followee_count(u) = Cardinality(organization_followee_list(u))

\* A user who was deleted and is restored, or something that is, is followed
\* as before: only unfollowing and purging end it (an action).
FollowingLasts ==
    \A f \in follows :
       f \in follows' \/ state'[f[2]] = "gone" \/ (f \in Rows /\ state' = state)

\* "the number of users that are followed by the given user"
FolloweesCounted ==
    \A u \in Users :
       /\ user_followee_count(u) = Cardinality(user_followee_list(u))
       /\ dataset_followee_count(u) = Cardinality(dataset_followee_list(u))
       /\ followee_count(u) = Len(followee_list(u))
=============================================================================
