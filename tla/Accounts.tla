------------------------------ MODULE Accounts ------------------------------
(***************************************************************************)
(* User accounts: signing up, invitations, links that reset a password.    *)
(*                                                                         *)
(* A web process saves an account in several transactions and sends mail   *)
(* between them.  Its database session keeps an account as it was when it  *)
(* was first read, until the session is removed: objects that were read    *)
(* before that are not saved any more.                                     *)
(***************************************************************************)
EXTENDS Naturals, FiniteSets

CONSTANTS
    Workers,   \* web processes
    Accounts,  \* rows of the table user
    Emails,
    Alone,     \* kinds of requests that no other request runs with
    MaxKeys,   \* bound: how many reset keys are made
    Absent

VARIABLES
    acct,     \* acct[u]: the row of account u
    job,      \* job[w]: what process w is doing
    keys,     \* the number of reset keys that were made
    mailed,   \* pairs <<u, k>>: key k was mailed to account u
    spent,    \* the keys that set a password
    cut,      \* accounts on which a process worked that died
    refused   \* accounts that an inviter was not allowed to delete

vars == <<acct, job, keys, mailed, spent, cut, refused>>

Kinds == {"save", "invite", "reset", "perform", "delete"}

ASSUME AloneAssumption == Alone \subseteq Kinds
ASSUME AbsentAssumption == Absent \notin Accounts
ASSUME MaxKeysAssumption == MaxKeys \in Nat

Idle == [pc |-> "idle", kind |-> "save", todo |-> {}, user |-> Absent, key |-> 0,
         row |-> Absent, fresh |-> TRUE, admin |-> FALSE]

None == [state |-> "none", email |-> Absent, key |-> 0]

Rows == [state : {"none", "pending", "active", "deleted"},
         email : Emails \cup {Absent}, key : 0..MaxKeys]

Jobs == [pc : {"idle", "save", "invite", "invited", "inviting", "reset",
               "mail", "perform", "activate", "rekey"},
         kind : Kinds, todo : SUBSET Accounts, user : Accounts \cup {Absent},
         key : 0..MaxKeys, row : Rows \cup {Absent}, fresh : BOOLEAN, admin : BOOLEAN]

TypeOK ==
    /\ acct \in [Accounts -> Rows]
    /\ job \in [Workers -> Jobs]
    /\ keys \in 0..MaxKeys
    /\ mailed \subseteq Accounts \X (1..keys)
    /\ spent \subseteq {m[2] : m \in mailed}
    /\ cut \subseteq Accounts
    /\ refused \subseteq Accounts
    /\ \A u \in Accounts : acct[u].key <= keys

Init ==
    /\ acct = [u \in Accounts |-> None]
    /\ job = [w \in Workers |-> Idle]
    /\ keys = 0
    /\ mailed = {}
    /\ spent = {}
    /\ cut = {}
    /\ refused = {}

-----------------------------------------------------------------------------
Busy == {w \in Workers : job[w].pc # "idle"}

\* A request of a kind may start.
Free(kind) ==
    /\ \A w \in Busy : job[w].kind \notin Alone
    /\ kind \in Alone => Busy = {}

Start(w, kind, pc, j) ==
    /\ job[w].pc = "idle"
    /\ Free(kind)
    /\ job' = [job EXCEPT ![w] = [j EXCEPT !.kind = kind, !.pc = pc]]

Goto(w, pc) == job' = [job EXCEPT ![w].pc = pc]
Finish(w) == job' = [job EXCEPT ![w] = Idle]

\* email_is_unique, for an account u.
Taken(u, e) == \E v \in Accounts \ {u} : acct[v].state = "active" /\ acct[v].email = e

\* The index idx_only_one_active_email refuses to commit the row.
Refuses(u, row) == row.state = "active" /\ Taken(u, row.email)

-----------------------------------------------------------------------------
(* user_create and user_update: an account signs up or has another email,  *)
(* or a sysadmin makes a deleted account active.                           *)

\* An account that does not exist: every request makes one of its own.
New(u) == acct[u].state = "none" /\ \A w \in Workers : job[w].user # u

Validate(w, u, row) ==
    /\ ~Taken(u, row.email)
    /\ Start(w, "save", "save", [Idle EXCEPT !.user = u, !.row = row])
    /\ UNCHANGED <<acct, keys, mailed, spent, cut, refused>>

SignUp(w, u, e) ==
    /\ New(u)
    /\ Validate(w, u, [state |-> "active", email |-> e, key |-> 0])

ChangeEmail(w, u, e) ==
    /\ acct[u].state = "active" /\ acct[u].email # e
    /\ Validate(w, u, [acct[u] EXCEPT !.email = e])

Restore(w, u) ==
    /\ acct[u].state = "deleted"
    /\ Validate(w, u, [acct[u] EXCEPT !.state = "active"])

\* The session writes the columns that it changed: a concurrent change of
\* another column stays.  guard_against_duplicated_email turns the refusal
\* into an error.
Written(u, row) ==
    IF acct[u].state = "none" THEN row
    ELSE IF row.email = acct[u].email THEN [acct[u] EXCEPT !.state = row.state]
    ELSE [acct[u] EXCEPT !.email = row.email]

Save(w) ==
    LET j == job[w] IN
    /\ j.pc = "save"
    /\ acct' = IF Refuses(j.user, Written(j.user, j.row)) THEN acct
               ELSE [acct EXCEPT ![j.user] = Written(j.user, j.row)]
    /\ Finish(w)
    /\ UNCHANGED <<keys, mailed, spent, cut, refused>>

\* user_delete, by a sysadmin.
UserDelete(u) ==
    /\ Free("delete")
    /\ acct[u].state \in {"pending", "active"}
    /\ acct' = [acct EXCEPT ![u].state = "deleted"]
    /\ UNCHANGED <<job, keys, mailed, spent, cut, refused>>

-----------------------------------------------------------------------------
(* user_invite, by a sysadmin or by an admin of the group. *)

Invite(w, u, e, admin) ==
    /\ New(u)
    /\ ~Taken(u, e)
    /\ Start(w, "invite", "invite",
             [Idle EXCEPT !.user = u, !.admin = admin,
                          !.row = [state |-> "pending", email |-> e, key |-> 0]])
    /\ UNCHANGED <<acct, keys, mailed, spent, cut, refused>>

InviteCreate(w) ==
    LET j == job[w] IN
    /\ j.pc = "invite"
    /\ acct' = [acct EXCEPT ![j.user] = j.row]
    /\ Goto(w, "invited")
    /\ UNCHANGED <<keys, mailed, spent, cut, refused>>

\* make_key, for account u in process w.
NewKey(w, u, pc) ==
    /\ keys < MaxKeys
    /\ keys' = keys + 1
    /\ job' = [job EXCEPT ![w].user = u, ![w].key = keys + 1, ![w].pc = pc]

\* create_reset_key
InviteKey(w) ==
    LET j == job[w] IN
    /\ j.pc = "invited"
    /\ NewKey(w, j.user, "inviting")
    /\ acct' = [acct EXCEPT ![j.user].key = keys + 1]
    /\ UNCHANGED <<mailed, spent, cut, refused>>

InviteSent(w) ==
    /\ job[w].pc = "inviting"
    /\ mailed' = mailed \cup {<<job[w].user, job[w].key>>}
    /\ Finish(w)
    /\ UNCHANGED <<acct, keys, spent, cut, refused>>

\* Mutant of InviteFails: the account stays.
InviteFailsOnly(w) ==
    /\ job[w].pc = "inviting"
    /\ Finish(w)
    /\ UNCHANGED <<acct, keys, mailed, spent, cut, refused>>

\* The account is deleted again, by user_delete, which only a sysadmin may
\* call: anybody else gets NotAuthorized, and the account stays.
InviteFails(w) ==
    LET j == job[w] IN
    /\ j.pc = "inviting"
    /\ IF j.admin
       THEN /\ acct' = [acct EXCEPT ![j.user].state = "deleted"]
            /\ UNCHANGED refused
       ELSE refused' = refused \cup {j.user} /\ UNCHANGED acct
    /\ Finish(w)
    /\ UNCHANGED <<keys, mailed, spent, cut>>

-----------------------------------------------------------------------------
(* RequestResetView *)

\* By email: every account that is not deleted.
RequestReset(w, e) ==
    LET found == {u \in Accounts : acct[u].state \in {"pending", "active"}
                                     /\ acct[u].email = e} IN
    /\ found # {}
    /\ Start(w, "reset", "reset", [Idle EXCEPT !.todo = found])
    /\ UNCHANGED <<acct, keys, mailed, spent, cut, refused>>

RequestResetByName(w, u) ==
    /\ acct[u].state # "none"
    /\ Start(w, "reset", "reset", [Idle EXCEPT !.todo = {u}])
    /\ UNCHANGED <<acct, keys, mailed, spent, cut, refused>>

\* create_reset_key commits and removes the session: the accounts that follow
\* were read in the session that is gone, and their keys are not saved.
SendKey(w, u) ==
    LET j == job[w] IN
    /\ j.pc = "reset" /\ u \in j.todo
    /\ keys < MaxKeys
    /\ keys' = keys + 1
    /\ job' = [job EXCEPT ![w] = [j EXCEPT !.user = u, !.key = keys + 1, !.pc = "mail",
                                           !.todo = j.todo \ {u}, !.fresh = FALSE]]
    /\ acct' = IF j.fresh THEN [acct EXCEPT ![u].key = keys + 1] ELSE acct
    /\ UNCHANGED <<mailed, spent, cut, refused>>

ResetSent(w) ==
    /\ job[w].pc = "mail"
    /\ mailed' = mailed \cup {<<job[w].user, job[w].key>>}
    /\ IF job[w].todo = {} THEN Finish(w) ELSE Goto(w, "reset")
    /\ UNCHANGED <<acct, keys, spent, cut, refused>>

\* The accounts that follow get no mail.
ResetFails(w) ==
    /\ job[w].pc = "mail"
    /\ Finish(w)
    /\ UNCHANGED <<acct, keys, mailed, spent, cut, refused>>

-----------------------------------------------------------------------------
(* PerformResetView *)

\* Mutant of Perform: of accounts that are deleted too.
PerformDeleted(w, u, k) ==
    /\ <<u, k>> \in mailed
    /\ acct[u].key = k
    /\ Start(w, "perform", "perform",
             [Idle EXCEPT !.user = u, !.key = k, !.row = [acct[u] EXCEPT !.state = "pending"]])
    /\ UNCHANGED <<acct, keys, mailed, spent, cut, refused>>

\* Mutant of Perform: no key opens an account that has none.
PerformEmpty(w, u, k) ==
    /\ acct[u].state \in {"pending", "active"} /\ acct[u].key = 0
    /\ Start(w, "perform", "perform", [Idle EXCEPT !.user = u, !.row = acct[u]])
    /\ UNCHANGED <<acct, keys, mailed, spent, cut, refused>>

\* verify_reset_link; the row is what the session keeps.
Perform(w, u, k) ==
    /\ <<u, k>> \in mailed
    /\ acct[u].key = k
    /\ acct[u].state # "deleted"
    /\ Start(w, "perform", "perform", [Idle EXCEPT !.user = u, !.key = k, !.row = acct[u]])
    /\ UNCHANGED <<acct, keys, mailed, spent, cut, refused>>

\* user_update sets the password.
PerformUpdate(w) ==
    LET j == job[w] IN
    /\ j.pc = "perform"
    /\ IF Taken(j.user, j.row.email)
       THEN Finish(w) /\ UNCHANGED spent
       ELSE /\ Goto(w, IF j.row.state = "pending" THEN "activate" ELSE "rekey")
            /\ spent' = spent \cup {j.key}
    /\ UNCHANGED <<acct, keys, mailed, cut, refused>>

\* user_patch, as the site user.
Activate(w) ==
    LET j == job[w]
        row == [acct[j.user] EXCEPT !.state = "active"] IN
    /\ j.pc = "activate"
    /\ IF Taken(j.user, j.row.email) \/ Refuses(j.user, row)
       THEN Finish(w) /\ UNCHANGED acct
       ELSE Goto(w, "rekey") /\ acct' = [acct EXCEPT ![j.user] = row]
    /\ UNCHANGED <<keys, mailed, spent, cut, refused>>

\* Mutant of Rekey: the key stays.
RekeyNot(w) ==
    /\ job[w].pc = "rekey"
    /\ Finish(w)
    /\ UNCHANGED <<acct, keys, mailed, spent, cut, refused>>

\* create_reset_key: the link that was used does not work again.
Rekey(w) ==
    /\ job[w].pc = "rekey"
    /\ keys < MaxKeys
    /\ keys' = keys + 1
    /\ acct' = [acct EXCEPT ![job[w].user].key = keys + 1]
    /\ Finish(w)
    /\ UNCHANGED <<mailed, spent, cut, refused>>

-----------------------------------------------------------------------------
\* A process dies between two transactions.
Die(w) ==
    /\ w \in Busy
    /\ cut' = cut \cup ({job[w].user} \cap Accounts)
    /\ Finish(w)
    /\ UNCHANGED <<acct, keys, mailed, spent, refused>>

Step(w) ==
    \/ Save(w) \/ InviteCreate(w) \/ InviteKey(w) \/ InviteSent(w) \/ InviteFails(w)
    \/ \E u \in Accounts : SendKey(w, u)
    \/ ResetSent(w) \/ ResetFails(w)
    \/ PerformUpdate(w) \/ Activate(w) \/ Rekey(w)

Request(w) ==
    \/ \E u \in Accounts :
         \/ \E e \in Emails :
              \/ SignUp(w, u, e)
              \/ ChangeEmail(w, u, e)
              \/ \E admin \in BOOLEAN : Invite(w, u, e, admin)
         \/ Restore(w, u)
         \/ RequestResetByName(w, u)
         \/ \E k \in 1..keys : Perform(w, u, k)
    \/ \E e \in Emails : RequestReset(w, e)

Next ==
    \/ \E w \in Workers : Step(w) \/ Request(w) \/ Die(w)
    \/ \E u \in Accounts : UserDelete(u)

Spec == Init /\ [][Next]_vars

-----------------------------------------------------------------------------
(* Properties. *)

\* Two active accounts never have one email, although the requests that save
\* them look for it before others have committed.
OneActivePerEmail ==
    \A u, v \in Accounts :
        (acct[u].state = "active" /\ acct[v].state = "active"
           /\ acct[u].email = acct[v].email) => u = v

\* When an invitation cannot be mailed the account is deleted again, if the
\* inviter may delete accounts: no other pending account is without a link.
InviteUndone ==
    \A u \in Accounts \ (cut \cup refused) :
        acct[u].state = "pending" =>
            \/ \E m \in mailed : m[1] = u
            \/ \E w \in Workers : job[w].user = u

\* Nothing but a sysadmin's request makes a deleted account active again.
DeletedStays ==
    \A u \in Accounts :
       acct[u].state = "deleted" =>
          \/ acct'[u].state = "deleted"
          \/ \E w \in Workers : job[w].pc = "save" /\ job[w].user = u

\* A link sets a password once.
LinkSpentOnce ==
    \A w \in Workers :
       (job[w].pc = "perform" /\ job'[w].pc \in {"activate", "rekey"}
          /\ job[w].user \notin cut) => job[w].key \notin spent

\* A deleted account stays deleted unless a sysadmin restores it, a link sets
\* a password once, an account for an invitation that could not be mailed does
\* not stay, and no two active accounts have one email.
AccountsKept ==
    /\ [][DeletedStays /\ LinkSpentOnce]_vars
    /\ [](InviteUndone /\ OneActivePerEmail)

\* The key of every link that was mailed was saved: it opens the account
\* unless a later key has taken its place.
LinksSaved == \A m \in mailed : acct[m[1]].key >= m[2]
=============================================================================
