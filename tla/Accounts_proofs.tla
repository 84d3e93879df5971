--------------------------- MODULE Accounts_proofs ---------------------------
(***************************************************************************)
(* For any number of web processes, accounts and emails, when nothing else *)
(* runs while a link is used: deleted accounts stay deleted, a link sets   *)
(* one password, and no invitation leaves an account that nobody can open. *)
(***************************************************************************)
EXTENDS MCAccess, TLAPS

\* The steps of PerformResetView.
Performing == {"perform", "activate", "rekey"}

\* What a process knows of the account that it works on.
JobOK(w) ==
    LET j == job[w] IN
    /\ j.pc \notin {"idle", "reset"} => j.user \in Accounts
    /\ \A u \in j.todo : acct[u].state # "none"
    /\ j.pc \in {"invited", "inviting", "mail"} => acct[j.user].state # "none"
    /\ j.pc \in {"inviting", "mail"} => j.key \in 1..keys
    /\ j.pc = "save" =>
         /\ j.row \in Rows /\ j.row.state = "active"
         /\ acct[j.user].state = "none" => j.row.key = 0
    /\ j.pc = "invite" =>
         /\ j.row \in Rows /\ j.row.state = "pending" /\ j.row.key = 0
         /\ acct[j.user].state = "none"
    /\ j.pc \in Performing =>
         /\ j.kind = "perform"
         /\ acct[j.user].state \in {"pending", "active"}
    /\ j.pc \in {"perform", "activate"} => j.row = acct[j.user]
    /\ j.pc = "perform" => j.key = acct[j.user].key /\ <<j.user, j.key>> \in mailed
    /\ j.pc = "activate" => ~Taken(j.user, j.row.email)

AllJobsOK == \A w \in Workers : JobOK(w)

\* While a link is used nothing else runs.
PerformsAlone ==
    \A w, v \in Workers :
        (job[w].pc # "idle" /\ job[v].pc # "idle" /\ job[w].kind = "perform") => v = w

\* Nobody else works on an account that is about to be made.
Inviting ==
    \A w, v \in Workers : job[w].pc = "invite" /\ v # w => job[v].user # job[w].user

\* Every key is of one account.
KeysDiffer ==
    /\ \A u \in Accounts : acct[u].state = "none" => acct[u].key = 0
    /\ \A u, v \in Accounts : acct[u].key = acct[v].key => u = v \/ acct[u].key = 0

\* The link of an account has set no password, but while its key is replaced.
Unspent ==
    \A u \in Accounts \ cut :
        acct[u].key \in spent =>
            \E w \in Workers : job[w].pc \in {"activate", "rekey"} /\ job[w].user = u

\* A pending account has a link, or is about to get one.
Invited ==
    \A u \in Accounts \ (cut \cup refused) :
        acct[u].state = "pending" =>
            \/ \E m \in mailed : m[1] = u
            \/ \E w \in Workers : job[w].pc \in {"invited", "inviting"} /\ job[w].user = u

IInv == /\ TypeOK /\ AllJobsOK /\ PerformsAlone /\ Inviting /\ KeysDiffer
        /\ Unspent /\ Invited /\ OneActivePerEmail

-----------------------------------------------------------------------------
(* One process at a time. *)

\* Nobody uses a link while another process takes a step,
LEMMA BusyAlone ==
    ASSUME AllJobsOK, PerformsAlone, NEW w \in Workers, job[w].pc # "idle",
           NEW v \in Workers \ {w}
    PROVE  job[v].pc \notin Performing
  BY DEF AllJobsOK, JobOK, PerformsAlone, Performing

\* or a request starts.
LEMMA FreeAlone ==
    ASSUME "perform" \in Alone, AllJobsOK, NEW kind, Free(kind), NEW v \in Workers
    PROVE  job[v].pc \notin Performing
  BY DEF AllJobsOK, JobOK, Performing, Free, Busy

\* What the other processes know stays true when process w takes a step.
LEMMA JobsStep ==
    ASSUME TypeOK, TypeOK', AllJobsOK, NEW w \in Workers, NEW j,
           job' = [job EXCEPT ![w] = j],
           \A u \in Accounts : acct[u].state # "none" => acct'[u].state # "none",
           \A v \in Workers \ {w} :
              /\ job[v].pc \notin Performing
              /\ job[v].pc = "invite" => acct'[job[v].user] = acct[job[v].user],
           keys' >= keys,
           JobOK(w)'
    PROVE  AllJobsOK'
  <1> SUFFICES ASSUME NEW v \in Workers, v # w
               PROVE  JobOK(v)'
    BY DEF AllJobsOK
  <1>1. job'[v] = job[v] /\ job[v] \in Jobs /\ JobOK(v)
    BY DEF TypeOK, AllJobsOK
  <1>2. keys \in Nat /\ keys' \in Nat /\ keys' >= keys
    BY MaxKeysAssumption DEF TypeOK
  <1>3. job[v].key \in 1..keys => job[v].key \in 1..keys'
    BY <1>2
  <1>4. \A u \in job[v].todo : u \in Accounts
    BY <1>1 DEF Jobs
  <1>5. job[v].pc \notin Performing
    OBVIOUS
  <1>. QED  BY <1>1, <1>3, <1>4, <1>5 DEF JobOK, Performing

\* A process that goes on, or ends, stays alone if it was.
LEMMA GoesOn ==
    ASSUME TypeOK, PerformsAlone, Inviting, NEW w \in Workers, NEW j,
           job' = [job EXCEPT ![w] = j],
           j.pc # "idle" => job[w].pc # "idle" /\ j.kind = job[w].kind,
           j.pc # "invite",
           \A v \in Workers \ {w} : job[v].pc = "invite" => j.user # job[v].user
    PROVE  PerformsAlone' /\ Inviting'
  <1>1. /\ job'[w] = j
        /\ \A v \in Workers \ {w} : job'[v] = job[v]
    BY DEF TypeOK
  <1>2. PerformsAlone'
    BY <1>1 DEF PerformsAlone
  <1>3. Inviting'
    BY <1>1 DEF Inviting
  <1>. QED  BY <1>2, <1>3

\* A request that starts is alone if its kind is.
LEMMA Starts ==
    ASSUME "perform" \in Alone, TypeOK, PerformsAlone, Inviting, NEW w \in Workers, NEW kind, NEW j,
           Free(kind), j.kind = kind, job[w].pc = "idle",
           job' = [job EXCEPT ![w] = j],
           \A v \in Workers \ {w} : job[v].pc = "invite" => j.user # job[v].user,
           j.pc = "invite" => \A v \in Workers : job[v].user # j.user
    PROVE  PerformsAlone' /\ Inviting'
  <1>1. /\ job'[w] = j
        /\ \A v \in Workers \ {w} : job'[v] = job[v]
    BY DEF TypeOK
  <1>2. PerformsAlone'
    BY <1>1 DEF PerformsAlone, Free, Busy
  <1>3. Inviting'
    BY <1>1 DEF Inviting
  <1>. QED  BY <1>2, <1>3

\* What IInv says of the rows of accounts, and of keys.
Rest == KeysDiffer /\ Unspent /\ Invited /\ OneActivePerEmail

LEMMA IdleOK ==
    /\ Idle.pc = "idle" /\ Idle.kind = "save" /\ Idle.todo = {} /\ Idle.user = Absent
    /\ Idle \in Jobs
  BY MaxKeysAssumption DEF Idle, Jobs, Kinds

\* A request that starts changes nothing but the process.
LEMMA RestKept ==
    ASSUME TypeOK, AllJobsOK, Rest, NEW w \in Workers, NEW j, job[w].pc = "idle",
           job' = [job EXCEPT ![w] = j],
           UNCHANGED <<acct, keys, mailed, spent, cut, refused>>
    PROVE  Rest'
  <1>1. \A v \in Workers : job[v].pc # "idle" => job'[v] = job[v]
    BY DEF TypeOK
  <1>2. Unspent'
    BY <1>1 DEF Rest, Unspent
  <1>3. Invited'
    BY <1>1 DEF Rest, Invited
  <1>. QED  BY <1>2, <1>3 DEF Rest, KeysDiffer, OneActivePerEmail

LEMMA StartStep ==
    ASSUME "perform" \in Alone, IInv, NEW w \in Workers, NEW kind \in Kinds, NEW pc, NEW j0,
           Start(w, kind, pc, j0),
           UNCHANGED <<acct, keys, mailed, spent, cut, refused>>,
           [j0 EXCEPT !.kind = kind, !.pc = pc] \in Jobs,
           j0.user # Absent => (acct[j0.user].state # "none" \/ New(j0.user)),
           pc = "invite" => New(j0.user),
           JobOK(w)'
    PROVE  IInv'
  <1>. DEFINE j == [j0 EXCEPT !.kind = kind, !.pc = pc]
  <1>1. /\ job[w].pc = "idle" /\ Free(kind)
        /\ job' = [job EXCEPT ![w] = j]
    BY DEF Start
  <1>2. TypeOK'
    BY <1>1 DEF IInv, TypeOK
  <1>3. \A v \in Workers : job[v].pc \notin Performing
    BY <1>1, FreeAlone DEF IInv
  <1>4. AllJobsOK'
    <2>1. keys' >= keys
      BY MaxKeysAssumption DEF IInv, TypeOK
    <2>. QED  BY <1>1, <1>2, <1>3, <2>1, JobsStep DEF IInv
  <1>5. j \in Jobs /\ j.kind = kind /\ j.pc = pc /\ j.user = j0.user
    BY DEF Jobs
  <1>. HIDE DEF j
  <1>6. ASSUME NEW v \in Workers \ {w}, job[v].pc = "invite"
        PROVE  j.user # job[v].user
    <2>1. job[v].user \in Accounts /\ acct[job[v].user].state = "none"
      BY <1>6 DEF IInv, AllJobsOK, JobOK
    <2>. QED  BY <2>1, <1>5, AbsentAssumption DEF New
  <1>7. PerformsAlone' /\ Inviting'
    <2>1. j.pc = "invite" => \A v \in Workers : job[v].user # j.user
      BY <1>5 DEF New
    <2>. QED  BY <1>1, <1>5, <1>6, <2>1, Starts DEF IInv
  <1>8. Rest'
    BY <1>1, RestKept DEF IInv, Rest
  <1>. QED  BY <1>2, <1>4, <1>7, <1>8 DEF IInv, Rest

LEMMA ValidateStep ==
    ASSUME "perform" \in Alone, IInv, NEW w \in Workers, NEW u \in Accounts, NEW row \in Rows,
           row.state = "active", acct[u].state = "none" => row.key = 0 /\ New(u),
           Validate(w, u, row)
    PROVE  IInv'
  <1>. DEFINE j0 == [Idle EXCEPT !.user = u, !.row = row]
              j == [j0 EXCEPT !.kind = "save", !.pc = "save"]
  <1>1. j0 \in Jobs /\ j0.user = u /\ j0.row = row /\ j0.todo = {}
    BY IdleOK DEF Jobs
  <1>2. Start(w, "save", "save", j0) /\ UNCHANGED <<acct, keys, mailed, spent, cut, refused>>
    BY DEF Validate
  <1>. HIDE DEF j0
  <1>3. j \in Jobs /\ j.pc = "save" /\ j.user = u /\ j.row = row /\ j.todo = {}
    BY <1>1 DEF Jobs, Kinds
  <1>4. job'[w] = j
    BY <1>2 DEF Start, IInv, TypeOK
  <1>. HIDE DEF j
  <1>5. JobOK(w)'
    BY <1>2, <1>3, <1>4 DEF JobOK, Performing
  <1>. QED  BY <1>1, <1>2, <1>3, <1>5, StartStep DEF Kinds, j

LEMMA SignUpStep ==
    ASSUME "perform" \in Alone, IInv, NEW w \in Workers, NEW u \in Accounts, NEW e \in Emails,
           SignUp(w, u, e)
    PROVE  IInv'
  <1>. DEFINE row == [state |-> "active", email |-> e, key |-> 0]
  <1>1. row \in Rows /\ row.state = "active" /\ row.key = 0
    BY MaxKeysAssumption DEF Rows
  <1>2. Validate(w, u, row) /\ New(u)
    BY DEF SignUp
  <1>. HIDE DEF row
  <1>. QED  BY <1>1, <1>2, ValidateStep

LEMMA ChangeEmailStep ==
    ASSUME "perform" \in Alone, IInv, NEW w \in Workers, NEW u \in Accounts, NEW e \in Emails,
           ChangeEmail(w, u, e)
    PROVE  IInv'
  <1>. DEFINE row == [acct[u] EXCEPT !.email = e]
  <1>1. acct[u] \in Rows /\ acct[u].state = "active"
    BY DEF IInv, TypeOK, ChangeEmail
  <1>2. row \in Rows /\ row.state = "active"
    BY <1>1 DEF Rows
  <1>3. Validate(w, u, row)
    BY DEF ChangeEmail
  <1>. HIDE DEF row
  <1>. QED  BY <1>1, <1>2, <1>3, ValidateStep

LEMMA RestoreStep ==
    ASSUME "perform" \in Alone, IInv, NEW w \in Workers, NEW u \in Accounts, Restore(w, u)
    PROVE  IInv'
  <1>. DEFINE row == [acct[u] EXCEPT !.state = "active"]
  <1>1. acct[u] \in Rows /\ acct[u].state = "deleted"
    BY DEF IInv, TypeOK, Restore
  <1>2. row \in Rows /\ row.state = "active"
    BY <1>1 DEF Rows
  <1>3. Validate(w, u, row)
    BY DEF Restore
  <1>. HIDE DEF row
  <1>. QED  BY <1>1, <1>2, <1>3, ValidateStep

LEMMA InviteStep ==
    ASSUME "perform" \in Alone, IInv, NEW w \in Workers, NEW u \in Accounts, NEW e \in Emails,
           NEW admin \in BOOLEAN, Invite(w, u, e, admin)
    PROVE  IInv'
  <1>. DEFINE row == [state |-> "pending", email |-> e, key |-> 0]
              j0 == [Idle EXCEPT !.user = u, !.admin = admin, !.row = row]
              j == [j0 EXCEPT !.kind = "invite", !.pc = "invite"]
  <1>1. row \in Rows /\ row.state = "pending" /\ row.key = 0
    BY MaxKeysAssumption DEF Rows
  <1>2. Start(w, "invite", "invite", j0) /\ UNCHANGED <<acct, keys, mailed, spent, cut, refused>>
    BY DEF Invite
  <1>3. New(u)
    BY DEF Invite
  <1>. HIDE DEF row
  <1>4. j0 \in Jobs /\ j0.user = u /\ j0.row = row /\ j0.todo = {}
    BY <1>1, IdleOK DEF Jobs
  <1>. HIDE DEF j0
  <1>5. j \in Jobs /\ j.pc = "invite" /\ j.user = u /\ j.row = row /\ j.todo = {}
    BY <1>4 DEF Jobs, Kinds
  <1>6. job'[w] = j
    BY <1>2 DEF Start, IInv, TypeOK
  <1>. HIDE DEF j
  <1>7. JobOK(w)'
    BY <1>1, <1>2, <1>3, <1>5, <1>6 DEF JobOK, Performing, New
  <1>. QED  BY <1>2, <1>3, <1>4, <1>5, <1>7, StartStep DEF Kinds, j

LEMMA RequestResetStep ==
    ASSUME "perform" \in Alone, IInv, NEW w \in Workers, NEW found \in SUBSET Accounts,
           \A u \in found : acct[u].state # "none",
           Start(w, "reset", "reset", [Idle EXCEPT !.todo = found]),
           UNCHANGED <<acct, keys, mailed, spent, cut, refused>>
    PROVE  IInv'
  <1>. DEFINE j0 == [Idle EXCEPT !.todo = found]
              j == [j0 EXCEPT !.kind = "reset", !.pc = "reset"]
  <1>1. j0 \in Jobs /\ j0.user = Absent /\ j0.todo = found
    BY IdleOK DEF Jobs
  <1>2. Start(w, "reset", "reset", j0)
    OBVIOUS
  <1>. HIDE DEF j0
  <1>3. j \in Jobs /\ j.pc = "reset" /\ j.todo = found
    BY <1>1 DEF Jobs, Kinds
  <1>4. job'[w] = j
    BY <1>2 DEF Start, IInv, TypeOK
  <1>. HIDE DEF j
  <1>5. JobOK(w)'
    BY <1>3, <1>4 DEF JobOK, Performing
  <1>. QED  BY <1>1, <1>2, <1>3, <1>5, StartStep DEF Kinds, j

LEMMA PerformStep ==
    ASSUME "perform" \in Alone, IInv, NEW w \in Workers, NEW u \in Accounts, NEW k \in 1..keys,
           Perform(w, u, k)
    PROVE  IInv'
  <1>. DEFINE j0 == [Idle EXCEPT !.user = u, !.key = k, !.row = acct[u]]
              j == [j0 EXCEPT !.kind = "perform", !.pc = "perform"]
  <1>1. acct[u] \in Rows /\ k \in 1..MaxKeys /\ k # 0
    BY MaxKeysAssumption DEF IInv, TypeOK
  <1>2. /\ Start(w, "perform", "perform", j0)
        /\ UNCHANGED <<acct, keys, mailed, spent, cut, refused>>
        /\ acct[u].key = k /\ acct[u].state # "deleted" /\ <<u, k>> \in mailed
    BY DEF Perform
  <1>3. acct[u].state \in {"pending", "active"}
    BY <1>1, <1>2 DEF IInv, KeysDiffer, Rows
  <1>4. k \in 0..MaxKeys
    BY <1>1, MaxKeysAssumption
  <1>5. j0 \in Jobs /\ j0.user = u /\ j0.key = k /\ j0.row = acct[u] /\ j0.todo = {}
    BY <1>1, <1>4, IdleOK DEF Jobs
  <1>. HIDE DEF j0
  <1>6. /\ j \in Jobs /\ j.pc = "perform" /\ j.kind = "perform" /\ j.user = u /\ j.key = k
        /\ j.row = acct[u] /\ j.todo = {}
    BY <1>5 DEF Jobs, Kinds
  <1>7. job'[w] = j
    BY <1>2 DEF Start, IInv, TypeOK
  <1>. HIDE DEF j
  <1>8. JobOK(w)'
    BY <1>2, <1>3, <1>6, <1>7 DEF JobOK, Performing
  <1>9. acct[j0.user].state # "none"
    BY <1>3, <1>5
  <1>. QED  BY <1>2, <1>5, <1>6, <1>8, <1>9, StartStep DEF Kinds, j

LEMMA RequestStep ==
    ASSUME "perform" \in Alone, IInv, NEW w \in Workers, Request(w)
    PROVE  IInv'
  <1>1. CASE \E u \in Accounts, e \in Emails :
               \/ SignUp(w, u, e) \/ ChangeEmail(w, u, e)
               \/ \E admin \in BOOLEAN : Invite(w, u, e, admin)
    BY <1>1, SignUpStep, ChangeEmailStep, InviteStep
  <1>2. CASE \E u \in Accounts : Restore(w, u)
    BY <1>2, RestoreStep
  <1>3. CASE \E u \in Accounts : RequestResetByName(w, u)
    <2>1. PICK u \in Accounts : RequestResetByName(w, u)
      BY <1>3
    <2>2. /\ {u} \in SUBSET Accounts /\ \A v \in {u} : acct[v].state # "none"
          /\ Start(w, "reset", "reset", [Idle EXCEPT !.todo = {u}])
          /\ UNCHANGED <<acct, keys, mailed, spent, cut, refused>>
      BY <2>1 DEF RequestResetByName
    <2>. QED  BY <2>2, RequestResetStep
  <1>4. CASE \E u \in Accounts, k \in 1..keys : Perform(w, u, k)
    BY <1>4, PerformStep
  <1>5. CASE \E e \in Emails : RequestReset(w, e)
    <2>1. PICK e \in Emails : RequestReset(w, e)
      BY <1>5
    <2>. QED  BY <2>1, RequestResetStep DEF RequestReset
  <1>. QED  BY <1>1, <1>2, <1>3, <1>4, <1>5 DEF Request

-----------------------------------------------------------------------------
(* A process that works on an account. *)

\* What account x may become in a step of process w, whose record becomes j.
Changes(w, j, x) ==
    /\ acct' \in [Accounts -> Rows]
    /\ keys' \in keys..MaxKeys
    /\ \A u \in Accounts : u # x => acct'[u] = acct[u]
    /\ x \in Accounts =>
         /\ acct[x].state # "none" \/ x = job[w].user
         /\ acct'[x].state = "none" => acct'[x] = acct[x]
         /\ acct'[x].key # acct[x].key => acct'[x].key = keys + 1 /\ keys' = keys + 1
         /\ acct'[x].state = "active" =>
              \/ acct[x].state = "active" /\ acct'[x].email = acct[x].email
              \/ ~Taken(x, acct'[x].email)
         /\ acct'[x].state = "pending" => acct[x].state = "pending" \/ (j.pc = "invited" /\ j.user = x)

\* A process does not leave an account with a link that was used,
LeavesUnspent(w, j) ==
    job[w].pc \in {"activate", "rekey"} =>
        \/ job[w].user \in cut'
        \/ acct'[job[w].user].key \notin spent
        \/ j.pc \in {"activate", "rekey"} /\ j.user = job[w].user

\* or an invitation that nobody got.
LeavesInvited(w, j) ==
    job[w].pc \in {"invited", "inviting"} =>
        \/ job[w].user \in cut' \cup refused'
        \/ acct'[job[w].user].state # "pending"
        \/ \E m \in mailed' : m[1] = job[w].user
        \/ j.pc \in {"invited", "inviting"} /\ j.user = job[w].user

LEMMA WorkStep ==
    ASSUME IInv, NEW w \in Workers, NEW j \in Jobs, NEW x,
           job[w].pc # "idle", job' = [job EXCEPT ![w] = j],
           j.pc # "idle" => j.kind = job[w].kind, j.pc # "invite",
           j.user \in {job[w].user, Absent} \cup job[w].todo,
           Changes(w, j, x), LeavesUnspent(w, j), LeavesInvited(w, j),
           mailed' \in SUBSET (Accounts \X (1..keys')), mailed \subseteq mailed',
           spent' = spent,
           cut' \in SUBSET Accounts, cut \subseteq cut',
           refused' \in SUBSET Accounts, refused \subseteq refused',
           JobOK(w)'
    PROVE  IInv'
  <1>1. keys \in Nat /\ keys' \in Nat /\ keys' >= keys /\ keys' \in 0..MaxKeys
    BY MaxKeysAssumption DEF IInv, TypeOK, Changes
  <1>2. /\ \A u \in Accounts : acct[u] \in Rows /\ acct'[u] \in Rows
        /\ \A u \in Accounts : acct[u].key \in Nat /\ acct'[u].key \in Nat /\ acct[u].key <= keys
    BY MaxKeysAssumption DEF IInv, TypeOK, Changes, Rows
  <1>3. /\ job'[w] = j
        /\ \A v \in Workers : v # w => job'[v] = job[v]
    BY DEF IInv, TypeOK
  <1>4. TypeOK'
    <2>1. \A u \in Accounts : acct'[u].key <= keys'
      BY <1>1, <1>2 DEF Changes
    <2>2. job' \in [Workers -> Jobs]
      BY DEF IInv, TypeOK
    <2>3. spent' \subseteq {m[2] : m \in mailed'}
      BY DEF IInv, TypeOK
    <2>. QED  BY <1>1, <2>1, <2>2, <2>3 DEF TypeOK, Changes
  <1>5. ASSUME NEW v \in Workers, v # w, job[v].pc = "invite"
        PROVE  /\ job[v].user \in Accounts /\ acct[job[v].user].state = "none"
               /\ acct'[job[v].user] = acct[job[v].user]
               /\ j.user # job[v].user
    <2>1. job[v].user \in Accounts /\ acct[job[v].user].state = "none"
      BY <1>5 DEF IInv, AllJobsOK, JobOK
    <2>2. job[w].user # job[v].user
      BY <1>5 DEF IInv, Inviting
    <2>3. \A u \in job[w].todo : acct[u].state # "none"
      BY DEF IInv, AllJobsOK, JobOK
    <2>. QED  BY <2>1, <2>2, <2>3, AbsentAssumption DEF Changes
  <1>6. AllJobsOK'
    <2>1. \A u \in Accounts : acct[u].state # "none" => acct'[u].state # "none"
      BY DEF Changes
    <2>2. \A v \in Workers \ {w} :
            /\ job[v].pc \notin Performing
            /\ job[v].pc = "invite" => acct'[job[v].user] = acct[job[v].user]
      BY <1>5, BusyAlone DEF IInv
    <2>. QED  BY <1>1, <1>4, <2>1, <2>2, JobsStep DEF IInv
  <1>7. PerformsAlone' /\ Inviting'
    <2>1. \A v \in Workers \ {w} : job[v].pc = "invite" => j.user # job[v].user
      BY <1>5
    <2>2. j.pc # "idle" => job[w].pc # "idle" /\ j.kind = job[w].kind
      OBVIOUS
    <2>. QED  BY <2>1, <2>2, GoesOn DEF IInv
  <1>8. KeysDiffer'
    <2>1. \A u \in Accounts : acct'[u].key = acct[u].key \/ (u = x /\ acct'[u].key = keys + 1)
      BY DEF Changes
    <2>2. \A u, v \in Accounts : acct'[u].key = acct'[v].key => u = v \/ acct'[u].key = 0
      BY <1>1, <1>2, <2>1 DEF IInv, KeysDiffer
    <2>3. \A u \in Accounts : acct'[u].state = "none" => acct'[u].key = 0
      BY DEF Changes, IInv, KeysDiffer
    <2>. QED  BY <2>2, <2>3 DEF KeysDiffer
  <1>9. Unspent'
    <2> SUFFICES ASSUME NEW u \in Accounts, u \notin cut', acct'[u].key \in spent
                 PROVE  \E v \in Workers : job'[v].pc \in {"activate", "rekey"} /\ job'[v].user = u
      BY DEF Unspent
    <2>1. \A k \in spent : k <= keys
      BY <1>1 DEF IInv, TypeOK
    <2>2. acct'[u].key = acct[u].key
      BY <1>1, <1>2, <2>1 DEF Changes
    <2>3. PICK v \in Workers : job[v].pc \in {"activate", "rekey"} /\ job[v].user = u
      BY <2>2 DEF IInv, Unspent
    <2>4. CASE v = w
      BY <1>3, <2>3, <2>4 DEF LeavesUnspent
    <2>5. CASE v # w
      BY <1>3, <2>3, <2>5
    <2>. QED  BY <2>4, <2>5
  <1>10. Invited'
    <2> SUFFICES ASSUME NEW u \in Accounts, u \notin cut', u \notin refused', acct'[u].state = "pending"
                 PROVE  \/ \E m \in mailed' : m[1] = u
                        \/ \E v \in Workers : job'[v].pc \in {"invited", "inviting"} /\ job'[v].user = u
      BY DEF Invited
    <2>1. CASE acct[u].state # "pending"
      <3>1. j.pc = "invited" /\ j.user = u
        BY <2>1 DEF Changes
      <3>. QED  BY <1>3, <3>1
    <2>2. CASE \E m \in mailed : m[1] = u
      BY <2>2
    <2>3. CASE \E v \in Workers : job[v].pc \in {"invited", "inviting"} /\ job[v].user = u
      <3>1. PICK v \in Workers : job[v].pc \in {"invited", "inviting"} /\ job[v].user = u
        BY <2>3
      <3>2. CASE v = w
        BY <1>3, <3>1, <3>2 DEF LeavesInvited
      <3>3. CASE v # w
        BY <1>3, <3>1, <3>3
      <3>. QED  BY <3>2, <3>3
    <2>. QED  BY <2>1, <2>2, <2>3 DEF IInv, Invited
  <1>11. OneActivePerEmail'
    <2>1. \A u \in Accounts : acct'[u].state = "active" =>
             \/ acct[u].state = "active" /\ acct'[u].email = acct[u].email
             \/ u = x /\ ~Taken(x, acct'[x].email)
      BY DEF Changes
    <2>2. ASSUME NEW u \in Accounts, NEW v \in Accounts, u # v,
                 acct'[u].state = "active", acct'[v].state = "active", acct'[u].email = acct'[v].email
          PROVE  FALSE
      <3>1. CASE x \notin {u, v}
        BY <2>1, <2>2, <3>1 DEF IInv, OneActivePerEmail
      <3>2. CASE x = u
        <4>1. acct'[v] = acct[v]
          BY <2>2, <3>2 DEF Changes
        <4>. QED  BY <2>1, <2>2, <3>2, <4>1 DEF IInv, OneActivePerEmail, Taken
      <3>3. CASE x = v
        <4>1. acct'[u] = acct[u]
          BY <2>2, <3>3 DEF Changes
        <4>. QED  BY <2>1, <2>2, <3>3, <4>1 DEF IInv, OneActivePerEmail, Taken
      <3>. QED  BY <3>1, <3>2, <3>3
    <2>. QED  BY <2>2 DEF OneActivePerEmail
  <1>. QED  BY <1>4, <1>6, <1>7, <1>8, <1>9, <1>10, <1>11 DEF IInv

LEMMA IdleJob ==
    ASSUME NEW w \in Workers, job'[w] = Idle
    PROVE  JobOK(w)'
  BY IdleOK DEF JobOK, Performing

LEMMA BusyFacts ==
    ASSUME IInv, NEW w \in Workers
    PROVE  /\ job[w] \in Jobs /\ JobOK(w)
           /\ keys \in 0..MaxKeys /\ keys \in keys..MaxKeys
           /\ mailed \in SUBSET (Accounts \X (1..keys))
           /\ cut \in SUBSET Accounts /\ refused \in SUBSET Accounts
           /\ acct \in [Accounts -> Rows]
  BY MaxKeysAssumption DEF IInv, TypeOK, AllJobsOK

\* A process that ends without changing an account.
LEMMA FinishStep ==
    ASSUME IInv, NEW w \in Workers, job[w].pc # "idle", Finish(w),
           job[w].pc \in {"activate", "rekey"} => job[w].user \in cut',
           job[w].pc \in {"invited", "inviting"} => job[w].user \in cut' \cup refused',
           cut' \in SUBSET Accounts, cut \subseteq cut',
           refused' \in SUBSET Accounts, refused \subseteq refused',
           UNCHANGED <<acct, keys, mailed, spent>>
    PROVE  IInv'
  <1>1. job' = [job EXCEPT ![w] = Idle] /\ job'[w] = Idle
    BY DEF Finish, IInv, TypeOK
  <1>2. Changes(w, Idle, Absent)
    BY BusyFacts, AbsentAssumption DEF Changes
  <1>3. LeavesUnspent(w, Idle) /\ LeavesInvited(w, Idle)
    BY DEF LeavesUnspent, LeavesInvited
  <1>4. mailed' \in SUBSET (Accounts \X (1..keys')) /\ mailed \subseteq mailed'
    BY BusyFacts
  <1>. QED  BY <1>1, <1>2, <1>3, <1>4, IdleOK, IdleJob, WorkStep

LEMMA DieStep ==
    ASSUME IInv, NEW w \in Workers, Die(w)
    PROVE  IInv'
  <1>1. job[w].pc # "idle" /\ cut' = cut \cup ({job[w].user} \cap Accounts)
    BY DEF Die, Busy
  <1>2. job[w].pc \in {"activate", "rekey", "invited", "inviting"} => job[w].user \in cut'
    BY <1>1, BusyFacts DEF JobOK
  <1>3. cut' \in SUBSET Accounts /\ refused' \in SUBSET Accounts
    BY <1>1, BusyFacts DEF Die
  <1>. QED  BY <1>1, <1>2, <1>3, FinishStep DEF Die

LEMMA SaveStep ==
    ASSUME IInv, NEW w \in Workers, Save(w)
    PROVE  IInv'
  <1>. DEFINE u == job[w].user
              row == Written(u, job[w].row)
  <1>1. /\ job[w].pc = "save"
        /\ acct' = IF Refuses(u, row) THEN acct ELSE [acct EXCEPT ![u] = row]
        /\ Finish(w)
        /\ UNCHANGED <<keys, mailed, spent, cut, refused>>
    BY DEF Save
  <1>2. CASE Refuses(u, row)
    <2>1. UNCHANGED acct
      BY <1>1, <1>2
    <2>. QED  BY <1>1, <2>1, BusyFacts, FinishStep
  <1>3. CASE ~Refuses(u, row)
    <2>1. /\ u \in Accounts /\ acct[u] \in Rows /\ job[w].row \in Rows
          /\ job[w].row.state = "active" /\ (acct[u].state = "none" => job[w].row.key = 0)
      BY <1>1, BusyFacts DEF JobOK
    <2>2. acct[u].state = "none" => acct[u].key = 0
      BY <2>1 DEF IInv, KeysDiffer
    <2>3. /\ row \in Rows /\ row.key = acct[u].key /\ row.state # "none"
          /\ row.state = "pending" => acct[u].state = "pending"
      BY <2>1, <2>2 DEF Written, Rows
    <2>. HIDE DEF row
    <2>4. acct' = [acct EXCEPT ![u] = row]
      BY <1>1, <1>3
    <2>5. acct'[u] = row
      BY <2>1, <2>4, BusyFacts
    <2>6. acct' \in [Accounts -> Rows] /\ \A v \in Accounts : v # u => acct'[v] = acct[v]
      BY <2>3, <2>4, BusyFacts
    <2>7. row.state = "active" => ~Taken(u, row.email)
      BY <1>3 DEF Refuses
    <2>8. Changes(w, Idle, u)
      BY <1>1, <2>3, <2>5, <2>6, <2>7, BusyFacts DEF Changes
    <2>9. LeavesUnspent(w, Idle) /\ LeavesInvited(w, Idle)
      BY <1>1 DEF LeavesUnspent, LeavesInvited
    <2>10. job' = [job EXCEPT ![w] = Idle] /\ job'[w] = Idle
      BY <1>1 DEF Finish, IInv, TypeOK
    <2>. QED  BY <1>1, <2>8, <2>9, <2>10, BusyFacts, IdleOK, IdleJob, WorkStep
  <1>. QED  BY <1>2, <1>3

LEMMA InviteCreateStep ==
    ASSUME IInv, NEW w \in Workers, InviteCreate(w)
    PROVE  IInv'
  <1>. DEFINE u == job[w].user
              row == job[w].row
              j == [job[w] EXCEPT !.pc = "invited"]
  <1>1. /\ job[w].pc = "invite" /\ acct' = [acct EXCEPT ![u] = row]
        /\ UNCHANGED <<keys, mailed, spent, cut, refused>>
    BY DEF InviteCreate
  <1>2. /\ u \in Accounts /\ row \in Rows /\ row.state = "pending" /\ row.key = 0
        /\ acct[u].state = "none"
    BY <1>1, BusyFacts DEF JobOK
  <1>3. acct[u].key = 0
    BY <1>2 DEF IInv, KeysDiffer
  <1>4. /\ j \in Jobs /\ j.pc = "invited" /\ j.user = u /\ j.kind = job[w].kind
        /\ j.todo = job[w].todo
    BY BusyFacts DEF Jobs
  <1>5. job' = [job EXCEPT ![w] = j]
    BY DEF InviteCreate, Goto
  <1>6. job'[w] = j
    BY <1>5 DEF IInv, TypeOK
  <1>. HIDE DEF j
  <1>7. /\ acct'[u] = row /\ acct' \in [Accounts -> Rows]
        /\ \A v \in Accounts : v # u => acct'[v] = acct[v]
    BY <1>1, <1>2, BusyFacts
  <1>8. Changes(w, j, u)
    BY <1>1, <1>2, <1>3, <1>4, <1>7, BusyFacts DEF Changes
  <1>9. LeavesUnspent(w, j) /\ LeavesInvited(w, j)
    BY <1>1 DEF LeavesUnspent, LeavesInvited
  <1>10. JobOK(w)'
    <2>1. \A v \in j.todo : v \in Accounts /\ acct[v].state # "none"
      BY <1>4, BusyFacts DEF JobOK, Jobs
    <2>2. \A v \in j.todo : acct'[v].state # "none"
      BY <1>2, <1>7, <2>1
    <2>. QED  BY <1>2, <1>4, <1>6, <1>7, <2>2 DEF JobOK, Performing
  <1>. QED  BY <1>1, <1>4, <1>5, <1>8, <1>9, <1>10, BusyFacts, WorkStep

LEMMA InviteKeyStep ==
    ASSUME IInv, NEW w \in Workers, InviteKey(w)
    PROVE  IInv'
  <1>. DEFINE u == job[w].user
              row == [acct[u] EXCEPT !.key = keys + 1]
              j == [job[w] EXCEPT !.user = u, !.key = keys + 1, !.pc = "inviting"]
  <1>1. /\ job[w].pc = "invited" /\ keys < MaxKeys /\ keys' = keys + 1
        /\ UNCHANGED <<mailed, spent, cut, refused>>
    BY DEF InviteKey, NewKey
  <1>2. u \in Accounts /\ acct[u] \in Rows /\ acct[u].state # "none"
    BY <1>1, BusyFacts DEF JobOK
  <1>3. keys \in Nat /\ keys + 1 \in 1..MaxKeys /\ keys + 1 \in 0..MaxKeys /\ keys' \in keys..MaxKeys
    BY <1>1, BusyFacts, MaxKeysAssumption
  <1>4. row \in Rows /\ row.key = keys + 1 /\ row.state = acct[u].state /\ row.email = acct[u].email
    BY <1>2, <1>3 DEF Rows
  <1>5. /\ j \in Jobs /\ j.pc = "inviting" /\ j.user = u /\ j.kind = job[w].kind
        /\ j.todo = job[w].todo /\ j.key = keys + 1
    BY <1>3, BusyFacts DEF Jobs
  <1>6. acct' = [acct EXCEPT ![u] = row]
    BY DEF InviteKey
  <1>7. job' = [job EXCEPT ![w] = j]
    BY DEF InviteKey, NewKey
  <1>8. job'[w] = j
    BY <1>7 DEF IInv, TypeOK
  <1>. HIDE DEF j, row
  <1>9. /\ acct'[u] = row /\ acct' \in [Accounts -> Rows]
        /\ \A v \in Accounts : v # u => acct'[v] = acct[v]
    BY <1>2, <1>4, <1>6, BusyFacts
  <1>10. Changes(w, j, u)
    BY <1>1, <1>2, <1>3, <1>4, <1>9 DEF Changes
  <1>11. LeavesUnspent(w, j) /\ LeavesInvited(w, j)
    BY <1>1, <1>5 DEF LeavesUnspent, LeavesInvited
  <1>12. JobOK(w)'
    <2>1. \A v \in j.todo : v \in Accounts /\ acct[v].state # "none"
      BY <1>5, BusyFacts DEF JobOK, Jobs
    <2>2. \A v \in j.todo : acct'[v].state # "none"
      BY <1>2, <1>4, <1>9, <2>1
    <2>3. keys + 1 \in 1..keys'
      BY <1>1, <1>3
    <2>. QED  BY <1>2, <1>4, <1>5, <1>8, <1>9, <2>2, <2>3 DEF JobOK, Performing
  <1>13. mailed' \in SUBSET (Accounts \X (1..keys'))
    <2>1. 1..keys \subseteq 1..keys'
      BY <1>1, <1>3
    <2>. QED  BY <1>1, <2>1, BusyFacts
  <1>. QED  BY <1>1, <1>5, <1>7, <1>10, <1>11, <1>12, <1>13, BusyFacts, WorkStep

LEMMA InviteSentStep ==
    ASSUME IInv, NEW w \in Workers, InviteSent(w)
    PROVE  IInv'
  <1>1. /\ job[w].pc = "inviting" /\ mailed' = mailed \cup {<<job[w].user, job[w].key>>}
        /\ Finish(w)
        /\ UNCHANGED <<acct, keys, spent, cut, refused>>
    BY DEF InviteSent
  <1>2. job[w].user \in Accounts /\ job[w].key \in 1..keys
    BY <1>1, BusyFacts DEF JobOK
  <1>3. mailed' \in SUBSET (Accounts \X (1..keys')) /\ mailed \subseteq mailed'
    BY <1>1, <1>2, BusyFacts
  <1>4. job' = [job EXCEPT ![w] = Idle] /\ job'[w] = Idle
    BY <1>1 DEF Finish, IInv, TypeOK
  <1>5. Changes(w, Idle, Absent)
    BY <1>1, BusyFacts, AbsentAssumption DEF Changes
  <1>6. \E m \in mailed' : m[1] = job[w].user
    <2>1. <<job[w].user, job[w].key>> \in mailed'
      BY <1>1
    <2>2. <<job[w].user, job[w].key>>[1] = job[w].user
      OBVIOUS
    <2>. QED  BY <2>1, <2>2
  <1>7. LeavesUnspent(w, Idle) /\ LeavesInvited(w, Idle)
    BY <1>1, <1>6 DEF LeavesUnspent, LeavesInvited
  <1>. QED  BY <1>1, <1>3, <1>4, <1>5, <1>7, BusyFacts, IdleOK, IdleJob, WorkStep

LEMMA InviteFailsStep ==
    ASSUME IInv, NEW w \in Workers, InviteFails(w)
    PROVE  IInv'
  <1>. DEFINE u == job[w].user
              row == [acct[u] EXCEPT !.state = "deleted"]
  <1>1. /\ job[w].pc = "inviting" /\ Finish(w)
        /\ UNCHANGED <<keys, mailed, spent, cut>>
    BY DEF InviteFails
  <1>2. u \in Accounts /\ acct[u] \in Rows /\ acct[u].state # "none"
    BY <1>1, BusyFacts DEF JobOK
  <1>3. CASE ~job[w].admin
    <2>1. refused' = refused \cup {u} /\ UNCHANGED acct
      BY <1>3 DEF InviteFails
    <2>2. refused' \in SUBSET Accounts /\ refused \subseteq refused' /\ u \in refused'
      BY <1>2, <2>1, BusyFacts
    <2>. QED  BY <1>1, <2>1, <2>2, BusyFacts, FinishStep
  <1>4. CASE job[w].admin
    <2>1. acct' = [acct EXCEPT ![u] = row] /\ UNCHANGED refused
      BY <1>4 DEF InviteFails
    <2>2. row \in Rows /\ row.key = acct[u].key /\ row.state = "deleted"
      BY <1>2 DEF Rows
    <2>. HIDE DEF row
    <2>3. /\ acct'[u] = row /\ acct' \in [Accounts -> Rows]
          /\ \A v \in Accounts : v # u => acct'[v] = acct[v]
      BY <1>2, <2>1, <2>2, BusyFacts
    <2>4. Changes(w, Idle, u)
      BY <1>1, <1>2, <2>2, <2>3, BusyFacts DEF Changes
    <2>5. LeavesUnspent(w, Idle) /\ LeavesInvited(w, Idle)
      BY <1>1, <2>2, <2>3 DEF LeavesUnspent, LeavesInvited
    <2>6. job' = [job EXCEPT ![w] = Idle] /\ job'[w] = Idle
      BY <1>1 DEF Finish, IInv, TypeOK
    <2>. QED  BY <1>1, <2>1, <2>4, <2>5, <2>6, BusyFacts, IdleOK, IdleJob, WorkStep
  <1>. QED  BY <1>3, <1>4

LEMMA SendKeyStep ==
    ASSUME IInv, NEW w \in Workers, NEW u \in Accounts, SendKey(w, u)
    PROVE  IInv'
  <1>. DEFINE row == IF job[w].fresh THEN [acct[u] EXCEPT !.key = keys + 1] ELSE acct[u]
              j == [job[w] EXCEPT !.user = u, !.key = keys + 1, !.pc = "mail",
                                  !.todo = job[w].todo \ {u}, !.fresh = FALSE]
  <1>1. /\ job[w].pc = "reset" /\ u \in job[w].todo /\ keys < MaxKeys /\ keys' = keys + 1
        /\ UNCHANGED <<mailed, spent, cut, refused>>
    BY DEF SendKey
  <1>2. acct[u] \in Rows /\ acct[u].state # "none"
    BY <1>1, BusyFacts DEF JobOK
  <1>3. keys \in Nat /\ keys + 1 \in 1..MaxKeys /\ keys + 1 \in 0..MaxKeys /\ keys' \in keys..MaxKeys
    BY <1>1, BusyFacts, MaxKeysAssumption
  <1>4. /\ row \in Rows /\ row.key \in {acct[u].key, keys + 1}
        /\ row.state = acct[u].state /\ row.email = acct[u].email
    BY <1>2, <1>3 DEF Rows
  <1>5. /\ j \in Jobs /\ j.pc = "mail" /\ j.user = u /\ j.kind = job[w].kind
        /\ j.todo = job[w].todo \ {u} /\ j.key = keys + 1
    BY <1>3, BusyFacts DEF Jobs
  <1>6. job' = [job EXCEPT ![w] = j]
    BY DEF SendKey
  <1>7. job'[w] = j
    BY <1>6 DEF IInv, TypeOK
  <1>8. acct' = [acct EXCEPT ![u] = row]
    <2>1. CASE job[w].fresh
      BY <2>1 DEF SendKey
    <2>2. CASE ~job[w].fresh
      <3>1. acct' = acct
        BY <2>2 DEF SendKey
      <3>. QED  BY <2>2, <3>1, BusyFacts
    <2>. QED  BY <2>1, <2>2
  <1>. HIDE DEF j, row
  <1>9. /\ acct'[u] = row /\ acct' \in [Accounts -> Rows]
        /\ \A v \in Accounts : v # u => acct'[v] = acct[v]
    BY <1>4, <1>8, BusyFacts
  <1>10. Changes(w, j, u)
    BY <1>1, <1>2, <1>3, <1>4, <1>9 DEF Changes
  <1>11. LeavesUnspent(w, j) /\ LeavesInvited(w, j)
    BY <1>1 DEF LeavesUnspent, LeavesInvited
  <1>12. JobOK(w)'
    <2>1. \A v \in j.todo : v \in Accounts /\ acct[v].state # "none"
      BY <1>5, BusyFacts DEF JobOK, Jobs
    <2>2. \A v \in j.todo : acct'[v].state # "none"
      BY <1>2, <1>4, <1>9, <2>1
    <2>3. keys + 1 \in 1..keys'
      BY <1>1, <1>3
    <2>. QED  BY <1>2, <1>4, <1>5, <1>7, <1>9, <2>2, <2>3 DEF JobOK, Performing
  <1>13. mailed' \in SUBSET (Accounts \X (1..keys'))
    <2>1. 1..keys \subseteq 1..keys'
      BY <1>1, <1>3
    <2>. QED  BY <1>1, <2>1, BusyFacts
  <1>. QED  BY <1>1, <1>5, <1>6, <1>10, <1>11, <1>12, <1>13, BusyFacts, WorkStep

LEMMA ResetSentStep ==
    ASSUME IInv, NEW w \in Workers, ResetSent(w)
    PROVE  IInv'
  <1>. DEFINE j == IF job[w].todo = {} THEN Idle ELSE [job[w] EXCEPT !.pc = "reset"]
  <1>1. /\ job[w].pc = "mail" /\ mailed' = mailed \cup {<<job[w].user, job[w].key>>}
        /\ UNCHANGED <<acct, keys, spent, cut, refused>>
    BY DEF ResetSent
  <1>2. job[w].user \in Accounts /\ job[w].key \in 1..keys
    BY <1>1, BusyFacts DEF JobOK
  <1>3. mailed' \in SUBSET (Accounts \X (1..keys')) /\ mailed \subseteq mailed'
    BY <1>1, <1>2, BusyFacts
  <1>4. job' = [job EXCEPT ![w] = j]
    BY DEF ResetSent, Finish, Goto
  <1>5. /\ j \in Jobs /\ j.pc \in {"idle", "reset"} /\ j.user \in {job[w].user, Absent}
        /\ j.pc # "idle" => j.kind = job[w].kind
        /\ j.todo \subseteq job[w].todo
    BY IdleOK, BusyFacts DEF Jobs
  <1>6. job'[w] = j
    BY <1>4 DEF IInv, TypeOK
  <1>. HIDE DEF j
  <1>7. Changes(w, j, Absent)
    BY <1>1, BusyFacts, AbsentAssumption DEF Changes
  <1>8. LeavesUnspent(w, j) /\ LeavesInvited(w, j)
    BY <1>1 DEF LeavesUnspent, LeavesInvited
  <1>9. JobOK(w)'
    <2>1. \A v \in j.todo : acct'[v].state # "none"
      BY <1>1, <1>5, BusyFacts DEF JobOK
    <2>. QED  BY <1>5, <1>6, <2>1 DEF JobOK, Performing
  <1>. QED  BY <1>1, <1>3, <1>4, <1>5, <1>7, <1>8, <1>9, BusyFacts, WorkStep

LEMMA ResetFailsStep ==
    ASSUME IInv, NEW w \in Workers, ResetFails(w)
    PROVE  IInv'
  BY BusyFacts, FinishStep DEF ResetFails

-----------------------------------------------------------------------------
(* A link that is used. *)

LEMMA PerformUpdateStep ==
    ASSUME IInv, NEW w \in Workers, PerformUpdate(w)
    PROVE  IInv'
  <1>. DEFINE u == job[w].user
              pc == IF job[w].row.state = "pending" THEN "activate" ELSE "rekey"
              j == [job[w] EXCEPT !.pc = pc]
  <1>1. job[w].pc = "perform" /\ UNCHANGED <<acct, keys, mailed, cut, refused>>
    BY DEF PerformUpdate
  <1>2. CASE Taken(u, job[w].row.email)
    BY <1>1, <1>2, BusyFacts, FinishStep DEF PerformUpdate
  <1>3. CASE ~Taken(u, job[w].row.email)
    <2>1. spent' = spent \cup {job[w].key} /\ job' = [job EXCEPT ![w] = j]
      BY <1>3 DEF PerformUpdate, Goto
    <2>2. /\ u \in Accounts /\ job[w].kind = "perform" /\ job[w].row = acct[u]
          /\ acct[u].state \in {"pending", "active"} /\ job[w].key = acct[u].key
          /\ <<u, job[w].key>> \in mailed
      BY <1>1, BusyFacts DEF JobOK, Performing
    <2>3. /\ j \in Jobs /\ j.pc = pc /\ j.pc \in {"activate", "rekey"} /\ j.user = u
          /\ j.kind = "perform" /\ j.row = acct[u] /\ j.todo = job[w].todo
      BY <2>2, BusyFacts DEF Jobs
    <2>4. job'[w] = j /\ \A v \in Workers : v # w => job'[v] = job[v]
      BY <2>1 DEF IInv, TypeOK
    <2>. HIDE DEF j, pc
    <2>5. TypeOK'
      <3>1. job[w].key \in {m[2] : m \in mailed}
        BY <2>2
      <3>2. spent' \subseteq {m[2] : m \in mailed'}
        BY <1>1, <2>1, <3>1 DEF IInv, TypeOK
      <3>. QED  BY <1>1, <2>1, <2>3, <3>2 DEF IInv, TypeOK
    <2>6. JobOK(w)'
      BY <1>1, <1>3, <2>2, <2>3, <2>4, BusyFacts DEF JobOK, Performing, Taken
    <2>7. AllJobsOK'
      <3>1. keys' >= keys
        BY <1>1, BusyFacts, MaxKeysAssumption
      <3>2. \A v \in Workers \ {w} : job[v].pc \notin Performing
        BY <1>1, BusyAlone DEF IInv
      <3>. QED  BY <1>1, <2>1, <2>5, <2>6, <3>1, <3>2, JobsStep DEF IInv
    <2>8. PerformsAlone' /\ Inviting'
      <3>1. \A v \in Workers \ {w} : job[v].pc = "invite" => j.user # job[v].user
        BY <2>3 DEF IInv, Inviting
      <3>2. j.pc # "idle" => job[w].pc # "idle" /\ j.kind = job[w].kind
        BY <1>1, <2>2, <2>3
      <3>. QED  BY <2>1, <2>3, <3>1, <3>2, GoesOn DEF IInv
    <2>9. Unspent'
      <3> SUFFICES ASSUME NEW v \in Accounts, v \notin cut', acct'[v].key \in spent'
                   PROVE  \E p \in Workers : job'[p].pc \in {"activate", "rekey"} /\ job'[p].user = v
        BY DEF Unspent
      <3>1. CASE v = u
        BY <2>3, <2>4, <3>1
      <3>2. CASE v # u
        <4>1. job[w].key # 0
          BY <2>2, BusyFacts
        <4>2. acct[v].key # job[w].key
          BY <2>2, <3>2, <4>1 DEF IInv, KeysDiffer
        <4>3. PICK p \in Workers : job[p].pc \in {"activate", "rekey"} /\ job[p].user = v
          BY <1>1, <2>1, <4>2 DEF IInv, Unspent
        <4>4. p # w
          BY <1>1, <4>3
        <4>. QED  BY <2>4, <4>3, <4>4
      <3>. QED  BY <3>1, <3>2
    <2>10. Invited'
      <3>1. \A v \in Workers : job[v].pc \in {"invited", "inviting"} => job'[v] = job[v]
        BY <1>1, <2>4
      <3>. QED  BY <1>1, <3>1 DEF IInv, Invited
    <2>11. KeysDiffer' /\ OneActivePerEmail'
      BY <1>1 DEF IInv, KeysDiffer, OneActivePerEmail
    <2>. QED  BY <2>5, <2>7, <2>8, <2>9, <2>10, <2>11 DEF IInv
  <1>. QED  BY <1>2, <1>3

\* The email was free when the password was set, and nothing ran since.
LEMMA ActivateStep ==
    ASSUME IInv, NEW w \in Workers, Activate(w)
    PROVE  IInv'
  <1>. DEFINE u == job[w].user
              row == [acct[u] EXCEPT !.state = "active"]
              j == [job[w] EXCEPT !.pc = "rekey"]
  <1>1. job[w].pc = "activate" /\ UNCHANGED <<keys, mailed, spent, cut, refused>>
    BY DEF Activate
  <1>2. /\ u \in Accounts /\ acct[u] \in Rows /\ job[w].kind = "perform"
        /\ acct[u].state \in {"pending", "active"}
        /\ job[w].row = acct[u] /\ ~Taken(u, acct[u].email)
    BY <1>1, BusyFacts DEF JobOK, Performing
  <1>3. row \in Rows /\ row.state = "active" /\ row.email = acct[u].email /\ row.key = acct[u].key
    BY <1>2 DEF Rows
  <1>4. ~Refuses(u, row)
    BY <1>2, <1>3 DEF Refuses
  <1>5. acct' = [acct EXCEPT ![u] = row] /\ job' = [job EXCEPT ![w] = j]
    BY <1>2, <1>4 DEF Activate, Goto
  <1>6. /\ j \in Jobs /\ j.pc = "rekey" /\ j.user = u /\ j.kind = job[w].kind
        /\ j.todo = job[w].todo
    BY BusyFacts DEF Jobs
  <1>7. job'[w] = j
    BY <1>5 DEF IInv, TypeOK
  <1>. HIDE DEF j, row
  <1>8. /\ acct'[u] = row /\ acct' \in [Accounts -> Rows]
        /\ \A v \in Accounts : v # u => acct'[v] = acct[v]
    BY <1>2, <1>3, <1>5, BusyFacts
  <1>9. Changes(w, j, u)
    BY <1>1, <1>2, <1>3, <1>8, BusyFacts DEF Changes
  <1>10. LeavesUnspent(w, j) /\ LeavesInvited(w, j)
    BY <1>1, <1>6 DEF LeavesUnspent, LeavesInvited
  <1>11. JobOK(w)'
    <2>1. \A v \in j.todo : v \in Accounts /\ acct[v].state # "none"
      BY <1>6, BusyFacts DEF JobOK, Jobs
    <2>2. \A v \in j.todo : acct'[v].state # "none"
      BY <1>3, <1>8, <2>1
    <2>. QED  BY <1>2, <1>3, <1>6, <1>7, <1>8, <2>2 DEF JobOK, Performing
  <1>. QED  BY <1>1, <1>5, <1>6, <1>9, <1>10, <1>11, BusyFacts, WorkStep

LEMMA RekeyStep ==
    ASSUME IInv, NEW w \in Workers, Rekey(w)
    PROVE  IInv'
  <1>. DEFINE u == job[w].user
              row == [acct[u] EXCEPT !.key = keys + 1]
  <1>1. /\ job[w].pc = "rekey" /\ keys < MaxKeys /\ keys' = keys + 1 /\ Finish(w)
        /\ UNCHANGED <<mailed, spent, cut, refused>>
    BY DEF Rekey
  <1>2. u \in Accounts /\ acct[u] \in Rows /\ acct[u].state # "none"
    BY <1>1, BusyFacts DEF JobOK, Performing
  <1>3. keys \in Nat /\ keys + 1 \in 0..MaxKeys /\ keys' \in keys..MaxKeys
    BY <1>1, BusyFacts, MaxKeysAssumption
  <1>4. row \in Rows /\ row.key = keys + 1 /\ row.state = acct[u].state /\ row.email = acct[u].email
    BY <1>2, <1>3 DEF Rows
  <1>5. acct' = [acct EXCEPT ![u] = row]
    BY DEF Rekey
  <1>6. job' = [job EXCEPT ![w] = Idle] /\ job'[w] = Idle
    BY <1>1 DEF Finish, IInv, TypeOK
  <1>. HIDE DEF row
  <1>7. /\ acct'[u] = row /\ acct' \in [Accounts -> Rows]
        /\ \A v \in Accounts : v # u => acct'[v] = acct[v]
    BY <1>2, <1>4, <1>5, BusyFacts
  <1>8. Changes(w, Idle, u)
    BY <1>1, <1>2, <1>3, <1>4, <1>7 DEF Changes
  <1>9. LeavesUnspent(w, Idle) /\ LeavesInvited(w, Idle)
    <2>1. keys + 1 \notin spent
      BY <1>3, BusyFacts DEF IInv, TypeOK
    <2>. QED  BY <1>1, <1>4, <1>7, <2>1 DEF LeavesUnspent, LeavesInvited
  <1>10. mailed' \in SUBSET (Accounts \X (1..keys'))
    <2>1. 1..keys \subseteq 1..keys'
      BY <1>1, <1>3
    <2>. QED  BY <1>1, <2>1, BusyFacts
  <1>. QED  BY <1>1, <1>6, <1>8, <1>9, <1>10, BusyFacts, IdleOK, IdleJob, WorkStep

LEMMA UserDeleteStep ==
    ASSUME "perform" \in Alone, IInv, NEW u \in Accounts, UserDelete(u)
    PROVE  IInv'
  <1>. DEFINE row == [acct[u] EXCEPT !.state = "deleted"]
  <1>1. /\ Free("delete") /\ acct[u].state \in {"pending", "active"}
        /\ acct' = [acct EXCEPT ![u] = row]
        /\ UNCHANGED <<job, keys, mailed, spent, cut, refused>>
    BY DEF UserDelete
  <1>2. acct[u] \in Rows
    BY DEF IInv, TypeOK
  <1>3. row \in Rows /\ row.state = "deleted" /\ row.key = acct[u].key
    BY <1>2 DEF Rows
  <1>. HIDE DEF row
  <1>4. /\ acct'[u] = row /\ acct' \in [Accounts -> Rows]
        /\ \A v \in Accounts : v # u => acct'[v] = acct[v]
    BY <1>1, <1>3 DEF IInv, TypeOK
  <1>5. /\ \A v \in Accounts : acct'[v].key = acct[v].key
        /\ \A v \in Accounts : acct'[v].state = "none" <=> acct[v].state = "none"
        /\ \A v \in Accounts : acct'[v].state \in {"pending", "active"} => acct'[v] = acct[v]
    BY <1>1, <1>3, <1>4
  <1>6. TypeOK'
    BY <1>1, <1>4, <1>5 DEF IInv, TypeOK
  <1>7. AllJobsOK'
    <2> SUFFICES ASSUME NEW v \in Workers
                 PROVE  JobOK(v)'
      BY DEF AllJobsOK
    <2>1. job[v].pc \notin Performing
      BY <1>1, FreeAlone DEF IInv
    <2>2. JobOK(v) /\ job[v] \in Jobs
      BY DEF IInv, AllJobsOK, TypeOK
    <2>3. \A a \in job[v].todo : a \in Accounts
      BY <2>2 DEF Jobs
    <2>. QED  BY <1>1, <1>5, <2>1, <2>2, <2>3 DEF JobOK, Performing
  <1>8. PerformsAlone' /\ Inviting'
    BY <1>1 DEF IInv, PerformsAlone, Inviting
  <1>9. KeysDiffer'
    BY <1>5 DEF IInv, KeysDiffer
  <1>10. Unspent' /\ Invited'
    BY <1>1, <1>5 DEF IInv, Unspent, Invited
  <1>11. OneActivePerEmail'
    BY <1>5 DEF IInv, OneActivePerEmail
  <1>. QED  BY <1>6, <1>7, <1>8, <1>9, <1>10, <1>11 DEF IInv

-----------------------------------------------------------------------------
(* The theorems. *)

LEMMA InitInv == Init => IInv
  <1> SUFFICES ASSUME Init PROVE IInv
    OBVIOUS
  <1>1. \A w \in Workers : job[w] = Idle
    BY DEF Init
  <1>2. None \in Rows /\ None.state = "none" /\ None.key = 0
    BY MaxKeysAssumption DEF None, Rows
  <1>3. TypeOK
    BY <1>2, IdleOK, MaxKeysAssumption DEF Init, TypeOK
  <1>4. AllJobsOK
    BY <1>1, IdleOK DEF AllJobsOK, JobOK, Performing
  <1>5. PerformsAlone /\ Inviting
    BY <1>1, IdleOK DEF PerformsAlone, Inviting
  <1>6. KeysDiffer /\ Unspent /\ Invited /\ OneActivePerEmail
    BY <1>2 DEF Init, KeysDiffer, Unspent, Invited, OneActivePerEmail
  <1>. QED  BY <1>3, <1>4, <1>5, <1>6 DEF IInv

LEMMA StepInv ==
    ASSUME "perform" \in Alone, IInv, [Next]_vars
    PROVE  IInv'
  <1>1. ASSUME NEW w \in Workers, Step(w)
        PROVE  IInv'
    BY <1>1, SaveStep, InviteCreateStep, InviteKeyStep, InviteSentStep, InviteFailsStep, SendKeyStep,
       ResetSentStep, ResetFailsStep, PerformUpdateStep, ActivateStep, RekeyStep DEF Step
  <1>2. ASSUME UNCHANGED vars
        PROVE  IInv'
    <2>1. UNCHANGED <<acct, job, keys, mailed, spent, cut, refused>>
      BY <1>2 DEF vars
    <2>2. TypeOK' /\ AllJobsOK'
      BY <2>1 DEF IInv, TypeOK, AllJobsOK, JobOK, Taken
    <2>3. PerformsAlone' /\ Inviting' /\ KeysDiffer' /\ Unspent' /\ Invited' /\ OneActivePerEmail'
      BY <2>1 DEF IInv, PerformsAlone, Inviting, KeysDiffer, Unspent, Invited, OneActivePerEmail
    <2>. QED  BY <2>2, <2>3 DEF IInv
  <1>. QED  BY <1>1, <1>2, RequestStep, DieStep, UserDeleteStep DEF Next

\* Of every step, while the invariant holds.
LEMMA StepKept ==
    ASSUME "perform" \in Alone, IInv, [Next]_vars
    PROVE  [DeletedStays /\ LinkSpentOnce]_vars
  <1> SUFFICES ASSUME Next
               PROVE  DeletedStays /\ LinkSpentOnce
    OBVIOUS
  <1>1. ASSUME NEW u \in Accounts, acct[u].state = "deleted", acct'[u].state # "deleted",
               NEW w \in Workers, Step(w)
        PROVE  job[w].pc = "save" /\ job[w].user = u
    <2>1. JobOK(w) /\ acct[u] \in Rows
      BY DEF IInv, AllJobsOK, TypeOK
    <2>2. CASE Save(w)
      BY <1>1, <2>2 DEF Save, IInv, TypeOK
    <2>3. CASE InviteCreate(w)
      BY <1>1, <2>1, <2>3 DEF InviteCreate, JobOK, IInv, TypeOK
    <2>4. CASE InviteKey(w) \/ InviteFails(w) \/ Rekey(w)
      <3>1. \/ acct' = acct
            \/ acct' = [acct EXCEPT ![job[w].user].key = keys + 1]
            \/ acct' = [acct EXCEPT ![job[w].user].state = "deleted"]
        BY <2>4 DEF InviteKey, InviteFails, Rekey
      <3>. QED  BY <1>1, <2>1, <3>1 DEF IInv, TypeOK, Rows
    <2>6. CASE \E v \in Accounts : SendKey(w, v)
      <3>1. PICK v \in Accounts : SendKey(w, v)
        BY <2>6
      <3>2. acct' = acct \/ acct' = [acct EXCEPT ![v].key = keys + 1]
        BY <3>1 DEF SendKey
      <3>. QED  BY <1>1, <2>1, <3>2 DEF IInv, TypeOK, Rows
    <2>5. CASE Activate(w)
      BY <1>1, <2>1, <2>5 DEF Activate, JobOK, Performing, IInv, TypeOK
    <2>. QED  BY <1>1, <2>2, <2>3, <2>4, <2>5, <2>6
              DEF Step, InviteSent, ResetSent, ResetFails, PerformUpdate
  <1>2. DeletedStays
    <2> SUFFICES ASSUME NEW u \in Accounts, acct[u].state = "deleted", acct'[u].state # "deleted"
                 PROVE  \E w \in Workers : job[w].pc = "save" /\ job[w].user = u
      BY DEF DeletedStays
    <2>1. CASE \E w \in Workers : Step(w)
      BY <1>1, <2>1
    <2>2. CASE \E w \in Workers : Request(w) \/ Die(w)
      BY <2>2 DEF Request, SignUp, ChangeEmail, Restore, Validate, Invite, RequestReset,
                  RequestResetByName, Perform, Die
    <2>3. CASE \E v \in Accounts : UserDelete(v)
      BY <2>3 DEF UserDelete, IInv, TypeOK
    <2>. QED  BY <2>1, <2>2, <2>3 DEF Next
  <1>3. LinkSpentOnce
    <2> SUFFICES ASSUME NEW w \in Workers, job[w].pc = "perform",
                        job[w].user \notin cut, job[w].key \in spent
                 PROVE  FALSE
      BY DEF LinkSpentOnce
    <2>1. job[w].user \in Accounts /\ job[w].key = acct[job[w].user].key /\ job[w].kind = "perform"
      BY DEF IInv, AllJobsOK, JobOK, Performing
    <2>2. PICK v \in Workers : job[v].pc \in {"activate", "rekey"} /\ job[v].user = job[w].user
      BY <2>1 DEF IInv, Unspent
    <2>. QED  BY <2>1, <2>2 DEF IInv, PerformsAlone
  <1>. QED  BY <1>2, <1>3

LEMMA InvKept ==
    ASSUME IInv
    PROVE  InviteUndone /\ OneActivePerEmail
  BY DEF IInv, Invited, InviteUndone

\* Every state of the program is of the types that the model gives it.
THEOREM TypeCorrect ==
    ASSUME "perform" \in Alone
    PROVE  Spec => []TypeOK
  <1>1. Init => IInv
    BY InitInv
  <1>2. IInv /\ [Next]_vars => IInv'
    BY StepInv
  <1>3. IInv => TypeOK
    BY DEF IInv
  <1>. QED  BY <1>1, <1>2, <1>3, PTL DEF Spec

\* However the requests of any number of processes interleave, fail and die:
\* a deleted account is made active by user_update of a sysadmin only, a link
\* that was mailed sets one password, an invitation that could not be mailed
\* leaves no pending account but where its inviter was refused or died, and
\* no two active accounts have one email.  Links are used alone.
THEOREM AccountsAlwaysKept ==
    ASSUME "perform" \in Alone
    PROVE  Spec => AccountsKept
  <1>1. Init => IInv
    BY InitInv
  <1>2. IInv /\ [Next]_vars => IInv'
    BY StepInv
  <1>3. IInv /\ [Next]_vars => [DeletedStays /\ LinkSpentOnce]_vars
    BY StepKept
  <1>4. IInv => InviteUndone /\ OneActivePerEmail
    BY InvKept
  <1>. QED  BY <1>1, <1>2, <1>3, <1>4, PTL DEF Spec, AccountsKept

-----------------------------------------------------------------------------
(* The organizations and datasets of MCAccess.                             *)

\* Names differ: None is no role, organization or row, and neither the sysadmin
\* nor a visitor is a user.
Distinct == H!Proper /\ D!Proper /\ P!Proper

\* The two organizations of the part with datasets are fewer than the steps of
\* a query of the hierarchy, and admins are admins of what is below.
LEMMA DatasetsContained == D!Contained
  <1>1. D!IsFiniteSet({o1}) /\ D!Cardinality({o1}) = 1
    BY D!FS_Singleton
  <1>2. {o1} \cup {o2} = {o1, o2}
    OBVIOUS
  <1>3. D!IsFiniteSet({o1, o2}) /\ D!Cardinality({o1, o2}) <= 1 + 1
    BY <1>1, <1>2, D!FS_AddElement
  <1>. QED  BY <1>3 DEF D!Contained, D!Uncut

\* The invariants of the part that runs.
Sound ==
    /\ part \in {"accounts", "hierarchy", "datasets", "permissions"}
    /\ part = "accounts" /\ "perform" \in Alone => IInv
    /\ part = "hierarchy" => H!IInv
    /\ part = "datasets" => D!IInv /\ D!Guarded
    /\ part = "permissions" => P!TypeOK

LEMMA PartsInv ==
    ASSUME Distinct
    PROVE  MCSpec => []Sound
  <1>1. MCInit => Sound
    <2>1. H!Init => H!IInv
      BY H!InitInv, H!InvIsTypes
    <2>2. D!Init => D!IInv /\ D!Guarded
      BY D!InitInv, D!InvIsTypes, D!InitGuarded
    <2>3. P!Init => P!TypeOK
      BY P!InitTyped
    <2>. QED  BY <2>1, <2>2, <2>3, InitInv DEF MCInit, Sound
  <1>2. Sound /\ [MCNext]_<<vars, part, visibility, permissions>> => Sound'
    <2>. SUFFICES ASSUME Sound, [MCNext]_<<vars, part, visibility, permissions>> PROVE Sound'
      OBVIOUS
    <2>1. part' = part
      BY DEF MCNext
    <2>2. CASE part = "hierarchy"
      <3>1. [H!Next]_(H!vars)
        BY <2>2 DEF MCNext, visibility, H!vars
      <3>. QED  BY <2>1, <2>2, <3>1, H!StepInv DEF Distinct, Sound
    <2>3. CASE part = "datasets"
      <3>1. [D!Next]_(D!vars)
        BY <2>3 DEF MCNext, visibility, D!vars
      <3>. QED  BY <2>1, <2>3, <3>1, D!StepInv, D!StepGuarded, DatasetsContained DEF Distinct, Sound
    <2>4. CASE part = "permissions"
      <3>1. P!Next \/ UNCHANGED permissions
        BY <2>4 DEF MCNext
      <3>2. UNCHANGED permissions /\ P!TypeOK => P!TypeOK'
        BY DEF permissions, P!TypeOK
      <3>. QED  BY <2>1, <2>4, <3>1, <3>2, P!StepTyped DEF Distinct, Sound
    <2>5. CASE part = "accounts"
      <3>1. [Next]_vars
        BY <2>5 DEF MCNext
      <3>. QED  BY <2>1, <2>5, <3>1, StepInv DEF Sound
    <2>. QED  BY <2>2, <2>3, <2>4, <2>5 DEF Sound
  <1>. QED  BY <1>1, <1>2, PTL DEF MCSpec

\* Whatever part of the run is at work, its state is of its type.
THEOREM TypesCorrect ==
    ASSUME Distinct, "perform" \in Alone
    PROVE  MCSpec => []TypesOK
  <1>1. Sound => TypesOK
    BY H!InvIsTypes DEF Sound, TypesOK, IInv, H!IInv, D!IInv
  <1>. QED  BY <1>1, PartsInv, PTL

\* The hierarchy of the run agrees with itself, as any does: whoever is listed
\* an organization by looking down has the permission by looking up.
THEOREM HierarchyAlwaysAgrees ==
    ASSUME Distinct
    PROVE  MCSpec => []HierarchyAgrees
  <1>1. H!IInv => H!HierarchyAgrees /\ H!DeletedGrantsNothing
    BY H!HierarchyFromInv, H!DeletedFromInv DEF Distinct, H!IInv
  <1>2. D!IInv => D!HierarchyAgrees /\ D!DeletedGrantsNothing
    BY D!HierarchyFromInv, D!DeletedFromInv DEF Distinct, D!IInv
  <1>3. Sound => HierarchyAgrees
    BY <1>1, <1>2 DEF Sound, HierarchyAgrees
  <1>. QED  BY <1>3, PartsInv, PTL

\* Searches and pages of the run show the same datasets to everybody, and
\* whoever may change one may see it.
THEOREM ReadersAlwaysAgree ==
    ASSUME Distinct
    PROVE  MCSpec => []ReadersAgree
  <1>1. D!IInv => D!ReadersAgree
    BY D!ReadersFromInv DEF Distinct
  <1>2. Sound => ReadersAgree
    BY <1>1 DEF Sound, ReadersAgree
  <1>. QED  BY <1>2, PartsInv, PTL

\* The outsider of the run, whom nobody lets in, does not come to see the
\* private dataset of the insider, whatever he asks for.
THEOREM NeverIntrusion ==
    ASSUME Distinct
    PROVE  MCSpec => []NoIntrusion
  <1>1. D!IInv /\ D!Guarded => D!NoIntrusion
    BY D!GuardedHides, DatasetsContained DEF Distinct, D!IInv, D!Contained
  <1>2. Sound => NoIntrusion
    BY <1>1 DEF Sound, NoIntrusion
  <1>. QED  BY <1>2, PartsInv, PTL

\* Nobody gives what he does not have, groups have what their members put
\* there, and the authorization functions agree, in the part of the run with
\* the permissions; the account of another opens to its reset key only.
THEOREM GivesOnlyItsOwn ==
    ASSUME Distinct
    PROVE  MCSpec => GivesHisOwn
  <1>1. Sound /\ [MCNext]_<<vars, part, visibility, permissions>>
          => [part = "permissions" => P!GivesOnlyHis /\ P!GroupedByMembers]_permissions
    <2>. SUFFICES ASSUME Sound, MCNext, part = "permissions", permissions' # permissions
                  PROVE  P!GivesOnlyHis /\ P!GroupedByMembers
      BY DEF permissions
    <2>1. P!Next
      BY DEF MCNext
    <2>. QED  BY <2>1, P!StepGives DEF Distinct, Sound
  <1>2. Sound => (part = "permissions" => P!WaysAgree)
    BY P!WaysFromTypes DEF Distinct, Sound
  <1>. QED  BY <1>1, <1>2, PartsInv, PTL DEF MCSpec, GivesHisOwn
=============================================================================
