------------------------- MODULE DataPusher_proofs -------------------------
(***************************************************************************)
(* Whatever the number of workers, saves and jobs, whoever dies and        *)
(* however the service behaves: the state is of its type, and a job finds  *)
(* the task_status row it reports to.                                      *)
(***************************************************************************)
EXTENDS MCDataPusher, FiniteSetTheorems, TLAPS

\* A worker with record r has written the row, or found it, before it posts
\* a job or writes the row again.
Known(r, state) ==
    /\ r.pc \in {"post", "posted", "refused", "write"} => state # "none"
    /\ r.pc = "write" => r.status # "none"

Reporting(j) == j.stage \in {"queued", "fetched", "complete", "error"}

\* The invariant behind HookFindsTask: the row is there once a submission
\* has been marked, and is never removed.
TaskKnown ==
    /\ \A w \in Workers : Known(worker[w], task.state)
    /\ \A j \in JobIds : Reporting(jobs[j]) => task.state # "none"

Typed == TypeOK /\ TaskKnown

-----------------------------------------------------------------------------
(* What a step does to the workers, the jobs and the row. *)

\* Worker w goes on with record r.
LEMMA WorkerStep ==
    ASSUME Typed, NEW w \in Workers, NEW r \in Worker,
           worker' = [worker EXCEPT ![w] = r],
           Known(r, task'.state),
           task'.state = "none" => task.state = "none"
    PROVE  /\ worker' \in [Workers -> Worker]
           /\ \A x \in Workers : Known(worker'[x], task'.state)
  <1>1. worker' \in [Workers -> Worker]
    BY DEF Typed, TypeOK
  <1>2. ASSUME NEW x \in Workers PROVE Known(worker'[x], task'.state)
    <2>1. CASE x = w
      BY <2>1 DEF Typed, TypeOK
    <2>2. CASE x # w
      BY <2>2 DEF Typed, TypeOK, TaskKnown, Known
    <2>. QED  BY <2>1, <2>2
  <1>. QED  BY <1>1, <1>2

\* Job j goes on with record r.
LEMMA JobStep ==
    ASSUME Typed, NEW j \in JobIds, NEW r \in JobRecord,
           jobs' = [jobs EXCEPT ![j] = r],
           Reporting(r) => task'.state # "none",
           task'.state = "none" => task.state = "none"
    PROVE  /\ jobs' \in [JobIds -> JobRecord]
           /\ \A i \in JobIds : Reporting(jobs'[i]) => task'.state # "none"
  BY DEF Typed, TypeOK, TaskKnown

LEMMA RestingWorker == Resting \in Worker /\ Resting.pc = "idle"
  BY DEF Resting, Worker, Steps, NoJob, States

\* Worker w goes to another step, with the same record.
LEMMA GotoRecord ==
    ASSUME Typed, NEW w \in Workers, NEW pc \in Steps
    PROVE  /\ [worker[w] EXCEPT !.pc = pc] \in Worker
           /\ [worker[w] EXCEPT !.pc = pc].pc = pc
  BY DEF Typed, TypeOK, Worker

LEMMA GotoStep ==
    ASSUME Typed, NEW w \in Workers, NEW pc \in Steps, Goto(w, pc),
           pc # "write", pc \in {"post", "posted", "refused"} => task'.state # "none",
           task'.state = "none" => task.state = "none"
    PROVE  /\ worker' \in [Workers -> Worker]
           /\ \A x \in Workers : Known(worker'[x], task'.state)
  <1>. DEFINE r == [worker[w] EXCEPT !.pc = pc]
  <1>1. r \in Worker /\ r.pc = pc
    BY GotoRecord
  <1>2. worker' = [worker EXCEPT ![w] = r]
    BY DEF Goto
  <1>. HIDE DEF r
  <1>. QED  BY <1>1, <1>2, WorkerStep DEF Known

LEMMA RestStep ==
    ASSUME Typed, NEW w \in Workers, Rest(w),
           task'.state = "none" => task.state = "none"
    PROVE  /\ worker' \in [Workers -> Worker]
           /\ \A x \in Workers : Known(worker'[x], task'.state)
  BY RestingWorker, WorkerStep DEF Rest, Known

LEMMA ContinueStep ==
    ASSUME Typed, NEW w \in Workers, Continue(w),
           task'.state = "none" => task.state = "none"
    PROVE  /\ worker' \in [Workers -> Worker]
           /\ \A x \in Workers : Known(worker'[x], task'.state)
  BY GotoStep, RestStep DEF Continue, Steps

LEMMA TaskStep ==
    ASSUME Typed, NEW s \in States \ {"none"}, NEW j \in JobIds \cup {NoJob},
           SetTask(s, j)
    PROVE  /\ task' \in [state : States, job : JobIds \cup {NoJob}]
           /\ task'.state # "none" /\ stale' \in BOOLEAN
  BY DEF SetTask

-----------------------------------------------------------------------------
(* The steps. *)

LEMMA TypedInit == Init => Typed
  <1>. SUFFICES ASSUME Init PROVE Typed
    OBVIOUS
  <1>1. worker \in [Workers -> Worker] /\ \A w \in Workers : worker[w].pc = "idle"
    BY RestingWorker DEF Init
  <1>2. jobs \in [JobIds -> JobRecord] /\ \A j \in JobIds : ~ Reporting(jobs[j])
    BY DEF Init, Unposted, JobRecord, Stages, Reporting
  <1>3. task \in [state : States, job : JobIds \cup {NoJob}]
    BY DEF Init, States
  <1>4. 0 \in Versions /\ manuals \in 0..MaxManual
    BY BoundsAssumption DEF Versions, Init
  <1>5. TypeOK
    BY <1>1, <1>2, <1>3, <1>4 DEF Init, TypeOK
  <1>6. TaskKnown
    BY <1>1, <1>2 DEF TaskKnown, Known
  <1>. QED  BY <1>5, <1>6 DEF Typed

LEMMA TypedEdit ==
    ASSUME Typed, NEW w \in Workers, Edit(w)
    PROVE  Typed'
  <1>. DEFINE r == [worker[w] EXCEPT !.pc = "upload", !.modified = clock + 1]
  <1>1. r \in Worker /\ r.pc = "upload"
    <2>1. worker[w] \in Worker /\ clock + 1 \in Nat
      BY DEF Typed, TypeOK
    <2>. QED  BY <2>1 DEF Worker, Steps
  <1>2. worker' = [worker EXCEPT ![w] = r]
    BY DEF Edit
  <1>. HIDE DEF r
  <1>3. /\ worker' \in [Workers -> Worker]
        /\ \A x \in Workers : Known(worker'[x], task'.state)
    BY <1>1, <1>2, WorkerStep DEF Edit, Known
  <1>. QED  BY <1>3, BoundsAssumption DEF Edit, Typed, TypeOK, TaskKnown, Versions

LEMMA TypedSave ==
    ASSUME Typed, NEW w \in Workers,
           Upload(w) \/ Notify(w) \/ Commit(w) \/ AfterUpdate(w) \/ Manual(w)
    PROVE  Typed'
  <1>1. CASE Upload(w)
    BY <1>1, GotoStep DEF Upload, Typed, TypeOK, TaskKnown, Steps
  <1>2. CASE Notify(w)
    <2>. DEFINE r == [worker[w] EXCEPT !.pc = IF Skips THEN "commit" ELSE "check",
                                       !.after = IF Skips THEN "idle" ELSE "commit",
                                       !.seen = task.state]
    <2>1. r \in Worker /\ r.pc \in {"commit", "check"}
      BY DEF Typed, TypeOK, Worker, Steps
    <2>2. worker' = [worker EXCEPT ![w] = r]
      BY <1>2 DEF Notify
    <2>. HIDE DEF r
    <2>3. /\ worker' \in [Workers -> Worker]
          /\ \A x \in Workers : Known(worker'[x], task'.state)
      BY <1>2, <2>1, <2>2, WorkerStep DEF Notify, Known
    <2>. QED  BY <1>2, <2>3 DEF Notify, Typed, TypeOK, TaskKnown
  <1>3. CASE Commit(w)
    <2>. DEFINE r == [Resting EXCEPT !.pc = "update"]
    <2>1. r \in Worker /\ r.pc = "update"
      BY RestingWorker DEF Worker, Steps
    <2>2. worker' = [worker EXCEPT ![w] = r]
      BY <1>3 DEF Commit
    <2>. HIDE DEF r
    <2>3. /\ worker' \in [Workers -> Worker]
          /\ \A x \in Workers : Known(worker'[x], task'.state)
      BY <1>3, <2>1, <2>2, WorkerStep DEF Commit, Known
    <2>4. worker[w].modified \in Nat
      BY DEF Typed, TypeOK, Worker
    <2>. QED  BY <1>3, <2>3, <2>4 DEF Commit, Typed, TypeOK, TaskKnown
  <1>4. CASE AfterUpdate(w)
    <2>1. CASE Skips
      BY <1>4, <2>1, RestStep DEF AfterUpdate, Typed, TypeOK, TaskKnown
    <2>2. CASE ~ Skips
      <3>. DEFINE r == [worker[w] EXCEPT !.pc = "check", !.seen = task.state]
      <3>1. r \in Worker /\ r.pc = "check"
        BY DEF Typed, TypeOK, Worker, Steps
      <3>2. worker' = [worker EXCEPT ![w] = r]
        BY <1>4, <2>2 DEF AfterUpdate
      <3>. HIDE DEF r
      <3>3. /\ worker' \in [Workers -> Worker]
            /\ \A x \in Workers : Known(worker'[x], task'.state)
        BY <1>4, <3>1, <3>2, WorkerStep DEF AfterUpdate, Known
      <3>. QED  BY <1>4, <3>3 DEF AfterUpdate, Typed, TypeOK, TaskKnown
    <2>. QED  BY <2>1, <2>2
  <1>5. CASE Manual(w)
    <2>1. manuals' \in 0..MaxManual
      BY <1>5, BoundsAssumption DEF Manual, Typed, TypeOK
    <2>. QED  BY <1>5, <2>1, GotoStep DEF Manual, Typed, TypeOK, TaskKnown, Steps
  <1>. QED  BY <1>1, <1>2, <1>3, <1>4, <1>5

LEMMA TypedCheck ==
    ASSUME Typed, NEW w \in Workers, Check(w)
    PROVE  Typed'
  <1>1. CASE worker[w].seen = "none" /\ task.state = "pending" /\ ~ stale
    BY <1>1, ContinueStep DEF Check, Typed, TypeOK, TaskKnown
  <1>2. CASE ~ (worker[w].seen = "none" /\ task.state = "pending" /\ ~ stale)
    <2>. DEFINE r == [worker[w] EXCEPT !.pc = "mark", !.created = clock + 1]
    <2>1. r \in Worker /\ r.pc = "mark"
      <3>1. worker[w] \in Worker /\ clock + 1 \in Nat
        BY DEF Typed, TypeOK
      <3>. QED  BY <3>1 DEF Worker, Steps
    <2>2. worker' = [worker EXCEPT ![w] = r]
      BY <1>2 DEF Check
    <2>. HIDE DEF r
    <2>3. /\ worker' \in [Workers -> Worker]
          /\ \A x \in Workers : Known(worker'[x], task'.state)
      BY <1>2, <2>1, <2>2, WorkerStep DEF Check, Known
    <2>. QED  BY <1>2, <2>3 DEF Check, Typed, TypeOK, TaskKnown
  <1>. QED  BY <1>1, <1>2

LEMMA TypedSubmit ==
    ASSUME Typed, NEW w \in Workers,
           Mark(w) \/ PostRefused(w) \/ Refused(w) \/ Posted(w)
    PROVE  Typed'
  <1>1. CASE Mark(w)
    <2>1. task' \in [state : States, job : JobIds \cup {NoJob}]
          /\ task'.state # "none" /\ stale' \in BOOLEAN
      BY <1>1, TaskStep DEF Mark, States
    <2>. QED  BY <1>1, <2>1, GotoStep DEF Mark, Typed, TypeOK, TaskKnown, Steps
  <1>2. CASE PostRefused(w)
    <2>1. task.state # "none"
      BY <1>2 DEF PostRefused, At, Typed, TaskKnown, Known
    <2>. QED  BY <1>2, <2>1, GotoStep DEF PostRefused, Typed, TypeOK, TaskKnown, Steps
  <1>3. CASE Refused(w)
    <2>1. task' \in [state : States, job : JobIds \cup {NoJob}]
          /\ task'.state # "none" /\ stale' \in BOOLEAN
      BY <1>3, TaskStep DEF Refused, States
    <2>. QED  BY <1>3, <2>1, ContinueStep DEF Refused, Typed, TypeOK, TaskKnown
  <1>4. CASE Posted(w)
    <2>1. worker[w].job \in JobIds \cup {NoJob}
      BY DEF Typed, TypeOK, Worker
    <2>2. task' \in [state : States, job : JobIds \cup {NoJob}]
          /\ task'.state # "none" /\ stale' \in BOOLEAN
      BY <1>4, <2>1, TaskStep DEF Posted, States
    <2>. QED  BY <1>4, <2>2, ContinueStep DEF Posted, Typed, TypeOK, TaskKnown
  <1>. QED  BY <1>1, <1>2, <1>3, <1>4

\* A job that is posted is one, and reports to a row that is there.
LEMMA QueueStep ==
    ASSUME Typed, NEW w \in Workers, At(w, "post"), NEW j \in JobIds,
           Queue(j, worker[w].created), task' = task
    PROVE  /\ jobs' \in [JobIds -> JobRecord]
           /\ \A i \in JobIds : Reporting(jobs'[i]) => task'.state # "none"
  <1>. DEFINE r == [stage |-> "queued", created |-> worker[w].created, version |-> NoFile]
  <1>1. r \in JobRecord
    BY DEF Typed, TypeOK, Worker, JobRecord, Stages
  <1>2. task.state # "none"
    BY DEF At, Typed, TaskKnown, Known
  <1>3. jobs' = [jobs EXCEPT ![j] = r]
    BY DEF Queue
  <1>. QED  BY <1>1, <1>2, <1>3, JobStep

LEMMA TypedPost ==
    ASSUME Typed, NEW w \in Workers, Post(w)
    PROVE  Typed'
  <1>1. PICK j \in JobIds :
          /\ Queue(j, worker[w].created)
          /\ worker' = [worker EXCEPT ![w].pc = "posted", ![w].job = j]
    BY DEF Post
  <1>. DEFINE r == [worker[w] EXCEPT !.pc = "posted", !.job = j]
  <1>2. r \in Worker /\ r.pc = "posted"
    BY DEF Typed, TypeOK, Worker, Steps
  <1>3. task.state # "none"
    BY DEF Post, At, Typed, TaskKnown, Known
  <1>4. worker' = [worker EXCEPT ![w] = r]
    BY <1>1
  <1>. HIDE DEF r
  <1>5. /\ worker' \in [Workers -> Worker]
        /\ \A x \in Workers : Known(worker'[x], task'.state)
    BY <1>2, <1>3, <1>4, WorkerStep DEF Post, Known
  <1>6. /\ jobs' \in [JobIds -> JobRecord]
        /\ \A i \in JobIds : Reporting(jobs'[i]) => task'.state # "none"
    BY <1>1, QueueStep DEF Post
  <1>. QED  BY <1>5, <1>6 DEF Post, Typed, TypeOK, TaskKnown

LEMMA TypedDie ==
    ASSUME Typed, NEW w \in Workers, PostTimesOut(w) \/ Stop(w)
    PROVE  Typed'
  <1>1. /\ worker' \in [Workers -> Worker]
        /\ \A x \in Workers : Known(worker'[x], task'.state)
    BY RestStep DEF PostTimesOut, Stop, Die
  <1>2. lock' \in Workers \cup {Nobody}
    BY DEF PostTimesOut, Stop, Die, Typed, TypeOK
  <1>3. CASE PostTimesOut(w)
    <2>1. /\ jobs' \in [JobIds -> JobRecord]
          /\ \A i \in JobIds : Reporting(jobs'[i]) => task'.state # "none"
      BY <1>3, QueueStep DEF PostTimesOut
    <2>. QED  BY <1>1, <1>2, <1>3, <2>1 DEF PostTimesOut, Typed, TypeOK, TaskKnown
  <1>4. CASE Stop(w)
    BY <1>1, <1>2, <1>4 DEF Stop, Typed, TypeOK, TaskKnown
  <1>. QED  BY <1>3, <1>4

LEMMA TypedService ==
    ASSUME Typed, NEW j \in JobIds, Service(j)
    PROVE  Typed'
  <1>1. jobs[j] \in JobRecord /\ (Reporting(jobs[j]) => task.state # "none")
    BY DEF Typed, TypeOK, TaskKnown
  <1>2. PICK r \in JobRecord :
          jobs' = [jobs EXCEPT ![j] = r] /\ (Reporting(r) => Reporting(jobs[j]))
    <2>1. CASE Fetch(j)
      BY <1>1, <2>1 DEF Fetch, JobRecord, Stages, Reporting, Typed, TypeOK
    <2>2. CASE Push(j)
      BY <1>1, <2>2 DEF Push, JobRecord, Stages, Reporting
    <2>3. CASE JobFails(j)
      BY <1>1, <2>3 DEF JobFails, JobRecord, Stages, Reporting
    <2>. QED  BY <2>1, <2>2, <2>3 DEF Service
  <1>3. task' = task
    BY DEF Service, Fetch, Push, JobFails
  <1>4. /\ jobs' \in [JobIds -> JobRecord]
        /\ \A i \in JobIds : Reporting(jobs'[i]) => task'.state # "none"
    BY <1>1, <1>2, <1>3, JobStep
  <1>5. table' \in Versions \cup {NoFile}
    BY <1>1 DEF Service, Fetch, Push, JobFails, JobRecord, Typed, TypeOK
  <1>. QED  BY <1>4, <1>5 DEF Service, Fetch, Push, JobFails, Typed, TypeOK, TaskKnown

LEMMA TypedHook ==
    ASSUME Typed, NEW w \in Workers, NEW j \in JobIds, Hook(w, j)
    PROVE  Typed'
  <1>1. jobs[j] \in JobRecord /\ jobs[j].stage \in {"complete", "error"}
    BY DEF Hook, Typed, TypeOK
  <1>2. task.state # "none" /\ task' = task
    BY <1>1 DEF Hook, Typed, TaskKnown, Reporting
  <1>. DEFINE q == [jobs[j] EXCEPT !.stage = "reported"]
  <1>3. q \in JobRecord /\ jobs' = [jobs EXCEPT ![j] = q]
    BY <1>1 DEF Hook, JobRecord, Stages
  <1>. HIDE DEF q
  <1>4. /\ jobs' \in [JobIds -> JobRecord]
        /\ \A i \in JobIds : Reporting(jobs'[i]) => task'.state # "none"
    BY <1>2, <1>3, JobStep
  <1>. DEFINE r == [Resting EXCEPT !.pc = "write", !.job = task.job,
                                   !.status = jobs[j].stage, !.again = Resubmit(w, j)]
  <1>5. r \in Worker /\ r.pc = "write" /\ r.status = jobs[j].stage
    <2>1. Resubmit(w, j) \in BOOLEAN
      BY DEF Resubmit
    <2>2. task.job \in JobIds \cup {NoJob} /\ jobs[j].stage \in States
      BY <1>1 DEF Typed, TypeOK, States
    <2>. HIDE DEF Resubmit
    <2>. QED  BY <2>1, <2>2, RestingWorker DEF Worker, Steps
  <1>6. worker' = [worker EXCEPT ![w] = r]
    BY <1>2 DEF Hook
  <1>. HIDE DEF r
  <1>7. /\ worker' \in [Workers -> Worker]
        /\ \A x \in Workers : Known(worker'[x], task'.state)
    BY <1>1, <1>2, <1>5, <1>6, WorkerStep DEF Known
  <1>. QED  BY <1>4, <1>7 DEF Hook, Typed, TypeOK, TaskKnown

LEMMA TypedHookWrite ==
    ASSUME Typed, NEW w \in Workers, HookWrite(w)
    PROVE  Typed'
  <1>1. worker[w].status \in States \ {"none"} /\ worker[w].job \in JobIds \cup {NoJob}
    BY DEF HookWrite, At, Typed, TypeOK, TaskKnown, Known, Worker
  <1>2. task' \in [state : States, job : JobIds \cup {NoJob}]
        /\ task'.state # "none" /\ stale' \in BOOLEAN
    BY <1>1, TaskStep DEF HookWrite
  <1>3. /\ worker' \in [Workers -> Worker]
        /\ \A x \in Workers : Known(worker'[x], task'.state)
    <2>1. CASE worker[w].again
      <3>. DEFINE r == [Resting EXCEPT !.pc = "check"]
      <3>1. r \in Worker /\ r.pc = "check"
        BY RestingWorker DEF Worker, Steps
      <3>2. worker' = [worker EXCEPT ![w] = r]
        BY <2>1 DEF HookWrite
      <3>. HIDE DEF r
      <3>. QED  BY <1>2, <3>1, <3>2, WorkerStep DEF Known
    <2>2. CASE ~ worker[w].again
      BY <1>2, <2>2, RestStep DEF HookWrite
    <2>. QED  BY <2>1, <2>2
  <1>. QED  BY <1>2, <1>3 DEF HookWrite, Typed, TypeOK, TaskKnown

LEMMA TypedNext == Typed /\ [Next]_vars => Typed'
  <1>. SUFFICES ASSUME Typed, [Next]_vars PROVE Typed'
    OBVIOUS
  <1>1. CASE UNCHANGED vars
    BY <1>1 DEF vars, Typed, TypeOK, TaskKnown
  <1>2. ASSUME NEW w \in Workers,
               Edit(w) \/ Manual(w) \/ Work(w) \/ PostTimesOut(w) \/ Stop(w)
        PROVE  Typed'
    BY <1>2, TypedEdit, TypedSave, TypedCheck, TypedSubmit, TypedPost, TypedDie,
       TypedHookWrite DEF Work
  <1>3. ASSUME NEW j \in JobIds, Service(j) \/ \E w \in Workers : Hook(w, j)
        PROVE  Typed'
    BY <1>3, TypedService, TypedHook
  <1>4. CASE Age
    BY <1>4 DEF Age, Typed, TypeOK, TaskKnown
  <1>. QED  BY <1>1, <1>2, <1>3, <1>4 DEF Next

-----------------------------------------------------------------------------
LEMMA TypedAlways == Spec => []Typed
  BY TypedInit, TypedNext, PTL DEF Spec

\* In every reachable state, the resource, its task, its jobs and the workers
\* are of their types.
THEOREM TypeCorrect == Spec => []TypeOK
  <1>1. Typed => TypeOK
    BY DEF Typed
  <1>. QED  BY <1>1, TypedAlways, PTL

\* datapusher_hook finds the task_status row of every job the service works
\* on, because the row is committed, in a session of its own, before the job
\* is posted: with any number of workers, dying and timing out at any step.
THEOREM HookFindsTaskAlways == Spec => []HookFindsTask
  <1>1. Typed => HookFindsTask
    BY DEF Typed, TaskKnown, Reporting, InFlight, HookFindsTask
  <1>. QED  BY <1>1, TypedAlways, PTL

-----------------------------------------------------------------------------
(* One worker that serves every request. *)

\* What a job in flight means for that worker, for the row and for the table:
\* the row is pending, or the worker has just posted the job; and a job that
\* fetched a file which is not the one on disk any more will be found to be
\* older than the resource, once the save under way is committed.
Awaited(j) ==
    LET r == worker[One]
        q == jobs[j] IN
    /\ \/ r.pc = "posted" /\ task.state = "submitting"
       \/ r.pc \in {"idle", "upload", "notify", "commit", "update"} /\ task.state = "pending"
       \/ /\ r.pc = "check" /\ r.seen = "none" /\ r.after = "idle"
          /\ task.state = "pending"
    /\ r.pc \in {"upload", "notify"} => q.created < r.modified
    /\ q.stage \in {"fetched", "complete"} =>
         \/ q.version = file
         \/ q.created < modified
         \/ r.pc \in {"notify", "commit"} /\ q.created < r.modified
    /\ q.stage = "complete" => table = q.version

JobsAwaited ==
    /\ \A i, j \in JobIds : InFlight(i) /\ InFlight(j) => i = j
    /\ \A j \in JobIds : InFlight(j) => Awaited(j)

Clocked ==
    /\ modified <= clock
    /\ worker[One].modified <= clock /\ worker[One].created <= clock
    /\ \A j \in JobIds : jobs[j].created <= clock

OthersIdle ==
    /\ \A w \in Workers : w # One => worker[w].pc = "idle"
    /\ ~ stale

Serving ==
    LET r == worker[One] IN
    /\ r.pc = "idle" => r = Resting
    /\ r.pc \in {"upload", "notify", "commit"} \/ r.after = "commit" => modified < r.modified
    /\ r.pc = "post" => task.state = "submitting"
    /\ r.pc = "write" /\ r.status = "complete" /\ ~ r.again => table = file
    /\ r.pc = "idle" /\ task.state = "complete" => table = file

SInv == Typed /\ OthersIdle /\ Clocked /\ Serving /\ JobsAwaited

LEMMA OneServes ==
    ASSUME One \in Workers, SInv, NEW r, worker' = [worker EXCEPT ![One] = r], ~ stale'
    PROVE  worker'[One] = r /\ OthersIdle'
  BY DEF SInv, Typed, TypeOK, OthersIdle

LEMMA ServingFacts ==
    ASSUME One \in Workers, SInv
    PROVE  /\ worker[One] \in Worker
           /\ clock \in Nat /\ modified \in Nat
           /\ worker[One].modified \in Nat /\ worker[One].created \in Nat
           /\ \A j \in JobIds : jobs[j] \in JobRecord /\ jobs[j].created \in Nat
           /\ ~ stale
  BY DEF SInv, Typed, TypeOK, Worker, JobRecord, OthersIdle

LEMMA RestingFields ==
    /\ Resting.pc = "idle" /\ Resting.after = "idle" /\ Resting.seen = "none"
    /\ Resting.modified = 0 /\ Resting.created = 0
  BY DEF Resting

\* No job is in flight, but while the row says so or the job was just posted.
LEMMA NoneInFlight ==
    ASSUME SInv,
           \/ worker[One].pc \in {"mark", "post", "refused", "write"}
           \/ task.state \notin {"pending", "submitting"}
    PROVE  \A j \in JobIds : ~ InFlight(j)
  BY DEF SInv, JobsAwaited, Awaited

LEMMA EditServed ==
    ASSUME One \in Workers, SInv, Edit(One)
    PROVE  OthersIdle' /\ Clocked' /\ Serving' /\ JobsAwaited'
  <1>. DEFINE r == [worker[One] EXCEPT !.pc = "upload", !.modified = clock + 1]
  <1>1. /\ worker[One].pc = "idle" /\ worker' = [worker EXCEPT ![One] = r] /\ clock' = clock + 1
        /\ UNCHANGED <<file, modified, task, stale, table, jobs>>
    BY DEF Edit, At
  <1>2. /\ r.pc = "upload" /\ r.modified = clock + 1 /\ r.after = "idle"
        /\ r.created = worker[One].created
    BY <1>1, ServingFacts, RestingFields DEF Worker, SInv, Serving
  <1>. HIDE DEF r
  <1>3. worker'[One] = r /\ OthersIdle'
    BY <1>1, OneServes, ServingFacts
  <1>4. Clocked'
    BY <1>1, <1>2, <1>3, ServingFacts DEF Clocked, SInv
  <1>5. Serving'
    BY <1>1, <1>2, <1>3, ServingFacts DEF Serving, Clocked, SInv
  <1>6. \A j \in JobIds : jobs[j].created < clock + 1
    BY ServingFacts DEF Clocked, SInv
  <1>7. JobsAwaited'
    BY <1>1, <1>2, <1>3, <1>6 DEF JobsAwaited, InFlight, Awaited, SInv
  <1>. QED  BY <1>3, <1>4, <1>5, <1>7

LEMMA UploadServed ==
    ASSUME One \in Workers, SInv, Upload(One)
    PROVE  OthersIdle' /\ Clocked' /\ Serving' /\ JobsAwaited'
  <1>. DEFINE r == [worker[One] EXCEPT !.pc = "notify"]
  <1>1. /\ worker[One].pc = "upload" /\ worker' = [worker EXCEPT ![One] = r]
        /\ UNCHANGED <<modified, task, stale, table, jobs, clock>>
    BY DEF Upload, At, Goto
  <1>2. /\ r.pc = "notify" /\ r.modified = worker[One].modified /\ r.after = worker[One].after
        /\ r.created = worker[One].created
    BY ServingFacts DEF Worker
  <1>. HIDE DEF r
  <1>3. worker'[One] = r /\ OthersIdle'
    BY <1>1, OneServes, ServingFacts
  <1>4. Clocked' /\ Serving'
    BY <1>1, <1>2, <1>3 DEF Clocked, Serving, SInv
  <1>5. JobsAwaited'
    BY <1>1, <1>2, <1>3 DEF JobsAwaited, InFlight, Awaited, SInv
  <1>. QED  BY <1>3, <1>4, <1>5

LEMMA NotifyServed ==
    ASSUME One \in Workers, SInv, Notify(One)
    PROVE  OthersIdle' /\ Clocked' /\ Serving' /\ JobsAwaited'
  <1>. DEFINE r == [worker[One] EXCEPT !.pc = IF Skips THEN "commit" ELSE "check",
                                       !.after = IF Skips THEN "idle" ELSE "commit",
                                       !.seen = task.state]
  <1>1. /\ worker[One].pc = "notify" /\ worker' = [worker EXCEPT ![One] = r]
        /\ UNCHANGED <<file, modified, task, stale, table, jobs, clock>>
    BY DEF Notify, At
  <1>2. /\ r.pc = IF Skips THEN "commit" ELSE "check"
        /\ r.modified = worker[One].modified /\ r.created = worker[One].created
    BY ServingFacts DEF Worker
  <1>. HIDE DEF r
  <1>3. worker'[One] = r /\ OthersIdle'
    BY <1>1, OneServes, ServingFacts
  <1>4. Clocked' /\ Serving'
    BY <1>1, <1>2, <1>3 DEF Clocked, Serving, SInv
  <1>5. JobsAwaited'
    BY <1>1, <1>2, <1>3 DEF JobsAwaited, InFlight, Awaited, SInv, Skips
  <1>. QED  BY <1>3, <1>4, <1>5

LEMMA CommitServed ==
    ASSUME One \in Workers, SInv, Commit(One)
    PROVE  OthersIdle' /\ Clocked' /\ Serving' /\ JobsAwaited'
  <1>. DEFINE r == [Resting EXCEPT !.pc = "update"]
  <1>1. /\ worker[One].pc = "commit" /\ worker' = [worker EXCEPT ![One] = r]
        /\ modified' = worker[One].modified
        /\ UNCHANGED <<file, task, stale, table, jobs, clock>>
    BY DEF Commit, At
  <1>2. r.pc = "update" /\ r.modified = 0 /\ r.created = 0 /\ r.after = "idle"
    BY DEF Resting
  <1>. HIDE DEF r
  <1>3. worker'[One] = r /\ OthersIdle'
    BY <1>1, OneServes, ServingFacts
  <1>4. Clocked' /\ Serving'
    BY <1>1, <1>2, <1>3, ServingFacts DEF Clocked, Serving, SInv
  <1>5. modified < modified'
    BY <1>1 DEF Serving, SInv
  <1>6. \A j \in JobIds : jobs[j].created < modified => jobs[j].created < modified'
    BY <1>1, <1>5, ServingFacts
  <1>7. JobsAwaited'
    BY <1>1, <1>2, <1>3, <1>6 DEF JobsAwaited, InFlight, Awaited, SInv
  <1>. QED  BY <1>3, <1>4, <1>7

LEMMA AfterUpdateServed ==
    ASSUME One \in Workers, SInv, AfterUpdate(One)
    PROVE  OthersIdle' /\ Clocked' /\ Serving' /\ JobsAwaited'
  <1>. DEFINE r == IF Skips THEN Resting
                   ELSE [worker[One] EXCEPT !.pc = "check", !.seen = task.state]
  <1>1. /\ worker[One].pc = "update" /\ worker' = [worker EXCEPT ![One] = r]
        /\ UNCHANGED <<file, modified, task, stale, table, jobs, clock>>
    BY DEF AfterUpdate, At, Rest
  <1>2. CASE Skips
    <2>1. r = Resting
      BY <1>2
    <2>. HIDE DEF r
    <2>2. worker'[One] = Resting /\ OthersIdle'
      BY <1>1, <2>1, OneServes, ServingFacts
    <2>3. Clocked' /\ Serving'
      BY <1>1, <1>2, <2>2, ServingFacts, RestingFields DEF Clocked, Serving, SInv, Skips
    <2>4. JobsAwaited'
      BY <1>1, <2>2, RestingFields DEF JobsAwaited, InFlight, Awaited, SInv
    <2>. QED  BY <2>2, <2>3, <2>4
  <1>3. CASE ~ Skips
    <2>1. /\ r.pc = "check" /\ r.modified = worker[One].modified /\ r.after = worker[One].after
          /\ r.created = worker[One].created
      BY <1>3, ServingFacts DEF Worker
    <2>. HIDE DEF r
    <2>2. worker'[One] = r /\ OthersIdle'
      BY <1>1, OneServes, ServingFacts
    <2>3. Clocked' /\ Serving'
      BY <1>1, <2>1, <2>2 DEF Clocked, Serving, SInv
    <2>4. JobsAwaited'
      BY <1>1, <1>3, NoneInFlight DEF JobsAwaited, InFlight, Skips
    <2>. QED  BY <2>2, <2>3, <2>4
  <1>. QED  BY <1>2, <1>3

LEMMA ManualServed ==
    ASSUME One \in Workers, SInv, Manual(One)
    PROVE  OthersIdle' /\ Clocked' /\ Serving' /\ JobsAwaited'
  <1>. DEFINE r == [worker[One] EXCEPT !.pc = "check"]
  <1>1. /\ worker[One].pc = "idle" /\ worker' = [worker EXCEPT ![One] = r]
        /\ UNCHANGED <<file, modified, task, stale, table, jobs, clock>>
    BY DEF Manual, At, Goto
  <1>2. /\ r.pc = "check" /\ r.modified = worker[One].modified /\ r.after = "idle"
        /\ r.seen = "none" /\ r.created = worker[One].created
    BY <1>1, ServingFacts, RestingFields DEF Worker, SInv, Serving
  <1>. HIDE DEF r
  <1>3. worker'[One] = r /\ OthersIdle'
    BY <1>1, OneServes, ServingFacts
  <1>4. Clocked' /\ Serving'
    BY <1>1, <1>2, <1>3 DEF Clocked, Serving, SInv
  <1>5. JobsAwaited'
    BY <1>1, <1>2, <1>3 DEF JobsAwaited, InFlight, Awaited, SInv
  <1>. QED  BY <1>3, <1>4, <1>5

\* The submission goes on with the save that it is part of, or is over.
LEMMA ContinueRecord ==
    ASSUME One \in Workers, SInv, Continue(One)
    PROVE  \E r : /\ worker' = [worker EXCEPT ![One] = r]
                  /\ \/ r = Resting /\ worker[One].after # "commit"
                     \/ /\ r.pc = "commit" /\ worker[One].after = "commit"
                        /\ r.after = worker[One].after
                        /\ r.modified = worker[One].modified /\ r.created = worker[One].created
  <1>. DEFINE q == [worker[One] EXCEPT !.pc = "commit"]
  <1>1. /\ q.pc = "commit" /\ q.after = worker[One].after
        /\ q.modified = worker[One].modified /\ q.created = worker[One].created
    BY ServingFacts DEF Worker
  <1>2. CASE worker[One].after = "commit"
    <2>1. worker' = [worker EXCEPT ![One] = q]
      BY <1>2 DEF Continue, Goto
    <2>. HIDE DEF q
    <2>. QED  BY <1>1, <1>2, <2>1
  <1>3. CASE worker[One].after # "commit"
    BY <1>3 DEF Continue, Rest
  <1>. QED  BY <1>2, <1>3

LEMMA CheckServed ==
    ASSUME One \in Workers, SInv, Check(One)
    PROVE  OthersIdle' /\ Clocked' /\ Serving' /\ JobsAwaited'
  <1>1. /\ worker[One].pc = "check" /\ clock' = clock + 1
        /\ UNCHANGED <<file, modified, task, stale, table, jobs>>
    BY DEF Check, At
  <1>2. CASE worker[One].seen = "none" /\ task.state = "pending" /\ ~ stale
    <2>1. Continue(One)
      BY <1>2 DEF Check
    <2>2. PICK r : /\ worker' = [worker EXCEPT ![One] = r]
                   /\ \/ r = Resting /\ worker[One].after # "commit"
                      \/ /\ r.pc = "commit" /\ worker[One].after = "commit"
                         /\ r.after = worker[One].after
                         /\ r.modified = worker[One].modified /\ r.created = worker[One].created
      BY <2>1, ContinueRecord
    <2>3. worker'[One] = r /\ OthersIdle'
      BY <1>1, <2>2, OneServes, ServingFacts
    <2>4. Clocked'
      BY <1>1, <2>2, <2>3, ServingFacts, RestingFields DEF Clocked, SInv
    <2>5. Serving'
      BY <1>1, <1>2, <2>2, <2>3, RestingFields DEF Serving, SInv
    <2>6. JobsAwaited'
      BY <1>1, <1>2, <2>2, <2>3, RestingFields DEF JobsAwaited, InFlight, Awaited, SInv
    <2>. QED  BY <2>3, <2>4, <2>5, <2>6
  <1>3. CASE ~ (worker[One].seen = "none" /\ task.state = "pending" /\ ~ stale)
    <2>. DEFINE r == [worker[One] EXCEPT !.pc = "mark", !.created = clock + 1]
    <2>1. worker' = [worker EXCEPT ![One] = r]
      BY <1>3 DEF Check
    <2>2. /\ r.pc = "mark" /\ r.modified = worker[One].modified /\ r.after = worker[One].after
          /\ r.created = clock + 1
      BY ServingFacts DEF Worker
    <2>. HIDE DEF r
    <2>3. worker'[One] = r /\ OthersIdle'
      BY <1>1, <2>1, OneServes, ServingFacts
    <2>4. Clocked'
      BY <1>1, <2>2, <2>3, ServingFacts DEF Clocked, SInv
    <2>5. Serving'
      BY <1>1, <2>2, <2>3 DEF Serving, SInv
    <2>6. \A j \in JobIds : ~ InFlight(j)
      BY <1>1, <1>3, ServingFacts DEF SInv, JobsAwaited, Awaited
    <2>7. JobsAwaited'
      BY <1>1, <2>6 DEF JobsAwaited, InFlight
    <2>. QED  BY <2>3, <2>4, <2>5, <2>7
  <1>. QED  BY <1>2, <1>3

LEMMA MarkServed ==
    ASSUME One \in Workers, SInv, Mark(One) \/ PostRefused(One)
    PROVE  OthersIdle' /\ Clocked' /\ Serving' /\ JobsAwaited'
  <1>1. PICK pc \in {"post", "refused"} :
          /\ worker' = [worker EXCEPT ![One] = [worker[One] EXCEPT !.pc = pc]]
          /\ pc = "post" => task'.state = "submitting"
          /\ worker[One].pc \in {"mark", "post"}
          /\ ~ stale'
          /\ UNCHANGED <<file, modified, table, jobs, clock>>
    BY ServingFacts DEF Mark, PostRefused, At, Goto, SetTask
  <1>. DEFINE r == [worker[One] EXCEPT !.pc = pc]
  <1>2. /\ r.pc = pc /\ r.modified = worker[One].modified /\ r.after = worker[One].after
        /\ r.created = worker[One].created
    BY ServingFacts DEF Worker
  <1>3. worker'[One] = r /\ OthersIdle'
    BY <1>1, OneServes, ServingFacts
  <1>. HIDE DEF r
  <1>4. Clocked' /\ Serving'
    BY <1>1, <1>2, <1>3 DEF Clocked, Serving, SInv
  <1>5. JobsAwaited'
    BY <1>1, NoneInFlight DEF JobsAwaited, InFlight
  <1>. QED  BY <1>3, <1>4, <1>5

LEMMA AnsweredServed ==
    ASSUME One \in Workers, SInv, Refused(One) \/ Posted(One)
    PROVE  OthersIdle' /\ Clocked' /\ Serving' /\ JobsAwaited'
  <1>1. /\ worker[One].pc \in {"refused", "posted"}
        /\ worker[One].pc = "refused" => task'.state = "error"
        /\ worker[One].pc = "posted" => task'.state = "pending"
        /\ ~ stale' /\ Continue(One)
        /\ UNCHANGED <<file, modified, table, jobs, clock>>
    BY DEF Refused, Posted, At, SetTask
  <1>2. PICK r : /\ worker' = [worker EXCEPT ![One] = r]
                 /\ \/ r = Resting /\ worker[One].after # "commit"
                    \/ /\ r.pc = "commit" /\ worker[One].after = "commit"
                       /\ r.after = worker[One].after
                       /\ r.modified = worker[One].modified /\ r.created = worker[One].created
    BY <1>1, ContinueRecord
  <1>3. worker'[One] = r /\ OthersIdle'
    BY <1>1, <1>2, OneServes
  <1>4. Clocked'
    BY <1>1, <1>2, <1>3, ServingFacts, RestingFields DEF Clocked, SInv
  <1>5. Serving'
    BY <1>1, <1>2, <1>3, RestingFields DEF Serving, SInv
  <1>6. JobsAwaited'
    BY <1>1, <1>2, <1>3, RestingFields DEF JobsAwaited, InFlight, Awaited, SInv
  <1>. QED  BY <1>3, <1>4, <1>5, <1>6

LEMMA PostServed ==
    ASSUME One \in Workers, SInv, Post(One)
    PROVE  OthersIdle' /\ Clocked' /\ Serving' /\ JobsAwaited'
  <1>1. PICK j \in JobIds :
          /\ Queue(j, worker[One].created)
          /\ worker' = [worker EXCEPT ![One].pc = "posted", ![One].job = j]
    BY DEF Post
  <1>. DEFINE r == [worker[One] EXCEPT !.pc = "posted", !.job = j]
              q == [stage |-> "queued", created |-> worker[One].created, version |-> NoFile]
  <1>2. /\ worker[One].pc = "post" /\ task.state = "submitting"
        /\ worker' = [worker EXCEPT ![One] = r] /\ jobs' = [jobs EXCEPT ![j] = q]
        /\ UNCHANGED <<file, modified, task, stale, table, clock>>
    BY <1>1 DEF Post, At, Queue, SInv, Serving
  <1>3. /\ r.pc = "posted" /\ r.modified = worker[One].modified /\ r.after = worker[One].after
        /\ r.created = worker[One].created
        /\ q.stage = "queued" /\ q.created = worker[One].created
    BY ServingFacts DEF Worker
  <1>. HIDE DEF r, q
  <1>4. worker'[One] = r /\ OthersIdle'
    BY <1>2, OneServes, ServingFacts
  <1>5. jobs'[j] = q /\ \A i \in JobIds : i # j => jobs'[i] = jobs[i]
    BY <1>2 DEF SInv, Typed, TypeOK
  <1>6. Clocked'
    BY <1>2, <1>3, <1>4, <1>5 DEF Clocked, SInv
  <1>7. Serving'
    BY <1>2, <1>3, <1>4 DEF Serving, SInv
  <1>8. \A i \in JobIds : jobs'[i].stage \in {"queued", "fetched", "complete", "error"} => i = j
    BY <1>2, <1>5, NoneInFlight DEF InFlight
  <1>9. JobsAwaited'
    BY <1>2, <1>3, <1>4, <1>5, <1>8 DEF JobsAwaited, InFlight, Awaited
  <1>. QED  BY <1>4, <1>6, <1>7, <1>9

LEMMA HookWriteServed ==
    ASSUME One \in Workers, SInv, HookWrite(One)
    PROVE  OthersIdle' /\ Clocked' /\ Serving' /\ JobsAwaited'
  <1>. DEFINE r == IF worker[One].again THEN [Resting EXCEPT !.pc = "check"] ELSE Resting
  <1>1. /\ worker[One].pc = "write" /\ task'.state = worker[One].status /\ ~ stale'
        /\ worker' = [worker EXCEPT ![One] = r]
        /\ UNCHANGED <<file, modified, table, jobs, clock>>
    BY DEF HookWrite, At, SetTask, Rest
  <1>2. /\ r.pc = IF worker[One].again THEN "check" ELSE "idle"
        /\ r.pc = "idle" => r = Resting
        /\ r.after = "idle" /\ r.modified = 0 /\ r.created = 0
    BY DEF Resting
  <1>. HIDE DEF r
  <1>3. worker'[One] = r /\ OthersIdle'
    BY <1>1, OneServes
  <1>4. Clocked'
    BY <1>1, <1>2, <1>3, ServingFacts DEF Clocked, SInv
  <1>5. Serving'
    BY <1>1, <1>2, <1>3 DEF Serving, SInv
  <1>6. JobsAwaited'
    BY <1>1, NoneInFlight DEF JobsAwaited, InFlight
  <1>. QED  BY <1>3, <1>4, <1>5, <1>6

\* The service works on the one job in flight, for which the row is pending
\* or about to be.
LEMMA ServiceServed ==
    ASSUME One \in Workers, SInv, NEW j \in JobIds, Service(j)
    PROVE  OthersIdle' /\ Clocked' /\ Serving' /\ JobsAwaited'
  <1>1. InFlight(j) /\ UNCHANGED <<file, modified, task, stale, worker, clock>>
    BY DEF Service, Fetch, Push, JobFails, InFlight
  <1>2. PICK r :
          /\ jobs' = [jobs EXCEPT ![j] = r] /\ r.created = jobs[j].created
          /\ \/ r.stage = "fetched" /\ r.version = file /\ UNCHANGED table
             \/ /\ r.stage = "complete" /\ jobs[j].stage = "fetched"
                /\ r.version = jobs[j].version /\ table' = r.version
             \/ r.stage = "error" /\ UNCHANGED table
    <2>1. jobs[j] \in JobRecord
      BY ServingFacts
    <2>2. CASE Fetch(j)
      <3>. DEFINE q == [jobs[j] EXCEPT !.stage = "fetched", !.version = file]
      <3>1. q.stage = "fetched" /\ q.version = file /\ q.created = jobs[j].created
        BY <2>1 DEF JobRecord
      <3>2. jobs' = [jobs EXCEPT ![j] = q] /\ UNCHANGED table
        BY <2>2 DEF Fetch
      <3>. HIDE DEF q
      <3>. QED  BY <3>1, <3>2
    <2>3. CASE Push(j)
      <3>. DEFINE q == [jobs[j] EXCEPT !.stage = "complete"]
      <3>1. q.stage = "complete" /\ q.version = jobs[j].version /\ q.created = jobs[j].created
        BY <2>1 DEF JobRecord
      <3>2. /\ jobs' = [jobs EXCEPT ![j] = q] /\ jobs[j].stage = "fetched"
            /\ table' = jobs[j].version
        BY <2>3 DEF Push
      <3>. HIDE DEF q
      <3>. QED  BY <3>1, <3>2
    <2>4. CASE JobFails(j)
      <3>. DEFINE q == [jobs[j] EXCEPT !.stage = "error"]
      <3>1. q.stage = "error" /\ q.created = jobs[j].created
        BY <2>1 DEF JobRecord
      <3>2. jobs' = [jobs EXCEPT ![j] = q] /\ UNCHANGED table
        BY <2>4 DEF JobFails
      <3>. HIDE DEF q
      <3>. QED  BY <3>1, <3>2
    <2>. QED  BY <2>2, <2>3, <2>4 DEF Service
  <1>3. jobs'[j] = r /\ \A i \in JobIds : i # j => jobs'[i] = jobs[i]
    BY <1>2 DEF SInv, Typed, TypeOK
  <1>4. OthersIdle' /\ Clocked'
    BY <1>1, <1>2, <1>3 DEF OthersIdle, Clocked, SInv
  <1>5. Awaited(j)
    BY <1>1 DEF SInv, JobsAwaited
  <1>6. Serving'
    BY <1>1, <1>5 DEF Serving, SInv, Awaited
  <1>7. \A i \in JobIds : jobs'[i].stage \in {"queued", "fetched", "complete", "error"} => i = j
    BY <1>1, <1>3 DEF SInv, JobsAwaited, InFlight
  <1>8. JobsAwaited'
    BY <1>1, <1>2, <1>3, <1>5, <1>7 DEF JobsAwaited, InFlight, Awaited
  <1>. QED  BY <1>4, <1>6, <1>8

\* A file that was replaced since the job fetched it is pushed again.
LEMMA HookServed ==
    ASSUME One \in Workers, SInv, NEW j \in JobIds, Hook(One, j)
    PROVE  OthersIdle' /\ Clocked' /\ Serving' /\ JobsAwaited'
  <1>1. /\ worker[One].pc = "idle" /\ jobs[j].stage \in {"complete", "error"}
        /\ jobs' = [jobs EXCEPT ![j].stage = "reported"]
        /\ UNCHANGED <<file, modified, task, stale, table, clock>>
    BY DEF Hook, At
  <1>2. InFlight(j) /\ Awaited(j)
    BY <1>1 DEF InFlight, SInv, JobsAwaited
  <1>. DEFINE r == [Resting EXCEPT !.pc = "write", !.job = task.job,
                                   !.status = jobs[j].stage, !.again = Resubmit(One, j)]
  <1>3. worker' = [worker EXCEPT ![One] = r]
    BY <1>1, <1>2 DEF Hook, Awaited
  <1>4. /\ r.pc = "write" /\ r.after = "idle" /\ r.modified = 0 /\ r.created = 0
        /\ r.status = jobs[j].stage /\ r.again = Resubmit(One, j)
    BY DEF Resting
  <1>. HIDE DEF r
  <1>5. worker'[One] = r /\ OthersIdle'
    BY <1>1, <1>3, OneServes, ServingFacts
  <1>6. /\ jobs'[j].stage = "reported" /\ jobs'[j].created = jobs[j].created
        /\ \A i \in JobIds : i # j => jobs'[i] = jobs[i]
    BY <1>1, ServingFacts DEF SInv, Typed, TypeOK, JobRecord
  <1>7. Clocked'
    <2>1. \A i \in JobIds : jobs'[i].created = jobs[i].created
      BY <1>6
    <2>. QED  BY <1>1, <1>4, <1>5, <2>1, ServingFacts DEF Clocked, SInv
  <1>8. jobs[j].stage = "complete" /\ ~ Resubmit(One, j) => table = file
    BY <1>1, <1>2, ServingFacts DEF Awaited, Resubmit
  <1>9. Serving'
    BY <1>1, <1>4, <1>5, <1>8 DEF Serving
  <1>10. \A i \in JobIds : jobs'[i].stage \notin {"queued", "fetched", "complete", "error"}
    BY <1>2, <1>6 DEF SInv, JobsAwaited, InFlight
  <1>11. JobsAwaited'
    BY <1>10 DEF JobsAwaited, InFlight
  <1>. QED  BY <1>5, <1>7, <1>9, <1>11

LEMMA InitServed ==
    ASSUME One \in Workers, Init
    PROVE  SInv
  <1>1. worker[One] = Resting /\ \A w \in Workers : worker[w].pc = "idle"
    BY RestingFields DEF Init
  <1>2. \A j \in JobIds : ~ InFlight(j) /\ jobs[j].created = 0
    BY DEF Init, InFlight, Unposted
  <1>3. OthersIdle /\ Clocked /\ Serving
    BY <1>1, <1>2, RestingFields DEF Init, OthersIdle, Clocked, Serving
  <1>4. JobsAwaited
    BY <1>2 DEF JobsAwaited
  <1>. QED  BY <1>3, <1>4, TypedInit DEF SInv

LEMMA StepServed ==
    ASSUME One \in Workers, ~ MayStop, ~ MayAge, SInv, [Sequential]_vars
    PROVE  SInv'
  <1>1. CASE UNCHANGED vars
    BY <1>1, TypedNext DEF vars, SInv, OthersIdle, Clocked, Serving, JobsAwaited, InFlight, Awaited
  <1>2. CASE Sequential
    <2>1. Typed'
      BY <1>2, TypedNext DEF Sequential, SInv
    <2>2. ASSUME NEW w \in Workers, w # One,
                 \/ Edit(w) \/ Manual(w) \/ Work(w)
                 \/ \E j \in JobIds : Hook(w, j)
          PROVE  FALSE
      <3>1. worker[w].pc = "idle" /\ worker'[w] = worker[w]
        BY <1>2, <2>2 DEF SInv, OthersIdle, Sequential
      <3>2. worker[w] \in Worker /\ worker \in [Workers -> Worker]
        BY DEF SInv, Typed, TypeOK
      <3>3. CASE Work(w)
        BY <3>1, <3>3 DEF Work, Upload, Notify, Commit, AfterUpdate, Check, Mark, Post, PostRefused,
                          Refused, Posted, HookWrite, At
      <3>4. CASE Edit(w) \/ Manual(w)
        <4>1. worker'[w].pc \in {"upload", "check"}
          BY <3>2, <3>4 DEF Edit, Manual, Goto, Worker
        <4>. QED  BY <3>1, <4>1
      <3>5. CASE \E j \in JobIds : Hook(w, j)
        <4>1. PICK j \in JobIds : Hook(w, j)
          BY <3>5
        <4>2. task.state # "none"
          BY <4>1 DEF Hook, SInv, Typed, TaskKnown, Reporting
        <4>. DEFINE r == [Resting EXCEPT !.pc = "write", !.job = task.job,
                                         !.status = jobs[j].stage, !.again = Resubmit(w, j)]
        <4>3. worker' = [worker EXCEPT ![w] = r] /\ r.pc = "write"
          BY <4>1, <4>2 DEF Hook, Resting
        <4>. HIDE DEF r
        <4>. QED  BY <3>1, <3>2, <4>3
      <3>. QED  BY <2>2, <3>3, <3>4, <3>5
    <2>3. CASE Edit(One) \/ Manual(One) \/ Work(One)
      BY <2>1, <2>3, EditServed, ManualServed, UploadServed, NotifyServed, CommitServed,
         AfterUpdateServed, CheckServed, MarkServed, AnsweredServed, PostServed, HookWriteServed
         DEF Work, SInv
    <2>4. CASE \E j \in JobIds : Service(j) \/ Hook(One, j)
      BY <2>1, <2>4, ServiceServed, HookServed DEF SInv
    <2>. QED  BY <1>2, <2>2, <2>3, <2>4 DEF Sequential, Next, PostTimesOut, Stop, Age
  <1>. QED  BY <1>1, <1>2

LEMMA ServedPromise ==
    ASSUME One \in Workers, SInv
    PROVE  CompleteIsCurrent /\ OneJob
  <1>1. CompleteIsCurrent
    BY DEF SInv, Serving, CompleteIsCurrent, Quiet, At
  <1>2. OneJob
    <2>. DEFINE S == {j \in JobIds : InFlight(j)}
    <2>1. CASE S = {}
      BY <2>1, FS_EmptySet DEF OneJob
    <2>2. CASE S # {}
      <3>1. PICK j \in JobIds : S = {j}
        BY <2>2 DEF SInv, JobsAwaited
      <3>2. Cardinality(S) = 1
        <4>. HIDE DEF S
        <4>. QED  BY <3>1, FS_Singleton
      <3>. QED  BY <3>2 DEF OneJob
    <2>. QED  BY <2>1, <2>2
  <1>. QED  BY <1>1, <1>2

\* When one process serves, nobody dies and no task is thought to be stale, a
\* task that is complete, with nothing under way, has the file that is on disk
\* in its table: whatever was saved while a job was in flight, datapusher_hook
\* finds the resource newer than the job.  And one job is in flight at most.
THEOREM SequentialIsCurrent ==
    ASSUME Workers # {}, ~ MayStop, ~ MayAge
    PROVE  SequentialSpec => [](CompleteIsCurrent /\ OneJob)
  <1>. One \in Workers
    BY DEF One
  <1>1. Init => SInv
    BY InitServed
  <1>2. SInv /\ [Sequential]_vars => SInv'
    BY StepServed
  <1>3. SInv => CompleteIsCurrent /\ OneJob
    BY ServedPromise
  <1>. QED  BY <1>1, <1>2, <1>3, PTL DEF SequentialSpec

\* The same of the behaviours that the run of MCDataPusher explores, in which
\* processes either take turns, as above, or race.
THEOREM TableAlwaysCurrent ==
    ASSUME Workers # {}, ~ MayStop, ~ MayAge
    PROVE  MCSpec => []TableIsCurrent
  <1>. One \in Workers
    BY DEF One
  <1>. DEFINE I == part = "sequential" => SInv
  <1>1. MCInit => I
    BY InitServed DEF MCInit
  <1>2. I /\ [MCNext]_<<vars, part>> => I'
    <2> SUFFICES ASSUME I, [MCNext]_<<vars, part>>, part' = "sequential"
                 PROVE  SInv'
      OBVIOUS
    <2>1. part = "sequential" /\ [Sequential]_vars
      BY DEF MCNext
    <2>. QED  BY <2>1, StepServed
  <1>3. I => TableIsCurrent
    BY ServedPromise DEF TableIsCurrent, Alone
  <1>. QED  BY <1>1, <1>2, <1>3, PTL DEF MCSpec
=============================================================================
