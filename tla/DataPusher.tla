----------------------------- MODULE DataPusher -----------------------------
(***************************************************************************)
(* How ckanext-datapusher keeps the DataStore table of a resource up to    *)
(* date with its uploaded file.                                            *)
(*                                                                         *)
(* A web worker that saves the resource replaces the file, and submits the *)
(* resource twice: before the commit (IResourceUrlChange.notify) and after *)
(* it (after_resource_update).  A submission is skipped if the task_status *)
(* row says that one is on its way.  Otherwise it writes the row in a      *)
(* session of its own ("submitting"), posts a job to the DataPusher        *)
(* service and writes the row again ("pending").  The service fetches the  *)
(* file, loads it into the table and calls datapusher_hook, which writes   *)
(* how the job ended and submits the resource again if it was modified     *)
(* after the job was created.                                              *)
(*                                                                         *)
(* The service is not part of the repository: its jobs are modelled from   *)
(* what the extension posts to it and expects of it.                       *)
(***************************************************************************)
EXTENDS Naturals, FiniteSets

CONSTANTS
    Workers,        \* web workers and command lines
    MaxEdits,       \* bound: how often the resource is saved
    MaxJobs,        \* bound: how many jobs are posted
    MaxManual,      \* bound: how often it is submitted by hand
    MayFail,        \* whether the service may refuse or fail a job
    MayStop,        \* whether a worker may die, or time out, half way
    MayAge,         \* whether assume_task_stale_after may pass
    NoFile,         \* the table was never loaded
    Nobody          \* nobody holds the row lock of the dataset

ASSUME BoundsAssumption ==
    MaxEdits \in Nat /\ MaxJobs \in Nat /\ MaxManual \in Nat
ASSUME ChoicesAssumption == {MayFail, MayStop, MayAge} \subseteq BOOLEAN
ASSUME NullAssumption == NoFile \notin Nat /\ Nobody \notin Workers

VARIABLES
    file,           \* the version of the file on disk
    modified,       \* the committed last_modified of the resource
    lock,           \* the worker that holds the dataset's row lock
    task,           \* the task_status row of the resource
    stale,          \* its last_updated is older than assume_task_stale_after
    table,          \* the version of the file in the DataStore table
    jobs,           \* the jobs posted to the service
    worker,         \* what each worker does
    clock,          \* the time, which passes when someone looks
    edits,          \* how often the resource was saved
    manuals         \* how often it was submitted by hand

vars == <<file, modified, lock, task, stale, table, jobs, worker, clock,
          edits, manuals>>

States == {"none", "submitting", "pending", "complete", "error"}
JobIds == 1..MaxJobs
NoJob == 0

\* How far the requests and the jobs have got.
Steps == {"idle", "upload", "notify", "commit", "update", "check", "mark",
          "post", "posted", "refused", "write"}
Stages == {"none", "queued", "fetched", "complete", "error", "reported"}

Resting ==
    [pc |-> "idle", after |-> "idle", modified |-> 0, created |-> 0,
     seen |-> "none", job |-> NoJob, status |-> "none", again |-> FALSE]

Unposted == [stage |-> "none", created |-> 0, version |-> NoFile]

Versions == 0..MaxEdits

JobRecord == [stage : Stages, created : Nat, version : Versions \cup {NoFile}]

Worker ==
    [pc       : Steps,
     after    : {"idle", "commit"},  \* where to go on after submitting
     modified : Nat,                 \* last_modified to be committed
     created  : Nat,                 \* task_created of the submission
     seen     : States,              \* the row its session holds
     job      : JobIds \cup {NoJob}, \* the job posted or reported
     status   : States,              \* the status reported to the hook
     again    : BOOLEAN]             \* resubmit

TypeOK ==
    /\ file \in Versions
    /\ modified \in Nat
    /\ lock \in Workers \cup {Nobody}
    /\ task \in [state : States, job : JobIds \cup {NoJob}]
    /\ stale \in BOOLEAN
    /\ table \in Versions \cup {NoFile}
    /\ jobs \in [JobIds -> JobRecord]
    /\ worker \in [Workers -> Worker]
    /\ clock \in Nat
    /\ edits \in Versions
    /\ manuals \in 0..MaxManual

\* A resource whose file was never pushed, or was pushed as it is.
Init ==
    /\ file = 0
    /\ modified = 0
    /\ lock = Nobody
    /\ \/ task = [state |-> "none", job |-> NoJob] /\ table = NoFile
       \/ task = [state |-> "complete", job |-> NoJob] /\ table = 0
    /\ stale = FALSE
    /\ jobs = [j \in JobIds |-> Unposted]
    /\ worker = [w \in Workers |-> Resting]
    /\ clock = 0
    /\ edits = 0
    /\ manuals = 0

At(w, pc) == worker[w].pc = pc

Goto(w, pc) == worker' = [worker EXCEPT ![w].pc = pc]

Rest(w) == worker' = [worker EXCEPT ![w] = Resting]

\* The submission of w is over: it goes on with the commit, or is done.
Continue(w) ==
    IF worker[w].after = "commit" THEN Goto(w, "commit") ELSE Rest(w)

\* Mutant of SetTask: the value of the row is lost.
SetTaskState(state, job) ==
    /\ task' = [state |-> state]
    /\ stale' = FALSE

\* task_status_update commits the whole row, with a new last_updated.
SetTask(state, job) ==
    /\ task' = [state |-> state, job |-> job]
    /\ stale' = FALSE

InFlight(j) == jobs[j].stage \in {"queued", "fetched", "complete", "error"}

Submitting(w) == worker[w].pc \in {"check", "mark", "post", "posted", "refused"}

-----------------------------------------------------------------------------
(* Saving the resource with a new file. *)

\* resource_update locks the dataset, and the uploader sets last_modified.
Edit(w) ==
    /\ At(w, "idle")
    /\ edits < MaxEdits
    /\ lock = Nobody
    /\ lock' = w
    /\ edits' = edits + 1
    /\ clock' = clock + 1
    /\ worker' = [worker EXCEPT ![w].pc = "upload", ![w].modified = clock + 1]
    /\ UNCHANGED <<file, modified, task, stale, table, jobs, manuals>>

\* package_update replaces the file before it commits.
Upload(w) ==
    /\ At(w, "upload")
    /\ file' = edits
    /\ Goto(w, "notify")
    /\ UNCHANGED <<modified, lock, task, stale, table, jobs, clock, edits, manuals>>

\* The extension does not submit a resource whose task is under way.
Skips == task.state \in {"pending", "submitting"}

\* IResourceUrlChange.notify, called for the flushed resource by the hook
\* before_commit.
Notify(w) ==
    /\ At(w, "notify")
    /\ worker' = [worker EXCEPT ![w].pc = IF Skips THEN "commit" ELSE "check",
                                ![w].after = IF Skips THEN "idle" ELSE "commit",
                                ![w].seen = task.state]
    /\ UNCHANGED <<file, modified, lock, task, stale, table, jobs, clock, edits,
                   manuals>>

Commit(w) ==
    /\ At(w, "commit")
    /\ modified' = worker[w].modified
    /\ lock' = Nobody
    /\ worker' = [worker EXCEPT ![w] = [Resting EXCEPT !.pc = "update"]]
    /\ UNCHANGED <<file, task, stale, table, jobs, clock, edits, manuals>>

\* after_resource_update, which submits the resource like notify.
AfterUpdate(w) ==
    /\ At(w, "update")
    /\ IF Skips
       THEN Rest(w)
       ELSE worker' = [worker EXCEPT ![w].pc = "check", ![w].seen = task.state]
    /\ UNCHANGED <<file, modified, lock, task, stale, table, jobs, clock, edits,
                   manuals>>

-----------------------------------------------------------------------------
(* datapusher_submit. *)

\* A submission by hand, or by the command line.
Manual(w) ==
    /\ At(w, "idle")
    /\ manuals < MaxManual
    /\ manuals' = manuals + 1
    /\ Goto(w, "check")
    /\ UNCHANGED <<file, modified, lock, task, stale, table, jobs, clock, edits>>

\* The row is read: a fresh pending task makes it return.  A session that
\* has read the row already (notify, after_resource_update) holds the object,
\* and is answered with that, which was not pending.
Check(w) ==
    /\ At(w, "check")
    /\ clock' = clock + 1
    /\ IF worker[w].seen = "none" /\ task.state = "pending" /\ ~ stale
       THEN Continue(w)
       ELSE worker' = [worker EXCEPT ![w].pc = "mark", ![w].created = clock + 1]
    /\ UNCHANGED <<file, modified, lock, task, stale, table, jobs, edits, manuals>>

\* Mutant of Mark: the row is written in the session of the request, and
\* stays invisible until it commits.
MarkUncommitted(w) ==
    /\ At(w, "mark")
    /\ Goto(w, "post")
    /\ UNCHANGED <<file, modified, lock, task, stale, table, jobs, clock, edits,
                   manuals>>

\* The row says "submitting" before the job is posted.
Mark(w) ==
    /\ At(w, "mark")
    /\ SetTask("submitting", NoJob)
    /\ Goto(w, "post")
    /\ UNCHANGED <<file, modified, lock, table, jobs, clock, edits, manuals>>

\* The service gets its next job, j.
Queue(j, created) ==
    /\ jobs[j].stage = "none"
    /\ \A i \in 1..(j - 1) : jobs[i].stage # "none"
    /\ jobs' = [jobs EXCEPT ![j] =
                  [stage |-> "queued", created |-> created, version |-> NoFile]]

Post(w) ==
    /\ At(w, "post")
    /\ \E j \in JobIds :
         /\ Queue(j, worker[w].created)
         /\ worker' = [worker EXCEPT ![w].pc = "posted", ![w].job = j]
    /\ UNCHANGED <<file, modified, lock, task, stale, table, clock, edits, manuals>>

\* The service cannot be reached, or answers with an error ...
PostRefused(w) ==
    /\ MayFail
    /\ At(w, "post")
    /\ Goto(w, "refused")
    /\ UNCHANGED <<file, modified, lock, task, stale, table, jobs, clock, edits,
                   manuals>>

\* ... which is written to the row.  A caller that saves the resource goes on.
Refused(w) ==
    /\ At(w, "refused")
    /\ SetTask("error", NoJob)
    /\ Continue(w)
    /\ UNCHANGED <<file, modified, lock, table, jobs, clock, edits, manuals>>

\* The request dies; its transaction is rolled back.
Die(w) ==
    /\ Rest(w)
    /\ lock' = IF lock = w THEN Nobody ELSE lock

\* The service got the job, but its answer does not come in time: an
\* exception that is handled nowhere ends the request.
PostTimesOut(w) ==
    /\ MayStop
    /\ At(w, "post")
    /\ \E j \in JobIds : Queue(j, worker[w].created)
    /\ Die(w)
    /\ UNCHANGED <<file, modified, task, stale, table, clock, edits, manuals>>

Posted(w) ==
    /\ At(w, "posted")
    /\ SetTask("pending", worker[w].job)
    /\ Continue(w)
    /\ UNCHANGED <<file, modified, lock, table, jobs, clock, edits, manuals>>

-----------------------------------------------------------------------------
(* The service, and datapusher_hook. *)

\* A job fetches the file.
Fetch(j) ==
    /\ jobs[j].stage = "queued"
    /\ jobs' = [jobs EXCEPT ![j].stage = "fetched", ![j].version = file]
    /\ UNCHANGED <<file, modified, lock, task, stale, table, worker, clock, edits,
                   manuals>>

\* It loads what it fetched into the table.
Push(j) ==
    /\ jobs[j].stage = "fetched"
    /\ table' = jobs[j].version
    /\ jobs' = [jobs EXCEPT ![j].stage = "complete"]
    /\ UNCHANGED <<file, modified, lock, task, stale, worker, clock, edits, manuals>>

JobFails(j) ==
    /\ MayFail
    /\ jobs[j].stage \in {"queued", "fetched"}
    /\ jobs' = [jobs EXCEPT ![j].stage = "error"]
    /\ UNCHANGED <<file, modified, lock, task, stale, table, worker, clock, edits,
                   manuals>>

\* Mutant of Resubmit: nobody looks whether the file was modified.
ResubmitNever(w, j) == FALSE

\* The file was modified after the job was created.
Resubmit(w, j) == jobs[j].stage = "complete" /\ modified > jobs[j].created

\* Mutant of Hook: only complete jobs are recorded.
HookComplete(w, j) ==
    /\ At(w, "idle")
    /\ jobs[j].stage \in {"complete", "error"}
    /\ jobs' = [jobs EXCEPT ![j].stage = "reported"]
    /\ IF task.state = "none" \/ jobs[j].stage = "error"
       THEN UNCHANGED worker
       ELSE worker' = [worker EXCEPT
              ![w] = [Resting EXCEPT !.pc = "write", !.job = task.job,
                                     !.status = jobs[j].stage,
                                     !.again = Resubmit(w, j)]]
    /\ UNCHANGED <<file, modified, lock, task, stale, table, clock, edits, manuals>>

\* The hook reads the row and, if the job is complete, the resource.  If
\* there is no row, it answers NotFound.
Hook(w, j) ==
    /\ At(w, "idle")
    /\ jobs[j].stage \in {"complete", "error"}
    /\ jobs' = [jobs EXCEPT ![j].stage = "reported"]
    /\ IF task.state = "none"
       THEN UNCHANGED worker
       ELSE worker' = [worker EXCEPT
              ![w] = [Resting EXCEPT !.pc = "write", !.job = task.job,
                                     !.status = jobs[j].stage,
                                     !.again = Resubmit(w, j)]]
    /\ UNCHANGED <<file, modified, lock, task, stale, table, clock, edits, manuals>>

\* It writes the row as it read it, but for the state, and submits the
\* resource again.
HookWrite(w) ==
    /\ At(w, "write")
    /\ SetTask(worker[w].status, worker[w].job)
    /\ IF worker[w].again
       THEN worker' = [worker EXCEPT ![w] = [Resting EXCEPT !.pc = "check"]]
       ELSE Rest(w)
    /\ UNCHANGED <<file, modified, lock, table, jobs, clock, edits, manuals>>

-----------------------------------------------------------------------------
\* A worker dies: its file is left, its transaction is not.
Stop(w) ==
    /\ MayStop
    /\ ~ At(w, "idle")
    /\ Die(w)
    /\ UNCHANGED <<file, modified, task, stale, table, jobs, clock, edits, manuals>>

\* assume_task_stale_after passes, which is longer than a request takes.
Age ==
    /\ MayAge
    /\ \A w \in Workers : At(w, "idle")
    /\ task.state # "none"
    /\ ~ stale
    /\ stale' = TRUE
    /\ UNCHANGED <<file, modified, lock, task, table, jobs, worker, clock, edits,
                   manuals>>

Work(w) ==
    \/ Upload(w) \/ Notify(w) \/ Commit(w) \/ AfterUpdate(w)
    \/ Check(w) \/ Mark(w) \/ Post(w) \/ PostRefused(w) \/ Refused(w)
    \/ Posted(w) \/ HookWrite(w)

Service(j) == Fetch(j) \/ Push(j) \/ JobFails(j)

Next ==
    \/ \E w \in Workers : Edit(w) \/ Manual(w) \/ Work(w) \/ PostTimesOut(w) \/ Stop(w)
    \/ \E j \in JobIds : Service(j) \/ \E w \in Workers : Hook(w, j)
    \/ Age

Spec == Init /\ [][Next]_vars

\* One of the workers serves every request.
One == CHOOSE w \in Workers : TRUE
Sequential == Next /\ \A w \in Workers \ {One} : UNCHANGED worker[w]
SequentialSpec == Init /\ [][Sequential]_vars

\* Requests go on, the service works on its jobs, and its calls of the hook
\* are answered by some worker sooner or later.
Fairness ==
    /\ \A w \in Workers : WF_vars(Work(w))
    /\ \A j \in JobIds :
         WF_vars(Service(j)) /\ SF_vars(\E w \in Workers : Hook(w, j))

FairSpec == Spec /\ Fairness

-----------------------------------------------------------------------------
(* Properties. *)

Quiet ==
    /\ \A w \in Workers : At(w, "idle")
    /\ \A j \in JobIds : ~ InFlight(j)

\* When nothing is going on and the task is said to be complete, the table
\* holds the file: a file that was "modified in the meantime" is pushed again.
CompleteIsCurrent ==
    (Quiet /\ task.state = "complete") => table = file

\* A resource that was submitted already is not posted again while that job
\* is in flight.
OneJob == Cardinality({j \in JobIds : InFlight(j)}) <= 1

\* Whenever the extension would skip a submission because one is pending,
\* there is one: a job in flight, or a request that is about to post it or
\* to write how it ended.
SkipsOnlyPending ==
    Skips => \/ \E j \in JobIds : InFlight(j)
             \/ \E w \in Workers : Submitting(w) \/ At(w, "write")

\* A job that is in flight has its row: the hook never answers NotFound.
HookFindsTask == (\E j \in JobIds : InFlight(j)) => task.state # "none"

\* A submission ends: the task does not stay under way for ever.
TaskSettles == Skips ~> ~ Skips
=============================================================================
