------------------------ MODULE DatasetIndex_proofs ------------------------
(***************************************************************************)
(* Proofs about DatasetIndex, for any sets of workers, datasets, columns,  *)
(* parts and values and any number of requests.                            *)
(*                                                                         *)
(* Part 1.  Every variable keeps its type.                                 *)
(* Part 2.  When every operation in use takes the row lock before it reads *)
(* the dataset (SafeKinds), the indexed copy of a dataset never            *)
(* contradicts the database, patches leave what they were not given alone, *)
(* and package_show's answers change as DatasetStore says, whatever fails. *)
(* Part 3.  When the requests that do not take the row lock before they    *)
(* read run alone, and none fails half way, the index says what the        *)
(* database says whenever nobody works on a dataset.                       *)
(***************************************************************************)
EXTENDS DatasetIndex, TLAPS

-----------------------------------------------------------------------------
(* Part 1: types. *)

LEMMA OverrideType ==
    ASSUME NEW c \in Content, NEW r \in Changes
    PROVE  Override(c, r) \in Content
  <1>1. PICK F \in SUBSET Fields : r \in [F -> Values]
    BY DEF Changes
  <1>2. \A f \in Fields : f \in DOMAIN r => r[f] \in Values
    BY <1>1
  <1>. QED  BY <1>2 DEF Override, Content

LEMMA RequestsType ==
    ASSUME NEW k \in AllKinds, NEW r \in RequestsOf(k)
    PROVE  /\ r \in Changes
           /\ k \in {"create", "update"} => r \in Content
  <1>1. {} \subseteq Fields /\ Fields \subseteq Fields /\ Parts \subseteq Fields
        /\ {"private"} \subseteq Fields /\ {"state"} \subseteq Fields
    BY ColumnsAssumption DEF Fields
  <1>2. StateDeleted \in [{"state"} -> Values]
    BY ValuesAssumption DEF StateDeleted
  <1>. QED  BY <1>1, <1>2 DEF RequestsOf, Changes, AllKinds, Content

LEMMA VersionType ==
    ASSUME NEW c \in Content, NEW n \in Nat
    PROVE  /\ [content |-> c, mm |-> n] \in Version
           /\ [content |-> c, mm |-> n] # Absent
  BY NullAssumption DEF Version

LEMMA DictizedType ==
    ASSUME NEW o \in Version, NEW r \in Version \cup {Absent}
    PROVE  Dictized(o, r) \in Content
  BY DEF Dictized, Version, Content

LEMMA WithType ==
    ASSUME NEW v \in Version, NEW r \in Changes
    PROVE  With(v, r) \in Version /\ With(v, r) # Absent
  <1>1. v.content \in Content /\ v.mm \in Nat
    BY DEF Version
  <1>. QED  BY <1>1, OverrideType, VersionType DEF With

LEMMA IndexedType ==
    ASSUME NEW v \in Version
    PROVE  Indexed(v) \in Version \cup {Absent}
  BY DEF Indexed

-----------------------------------------------------------------------------
(* Type correctness. *)

\* A step that replaces the job of one worker keeps every job typed.
LEMMA JobStep ==
    ASSUME job \in [Workers -> Job], Shape, NEW w \in Workers, NEW j,
           j \in Job, ShapeOf(j), job' = [job EXCEPT ![w] = j]
    PROVE  job' \in [Workers -> Job] /\ Shape'
  BY DEF Shape, ShapeOf

LEMMA IdleShape == Idle \in Job /\ ShapeOf(Idle)
  BY DEF Idle, Job, ShapeOf

LEMMA FinishStep ==
    ASSUME Typed, NEW w \in Workers, Finish(w)
    PROVE  /\ job' \in [Workers -> Job] /\ Shape'
           /\ lock' \in [Datasets -> Workers \cup {Nobody}]
  <1>1. job' = [job EXCEPT ![w] = Idle]
    BY DEF Finish
  <1>2. job' \in [Workers -> Job] /\ Shape'
    BY <1>1, IdleShape, JobStep DEF Typed, TypeOK
  <1>3. lock' \in [Datasets -> Workers \cup {Nobody}]
    BY DEF Finish, Typed, TypeOK
  <1>. QED  BY <1>2, <1>3

\* What is known of the job of a worker.
LEMMA JobOf ==
    ASSUME Typed, NEW w \in Workers
    PROVE  job[w] \in Job /\ ShapeOf(job[w])
  BY DEF Typed, TypeOK, Shape

LEMMA TypedInit == Init => Typed
  <1>. SUFFICES ASSUME Init PROVE Typed
    OBVIOUS
  <1>1. PICK c \in Content :
          row = [d \in Datasets |->
                   IF d \in born THEN [content |-> c, mm |-> 0] ELSE Absent]
    BY DEF Init
  <1>2. row \in [Datasets -> Version \cup {Absent}]
    BY <1>1, VersionType
  <1>3. job \in [Workers -> Job] /\ Shape
    BY IdleShape DEF Init, Shape
  <1>. QED  BY <1>2, <1>3, BoundAssumption DEF Init, Typed, TypeOK

LEMMA TypedRequest ==
    ASSUME Typed, NEW w \in Workers, NEW k \in AllKinds, NEW d \in Datasets,
           Request(w, k, d)
    PROVE  Typed'
  <1>1. PICK r \in RequestsOf(k) :
          job' = [job EXCEPT ![w] =
                    [Idle EXCEPT !.pc = "begin", !.kind = k, !.ds = d, !.req = r]]
    BY DEF Request
  <1>2. r \in Changes
    BY RequestsType
  <1>. DEFINE j == [Idle EXCEPT !.pc = "begin", !.kind = k, !.ds = d, !.req = r]
  <1>3. j \in Job
    BY <1>2 DEF Idle, Job
  <1>4. ShapeOf(j)
    BY <1>3 DEF ShapeOf, Idle, Request, Job
  <1>5. job' \in [Workers -> Job] /\ Shape'
    BY <1>1, <1>3, <1>4, JobStep DEF Typed, TypeOK
  <1>6. requests' \in 0..MaxRequests
    BY BoundAssumption DEF Request, Typed, TypeOK
  <1>. QED  BY <1>5, <1>6 DEF Request, Typed, TypeOK

LEMMA TypedLoad ==
    ASSUME Typed, NEW w \in Workers, Load(w)
    PROVE  Typed'
  <1>. DEFINE j == [job[w] EXCEPT !.pc = "loaded", !.obj = row[job[w].ds]]
  <1>1. job[w] \in Job /\ ShapeOf(job[w])
    BY JobOf
  <1>2. job' = [job EXCEPT ![w] = j]
    BY DEF Load
  <1>3. row[job[w].ds] \in Version
    BY <1>1 DEF Load, At, ShapeOf, Typed, TypeOK
  <1>4. j \in Job
    BY <1>1, <1>3 DEF Job
  <1>5. ShapeOf(j)
    BY <1>1, <1>3, <1>4, NullAssumption DEF ShapeOf, Load, At, Job, Idle
  <1>. QED  BY <1>2, <1>4, <1>5, JobStep DEF Typed, TypeOK, Load

LEMMA TypedLock ==
    ASSUME Typed, NEW w \in Workers, Lock(w)
    PROVE  Typed'
  <1>. DEFINE o == IF job[w].obj = Absent THEN row[job[w].ds] ELSE job[w].obj
              j == [job[w] EXCEPT !.pc = "locked", !.obj = o]
  <1>1. job[w] \in Job /\ ShapeOf(job[w])
    BY JobOf
  <1>2. job' = [job EXCEPT ![w] = j]
    BY DEF Lock
  <1>3. o \in Version
    BY <1>1 DEF Lock, At, ShapeOf, Typed, TypeOK, Job
  <1>4. j \in Job
    BY <1>1, <1>3 DEF Job
  <1>5. ShapeOf(j)
    BY <1>1, <1>3, <1>4, NullAssumption DEF ShapeOf, Lock, At, Job, Idle
  <1>6. lock' \in [Datasets -> Workers \cup {Nobody}]
    BY DEF Lock, Typed, TypeOK
  <1>. QED  BY <1>2, <1>4, <1>5, <1>6, JobStep DEF Typed, TypeOK, Lock

\* The steps that only end the request.
LEMMA TypedFinish ==
    ASSUME Typed, NEW w \in Workers,
           Finish(w), UNCHANGED <<row, doc, born, clock, requests>>
    PROVE  Typed'
  BY FinishStep DEF Typed, TypeOK

\* The steps that only move the job on.
LEMMA TypedGoto ==
    ASSUME Typed, NEW w \in Workers, NEW pc, Goto(w, pc),
           [job[w] EXCEPT !.pc = pc] \in Job,
           ShapeOf([job[w] EXCEPT !.pc = pc])
    PROVE  job' \in [Workers -> Job] /\ Shape'
  BY JobStep DEF Goto, Typed, TypeOK

LEMMA ShowType ==
    ASSUME Typed, NEW d \in Datasets, NEW o \in Version
    PROVE  Show(d, o) \in Content
  <1>1. row[d] \in Version \cup {Absent} /\ doc[d] \in Version \cup {Absent}
    BY DEF Typed, TypeOK
  <1>2. Dictized(o, row[d]) \in Content
    BY <1>1, DictizedType
  <1>3. doc[d] # Absent => doc[d].content \in Content
    BY <1>1 DEF Version
  <1>. QED  BY <1>2, <1>3 DEF Show

LEMMA TypedPrepare ==
    ASSUME Typed, NEW w \in Workers, Prepare(w)
    PROVE  Typed'
  <1>. DEFINE d == job[w].ds
              old == Show(d, job[w].obj)
              new == Override(old, job[w].req)
              j == [job[w] EXCEPT !.pc = "shown", !.dict = new]
  <1>1. job[w] \in Job /\ ShapeOf(job[w])
    BY JobOf
  <1>2. CASE new = old
    <2>1. Finish(w) /\ UNCHANGED <<row, doc, born, clock, requests>>
      BY <1>2 DEF Prepare
    <2>. QED  BY <2>1, TypedFinish
  <1>3. CASE new # old
    <2>1. job' = [job EXCEPT ![w] = j]
      BY <1>3 DEF Prepare
    <2>2. job[w].obj \in Version /\ d \in Datasets /\ job[w].req \in Changes
      <3>1. job[w].kind \in AllKinds
        BY <1>1 DEF Prepare, At, AllKinds
      <3>. QED  BY <1>1, <3>1, RequestsType DEF Prepare, At, ShapeOf, Job
    <2>3. new \in Content
      BY <2>2, ShowType, OverrideType
    <2>4. j \in Job
      BY <1>1, <2>3 DEF Job
    <2>5. ShapeOf(j)
      BY <1>1, <2>3, <2>4, NullAssumption DEF ShapeOf, Prepare, At, Job, Idle
    <2>. QED  BY <1>3, <2>1, <2>4, <2>5, JobStep DEF Typed, TypeOK, Prepare
  <1>. QED  BY <1>2, <1>3

LEMMA UpdatedType ==
    ASSUME NEW o \in Version, NEW r \in Version, NEW c \in Content
    PROVE  Updated(o, r, c) \in Content
  BY DEF Updated, Version, Content

LEMMA TypedFlush ==
    ASSUME Typed, NEW w \in Workers, Flush(w)
    PROVE  Typed'
  <1>. DEFINE d == job[w].ds
              o == job[w].obj
              dict == job[w].dict
              obj1 == [content |-> dict, mm |-> clock + 1]
              tx1 == [content |-> Updated(o, row[d], dict), mm |-> clock + 1]
              j == [job[w] EXCEPT !.pc = "flushed", !.obj = obj1, !.tx = tx1]
  <1>1. job[w] \in Job /\ ShapeOf(job[w])
    BY JobOf
  <1>2. CASE Differs(o, row[d], dict)
    <2>1. job' = [job EXCEPT ![w] = j]
      BY <1>2 DEF Flush, FlushStamped
    <2>2. o \in Version /\ row[d] \in Version /\ dict \in Content /\ d \in Datasets
      BY <1>1 DEF Flush, FlushStamped, At, ShapeOf, Typed, TypeOK, Job
    <2>3. clock + 1 \in Nat
      BY DEF Typed, TypeOK
    <2>4. obj1 \in Version /\ obj1 # Absent /\ tx1 \in Version /\ tx1 # Absent
      BY <2>2, <2>3, UpdatedType, VersionType
    <2>5. j \in Job
      BY <1>1, <2>4 DEF Job
    <2>6. ShapeOf(j)
      BY <1>1, <2>4, <2>5 DEF ShapeOf, Flush, FlushStamped, At, Job, Idle, WriteKinds
    <2>7. lock' \in [Datasets -> Workers \cup {Nobody}]
      BY <1>2 DEF Flush, FlushStamped, Typed, TypeOK
    <2>. QED  BY <1>2, <2>1, <2>3, <2>5, <2>6, <2>7, JobStep DEF Typed, TypeOK, Flush, FlushStamped
  <1>3. CASE ~ Differs(o, row[d], dict)
    BY <1>3, TypedFinish DEF Flush, FlushStamped
  <1>. QED  BY <1>2, <1>3

LEMMA TypedFlushCreate ==
    ASSUME Typed, NEW w \in Workers, FlushCreate(w)
    PROVE  Typed'
  <1>. DEFINE new == [content |-> job[w].req, mm |-> clock + 1]
              j == [job[w] EXCEPT !.pc = "flushed", !.dict = job[w].req,
                                  !.obj = new, !.tx = new]
  <1>1. job[w] \in Job /\ ShapeOf(job[w])
    BY JobOf
  <1>2. job' = [job EXCEPT ![w] = j]
    BY DEF FlushCreate
  <1>3. job[w].req \in Content
    BY <1>1, RequestsType DEF FlushCreate, At, ShapeOf, Job, AllKinds
  <1>4. clock + 1 \in Nat
    BY DEF Typed, TypeOK
  <1>5. new \in Version /\ new # Absent
    BY <1>3, <1>4, VersionType
  <1>6. j \in Job
    BY <1>1, <1>3, <1>5 DEF Job
  <1>7. ShapeOf(j)
    BY <1>1, <1>5, <1>6 DEF ShapeOf, FlushCreate, At, Job, Idle, WriteKinds
  <1>8. lock' \in [Datasets -> Workers \cup {Nobody}]
    BY DEF FlushCreate, Typed, TypeOK
  <1>. QED  BY <1>2, <1>4, <1>6, <1>7, <1>8, JobStep DEF Typed, TypeOK, FlushCreate

LEMMA StateDeletedType == StateDeleted \in Changes
  <1>1. {"state"} \subseteq Fields
    BY ColumnsAssumption DEF Fields
  <1>2. StateDeleted \in [{"state"} -> Values]
    BY ValuesAssumption DEF StateDeleted
  <1>. QED  BY <1>1, <1>2 DEF Changes

LEMMA TypedFlushDelete ==
    ASSUME Typed, NEW w \in Workers, FlushDelete(w)
    PROVE  Typed'
  <1>. DEFINE d == job[w].ds
              o == job[w].obj
              obj1 == With(o, StateDeleted)
              tx1 == With(row[d], StateDeleted)
              j == [job[w] EXCEPT !.pc = "flushed", !.obj = obj1, !.tx = tx1]
  <1>1. job[w] \in Job /\ ShapeOf(job[w])
    BY JobOf
  <1>2. CASE o.content["state"] = Deleted
    BY <1>2, TypedFinish DEF FlushDelete
  <1>3. CASE o.content["state"] # Deleted
    <2>1. job' = [job EXCEPT ![w] = j]
      BY <1>3 DEF FlushDelete
    <2>2. o \in Version /\ row[d] \in Version
      BY <1>1 DEF FlushDelete, At, ShapeOf, Typed, TypeOK, Job
    <2>3. obj1 \in Version /\ obj1 # Absent /\ tx1 \in Version /\ tx1 # Absent
      BY <2>2, WithType, StateDeletedType
    <2>4. j \in Job
      BY <1>1, <2>3 DEF Job
    <2>5. ShapeOf(j)
      BY <1>1, <2>3, <2>4 DEF ShapeOf, FlushDelete, At, Job, Idle, WriteKinds
    <2>6. lock' \in [Datasets -> Workers \cup {Nobody}]
      BY <1>3 DEF FlushDelete, Typed, TypeOK
    <2>. QED  BY <1>3, <2>1, <2>4, <2>5, <2>6, JobStep DEF Typed, TypeOK, FlushDelete
  <1>. QED  BY <1>2, <1>3

LEMMA TypedFlushPurge ==
    ASSUME Typed, NEW w \in Workers, FlushPurge(w)
    PROVE  Typed'
  <1>. DEFINE j == [job[w] EXCEPT !.pc = "flushed"]
  <1>1. job[w] \in Job /\ ShapeOf(job[w])
    BY JobOf
  <1>2. j \in Job
    BY <1>1 DEF Job
  <1>3. ShapeOf(j)
    BY <1>1, <1>2 DEF ShapeOf, FlushPurge, At, Job, Idle, WriteKinds
  <1>4. lock' \in [Datasets -> Workers \cup {Nobody}]
    BY DEF FlushPurge, Typed, TypeOK
  <1>. QED  BY <1>2, <1>3, <1>4, TypedGoto DEF Typed, TypeOK, FlushPurge

LEMMA TypedIndex ==
    ASSUME Typed, NEW w \in Workers, Index(w)
    PROVE  Typed'
  <1>. DEFINE d == job[w].ds
              o == job[w].obj
              tx == job[w].tx
              v == IF tx = Absent THEN Absent
                   ELSE Indexed([content |-> Dictized(o, tx), mm |-> o.mm])
              j == [job[w] EXCEPT !.pc = "indexed"]
  <1>1. job[w] \in Job /\ ShapeOf(job[w])
    BY JobOf
  <1>2. tx # Absent => o \in Version
    BY <1>1 DEF Index, ShapeOf, Job
  <1>3. v \in Version \cup {Absent}
    <2>1. CASE tx = Absent
      BY <2>1
    <2>2. CASE tx # Absent
      <3>1. Dictized(o, tx) \in Content /\ o.mm \in Nat
        BY <1>1, <1>2, <2>2, DictizedType DEF Version, Job
      <3>. QED  BY <2>2, <3>1, VersionType, IndexedType
    <2>. QED  BY <2>1, <2>2
  <1>4. j \in Job
    BY <1>1 DEF Job
  <1>5. ShapeOf(j)
    BY <1>1, <1>4 DEF ShapeOf, Index, Job, Idle
  <1>6. doc' = [doc EXCEPT ![d] = v]
    BY DEF Index
  <1>7. doc' \in [Datasets -> Version \cup {Absent}]
    BY <1>3, <1>6 DEF Typed, TypeOK
  <1>. QED  BY <1>4, <1>5, <1>7, TypedGoto DEF Typed, TypeOK, Index

LEMMA TypedCommit ==
    ASSUME Typed, NEW w \in Workers, Commit(w)
    PROVE  Typed'
  <1>1. job[w].tx \in Version \cup {Absent}
    BY JobOf DEF Job
  <1>2. row' \in [Datasets -> Version \cup {Absent}]
    BY <1>1 DEF Commit, Typed, TypeOK
  <1>. QED  BY <1>2, FinishStep DEF Typed, TypeOK, Commit

LEMMA TypedBulkUpdate ==
    ASSUME Typed, NEW w \in Workers, BulkUpdate(w)
    PROVE  Typed'
  <1>. DEFINE d == job[w].ds
              j == [job[w] EXCEPT !.pc = "committed"]
  <1>1. job[w] \in Job /\ ShapeOf(job[w])
    BY JobOf
  <1>2. row[d] \in Version /\ job[w].req \in Changes
    <2>1. "bulk" \in AllKinds
      BY DEF AllKinds
    <2>2. job[w].req \in RequestsOf("bulk")
      BY <1>1 DEF BulkUpdate, At, ShapeOf
    <2>3. row[d] \in Version
      BY <1>1 DEF BulkUpdate, At, ShapeOf, Typed, TypeOK
    <2>. QED  BY <2>1, <2>2, <2>3, RequestsType
  <1>3. With(row[d], job[w].req) \in Version
    BY <1>2, WithType
  <1>4. row' = [row EXCEPT ![d] = With(row[d], job[w].req)]
    BY DEF BulkUpdate
  <1>5. row' \in [Datasets -> Version \cup {Absent}]
    BY <1>3, <1>4 DEF Typed, TypeOK
  <1>6. j \in Job
    BY <1>1 DEF Job
  <1>7. ShapeOf(j)
    BY <1>1, <1>6 DEF ShapeOf, BulkUpdate, At, Job, Idle
  <1>. QED  BY <1>5, <1>6, <1>7, TypedGoto DEF Typed, TypeOK, BulkUpdate

LEMMA TypedBulkFetch ==
    ASSUME Typed, NEW w \in Workers, BulkFetch(w)
    PROVE  Typed'
  <1>. DEFINE d == job[w].ds
              j == [job[w] EXCEPT !.pc = "fetched", !.obj = doc[d]]
  <1>1. job[w] \in Job /\ ShapeOf(job[w])
    BY JobOf
  <1>2. CASE doc[d] = Absent
    BY <1>2, TypedFinish DEF BulkFetch
  <1>3. CASE doc[d] # Absent
    <2>1. job' = [job EXCEPT ![w] = j]
      BY <1>3 DEF BulkFetch
    <2>2. doc[d] \in Version
      BY <1>1, <1>3 DEF BulkFetch, At, ShapeOf, Typed, TypeOK
    <2>3. j \in Job
      BY <1>1, <2>2 DEF Job
    <2>4. ShapeOf(j)
      BY <1>1, <1>3, <2>3 DEF ShapeOf, BulkFetch, At, Job, Idle
    <2>. QED  BY <1>3, <2>1, <2>3, <2>4, JobStep DEF Typed, TypeOK, BulkFetch
  <1>. QED  BY <1>2, <1>3

LEMMA TypedBulkIndex ==
    ASSUME Typed, NEW w \in Workers, BulkIndex(w)
    PROVE  Typed'
  <1>. DEFINE v == Indexed(With(job[w].obj, job[w].req))
  <1>1. job[w] \in Job /\ ShapeOf(job[w])
    BY JobOf
  <1>2. job[w].obj \in Version /\ job[w].req \in Changes
    <2>1. "bulk" \in AllKinds
      BY DEF AllKinds
    <2>2. job[w].req \in RequestsOf("bulk")
      BY <1>1 DEF BulkIndex, At, ShapeOf
    <2>. QED  BY <1>1, <2>1, <2>2, RequestsType DEF BulkIndex, At, ShapeOf, Job
  <1>3. v \in Version \cup {Absent}
    BY <1>2, WithType, IndexedType
  <1>4. doc' \in [Datasets -> Version \cup {Absent}]
    BY <1>3 DEF BulkIndex, Typed, TypeOK
  <1>. QED  BY <1>4, FinishStep DEF Typed, TypeOK, BulkIndex

LEMMA TypedRebuildRemove ==
    ASSUME Typed, NEW w \in Workers, RebuildRemove(w)
    PROVE  Typed'
  <1>. DEFINE j == [job[w] EXCEPT !.pc = "removed"]
  <1>1. job[w] \in Job /\ ShapeOf(job[w])
    BY JobOf
  <1>2. j \in Job
    BY <1>1 DEF Job
  <1>3. ShapeOf(j)
    BY <1>1, <1>2 DEF ShapeOf, RebuildRemove, At, Job, Idle
  <1>4. doc' \in [Datasets -> Version \cup {Absent}]
    BY DEF RebuildRemove, Typed, TypeOK
  <1>. QED  BY <1>2, <1>3, <1>4, TypedGoto DEF Typed, TypeOK, RebuildRemove

LEMMA TypedRebuildInsert ==
    ASSUME Typed, NEW w \in Workers, RebuildInsert(w)
    PROVE  Typed'
  <1>1. job[w].obj \in Version
    BY JobOf DEF RebuildInsert, At, ShapeOf, Job
  <1>2. doc' \in [Datasets -> Version \cup {Absent}]
    BY <1>1, IndexedType DEF RebuildInsert, Typed, TypeOK
  <1>. QED  BY <1>2, FinishStep DEF Typed, TypeOK, RebuildInsert

LEMMA TypedClear ==
    ASSUME Typed, NEW w \in Workers, Clear(w) \/ ClearOrphan(w)
    PROVE  Typed'
  <1>1. /\ doc' = [doc EXCEPT ![job[w].ds] = Absent]
        /\ Finish(w)
        /\ UNCHANGED <<row, born, clock, requests>>
    BY DEF Clear, ClearOrphan
  <1>2. doc' \in [Datasets -> Version \cup {Absent}]
    BY <1>1 DEF Typed, TypeOK
  <1>. QED  BY <1>1, <1>2, FinishStep DEF Typed, TypeOK

LEMMA TypedFindOrphan ==
    ASSUME Typed, NEW w \in Workers, FindOrphan(w)
    PROVE  Typed'
  <1>. DEFINE d == job[w].ds
              j == [job[w] EXCEPT !.pc = "loaded"]
  <1>1. job[w] \in Job /\ ShapeOf(job[w])
    BY JobOf
  <1>2. CASE doc[d] # Absent /\ row[d] = Absent
    <2>1. Goto(w, "loaded") /\ UNCHANGED <<row, doc, lock, born, clock, requests>>
      BY <1>2 DEF FindOrphan
    <2>2. j \in Job
      BY <1>1 DEF Job
    <2>3. ShapeOf(j)
      BY <1>1, <2>2 DEF ShapeOf, FindOrphan, At, Job, Idle
    <2>. QED  BY <2>1, <2>2, <2>3, TypedGoto DEF Typed, TypeOK
  <1>3. CASE ~ (doc[d] # Absent /\ row[d] = Absent)
    BY <1>3, TypedFinish DEF FindOrphan
  <1>. QED  BY <1>2, <1>3

LEMMA TypedNext == Typed /\ [Next]_vars => Typed'
  <1>. SUFFICES ASSUME Typed, [Next]_vars PROVE Typed'
    OBVIOUS
  <1>1. CASE UNCHANGED vars
    BY <1>1 DEF vars, Typed, TypeOK, Shape, ShapeOf
  <1>2. ASSUME NEW w \in Workers, NEW k \in AllKinds, NEW d \in Datasets,
               Request(w, k, d)
        PROVE  Typed'
    BY <1>2, TypedRequest
  <1>3. ASSUME NEW w \in Workers, Waiting(w)
        PROVE  Typed'
    BY <1>3, TypedLock, TypedFlush, TypedFlushDelete, TypedFlushPurge,
       TypedBulkUpdate DEF Waiting
  <1>4. ASSUME NEW w \in Workers, Working(w)
        PROVE  Typed'
    <2>1. Missing(w) => Finish(w) /\ UNCHANGED <<row, doc, born, clock, requests>>
      BY DEF Missing
    <2>. QED  BY <1>4, <2>1, TypedFinish, TypedLoad, TypedPrepare,
              TypedFlushCreate, TypedIndex, TypedCommit, TypedBulkFetch,
              TypedBulkIndex, TypedRebuildRemove, TypedRebuildInsert,
              TypedClear, TypedFindOrphan DEF Working
  <1>5. ASSUME NEW w \in Workers, Abort(w)
        PROVE  Typed'
    BY <1>5, TypedFinish DEF Abort
  <1>. QED  BY <1>1, <1>2, <1>3, <1>4, <1>5 DEF Next

\* In every reachable state the rows, the documents, the locks and the jobs
\* of the workers are of their types, whatever operations are in use: no
\* operation goes on with a dataset it never loaded.
THEOREM TypeCorrect == Spec => []TypeOK
  <1>1. Spec => []Typed
    BY TypedInit, TypedNext, PTL DEF Spec
  <1>2. Typed => TypeOK
    BY DEF Typed
  <1>. QED  BY <1>1, <1>2, PTL

-----------------------------------------------------------------------------
(* Part 2: operations that lock before they read. *)

(* What one step may do to the copies of the datasets. *)

\* No copy is new.
LEMMA CopiesKept ==
    ASSUME Typed, VersionsDistinct, VersionsPast, clock' = clock,
           NEW w \in Workers, NEW j, job' = [job EXCEPT ![w] = j],
           \A d \in Datasets :
              /\ row'[d] \in Copies(d) \cup {Absent}
              /\ doc'[d] \in Copies(d) \cup {Absent}
              /\ j.ds = d => j.obj \in Copies(d) \cup {Absent}
    PROVE  VersionsDistinct' /\ VersionsPast'
  <1>1. ASSUME NEW d \in Datasets, NEW u \in Copies(d)'
        PROVE  u \in Copies(d) \cup {Absent}
    <2>1. CASE u \in {row'[d], doc'[d]}
      BY <2>1
    <2>2. ASSUME NEW x \in Workers, job'[x].ds = d, u = job'[x].obj
          PROVE  u \in Copies(d) \cup {Absent}
      <3>1. CASE x = w
        BY <2>2, <3>1 DEF Typed, TypeOK
      <3>2. CASE x # w
        BY <2>2, <3>2 DEF Typed, TypeOK, Copies
      <3>. QED  BY <3>1, <3>2
    <2>. QED  BY <2>1, <2>2 DEF Copies
  <1>2. VersionsDistinct'
    BY <1>1 DEF VersionsDistinct
  <1>3. VersionsPast'
    BY <1>1 DEF VersionsPast
  <1>. QED  BY <1>2, <1>3

\* The only new copy is the object of w, with a metadata_modified of its own.
LEMMA CopiesNew ==
    ASSUME Typed, VersionsDistinct, VersionsPast, clock' = clock + 1,
           UNCHANGED <<row, doc>>,
           NEW w \in Workers, NEW j, job' = [job EXCEPT ![w] = j],
           j.obj.mm = clock + 1
    PROVE  VersionsDistinct' /\ VersionsPast'
  <1>1. ASSUME NEW d \in Datasets, NEW u \in Copies(d)'
        PROVE  u \in Copies(d) \/ u = j.obj
    <2>1. CASE u \in {row[d], doc[d]}
      BY <2>1 DEF Copies
    <2>2. ASSUME NEW x \in Workers, job'[x].ds = d, u = job'[x].obj
          PROVE  u \in Copies(d) \/ u = j.obj
      <3>1. CASE x = w
        BY <2>2, <3>1 DEF Typed, TypeOK
      <3>2. CASE x # w
        BY <2>2, <3>2 DEF Typed, TypeOK, Copies
      <3>. QED  BY <3>1, <3>2
    <2>. QED  BY <2>1, <2>2 DEF Copies
  <1>2. ASSUME NEW d \in Datasets, NEW u \in Copies(d), u # Absent
        PROVE  u.mm \in Nat /\ u.mm <= clock /\ u.mm # clock + 1
    <2>1. u \in Version
      BY <1>2 DEF Copies, Typed, TypeOK, Job
    <2>2. u.mm \in Nat /\ clock \in Nat
      BY <2>1 DEF Version, Typed, TypeOK
    <2>. QED  BY <1>2, <2>2 DEF VersionsPast
  <1>3. VersionsDistinct'
    BY <1>1, <1>2 DEF VersionsDistinct
  <1>4. VersionsPast'
    <2>1. clock \in Nat
      BY DEF Typed, TypeOK
    <2>. QED  BY <1>1, <1>2, <2>1 DEF VersionsPast
  <1>. QED  BY <1>3, <1>4

\* A step that commits nothing, and whose session keeps its object, forgets
\* it, or loads the committed version.
LEMMA CopiesSame ==
    ASSUME Typed, VersionsDistinct, VersionsPast, clock' = clock, row' = row,
           \A d \in Datasets : doc'[d] \in Copies(d) \cup {Absent},
           NEW w \in Workers, NEW j, job' = [job EXCEPT ![w] = j],
           \/ j.obj = Absent
           \/ j.ds = job[w].ds /\ j.obj = job[w].obj
           \/ j.obj = row[j.ds]
    PROVE  VersionsDistinct' /\ VersionsPast'
  <1>1. \A d \in Datasets :
          /\ row'[d] \in Copies(d) \cup {Absent}
          /\ doc'[d] \in Copies(d) \cup {Absent}
          /\ j.ds = d => j.obj \in Copies(d) \cup {Absent}
    BY DEF Copies
  <1>. QED  BY <1>1, CopiesKept

\* A committed or indexed version, and the object of a session, are copies.
LEMMA CopiesMembers ==
    ASSUME NEW d \in Datasets
    PROVE  /\ row[d] \in Copies(d) /\ doc[d] \in Copies(d)
           /\ \A w \in Workers : job[w].ds = d => job[w].obj \in Copies(d)
  BY DEF Copies

-----------------------------------------------------------------------------
(* What one step may do to the locks. *)

LEMMA LocksReleased ==
    ASSUME Typed, LockOwned, NEW w \in Workers, Finish(w)
    PROVE  LockOwned'
  <1>1. ASSUME NEW x \in Workers, NEW d \in Datasets
        PROVE  lock'[d] = x <=> job'[x].ds = d /\ Holding(job'[x])
    <2>1. lock'[d] = IF lock[d] = w THEN Nobody ELSE lock[d]
      BY DEF Finish
    <2>2. job'[x] = IF x = w THEN Idle ELSE job[x]
      BY DEF Finish, Typed, TypeOK
    <2>3. CASE x = w
      BY <2>1, <2>2, <2>3, NullAssumption DEF Idle, Holding
    <2>4. CASE x # w
      BY <2>1, <2>2, <2>4, NullAssumption DEF LockOwned
    <2>. QED  BY <2>3, <2>4
  <1>. QED  BY <1>1 DEF LockOwned

LEMMA LocksTaken ==
    ASSUME Typed, LockOwned, NEW w \in Workers, NEW j, NEW d \in Datasets,
           job' = [job EXCEPT ![w] = j], job[w].ds = d, j.ds = d, Holding(j),
           Lockable(w, d), lock' = [lock EXCEPT ![d] = w]
    PROVE  LockOwned'
  <1>1. ASSUME NEW x \in Workers, NEW e \in Datasets
        PROVE  lock'[e] = x <=> job'[x].ds = e /\ Holding(job'[x])
    <2>1. lock'[e] = IF e = d THEN w ELSE lock[e]
      BY DEF Typed, TypeOK
    <2>2. job'[x] = IF x = w THEN j ELSE job[x]
      BY DEF Typed, TypeOK
    <2>3. CASE x = w
      BY <2>1, <2>2, <2>3 DEF LockOwned
    <2>4. CASE x # w
      BY <2>1, <2>2, <2>4, NullAssumption DEF LockOwned, Lockable
    <2>. QED  BY <2>3, <2>4
  <1>. QED  BY <1>1 DEF LockOwned

LEMMA LocksKept ==
    ASSUME Typed, LockOwned, NEW w \in Workers, NEW j,
           job' = [job EXCEPT ![w] = j], lock' = lock,
           \/ j.ds = job[w].ds /\ (Holding(j) <=> Holding(job[w]))
           \/ ~ Holding(j) /\ ~ Holding(job[w])
    PROVE  LockOwned'
  <1>1. ASSUME NEW x \in Workers, NEW e \in Datasets
        PROVE  lock'[e] = x <=> job'[x].ds = e /\ Holding(job'[x])
    <2>1. job'[x] = IF x = w THEN j ELSE job[x]
      BY DEF Typed, TypeOK
    <2>. QED  BY <2>1 DEF LockOwned
  <1>. QED  BY <1>1 DEF LockOwned

-----------------------------------------------------------------------------
(* What one step may do to the requests. *)

RequestsOK == PatchLatest /\ CreateNew /\ CreateOnce

\* The request of w goes on, and the database stays as it is.
LEMMA RequestMoves ==
    ASSUME Typed, RequestsOK, NEW w \in Workers, NEW j,
           job' = [job EXCEPT ![w] = j], UNCHANGED <<row, born>>,
           job[w].pc # "idle", j.ds = job[w].ds, j.kind = job[w].kind,
           PatchOf(j, row[j.ds]), CreateOf(j, row[j.ds]),
           \/ row[job[w].ds] # Absent
           \/ job[w].pc # "begin"
           \/ job[w].kind \in {"create", "clear_orphans"}
    PROVE  RequestsOK'
  <1>1. \A x \in Workers : job'[x] = IF x = w THEN j ELSE job[x]
    BY DEF Typed, TypeOK
  <1>2. PatchLatest'
    BY <1>1 DEF RequestsOK, PatchLatest, PatchOf
  <1>3. CreateNew'
    BY <1>1 DEF RequestsOK, CreateNew, CreateOf
  <1>4. CreateOnce'
    <2>1. CASE job[w].kind = "clear_orphans"
      BY <1>1, <2>1 DEF RequestsOK, CreateOnce
    <2>2. CASE job[w].kind # "clear_orphans"
      <3>1. \A x \in Workers :
              (x # w /\ job[x].kind = "create") => job[w].ds # job[x].ds
        BY <2>2 DEF RequestsOK, CreateOnce, CreateNew, CreateOf
      <3>. QED  BY <1>1, <3>1 DEF RequestsOK, CreateOnce
    <2>. QED  BY <2>1, <2>2
  <1>. QED  BY <1>2, <1>3, <1>4 DEF RequestsOK

\* The request of w ends, and the database stays as it is.
LEMMA RequestEnds ==
    ASSUME Typed, RequestsOK, NEW w \in Workers, Finish(w), UNCHANGED <<row, born>>
    PROVE  RequestsOK'
  <1>1. \A x \in Workers : job'[x] = IF x = w THEN Idle ELSE job[x]
    BY DEF Finish, Typed, TypeOK
  <1>2. PatchLatest'
    BY <1>1 DEF RequestsOK, PatchLatest, PatchOf, Idle
  <1>3. CreateNew'
    BY <1>1 DEF RequestsOK, CreateNew, CreateOf, Idle
  <1>4. CreateOnce'
    <2>1. \A x \in Workers : job[x].kind = "create" => job[x].ds # Absent
      BY JobOf, NullAssumption DEF ShapeOf, Idle
    <2>. QED  BY <1>1, <2>1 DEF RequestsOK, CreateOnce, Idle
  <1>. QED  BY <1>2, <1>3, <1>4 DEF RequestsOK

-----------------------------------------------------------------------------
(* The initial states and the steps, one by one. *)

Kept == LockOwned /\ VersionsDistinct /\ VersionsPast /\ RequestsOK

LEMMA CoherentParts == Coherent <=> Typed /\ Kept
  BY DEF Coherent, Kept, RequestsOK

LEMMA KeptInit == Init => Kept
  <1>. SUFFICES ASSUME Init PROVE Kept
    OBVIOUS
  <1>1. PICK c \in Content :
          row = [d \in Datasets |->
                   IF d \in born THEN [content |-> c, mm |-> 0] ELSE Absent]
    BY DEF Init
  <1>2. \A d \in Datasets : \A u \in Copies(d) :
          u = Absent \/ u = [content |-> c, mm |-> 0]
    BY <1>1 DEF Init, Copies, Idle
  <1>3. VersionsDistinct
    BY <1>2 DEF VersionsDistinct
  <1>4. VersionsPast
    BY <1>2 DEF VersionsPast, Init
  <1>5. LockOwned
    BY NullAssumption DEF LockOwned, Init, Idle, Holding
  <1>6. RequestsOK
    BY <1>1 DEF RequestsOK, PatchLatest, PatchOf, CreateNew, CreateOf, CreateOnce,
                Init, Idle
  <1>. QED  BY <1>3, <1>4, <1>5, <1>6 DEF Kept

\* The steps that only end the request.
LEMMA KeptFinish ==
    ASSUME Typed, Kept, NEW w \in Workers,
           Finish(w), UNCHANGED <<row, doc, born, clock>>
    PROVE  Kept'
  <1>1. job' = [job EXCEPT ![w] = Idle]
    BY DEF Finish
  <1>2. VersionsDistinct' /\ VersionsPast'
    <2>1. Idle.obj = Absent
      BY DEF Idle
    <2>2. \A d \in Datasets : doc'[d] \in Copies(d) \cup {Absent}
      BY CopiesMembers
    <2>. QED  BY <1>1, <2>1, <2>2, CopiesSame DEF Kept
  <1>. QED  BY <1>2, LocksReleased, RequestEnds DEF Kept

\* The steps that end a request that has changed the index.
LEMMA KeptFinishDoc ==
    ASSUME Typed, Kept, NEW w \in Workers, Finish(w),
           UNCHANGED <<row, born, clock>>,
           \A d \in Datasets : doc'[d] \in Copies(d) \cup {Absent}
    PROVE  Kept'
  <1>1. job' = [job EXCEPT ![w] = Idle]
    BY DEF Finish
  <1>2. VersionsDistinct' /\ VersionsPast'
    <2>1. Idle.obj = Absent
      BY DEF Idle
    <2>. QED  BY <1>1, <2>1, CopiesSame DEF Kept
  <1>. QED  BY <1>2, LocksReleased, RequestEnds DEF Kept

LEMMA KeptRequest ==
    ASSUME Typed, Kept, NEW w \in Workers, NEW k \in AllKinds, NEW d \in Datasets,
           Request(w, k, d)
    PROVE  Kept'
  <1>1. PICK r \in RequestsOf(k) :
          job' = [job EXCEPT ![w] =
                    [Idle EXCEPT !.pc = "begin", !.kind = k, !.ds = d, !.req = r]]
    BY DEF Request
  <1>. DEFINE j == [Idle EXCEPT !.pc = "begin", !.kind = k, !.ds = d, !.req = r]
  <1>2. j.pc = "begin" /\ j.kind = k /\ j.ds = d /\ j.obj = Absent
    BY DEF Idle
  <1>3. VersionsDistinct' /\ VersionsPast'
    <2>1. \A e \in Datasets : doc'[e] \in Copies(e) \cup {Absent}
      BY CopiesMembers DEF Request
    <2>. QED  BY <1>1, <1>2, <2>1, CopiesSame DEF Kept, Request
  <1>4. LockOwned'
    BY <1>1, <1>2, LocksKept DEF Kept, Request, Holding
  <1>5. \A x \in Workers : job'[x] = IF x = w THEN j ELSE job[x]
    BY <1>1 DEF Typed, TypeOK
  <1>6. PatchLatest'
    BY <1>2, <1>5 DEF Kept, RequestsOK, PatchLatest, PatchOf, Request
  <1>7. CreateNew'
    BY <1>2, <1>5 DEF Kept, RequestsOK, CreateNew, CreateOnce, CreateOf, Request
  <1>8. CreateOnce'
    <2>1. \A x \in Workers : job[x].ds = d => job[x].pc # "idle" /\ d \in born
      BY JobOf, NullAssumption DEF Kept, RequestsOK, CreateOnce, ShapeOf, Idle
    <2>2. IF k = "create" THEN d \notin born /\ born' = born \cup {d}
                          ELSE d \in born /\ born' = born
      BY DEF Request
    <2>3. row' = row
      BY DEF Request
    <2>. HIDE DEF j
    <2>4. \A e \in Datasets : e \notin born' => row'[e] = Absent
      BY <2>2, <2>3 DEF Kept, RequestsOK, CreateOnce
    <2>5. \A x \in Workers : job'[x].pc # "idle" => job'[x].ds \in born'
      BY <1>2, <1>5, <2>2 DEF Kept, RequestsOK, CreateOnce
    <2>6. ASSUME NEW x \in Workers, NEW y \in Workers, x # y,
                 job'[y].kind = "create", job'[x].ds = job'[y].ds
          PROVE  /\ job'[x].kind # "create"
                 /\ job'[x].pc = "begin" \/ job'[x].kind = "clear_orphans"
      <3>1. CASE x = w
        BY <1>2, <1>5, <2>1, <2>2, <2>6, <3>1
      <3>2. CASE y = w
        BY <1>2, <1>5, <2>1, <2>2, <2>6, <3>2
      <3>3. CASE x # w /\ y # w
        BY <1>5, <2>6, <3>3 DEF Kept, RequestsOK, CreateOnce
      <3>. QED  BY <3>1, <3>2, <3>3
    <2>. QED  BY <2>4, <2>5, <2>6 DEF CreateOnce
  <1>. QED  BY <1>3, <1>4, <1>6, <1>7, <1>8 DEF Kept, RequestsOK

LEMMA KeptLoad ==
    ASSUME Typed, Kept, NEW w \in Workers, Load(w)
    PROVE  Kept'
  <1>. DEFINE j == [job[w] EXCEPT !.pc = "loaded", !.obj = row[job[w].ds]]
  <1>1. job[w] \in Job /\ ShapeOf(job[w])
    BY JobOf
  <1>2. job' = [job EXCEPT ![w] = j]
    BY DEF Load
  <1>3. j.pc = "loaded" /\ j.kind = job[w].kind /\ j.ds = job[w].ds
        /\ j.obj = row[job[w].ds] /\ job[w].pc = "begin"
    BY <1>1 DEF Job, Load, At
  <1>4. VersionsDistinct' /\ VersionsPast'
    <2>1. \A e \in Datasets : doc'[e] \in Copies(e) \cup {Absent}
      BY CopiesMembers DEF Load
    <2>2. j.obj = row[j.ds]
      BY <1>3
    <2>. HIDE DEF j
    <2>. QED  BY <1>2, <2>1, <2>2, CopiesSame DEF Kept, Load
  <1>5. LockOwned'
    BY <1>2, <1>3, LocksKept DEF Kept, Load, Holding
  <1>6. RequestsOK'
    BY <1>2, <1>3, RequestMoves DEF Load, At, PatchOf, CreateOf, Kept
  <1>. QED  BY <1>4, <1>5, <1>6 DEF Kept

LEMMA KeptLock ==
    ASSUME Typed, Kept, Kinds \subseteq SafeKinds, NEW w \in Workers, Lock(w)
    PROVE  Kept'
  <1>. DEFINE d == job[w].ds
              j == [job[w] EXCEPT !.pc = "locked", !.obj = row[d]]
  <1>1. job[w] \in Job /\ ShapeOf(job[w])
    BY JobOf
  <1>2. job[w].kind = "patch" /\ job[w].pc = "begin" /\ job[w].obj = Absent
    BY <1>1 DEF Lock, At, ShapeOf, SafeKinds
  <1>3. job' = [job EXCEPT ![w] = j]
    BY <1>2 DEF Lock
  <1>4. j.pc = "locked" /\ j.kind = "patch" /\ j.ds = d /\ j.obj = row[d]
    BY <1>1, <1>2 DEF Job
  <1>5. VersionsDistinct' /\ VersionsPast'
    <2>1. \A e \in Datasets : doc'[e] \in Copies(e) \cup {Absent}
      BY CopiesMembers DEF Lock
    <2>. QED  BY <1>3, <1>4, <2>1, CopiesSame DEF Kept, Lock
  <1>6. d \in Datasets
    BY <1>1, <1>2 DEF ShapeOf
  <1>7. LockOwned'
    BY <1>3, <1>4, <1>6, LocksTaken DEF Kept, Lock, Lockable, Holding
  <1>8. RequestsOK'
    <2>1. PatchOf(j, row[j.ds]) /\ CreateOf(j, row[j.ds])
      BY <1>4 DEF PatchOf, CreateOf, Lock
    <2>. HIDE DEF j
    <2>. QED  BY <1>2, <1>3, <1>4, <2>1, RequestMoves DEF Lock, Kept
  <1>. QED  BY <1>5, <1>7, <1>8 DEF Kept

LEMMA KeptPrepare ==
    ASSUME Typed, Kept, Kinds \subseteq SafeKinds, NEW w \in Workers, Prepare(w)
    PROVE  Kept'
  <1>. DEFINE d == job[w].ds
              old == Show(d, job[w].obj)
              new == Override(old, job[w].req)
              j == [job[w] EXCEPT !.pc = "shown", !.dict = new]
  <1>1. job[w] \in Job /\ ShapeOf(job[w])
    BY JobOf
  <1>2. job[w].kind = "patch" /\ job[w].pc = "locked" /\ d \in Datasets
    BY <1>1 DEF Prepare, At, ShapeOf, SafeKinds
  <1>3. CASE new = old
    BY <1>3, KeptFinish DEF Prepare
  <1>4. CASE new # old
    <2>1. job' = [job EXCEPT ![w] = j]
      BY <1>4 DEF Prepare
    <2>2. /\ j.pc = "shown" /\ j.kind = "patch" /\ j.ds = d
          /\ j.obj = job[w].obj /\ j.dict = new /\ j.req = job[w].req
      BY <1>1, <1>2 DEF Job
    <2>3. VersionsDistinct' /\ VersionsPast'
      <3>1. \A e \in Datasets : doc'[e] \in Copies(e) \cup {Absent}
        BY CopiesMembers DEF Prepare
      <3>. QED  BY <1>4, <2>1, <2>2, <3>1, CopiesSame DEF Kept, Prepare
    <2>4. LockOwned'
      BY <1>2, <1>4, <2>1, <2>2, LocksKept DEF Kept, Prepare, Holding
    <2>5. row[d] # Absent /\ job[w].obj = row[d]
      BY <1>2 DEF Kept, RequestsOK, PatchLatest, PatchOf
    <2>6. row[d] \in Version /\ doc[d] \in Version \cup {Absent}
      BY <1>2, <2>5 DEF Typed, TypeOK
    <2>7. old = row[d].content
      <3>1. Dictized(row[d], row[d]) = row[d].content
        BY <2>6 DEF Dictized, Version, Content
      <3>2. doc[d] # Absent /\ doc[d].mm = row[d].mm => doc[d].content = row[d].content
        BY <1>2, <2>5, CopiesMembers DEF Kept, VersionsDistinct
      <3>. QED  BY <2>5, <3>1, <3>2 DEF Show
    <2>8. PatchOf(j, row[j.ds])
      BY <2>2, <2>5, <2>7 DEF PatchOf
    <2>9. RequestsOK'
      BY <1>2, <1>4, <2>1, <2>2, <2>8, RequestMoves DEF Prepare, CreateOf, Kept
    <2>. QED  BY <2>3, <2>4, <2>9 DEF Kept
  <1>. QED  BY <1>3, <1>4

\* A request that is being served is of one of the safe kinds.
LEMMA SafeJob ==
    ASSUME Typed, Kinds \subseteq SafeKinds, NEW w \in Workers, job[w].pc # "idle"
    PROVE  job[w].kind \in SafeKinds /\ job[w].ds \in Datasets
  BY JobOf DEF ShapeOf

LEMMA KeptFlush ==
    ASSUME Typed, Kept, Kinds \subseteq SafeKinds, NEW w \in Workers, Flush(w)
    PROVE  Kept'
  <1>. DEFINE d == job[w].ds
              dict == job[w].dict
              new == [content |-> dict, mm |-> clock + 1]
              tx == [content |-> Updated(job[w].obj, row[d], dict), mm |-> clock + 1]
              j == [job[w] EXCEPT !.pc = "flushed", !.obj = new, !.tx = tx]
  <1>1. job[w] \in Job /\ ShapeOf(job[w])
    BY JobOf
  <1>2. job[w].kind = "patch" /\ job[w].pc = "shown" /\ d \in Datasets
    BY <1>1 DEF Flush, FlushStamped, At, ShapeOf, SafeKinds
  <1>3. /\ row[d] # Absent /\ job[w].obj = row[d]
        /\ dict = Override(row[d].content, job[w].req)
    BY <1>2 DEF Kept, RequestsOK, PatchLatest, PatchOf
  <1>4. CASE ~ Differs(job[w].obj, row[d], dict)
    BY <1>4, KeptFinish DEF Flush, FlushStamped
  <1>5. CASE Differs(job[w].obj, row[d], dict)
    <2>1. /\ job' = [job EXCEPT ![w] = j] /\ clock' = clock + 1
          /\ lock' = [lock EXCEPT ![d] = w] /\ Lockable(w, d)
          /\ UNCHANGED <<row, doc, born>>
      BY <1>5 DEF Flush, FlushStamped
    <2>2. /\ j.pc = "flushed" /\ j.kind = "patch" /\ j.ds = d
          /\ j.obj = new /\ j.tx = tx /\ j.dict = dict /\ j.req = job[w].req
      BY <1>1, <1>2 DEF Job
    <2>3. Updated(row[d], row[d], dict) = dict
      BY <1>3 DEF Updated, Override
    <2>4. tx = new
      BY <1>3, <2>3
    <2>5. PatchOf(j, row[j.ds]) /\ CreateOf(j, row[j.ds])
      BY <1>3, <2>2, <2>4 DEF PatchOf, CreateOf
    <2>. HIDE DEF j
    <2>6. VersionsDistinct' /\ VersionsPast'
      <3>1. j.obj.mm = clock + 1
        BY <2>2
      <3>. QED  BY <2>1, <3>1, CopiesNew DEF Kept
    <2>7. LockOwned'
      <3>1. Holding(j)
        BY <2>2 DEF Holding
      <3>. QED  BY <1>2, <2>1, <2>2, <3>1, LocksTaken DEF Kept
    <2>8. RequestsOK'
      BY <1>2, <2>1, <2>2, <2>5, RequestMoves DEF Kept
    <2>. QED  BY <2>6, <2>7, <2>8 DEF Kept
  <1>. QED  BY <1>4, <1>5

LEMMA KeptFlushCreate ==
    ASSUME Typed, Kept, Kinds \subseteq SafeKinds, NEW w \in Workers, FlushCreate(w)
    PROVE  Kept'
  <1>. DEFINE d == job[w].ds
              new == [content |-> job[w].req, mm |-> clock + 1]
              j == [job[w] EXCEPT !.pc = "flushed", !.dict = job[w].req,
                                  !.obj = new, !.tx = new]
  <1>1. job[w] \in Job /\ ShapeOf(job[w])
    BY JobOf
  <1>2. job[w].kind = "create" /\ job[w].pc = "begin" /\ d \in Datasets
    BY <1>1 DEF FlushCreate, At, ShapeOf
  <1>3. /\ job' = [job EXCEPT ![w] = j] /\ clock' = clock + 1
        /\ lock' = [lock EXCEPT ![d] = w] /\ UNCHANGED <<row, doc, born>>
    BY DEF FlushCreate
  <1>4. /\ j.pc = "flushed" /\ j.kind = "create" /\ j.ds = d
        /\ j.obj = new /\ j.tx = new /\ j.req = job[w].req
    BY <1>1, <1>2 DEF Job
  <1>5. PatchOf(j, row[j.ds]) /\ CreateOf(j, row[j.ds])
    BY <1>2, <1>4 DEF Kept, RequestsOK, CreateNew, CreateOf, PatchOf
  <1>. HIDE DEF j
  <1>6. Lockable(w, d)
    <2>1. \A x \in Workers : job[x].kind = "clear_orphans" => ~ Holding(job[x])
      BY JobOf DEF ShapeOf, Holding, WriteKinds
    <2>2. \A x \in Workers : job[x].pc = "begin" => ~ Holding(job[x])
      BY DEF Holding
    <2>3. \A x \in Workers : x # w => lock[d] # x
      BY <1>2, <2>1, <2>2 DEF Kept, RequestsOK, CreateOnce, LockOwned
    <2>. QED  BY <1>2, <2>3 DEF Lockable, Typed, TypeOK
  <1>7. VersionsDistinct' /\ VersionsPast'
    <2>1. j.obj.mm = clock + 1
      BY <1>4
    <2>. QED  BY <1>3, <2>1, CopiesNew DEF Kept
  <1>8. LockOwned'
    <2>1. Holding(j)
      BY <1>4 DEF Holding
    <2>. QED  BY <1>2, <1>3, <1>4, <1>6, <2>1, LocksTaken DEF Kept
  <1>9. RequestsOK'
    BY <1>2, <1>3, <1>4, <1>5, RequestMoves DEF Kept
  <1>. QED  BY <1>7, <1>8, <1>9 DEF Kept

LEMMA KeptFlushPurge ==
    ASSUME Typed, Kept, Kinds \subseteq SafeKinds, NEW w \in Workers, FlushPurge(w)
    PROVE  Kept'
  <1>. DEFINE d == job[w].ds
              j == [job[w] EXCEPT !.pc = "flushed"]
  <1>1. job[w] \in Job /\ ShapeOf(job[w])
    BY JobOf
  <1>2. job[w].kind = "purge" /\ job[w].pc = "loaded" /\ d \in Datasets
    BY <1>1 DEF FlushPurge, At, ShapeOf
  <1>3. /\ job' = [job EXCEPT ![w] = j] /\ Lockable(w, d)
        /\ lock' = [lock EXCEPT ![d] = w] /\ UNCHANGED <<row, doc, born, clock>>
    BY DEF FlushPurge, Goto
  <1>4. /\ j.pc = "flushed" /\ j.kind = "purge" /\ j.ds = d /\ j.obj = job[w].obj
    BY <1>1, <1>2 DEF Job
  <1>. HIDE DEF j
  <1>5. VersionsDistinct' /\ VersionsPast'
    <2>1. \A e \in Datasets : doc'[e] \in Copies(e) \cup {Absent}
      BY <1>3, CopiesMembers
    <2>. QED  BY <1>3, <1>4, <2>1, CopiesSame DEF Kept
  <1>6. LockOwned'
    <2>1. Holding(j)
      BY <1>4 DEF Holding
    <2>. QED  BY <1>2, <1>3, <1>4, <2>1, LocksTaken DEF Kept
  <1>7. RequestsOK'
    <2>1. PatchOf(j, row[j.ds]) /\ CreateOf(j, row[j.ds])
      BY <1>4 DEF PatchOf, CreateOf
    <2>. QED  BY <1>2, <1>3, <1>4, <2>1, RequestMoves DEF Kept
  <1>. QED  BY <1>5, <1>6, <1>7 DEF Kept

\* What a flushed request is about to index and to commit.
LEMMA ToCommit ==
    ASSUME Typed, Kept, Kinds \subseteq SafeKinds, NEW w \in Workers,
           job[w].pc \in {"flushed", "indexed"}
    PROVE  /\ job[w].kind \in {"create", "patch", "purge"}
           /\ job[w].kind = "purge" => job[w].tx = Absent
           /\ job[w].kind # "purge" =>
                /\ job[w].obj \in Version /\ job[w].tx = job[w].obj
                /\ job[w].obj \in Copies(job[w].ds)
  <1>1. job[w] \in Job /\ ShapeOf(job[w])
    BY JobOf
  <1>2. job[w].kind \in {"create", "patch", "purge"} /\ job[w].ds \in Datasets
    BY <1>1 DEF ShapeOf, WriteKinds, SafeKinds
  <1>3. job[w].kind # "purge" => job[w].tx = job[w].obj
    BY <1>2 DEF Kept, RequestsOK, PatchLatest, PatchOf, CreateNew, CreateOf
  <1>. QED  BY <1>1, <1>2, <1>3, CopiesMembers DEF ShapeOf, Job

LEMMA KeptIndex ==
    ASSUME Typed, Kept, Kinds \subseteq SafeKinds, NEW w \in Workers, Index(w)
    PROVE  Kept'
  <1>. DEFINE d == job[w].ds
              o == job[w].obj
              j == [job[w] EXCEPT !.pc = "indexed"]
  <1>1. job[w] \in Job /\ ShapeOf(job[w])
    BY JobOf
  <1>2. job[w].pc = "flushed" /\ d \in Datasets
    BY <1>1 DEF Index, ShapeOf
  <1>3. job' = [job EXCEPT ![w] = j] /\ UNCHANGED <<row, lock, born, clock>>
    BY DEF Index, Goto
  <1>4. /\ j.pc = "indexed" /\ j.kind = job[w].kind /\ j.ds = d /\ j.obj = o
        /\ j.req = job[w].req /\ j.dict = job[w].dict /\ j.tx = job[w].tx
    BY <1>1, <1>2 DEF Job
  <1>. HIDE DEF j
  <1>5. doc'[d] \in {Absent, o} /\ (doc'[d] # Absent => o \in Copies(d))
    <2>1. CASE job[w].kind = "purge"
      BY <1>2, <2>1, ToCommit DEF Index, Typed, TypeOK
    <2>2. CASE job[w].kind # "purge"
      <3>1. o \in Version /\ job[w].tx = o /\ o \in Copies(d)
        BY <1>2, <2>2, ToCommit
      <3>2. Dictized(o, o) = o.content
        BY <3>1 DEF Dictized, Version, Content
      <3>3. o = [content |-> o.content, mm |-> o.mm]
        BY <3>1 DEF Version
      <3>. QED  BY <1>2, <3>1, <3>2, <3>3, NullAssumption DEF Index, Indexed, Typed, TypeOK
    <2>. QED  BY <2>1, <2>2
  <1>6. \A e \in Datasets : doc'[e] \in Copies(e) \cup {Absent}
    BY <1>2, <1>5, CopiesMembers DEF Index, Typed, TypeOK
  <1>7. VersionsDistinct' /\ VersionsPast'
    BY <1>3, <1>4, <1>6, CopiesSame DEF Kept
  <1>8. LockOwned'
    <2>1. Holding(j) /\ Holding(job[w])
      BY <1>2, <1>4 DEF Holding
    <2>. QED  BY <1>3, <1>4, <2>1, LocksKept DEF Kept
  <1>9. RequestsOK'
    <2>1. PatchOf(j, row[j.ds]) /\ CreateOf(j, row[j.ds])
      BY <1>2, <1>4 DEF Kept, RequestsOK, PatchLatest, PatchOf, CreateNew, CreateOf
    <2>. QED  BY <1>2, <1>3, <1>4, <2>1, RequestMoves DEF Kept
  <1>. QED  BY <1>7, <1>8, <1>9 DEF Kept

LEMMA KeptCommit ==
    ASSUME Typed, Kept, Kinds \subseteq SafeKinds, NEW w \in Workers, Commit(w)
    PROVE  Kept'
  <1>. DEFINE d == job[w].ds
  <1>1. job[w] \in Job /\ ShapeOf(job[w])
    BY JobOf
  <1>2. job[w].pc = "indexed" /\ d \in Datasets
    BY <1>1 DEF Commit, ShapeOf
  <1>3. /\ \A e \in Datasets : row'[e] = IF e = d THEN job[w].tx ELSE row[e]
        /\ Finish(w) /\ UNCHANGED <<doc, born, clock>>
    BY DEF Commit, Typed, TypeOK
  <1>4. job' = [job EXCEPT ![w] = Idle]
    BY <1>3 DEF Finish
  <1>5. \A x \in Workers : job'[x] = IF x = w THEN Idle ELSE job[x]
    BY <1>4 DEF Typed, TypeOK
  <1>6. VersionsDistinct' /\ VersionsPast'
    <2>1. \A e \in Datasets :
            /\ row'[e] \in Copies(e) \cup {Absent}
            /\ doc'[e] \in Copies(e) \cup {Absent}
            /\ Idle.ds = e => Idle.obj \in Copies(e) \cup {Absent}
      BY <1>2, <1>3, ToCommit, CopiesMembers DEF Idle
    <2>. QED  BY <1>3, <1>4, <2>1, CopiesKept DEF Kept
  <1>7. LockOwned'
    BY <1>3, LocksReleased DEF Kept
  <1>8. PatchLatest'
    <2>1. ASSUME NEW x \in Workers, x # w
          PROVE  PatchOf(job[x], row'[job[x].ds])
      <3>1. CASE job[x].ds = d
        <4>1. ~ Holding(job[x])
          BY <1>2, <2>1, <3>1 DEF Kept, LockOwned, Holding
        <4>. QED  BY <4>1 DEF PatchOf, Holding
      <3>2. CASE job[x].ds # d /\ job[x].ds \in Datasets
        BY <1>3, <3>2 DEF Kept, RequestsOK, PatchLatest
      <3>3. CASE job[x].ds \notin Datasets
        BY <3>3, JobOf DEF ShapeOf, Idle, PatchOf
      <3>. QED  BY <3>1, <3>2, <3>3
    <2>. QED  BY <1>5, <2>1 DEF PatchLatest, PatchOf, Idle
  <1>9. CreateNew'
    <2>1. ASSUME NEW x \in Workers, x # w
          PROVE  CreateOf(job[x], row'[job[x].ds])
      <3>1. CASE job[x].ds = d
        <4>1. job[w].kind # "clear_orphans"
          BY <1>2, ToCommit
        <4>. QED  BY <1>2, <2>1, <3>1, <4>1 DEF Kept, RequestsOK, CreateOnce, CreateOf
      <3>2. CASE job[x].ds # d /\ job[x].ds \in Datasets
        BY <1>3, <3>2 DEF Kept, RequestsOK, CreateNew
      <3>3. CASE job[x].ds \notin Datasets
        BY <3>3, JobOf DEF ShapeOf, Idle, CreateOf
      <3>. QED  BY <3>1, <3>2, <3>3
    <2>. QED  BY <1>5, <2>1 DEF CreateNew, CreateOf, Idle
  <1>10. CreateOnce'
    <2>1. \A x \in Workers : job[x].kind = "create" => job[x].ds # Absent
      BY JobOf, NullAssumption DEF ShapeOf, Idle
    <2>2. \A e \in Datasets : e \notin born => row'[e] = Absent
      BY <1>2, <1>3 DEF Kept, RequestsOK, CreateOnce
    <2>. QED  BY <1>3, <1>5, <2>1, <2>2 DEF Kept, RequestsOK, CreateOnce, Idle
  <1>. QED  BY <1>6, <1>7, <1>8, <1>9, <1>10 DEF Kept, RequestsOK

LEMMA KeptRebuildRemove ==
    ASSUME Typed, Kept, NEW w \in Workers, RebuildRemove(w)
    PROVE  Kept'
  <1>. DEFINE j == [job[w] EXCEPT !.pc = "removed"]
  <1>1. job[w] \in Job /\ ShapeOf(job[w])
    BY JobOf
  <1>2. job[w].kind = "rebuild_one" /\ job[w].pc = "loaded"
    BY DEF RebuildRemove, At
  <1>3. job' = [job EXCEPT ![w] = j] /\ UNCHANGED <<row, lock, born, clock>>
    BY DEF RebuildRemove, Goto
  <1>4. /\ j.pc = "removed" /\ j.kind = "rebuild_one" /\ j.ds = job[w].ds
        /\ j.obj = job[w].obj
    BY <1>1, <1>2 DEF Job
  <1>. HIDE DEF j
  <1>5. \A e \in Datasets : doc'[e] \in Copies(e) \cup {Absent}
    BY CopiesMembers DEF RebuildRemove, Typed, TypeOK
  <1>6. VersionsDistinct' /\ VersionsPast'
    BY <1>3, <1>4, <1>5, CopiesSame DEF Kept
  <1>7. LockOwned'
    <2>1. ~ Holding(j) /\ ~ Holding(job[w])
      BY <1>2, <1>4 DEF Holding
    <2>. QED  BY <1>3, <2>1, LocksKept DEF Kept
  <1>8. RequestsOK'
    <2>1. PatchOf(j, row[j.ds]) /\ CreateOf(j, row[j.ds])
      BY <1>4 DEF PatchOf, CreateOf
    <2>. QED  BY <1>2, <1>3, <1>4, <2>1, RequestMoves DEF Kept
  <1>. QED  BY <1>6, <1>7, <1>8 DEF Kept

LEMMA KeptRebuildInsert ==
    ASSUME Typed, Kept, NEW w \in Workers, RebuildInsert(w)
    PROVE  Kept'
  <1>1. job[w].ds \in Datasets
    BY JobOf DEF RebuildInsert, At, ShapeOf
  <1>2. \A d \in Datasets : doc'[d] \in Copies(d) \cup {Absent}
    BY <1>1, CopiesMembers DEF RebuildInsert, Indexed, Typed, TypeOK
  <1>. QED  BY <1>2, KeptFinishDoc DEF RebuildInsert

LEMMA KeptClear ==
    ASSUME Typed, Kept, NEW w \in Workers, Clear(w) \/ ClearOrphan(w)
    PROVE  Kept'
  <1>1. \A d \in Datasets : doc'[d] \in Copies(d) \cup {Absent}
    BY CopiesMembers DEF Clear, ClearOrphan, Typed, TypeOK
  <1>. QED  BY <1>1, KeptFinishDoc DEF Clear, ClearOrphan

LEMMA KeptFindOrphan ==
    ASSUME Typed, Kept, NEW w \in Workers, FindOrphan(w)
    PROVE  Kept'
  <1>. DEFINE j == [job[w] EXCEPT !.pc = "loaded"]
  <1>1. job[w] \in Job /\ job[w].kind = "clear_orphans" /\ job[w].pc = "begin"
    BY JobOf DEF FindOrphan, At
  <1>2. UNCHANGED <<row, doc, born, clock>>
    BY DEF FindOrphan
  <1>3. CASE Finish(w)
    BY <1>2, <1>3, KeptFinish
  <1>4. CASE ~ Finish(w)
    <2>1. job' = [job EXCEPT ![w] = j] /\ lock' = lock
      BY <1>4 DEF FindOrphan, Goto
    <2>2. /\ j.pc = "loaded" /\ j.kind = "clear_orphans" /\ j.ds = job[w].ds
          /\ j.obj = job[w].obj
      BY <1>1 DEF Job
    <2>. HIDE DEF j
    <2>3. VersionsDistinct' /\ VersionsPast'
      <3>1. \A e \in Datasets : doc'[e] \in Copies(e) \cup {Absent}
        BY <1>2, CopiesMembers
      <3>. QED  BY <1>2, <2>1, <2>2, <3>1, CopiesSame DEF Kept
    <2>4. LockOwned'
      <3>1. ~ Holding(j) /\ ~ Holding(job[w])
        BY <1>1, <2>2 DEF Holding
      <3>. QED  BY <2>1, <3>1, LocksKept DEF Kept
    <2>5. RequestsOK'
      <3>1. PatchOf(j, row[j.ds]) /\ CreateOf(j, row[j.ds])
        BY <2>2 DEF PatchOf, CreateOf
      <3>. QED  BY <1>1, <1>2, <2>1, <2>2, <3>1, RequestMoves DEF Kept
    <2>. QED  BY <2>3, <2>4, <2>5 DEF Kept
  <1>. QED  BY <1>3, <1>4

LEMMA KeptNext ==
    ASSUME Typed, Kept, Kinds \subseteq SafeKinds, [Next]_vars
    PROVE  Kept'
  <1>1. CASE UNCHANGED vars
    BY <1>1 DEF vars, Kept, LockOwned, VersionsDistinct, VersionsPast, Copies,
                RequestsOK, PatchLatest, CreateNew, CreateOnce
  <1>2. ASSUME NEW w \in Workers, NEW k \in AllKinds, NEW d \in Datasets,
               Request(w, k, d)
        PROVE  Kept'
    BY <1>2, KeptRequest
  <1>3. ASSUME NEW w \in Workers, Waiting(w)
        PROVE  Kept'
    <2>1. ~ FlushDelete(w) /\ ~ BulkUpdate(w)
      BY SafeJob DEF FlushDelete, BulkUpdate, At, SafeKinds
    <2>. QED  BY <1>3, <2>1, KeptLock, KeptFlush, KeptFlushPurge DEF Waiting
  <1>4. ASSUME NEW w \in Workers, Working(w)
        PROVE  Kept'
    <2>1. ~ BulkFetch(w) /\ ~ BulkIndex(w)
      BY SafeJob DEF BulkFetch, BulkIndex, At, SafeKinds
    <2>2. CASE Missing(w)
      BY <2>2, KeptFinish DEF Missing
    <2>. QED  BY <1>4, <2>1, <2>2, KeptLoad, KeptPrepare, KeptFlushCreate, KeptIndex,
                 KeptCommit, KeptRebuildRemove, KeptRebuildInsert, KeptClear,
                 KeptFindOrphan DEF Working
  <1>5. ASSUME NEW w \in Workers, Abort(w)
        PROVE  Kept'
    BY <1>5, KeptFinish DEF Abort
  <1>. QED  BY <1>1, <1>2, <1>3, <1>4, <1>5 DEF Next

-----------------------------------------------------------------------------
(* What follows from the invariant. *)

LEMMA CoherentAlways ==
    ASSUME Kinds \subseteq SafeKinds PROVE Spec => [](Typed /\ Kept)
  <1>1. Init => Typed /\ Kept
    BY TypedInit, KeptInit
  <1>2. Typed /\ Kept /\ [Next]_vars => (Typed /\ Kept)'
    BY TypedNext, KeptNext
  <1>. QED  BY <1>1, <1>2, PTL DEF Spec

\* package_show never answers with an indexed document that says something
\* else than the committed rows, as long as every operation that writes a
\* dataset takes the row lock before it reads it.
THEOREM CacheCorrect ==
    ASSUME Kinds \subseteq SafeKinds PROVE Spec => []CacheCoherent
  <1>1. Kept => CacheCoherent
    BY CopiesMembers DEF Kept, VersionsDistinct, CacheCoherent
  <1>. QED  BY <1>1, CoherentAlways, PTL

\* The only step that commits a patch is its own Commit.
LEMMA PatchCommits ==
    ASSUME Typed, Kept, Kinds \subseteq SafeKinds, [Next]_vars,
           NEW w \in Workers, Commits(w, "patch")
    PROVE  \A f \in Fields \ DOMAIN job[w].req :
             row'[job[w].ds].content[f] = row[job[w].ds].content[f]
  <1>. DEFINE d == job[w].ds
  <1>1. job[w].kind = "patch" /\ job[w].pc = "indexed" /\ row' # row
    BY DEF Commits, At
  <1>2. d \in Datasets /\ row[d] # Absent
    BY <1>1, SafeJob DEF Kept, RequestsOK, PatchLatest, PatchOf
  <1>3. PICK x \in Workers : Commit(x)
    <2>1. ~ UNCHANGED vars
      BY <1>1 DEF vars
    <2>2. PICK x \in Workers :
            \/ \E k \in AllKinds, e \in Datasets : Request(x, k, e)
            \/ Waiting(x) \/ Working(x) \/ Abort(x)
      BY <2>1 DEF Next
    <2>3. ~ BulkUpdate(x)
      BY SafeJob DEF BulkUpdate, At, SafeKinds
    <2>. QED  BY <1>1, <2>2, <2>3 DEF Request, Waiting, Lock, Flush, FlushStamped, FlushDelete,
              FlushPurge, Working, Load, Missing, Prepare, FlushCreate, Index,
              BulkFetch, BulkIndex, RebuildRemove, RebuildInsert, Clear,
              FindOrphan, ClearOrphan, Abort
  <1>4. CASE x = w
    <2>1. job[w].tx = job[w].obj /\ job[w].obj.content = Override(row[d].content, job[w].req)
      BY <1>1 DEF Kept, RequestsOK, PatchLatest, PatchOf
    <2>2. row'[d] = job[w].tx
      BY <1>2, <1>3, <1>4 DEF Commit, Typed, TypeOK
    <2>. QED  BY <2>1, <2>2 DEF Override
  <1>5. CASE x # w
    <2>1. job[x].pc = "indexed"
      BY <1>3 DEF Commit
    <2>2. job[x].ds # d
      BY <1>1, <1>2, <1>5, <2>1 DEF Kept, LockOwned, Holding
    <2>3. row'[d] = row[d]
      BY <1>2, <1>3, <2>2 DEF Commit, Typed, TypeOK
    <2>. QED  BY <2>3
  <1>. QED  BY <1>4, <1>5

\* A committed patch has changed nothing it was not given, whatever other
\* patches, creations, purges and rebuilds ran at the same time or failed.
THEOREM PatchCorrect ==
    ASSUME Kinds \subseteq SafeKinds PROVE Spec => PatchLeavesOthers
  <1>1. Typed /\ Kept /\ [Next]_vars =>
          \A w \in Workers :
            Commits(w, "patch") =>
              LET d == job[w].ds IN
              \A f \in Fields \ DOMAIN job[w].req :
                row'[d].content[f] = row[d].content[f]
    BY PatchCommits
  <1>. QED  BY <1>1, CoherentAlways, PTL DEF Spec, PatchLeavesOthers

-----------------------------------------------------------------------------
(* What package_show answers changes as DatasetStore says: the sessions,   *)
(* the row locks, the index and the failures cannot be told from requests  *)
(* that take effect one at a time.                                         *)

\* What package_show answers is what is committed, cached or not.
ShownCommitted ==
    Shown = [d \in Datasets |-> IF row[d] = Absent THEN Absent ELSE row[d].content]

LEMMA ShownIsCommitted == Typed /\ Kept => ShownCommitted
  <1>. SUFFICES ASSUME Typed, Kept, NEW d \in Datasets, row[d] # Absent
                PROVE  Show(d, row[d]) = row[d].content
    BY DEF Shown, ShownCommitted
  <1>1. row[d] \in Version
    BY DEF Typed, TypeOK
  <1>2. Dictized(row[d], row[d]) = row[d].content
    BY <1>1 DEF Dictized, Version, Content
  <1>3. doc[d] # Absent /\ doc[d].mm = row[d].mm => doc[d].content = row[d].content
    BY CopiesMembers DEF Kept, VersionsDistinct
  <1>. QED  BY <1>2, <1>3 DEF Show

\* The abstract request of a job.
AskedOf(j) ==
    IF j.kind \in {"create", "patch", "purge"}
    THEN [kind |-> j.kind, ds |-> j.ds, req |-> j.req]
    ELSE Absent

LEMMA AskedJobs ==
    ASSUME Typed, NEW w \in Workers, NEW j, job' = [job EXCEPT ![w] = j]
    PROVE  /\ Asked[w] = AskedOf(job[w])
           /\ Asked' = [Asked EXCEPT ![w] = AskedOf(j)]
  BY DEF Asked, AskedOf, Typed, TypeOK

LEMMA AskedIdle == AskedOf(Idle) = Absent
  BY DEF AskedOf, Idle

\* The abstract request of a job that is being served is one.
LEMMA AskedKind ==
    ASSUME Typed, NEW w \in Workers, job[w].kind \in {"create", "patch", "purge"}
    PROVE  /\ AskedOf(job[w]) \in Asking /\ AskedOf(job[w]) # Absent
           /\ job[w].ds \in Datasets
           /\ job[w].kind = "create" => DOMAIN job[w].req = Fields
  <1>1. job[w].pc # "idle" /\ job[w].ds \in Datasets /\ job[w].req \in RequestsOf(job[w].kind)
    BY JobOf DEF ShapeOf, Idle
  <1>2. job[w].req \in Changes
    BY <1>1 DEF RequestsOf, Changes
  <1>3. AskedOf(job[w]) \in Asking
    BY <1>1, <1>2 DEF Asking, AskedOf
  <1>4. job[w].kind = "create" => DOMAIN job[w].req = Fields
    BY <1>1 DEF RequestsOf
  <1>. QED  BY <1>1, <1>3, <1>4, NullAssumption

-----------------------------------------------------------------------------
(* The steps. *)

\* A step that commits nothing, after which w serves what it served before,
\* or nothing.
LEMMA StepCommitsNothing ==
    ASSUME Typed, ShownCommitted, ShownCommitted', row' = row,
           NEW w \in Workers, NEW j, job' = [job EXCEPT ![w] = j],
           AskedOf(j) \in {AskedOf(job[w]), Absent}
    PROVE  [Store!Next]_(Store!vars)
  <1>1. Shown' = Shown
    BY DEF ShownCommitted
  <1>2. Asked' = [Asked EXCEPT ![w] = AskedOf(j)] /\ Asked[w] = AskedOf(job[w])
    BY AskedJobs
  <1>3. CASE AskedOf(j) = AskedOf(job[w])
    <2>1. Asked' = Asked
      BY <1>2, <1>3 DEF Asked
    <2>. QED  BY <1>1, <2>1 DEF Store!vars
  <1>4. CASE AskedOf(j) # AskedOf(job[w])
    <2>1. Store!Drop(w)
      BY <1>1, <1>2, <1>4 DEF Store!Drop
    <2>. QED  BY <2>1 DEF Store!Next
  <1>. QED  BY <1>3, <1>4

LEMMA StepRequest ==
    ASSUME Typed, ShownCommitted, ShownCommitted',
           NEW w \in Workers, NEW k \in AllKinds, NEW d \in Datasets,
           Request(w, k, d)
    PROVE  [Store!Next]_(Store!vars)
  <1>1. PICK r \in RequestsOf(k) :
          job' = [job EXCEPT ![w] =
                    [Idle EXCEPT !.pc = "begin", !.kind = k, !.ds = d, !.req = r]]
    BY DEF Request
  <1>. DEFINE j == [Idle EXCEPT !.pc = "begin", !.kind = k, !.ds = d, !.req = r]
  <1>2. j.kind = k /\ j.ds = d /\ j.req = r
    BY DEF Idle
  <1>. HIDE DEF j
  <1>3. AskedOf(job[w]) = Absent
    BY JobOf, AskedIdle DEF Request, ShapeOf
  <1>4. CASE k \notin {"create", "patch", "purge"}
    <2>1. AskedOf(j) = Absent
      BY <1>2, <1>4 DEF AskedOf
    <2>. QED  BY <1>1, <2>1, StepCommitsNothing DEF Request, j
  <1>5. CASE k \in {"create", "patch", "purge"}
    <2>1. r \in Changes
      BY <1>1, <1>5 DEF RequestsOf, Changes
    <2>2. AskedOf(j) \in Store!Request
      BY <1>2, <1>5, <2>1 DEF AskedOf, Store!Request, Store!Changes, Changes
    <2>3. Asked' = [Asked EXCEPT ![w] = AskedOf(j)] /\ Asked[w] = Absent
      BY <1>1, <1>3, AskedJobs DEF j
    <2>4. Shown' = Shown
      BY DEF Request, ShownCommitted
    <2>5. Store!Ask(w)
      BY <2>2, <2>3, <2>4 DEF Store!Ask
    <2>. QED  BY <2>5 DEF Store!Next
  <1>. QED  BY <1>4, <1>5

LEMMA StepCommit ==
    ASSUME Typed, Kept, Kinds \subseteq SafeKinds, ShownCommitted, ShownCommitted',
           NEW w \in Workers, Commit(w)
    PROVE  [Store!Next]_(Store!vars)
  <1>. DEFINE d == job[w].ds
              k == job[w].kind
              r == job[w].req
              a == AskedOf(job[w])
  <1>1. job[w].pc = "indexed" /\ k \in {"create", "patch", "purge"}
    BY ToCommit DEF Commit
  <1>2. d \in Datasets /\ a # Absent /\ (k = "create" => DOMAIN r = Fields)
    BY <1>1, AskedKind
  <1>3. a.kind = k /\ a.ds = d /\ a.req = r
    BY <1>1 DEF AskedOf
  <1>4. Asked[w] = a /\ Asked' = [Asked EXCEPT ![w] = Absent]
    BY AskedJobs, AskedIdle DEF Commit, Finish
  <1>5. row'[d] = job[w].tx /\ \A e \in Datasets : e # d => row'[e] = row[e]
    BY <1>2 DEF Commit, Typed, TypeOK
  <1>6. Shown[d] = IF row[d] = Absent THEN Absent ELSE row[d].content
    BY <1>2 DEF ShownCommitted
  <1>7. Shown' = [Shown EXCEPT ![d] = IF job[w].tx = Absent THEN Absent
                                                           ELSE job[w].tx.content]
    BY <1>2, <1>5 DEF ShownCommitted
  <1>. HIDE DEF a
  <1>8. CASE k = "create"
    <2>1. row[d] = Absent /\ job[w].tx = job[w].obj /\ job[w].obj.content = r
      BY <1>1, <1>8 DEF Kept, RequestsOK, CreateNew, CreateOf
    <2>2. job[w].tx # Absent
      BY <1>1, <1>8, JobOf DEF ShapeOf
    <2>3. Store!Create(w)
      BY <1>2, <1>3, <1>4, <1>6, <1>7, <1>8, <2>1, <2>2 DEF Store!Create, Store!Perform
    <2>. QED  BY <2>3 DEF Store!Next
  <1>9. CASE k = "patch"
    <2>1. /\ row[d] # Absent /\ job[w].tx = job[w].obj
          /\ job[w].obj.content = Override(row[d].content, r)
      BY <1>1, <1>9 DEF Kept, RequestsOK, PatchLatest, PatchOf
    <2>2. job[w].tx # Absent
      BY <1>1, <1>9, JobOf DEF ShapeOf
    <2>3. row[d].content # Absent
      BY <1>2, <2>1, NullAssumption DEF Typed, TypeOK, Version
    <2>4. Override(row[d].content, r) = Store!Override(Shown[d], r)
      BY <1>6, <2>1 DEF Override, Store!Override
    <2>5. Store!Patch(w)
      BY <1>2, <1>3, <1>4, <1>6, <1>7, <1>9, <2>1, <2>2, <2>3, <2>4
         DEF Store!Patch, Store!Perform
    <2>. QED  BY <2>5 DEF Store!Next
  <1>10. CASE k = "purge"
    <2>1. job[w].tx = Absent
      BY <1>1, <1>10, ToCommit
    <2>2. Store!Purge(w)
      BY <1>2, <1>3, <1>4, <1>7, <1>10, <2>1 DEF Store!Purge, Store!Perform
    <2>. QED  BY <2>2 DEF Store!Next
  <1>. QED  BY <1>1, <1>8, <1>9, <1>10

\* Worker w has not turned to another request.
Serves(w) ==
    /\ job' = [job EXCEPT ![w] = job'[w]]
    /\ \/ job'[w] = Idle
       \/ /\ job'[w].kind = job[w].kind
          /\ job'[w].ds = job[w].ds
          /\ job'[w].req = job[w].req

\* No step of a request but its commit writes the database or turns its
\* worker to another request.
LEMMA StepServes ==
    ASSUME Typed, Kinds \subseteq SafeKinds, NEW w \in Workers,
           Waiting(w) \/ (Working(w) /\ ~ Commit(w)) \/ Abort(w)
    PROVE  row' = row /\ Serves(w)
  <1>1. job[w] \in Job
    BY JobOf
  <1>2. Finish(w) => Serves(w)
    BY DEF Finish, Serves, Typed, TypeOK
  <1>3. ~ BulkUpdate(w) /\ ~ FlushDelete(w) /\ ~ BulkFetch(w) /\ ~ BulkIndex(w)
    BY SafeJob DEF BulkUpdate, FlushDelete, BulkFetch, BulkIndex, At, SafeKinds
  <1>4. CASE Lock(w) \/ Load(w) \/ FlushPurge(w)
    BY <1>1, <1>4 DEF Lock, Load, FlushPurge, Goto, Serves, Job, Typed, TypeOK
  <1>5. CASE Flush(w)
    BY <1>1, <1>2, <1>5 DEF Flush, FlushStamped, Serves, Job, Typed, TypeOK
  <1>6. CASE Prepare(w) \/ FindOrphan(w)
    BY <1>1, <1>2, <1>6 DEF Prepare, FindOrphan, Goto, Serves, Job, Typed, TypeOK
  <1>7. CASE FlushCreate(w) \/ Index(w) \/ RebuildRemove(w)
    BY <1>1, <1>7 DEF FlushCreate, Index, RebuildRemove, Goto, Serves, Job, Typed, TypeOK
  <1>8. CASE Missing(w) \/ RebuildInsert(w) \/ Clear(w) \/ ClearOrphan(w) \/ Abort(w)
    BY <1>2, <1>8 DEF Missing, RebuildInsert, Clear, ClearOrphan, Abort
  <1>. QED  BY <1>3, <1>4, <1>5, <1>6, <1>7, <1>8 DEF Waiting, Working

LEMMA StepStore ==
    ASSUME Typed, Kept, Kinds \subseteq SafeKinds, ShownCommitted, ShownCommitted',
           [Next]_vars
    PROVE  [Store!Next]_(Store!vars)
  <1>1. CASE UNCHANGED vars
    <2>1. Shown' = Shown /\ Asked' = Asked
      BY <1>1 DEF vars, ShownCommitted, Asked
    <2>. QED  BY <2>1 DEF Store!vars
  <1>2. ASSUME NEW w \in Workers, NEW k \in AllKinds, NEW d \in Datasets,
               Request(w, k, d)
        PROVE  [Store!Next]_(Store!vars)
    BY <1>2, StepRequest
  <1>3. ASSUME NEW w \in Workers,
               Waiting(w) \/ (Working(w) /\ ~ Commit(w)) \/ Abort(w)
        PROVE  [Store!Next]_(Store!vars)
    <2>1. row' = row /\ Serves(w)
      BY <1>3, StepServes
    <2>2. AskedOf(job'[w]) \in {AskedOf(job[w]), Absent}
      BY <2>1, AskedIdle DEF Serves, AskedOf
    <2>. QED  BY <2>1, <2>2, StepCommitsNothing DEF Serves
  <1>4. ASSUME NEW w \in Workers, Commit(w)
        PROVE  [Store!Next]_(Store!vars)
    BY <1>4, StepCommit
  <1>. QED  BY <1>1, <1>2, <1>3, <1>4 DEF Next

-----------------------------------------------------------------------------
\* With the operations that lock a dataset before they read it, CKAN
\* implements the abstract store: creations, patches and purges take effect
\* one at a time, completely or not at all, whatever runs beside them.
THEOREM StoreImplemented ==
    ASSUME Kinds \subseteq SafeKinds PROVE Spec => ImplementsStore
  <1>1. Init => Typed /\ Kept
    BY TypedInit, KeptInit
  <1>2. Init => Store!Init
    <2>. SUFFICES ASSUME Init PROVE Store!Init
      OBVIOUS
    <2>1. Shown \in [Datasets -> Content \cup {Absent}]
      BY <1>1, ShownIsCommitted DEF ShownCommitted, Typed, TypeOK, Version
    <2>2. Asked = [w \in Workers |-> Absent]
      BY DEF Init, Asked, Idle
    <2>. QED  BY <2>1, <2>2 DEF Store!Init, Store!Content, Content
  <1>3. Spec => []ShownCommitted
    BY CoherentAlways, ShownIsCommitted, PTL
  <1>4. Typed /\ Kept /\ ShownCommitted /\ ShownCommitted' /\ [Next]_vars
          => [Store!Next]_(Store!vars)
    BY StepStore
  <1>. QED  BY <1>2, <1>3, <1>4, CoherentAlways, PTL DEF Spec, ImplementsStore, Store!Spec

-----------------------------------------------------------------------------
(* Part 3: requests that read before they lock run alone. *)

LockingKinds == {"create", "patch", "purge"}

\* What the theorem assumes of the operations in use.  "clear" is meant to
\* leave the index behind the database.
Orderly == Kinds \subseteq (LockingKinds \cup Alone) \ {"clear"} /\ ~ MayAbort

\* What a search finds for a dataset whose row is r.
Found(r) == IF r = Absent THEN Absent ELSE Indexed(r)

ServesAlone ==
    \A w, x \in Workers :
        (w # x /\ job[w].kind \in Alone) => job[x].pc = "idle"

\* Job j, on a dataset with the row r and the document x, works on the
\* committed version; it saves what its session has, and has indexed what it
\* is going to commit.  A bulk update has committed what it will index.
CurrentOf(j, r, x) ==
    /\ (j.pc \in {"loaded", "locked", "shown", "removed"} /\ j.kind # "purge") =>
         j.obj = r /\ r # Absent
    /\ (j.pc \in {"flushed", "indexed"} /\ j.kind # "purge") => j.tx = j.obj
    /\ j.pc = "indexed" => x = Found(j.tx)
    /\ j.pc = "committed" =>
         /\ r # Absent
         /\ IF x = Absent THEN Indexed(r) = Absent ELSE r = With(x, j.req)
    /\ j.pc = "fetched" => r = With(j.obj, j.req)
    /\ j.kind = "clear_orphans" => j.pc = "begin"

AllCurrent ==
    \A w \in Workers :
        job[w].pc # "idle" => CurrentOf(job[w], row[job[w].ds], doc[job[w].ds])

\* Job j is between its change of one of the copies and that of the other.
Between(j) == j.pc \in {"indexed", "committed", "fetched", "removed"}

Settled ==
    \A d \in Datasets :
        (\A w \in Workers : job[w].ds = d => ~ Between(job[w])) => doc[d] = Found(row[d])

CreatesOK == CreateNew /\ CreateOnce

Synced == LockOwned /\ CreatesOK /\ ServesAlone /\ AllCurrent /\ Settled

-----------------------------------------------------------------------------
(* What one step may do. *)

\* A request is of a kind that locks, or its worker is the only one at work.
LEMMA OrderlyJob ==
    ASSUME Orderly, Typed, Synced, NEW w \in Workers, job[w].pc # "idle"
    PROVE  /\ job[w].ds \in Datasets
           /\ job[w].kind # "clear"
           /\ job[w].kind \notin LockingKinds => job[w].kind \in Alone
           /\ job[w].kind \in Alone =>
                \A x \in Workers : x # w => job[x] = Idle
  <1>1. ShapeOf(job[w]) /\ \A x \in Workers : ShapeOf(job[x])
    BY JobOf
  <1>. QED  BY <1>1 DEF ShapeOf, Orderly, Synced, ServesAlone

\* What w does to its dataset while it holds the lock, or is alone, does not
\* concern another worker.
LEMMA OthersKept ==
    ASSUME Orderly, Typed, Synced, NEW w \in Workers, NEW x \in Workers, x # w,
           Holding(job[w]) \/ job[w].kind \in Alone, job[w].pc # "idle",
           \A d \in Datasets : d # job[w].ds => row'[d] = row[d] /\ doc'[d] = doc[d],
           job[x].pc # "idle"
    PROVE  CurrentOf(job[x], row'[job[x].ds], doc'[job[x].ds])
  <1>1. CurrentOf(job[x], row[job[x].ds], doc[job[x].ds])
    BY DEF Synced, AllCurrent
  <1>2. job[w].kind \notin Alone
    BY DEF Synced, ServesAlone
  <1>3. job[x].kind \in LockingKinds /\ job[x].ds \in Datasets
    BY OrderlyJob DEF Synced, ServesAlone
  <1>4. CASE job[x].ds # job[w].ds
    BY <1>1, <1>3, <1>4
  <1>5. CASE job[x].ds = job[w].ds
    <2>1. ~ Holding(job[x])
      BY <1>2, <1>3, <1>5 DEF Synced, LockOwned
    <2>2. ShapeOf(job[x])
      BY JobOf
    <2>. QED  BY <1>3, <2>1, <2>2 DEF CurrentOf, Holding, ShapeOf, LockingKinds
  <1>. QED  BY <1>4, <1>5

\* The same of a step that changes nothing but the job of w.
LEMMA OthersSame ==
    ASSUME Synced, UNCHANGED <<row, doc>>, NEW x \in Workers, job[x].pc # "idle"
    PROVE  CurrentOf(job[x], row'[job[x].ds], doc'[job[x].ds])
  BY DEF Synced, AllCurrent

LEMMA SettledStep ==
    ASSUME Typed, Synced, NEW w \in Workers, NEW j, job' = [job EXCEPT ![w] = j],
           job[w].ds \in Datasets, j.ds \in {job[w].ds, Absent},
           \A d \in Datasets : d # job[w].ds => row'[d] = row[d] /\ doc'[d] = doc[d],
           \/ UNCHANGED <<row, doc>> /\ ~ Between(job[w])
           \/ Between(j) /\ j.ds = job[w].ds
           \/ doc'[job[w].ds] = Found(row'[job[w].ds])
    PROVE  Settled'
  <1>. SUFFICES ASSUME NEW d \in Datasets,
                       \A x \in Workers : job'[x].ds = d => ~ Between(job'[x])
                PROVE  doc'[d] = Found(row'[d])
    BY DEF Settled, Between, Found, Indexed
  <1>1. \A x \in Workers : job'[x] = IF x = w THEN j ELSE job[x]
    BY DEF Typed, TypeOK
  <1>2. CASE d # job[w].ds
    <2>1. \A x \in Workers : job[x].ds = d => ~ Between(job[x])
      BY <1>1, <1>2
    <2>. QED  BY <1>2, <2>1 DEF Synced, Settled
  <1>3. CASE d = job[w].ds
    <2>1. CASE UNCHANGED <<row, doc>> /\ ~ Between(job[w])
      <3>1. \A x \in Workers : job[x].ds = d => ~ Between(job[x])
        BY <1>1, <2>1
      <3>. QED  BY <2>1, <3>1 DEF Synced, Settled
    <2>2. CASE Between(j) /\ j.ds = job[w].ds
      BY <1>1, <1>3, <2>2
    <2>3. CASE doc'[job[w].ds] = Found(row'[job[w].ds])
      BY <1>3, <2>3
    <2>. QED  BY <2>1, <2>2, <2>3
  <1>. QED  BY <1>2, <1>3

LEMMA AloneStep ==
    ASSUME Typed, Synced, NEW w \in Workers, NEW j, job' = [job EXCEPT ![w] = j],
           job[w].pc # "idle", j.kind = job[w].kind \/ j = Idle
    PROVE  ServesAlone'
  <1>1. \A x \in Workers : job'[x] = IF x = w THEN j ELSE job[x]
    BY DEF Typed, TypeOK
  <1>2. Idle.kind \notin Alone /\ Idle.pc = "idle"
    BY KindsAssumption DEF Idle, AllKinds
  <1>. QED  BY <1>1, <1>2 DEF Synced, ServesAlone

\* The request of w goes on, without a new row.
LEMMA CreatesMove ==
    ASSUME Typed, CreatesOK, NEW w \in Workers, NEW j,
           job' = [job EXCEPT ![w] = j], UNCHANGED <<row, born>>,
           job[w].pc # "idle", j.ds = job[w].ds, j.kind = job[w].kind,
           CreateOf(j, row[j.ds]),
           \/ row[job[w].ds] # Absent
           \/ job[w].pc # "begin"
           \/ job[w].kind \in {"create", "clear_orphans"}
    PROVE  CreatesOK'
  <1>1. \A x \in Workers : job'[x] = IF x = w THEN j ELSE job[x]
    BY DEF Typed, TypeOK
  <1>2. CreateNew'
    BY <1>1 DEF CreatesOK, CreateNew, CreateOf
  <1>3. CreateOnce'
    <2>1. CASE job[w].kind = "clear_orphans"
      BY <1>1, <2>1 DEF CreatesOK, CreateOnce
    <2>2. CASE job[w].kind # "clear_orphans"
      <3>1. \A x \in Workers :
              (x # w /\ job[x].kind = "create") => job[w].ds # job[x].ds
        BY <2>2 DEF CreatesOK, CreateOnce, CreateNew, CreateOf
      <3>. QED  BY <1>1, <3>1 DEF CreatesOK, CreateOnce
    <2>. QED  BY <2>1, <2>2
  <1>. QED  BY <1>2, <1>3 DEF CreatesOK

\* It ends, and leaves at most the row of a request that held the lock.
LEMMA CreatesEnd ==
    ASSUME Typed, CreatesOK, NEW w \in Workers, Finish(w), born' = born,
           \/ row' = row
           \/ /\ job[w].pc = "indexed" /\ job[w].ds \in Datasets
              /\ \A d \in Datasets : d # job[w].ds => row'[d] = row[d]
    PROVE  CreatesOK'
  <1>1. \A x \in Workers : job'[x] = IF x = w THEN Idle ELSE job[x]
    BY DEF Finish, Typed, TypeOK
  <1>2. \A x \in Workers : job[x].kind = "create" => job[x].ds \in Datasets
    BY JobOf DEF ShapeOf, Idle
  <1>3. ASSUME NEW x \in Workers, x # w, job[x].kind = "create"
        PROVE  row'[job[x].ds] = row[job[x].ds]
    <2>1. job[w].pc = "indexed" => job[w].kind # "clear_orphans"
      BY JobOf DEF ShapeOf, WriteKinds
    <2>. QED  BY <1>2, <1>3, <2>1 DEF CreatesOK, CreateOnce
  <1>4. CreateNew'
    BY <1>1, <1>3 DEF CreatesOK, CreateNew, CreateOf, Idle
  <1>5. CreateOnce'
    <2>1. \A d \in Datasets : d \notin born => row'[d] = Absent
      BY DEF CreatesOK, CreateOnce
    <2>2. \A x \in Workers : job[x].kind = "create" => job[x].ds # Absent
      BY <1>2, NullAssumption
    <2>. QED  BY <1>1, <2>1, <2>2 DEF CreatesOK, CreateOnce, Idle
  <1>. QED  BY <1>4, <1>5 DEF CreatesOK

-----------------------------------------------------------------------------
(* A request that goes on, and one that ends. *)

LEMMA Goes ==
    ASSUME Orderly, Typed, Synced, NEW w \in Workers, NEW j,
           job' = [job EXCEPT ![w] = j], UNCHANGED <<row, born>>,
           job[w].pc # "idle", j.pc # "idle", j.kind = job[w].kind, j.ds = job[w].ds,
           \/ doc' = doc /\ (Between(j) \/ ~ Between(job[w]))
           \/ /\ \A d \in Datasets : d # job[w].ds => doc'[d] = doc[d]
              /\ Holding(job[w]) \/ job[w].kind \in Alone
              /\ Between(j),
           CurrentOf(j, row[job[w].ds], doc'[job[w].ds]),
           CreateOf(j, row[job[w].ds]),
           LockOwned',
           \/ row[job[w].ds] # Absent
           \/ job[w].pc # "begin"
           \/ job[w].kind = "create"
    PROVE  Synced'
  <1>1. job[w].ds \in Datasets
    BY OrderlyJob
  <1>2. \A x \in Workers : job'[x] = IF x = w THEN j ELSE job[x]
    BY DEF Typed, TypeOK
  <1>3. \A x \in Workers \ {w} :
          job[x].pc # "idle" => CurrentOf(job[x], row'[job[x].ds], doc'[job[x].ds])
    BY OthersKept, OthersSame
  <1>4. AllCurrent'
    <2>1. \A x \in Workers : job'[x].pc # "idle" =>
             CurrentOf(job'[x], row'[job'[x].ds], doc'[job'[x].ds])
      BY <1>2, <1>3
    <2>. QED  BY <2>1 DEF AllCurrent, CurrentOf, Found, Indexed, With, Override
  <1>5. Settled'
    BY <1>1, SettledStep
  <1>6. ServesAlone'
    BY AloneStep
  <1>7. CreatesOK'
    BY CreatesMove DEF Synced
  <1>. QED  BY <1>4, <1>5, <1>6, <1>7 DEF Synced

LEMMA Ends ==
    ASSUME Orderly, Typed, Synced, NEW w \in Workers, Finish(w), born' = born,
           job[w].pc # "idle",
           \/ UNCHANGED <<row, doc>> /\ ~ Between(job[w])
           \/ /\ \A d \in Datasets : d # job[w].ds => doc'[d] = doc[d] /\ row'[d] = row[d]
              /\ \/ row' = row /\ job[w].kind \in Alone
                 \/ job[w].pc = "indexed"
              /\ doc'[job[w].ds] = Found(row'[job[w].ds])
    PROVE  Synced'
  <1>1. job[w].ds \in Datasets
    BY OrderlyJob
  <1>2. job' = [job EXCEPT ![w] = Idle]
    BY DEF Finish
  <1>3. \A x \in Workers : job'[x] = IF x = w THEN Idle ELSE job[x]
    BY <1>2 DEF Typed, TypeOK
  <1>4. \A x \in Workers \ {w} :
          job[x].pc # "idle" => CurrentOf(job[x], row'[job[x].ds], doc'[job[x].ds])
    BY OthersKept, OthersSame DEF Holding
  <1>5. AllCurrent'
    <2>1. \A x \in Workers : job'[x].pc # "idle" =>
             CurrentOf(job'[x], row'[job'[x].ds], doc'[job'[x].ds])
      BY <1>3, <1>4 DEF Idle
    <2>. QED  BY <2>1 DEF AllCurrent, CurrentOf, Found, Indexed, With, Override
  <1>6. Settled'
    <2>1. Idle.ds = Absent
      BY DEF Idle
    <2>. QED  BY <1>1, <1>2, <2>1, SettledStep
  <1>7. ServesAlone'
    BY <1>2, AloneStep
  <1>8. CreatesOK'
    BY <1>1, CreatesEnd DEF Synced
  <1>9. LockOwned'
    BY LocksReleased DEF Synced
  <1>. QED  BY <1>5, <1>6, <1>7, <1>8, <1>9 DEF Synced
-----------------------------------------------------------------------------
(* The initial states and the steps, one by one. *)

LEMMA SyncedInit == Init => Synced
  <1>. SUFFICES ASSUME Init PROVE Synced
    OBVIOUS
  <1>1. PICK c \in Content :
          c["state"] # Deleted
          /\ row = [d \in Datasets |->
                     IF d \in born THEN [content |-> c, mm |-> 0] ELSE Absent]
    BY DEF Init
  <1>2. \A d \in Datasets : doc[d] = row[d] /\ doc[d] = Found(row[d])
    BY <1>1 DEF Init, Found, Indexed
  <1>3. LockOwned
    BY NullAssumption DEF LockOwned, Init, Idle, Holding
  <1>4. CreatesOK
    BY <1>1 DEF CreatesOK, CreateNew, CreateOf, CreateOnce, Init, Idle
  <1>5. ServesAlone /\ AllCurrent
    BY DEF ServesAlone, AllCurrent, Init, Idle
  <1>. QED  BY <1>2, <1>3, <1>4, <1>5 DEF Synced, Settled

LEMMA SyncedRequest ==
    ASSUME Orderly, Typed, Synced, NEW w \in Workers, NEW k \in AllKinds,
           NEW d \in Datasets, Request(w, k, d)
    PROVE  Synced'
  <1>1. PICK r \in RequestsOf(k) :
          job' = [job EXCEPT ![w] =
                    [Idle EXCEPT !.pc = "begin", !.kind = k, !.ds = d, !.req = r]]
    BY DEF Request
  <1>. DEFINE j == [Idle EXCEPT !.pc = "begin", !.kind = k, !.ds = d, !.req = r]
  <1>2. j.pc = "begin" /\ j.kind = k /\ j.ds = d /\ j.obj = Absent
    BY DEF Idle
  <1>. HIDE DEF j
  <1>3. UNCHANGED <<row, doc, lock>> /\ job[w].pc = "idle"
    BY DEF Request
  <1>4. \A x \in Workers : job'[x] = IF x = w THEN j ELSE job[x]
    BY <1>1 DEF Typed, TypeOK, j
  <1>5. LockOwned'
    BY <1>1, <1>2, <1>3, LocksKept DEF Synced, Holding, j
  <1>6. CreateNew'
    BY <1>2, <1>3, <1>4 DEF Synced, CreatesOK, CreateNew, CreateOnce, CreateOf, Request
  <1>7. CreateOnce'
    <2>1. \A x \in Workers : job[x].ds = d => job[x].pc # "idle" /\ d \in born
      BY JobOf, NullAssumption DEF Synced, CreatesOK, CreateOnce, ShapeOf, Idle
    <2>2. IF k = "create" THEN d \notin born /\ born' = born \cup {d}
                          ELSE d \in born /\ born' = born
      BY DEF Request
    <2>3. \A e \in Datasets : e \notin born' => row'[e] = Absent
      BY <1>3, <2>2 DEF Synced, CreatesOK, CreateOnce
    <2>4. \A x \in Workers : job'[x].pc # "idle" => job'[x].ds \in born'
      BY <1>2, <1>4, <2>2 DEF Synced, CreatesOK, CreateOnce
    <2>5. ASSUME NEW x \in Workers, NEW y \in Workers, x # y,
                 job'[y].kind = "create", job'[x].ds = job'[y].ds
          PROVE  /\ job'[x].kind # "create"
                 /\ job'[x].pc = "begin" \/ job'[x].kind = "clear_orphans"
      <3>1. CASE x = w
        BY <1>2, <1>4, <2>1, <2>2, <2>5, <3>1
      <3>2. CASE y = w
        BY <1>2, <1>4, <2>1, <2>2, <2>5, <3>2
      <3>3. CASE x # w /\ y # w
        BY <1>4, <2>5, <3>3 DEF Synced, CreatesOK, CreateOnce
      <3>. QED  BY <3>1, <3>2, <3>3
    <2>. QED  BY <2>3, <2>4, <2>5 DEF CreateOnce
  <1>8. ServesAlone'
    <2>1. /\ \A x \in Workers : job[x].kind \notin Alone
          /\ k \in Alone => \A x \in Workers : job[x].pc = "idle"
      BY DEF Request
    <2>. QED  BY <1>2, <1>4, <2>1 DEF ServesAlone
  <1>9. AllCurrent'
    <2>1. CurrentOf(j, row'[d], doc'[d])
      BY <1>2 DEF CurrentOf
    <2>2. \A x \in Workers : job'[x].pc # "idle" =>
             CurrentOf(job'[x], row'[job'[x].ds], doc'[job'[x].ds])
      BY <1>2, <1>3, <1>4, <2>1, OthersSame
    <2>. QED  BY <2>2 DEF AllCurrent, CurrentOf, Found, Indexed, With, Override
  <1>10. Settled'
    <2>1. \A x \in Workers : Between(job[x]) => Between(job'[x]) /\ job'[x].ds = job[x].ds
      BY <1>3, <1>4 DEF Between
    <2>2. \A e \in Datasets :
             (\A x \in Workers : job'[x].ds = e => ~ Between(job'[x])) => doc'[e] = Found(row'[e])
      BY <1>3, <2>1 DEF Synced, Settled
    <2>. QED  BY <2>2 DEF Settled, Between, Found, Indexed
  <1>. QED  BY <1>5, <1>6, <1>7, <1>8, <1>9, <1>10 DEF Synced, CreatesOK

\* The requests that find no row, and those that change nothing.
LEMMA SyncedFinish ==
    ASSUME Orderly, Typed, Synced, NEW w \in Workers, Finish(w), UNCHANGED <<row, doc, born>>,
           job[w].pc \in {"begin", "loaded", "locked", "shown", "flushed"}
    PROVE  Synced'
  BY Ends DEF Between

LEMMA SyncedLoad ==
    ASSUME Orderly, Typed, Synced, NEW w \in Workers, Load(w)
    PROVE  Synced'
  <1>. DEFINE j == [job[w] EXCEPT !.pc = "loaded", !.obj = row[job[w].ds]]
  <1>1. job[w] \in Job /\ ShapeOf(job[w])
    BY JobOf
  <1>2. job' = [job EXCEPT ![w] = j] /\ UNCHANGED <<row, doc, lock, born>>
    BY DEF Load
  <1>3. /\ j.pc = "loaded" /\ j.kind = job[w].kind /\ j.ds = job[w].ds
        /\ j.obj = row[job[w].ds] /\ job[w].pc = "begin" /\ row[job[w].ds] # Absent
        /\ job[w].kind \notin {"create", "clear_orphans"}
    BY <1>1 DEF Job, Load, At
  <1>. HIDE DEF j
  <1>4. LockOwned'
    BY <1>2, <1>3, LocksKept DEF Synced, Holding
  <1>5. CurrentOf(j, row[job[w].ds], doc'[job[w].ds]) /\ CreateOf(j, row[job[w].ds])
    BY <1>3 DEF CurrentOf, CreateOf
  <1>. QED  BY <1>2, <1>3, <1>4, <1>5, Goes DEF Between

LEMMA SyncedLock ==
    ASSUME Orderly, Typed, Synced, NEW w \in Workers, Lock(w)
    PROVE  Synced'
  <1>. DEFINE d == job[w].ds
              o == IF job[w].obj = Absent THEN row[d] ELSE job[w].obj
              j == [job[w] EXCEPT !.pc = "locked", !.obj = o]
  <1>1. job[w] \in Job /\ ShapeOf(job[w])
    BY JobOf
  <1>2. /\ job[w].pc \in {"begin", "loaded"} /\ d \in Datasets
        /\ job[w].kind \in {"patch", "resource_update"}
        /\ lock[d] = Nobody /\ row[d] # Absent
    BY <1>1 DEF Lock, At, ShapeOf
  <1>3. o = row[d]
    BY <1>1, <1>2 DEF Synced, AllCurrent, CurrentOf, ShapeOf
  <1>4. /\ job' = [job EXCEPT ![w] = j] /\ UNCHANGED <<row, doc, born>>
        /\ lock' = [lock EXCEPT ![d] = w]
    BY DEF Lock
  <1>5. /\ j.pc = "locked" /\ j.kind = job[w].kind /\ j.ds = d /\ j.obj = row[d]
    BY <1>1, <1>3 DEF Job
  <1>. HIDE DEF j
  <1>6. LockOwned'
    BY <1>2, <1>4, <1>5, LocksTaken DEF Synced, Lockable, Holding
  <1>7. CurrentOf(j, row[d], doc'[d]) /\ CreateOf(j, row[d])
    BY <1>2, <1>5 DEF CurrentOf, CreateOf
  <1>. QED  BY <1>2, <1>4, <1>5, <1>6, <1>7, Goes DEF Between

LEMMA SyncedPrepare ==
    ASSUME Orderly, Typed, Synced, NEW w \in Workers, Prepare(w)
    PROVE  Synced'
  <1>. DEFINE d == job[w].ds
              old == Show(d, job[w].obj)
              new == Override(old, job[w].req)
              j == [job[w] EXCEPT !.pc = "shown", !.dict = new]
  <1>1. job[w] \in Job /\ ShapeOf(job[w])
    BY JobOf
  <1>2. /\ \/ job[w].pc = "locked" /\ job[w].kind \in {"patch", "resource_update"}
           \/ job[w].pc = "loaded" /\ job[w].kind = "update"
        /\ UNCHANGED <<row, doc, born>>
    BY DEF Prepare, At
  <1>3. CASE new = old
    BY <1>2, <1>3, SyncedFinish DEF Prepare
  <1>4. CASE new # old
    <2>1. job' = [job EXCEPT ![w] = j] /\ lock' = lock
      BY <1>4 DEF Prepare
    <2>2. /\ j.pc = "shown" /\ j.kind = job[w].kind /\ j.ds = d /\ j.obj = job[w].obj
      BY <1>1 DEF Job
    <2>. HIDE DEF j
    <2>3. LockOwned'
      BY <1>2, <2>1, <2>2, LocksKept DEF Synced, Holding
    <2>4. CurrentOf(j, row[d], doc'[d]) /\ CreateOf(j, row[d])
      BY <1>2, <2>2 DEF CurrentOf, CreateOf, Synced, AllCurrent
    <2>. QED  BY <1>2, <2>1, <2>2, <2>3, <2>4, Goes DEF Between
  <1>. QED  BY <1>3, <1>4
LEMMA SyncedFlush ==
    ASSUME Orderly, Typed, Synced, NEW w \in Workers, Flush(w)
    PROVE  Synced'
  <1>. DEFINE d == job[w].ds
              dict == job[w].dict
              new == [content |-> dict, mm |-> clock + 1]
              tx == [content |-> Updated(job[w].obj, row[d], dict), mm |-> clock + 1]
              j == [job[w] EXCEPT !.pc = "flushed", !.obj = new, !.tx = tx]
  <1>1. job[w] \in Job /\ ShapeOf(job[w])
    BY JobOf
  <1>2. /\ job[w].kind \in {"update", "patch", "resource_update"} /\ job[w].pc = "shown"
        /\ d \in Datasets /\ row[d] # Absent /\ UNCHANGED <<row, doc, born>>
    BY <1>1 DEF Flush, FlushStamped, At, ShapeOf
  <1>3. job[w].obj = row[d] /\ dict \in Content
    BY <1>1, <1>2 DEF Synced, AllCurrent, CurrentOf, ShapeOf, Job
  <1>4. CASE ~ Differs(job[w].obj, row[d], dict)
    BY <1>2, <1>4, SyncedFinish DEF Flush, FlushStamped
  <1>5. CASE Differs(job[w].obj, row[d], dict)
    <2>1. /\ job' = [job EXCEPT ![w] = j] /\ Lockable(w, d)
          /\ lock' = [lock EXCEPT ![d] = w]
      BY <1>5 DEF Flush, FlushStamped
    <2>2. Updated(row[d], row[d], dict) = dict
      BY <1>3 DEF Updated, Content
    <2>3. /\ j.pc = "flushed" /\ j.kind = job[w].kind /\ j.ds = d /\ j.obj = j.tx
      BY <1>1, <1>3, <2>2 DEF Job
    <2>. HIDE DEF j
    <2>4. LockOwned'
      BY <1>2, <2>1, <2>3, LocksTaken DEF Synced, Holding
    <2>5. CurrentOf(j, row[d], doc'[d]) /\ CreateOf(j, row[d])
      BY <1>2, <2>3 DEF CurrentOf, CreateOf
    <2>. QED  BY <1>2, <2>1, <2>3, <2>4, <2>5, Goes DEF Between
  <1>. QED  BY <1>4, <1>5

LEMMA SyncedFlushCreate ==
    ASSUME Orderly, Typed, Synced, NEW w \in Workers, FlushCreate(w)
    PROVE  Synced'
  <1>. DEFINE d == job[w].ds
              new == [content |-> job[w].req, mm |-> clock + 1]
              j == [job[w] EXCEPT !.pc = "flushed", !.dict = job[w].req,
                                  !.obj = new, !.tx = new]
  <1>1. job[w] \in Job /\ ShapeOf(job[w])
    BY JobOf
  <1>2. job[w].kind = "create" /\ job[w].pc = "begin" /\ d \in Datasets
    BY <1>1 DEF FlushCreate, At, ShapeOf
  <1>3. /\ job' = [job EXCEPT ![w] = j] /\ UNCHANGED <<row, doc, born>>
        /\ lock' = [lock EXCEPT ![d] = w]
    BY DEF FlushCreate
  <1>4. /\ j.pc = "flushed" /\ j.kind = "create" /\ j.ds = d
        /\ j.obj = new /\ j.tx = new /\ j.req = job[w].req
    BY <1>1, <1>2 DEF Job
  <1>. HIDE DEF j
  <1>5. Lockable(w, d)
    <2>1. \A x \in Workers : job[x].kind = "clear_orphans" => ~ Holding(job[x])
      BY JobOf DEF ShapeOf, Holding, WriteKinds
    <2>2. \A x \in Workers : job[x].pc = "begin" => ~ Holding(job[x])
      BY DEF Holding
    <2>3. \A x \in Workers : x # w => lock[d] # x
      BY <1>2, <2>1, <2>2 DEF Synced, CreatesOK, CreateOnce, LockOwned
    <2>. QED  BY <1>2, <2>3 DEF Lockable, Typed, TypeOK
  <1>6. LockOwned'
    BY <1>2, <1>3, <1>4, <1>5, LocksTaken DEF Synced, Holding
  <1>7. CurrentOf(j, row[d], doc'[d])
    BY <1>4 DEF CurrentOf
  <1>8. CreateOf(j, row[d])
    BY <1>2, <1>4 DEF CreateOf, Synced, CreatesOK, CreateNew
  <1>. QED  BY <1>2, <1>3, <1>4, <1>6, <1>7, <1>8, Goes DEF Between

LEMMA SyncedFlushDelete ==
    ASSUME Orderly, Typed, Synced, NEW w \in Workers, FlushDelete(w)
    PROVE  Synced'
  <1>. DEFINE d == job[w].ds
              j == [job[w] EXCEPT !.pc = "flushed",
                                  !.obj = With(job[w].obj, StateDeleted),
                                  !.tx = With(row[d], StateDeleted)]
  <1>1. job[w] \in Job /\ ShapeOf(job[w])
    BY JobOf
  <1>2. /\ job[w].kind = "delete" /\ job[w].pc = "loaded" /\ d \in Datasets
        /\ row[d] # Absent /\ Lockable(w, d) /\ UNCHANGED <<row, doc, born>>
    BY <1>1 DEF FlushDelete, At, ShapeOf
  <1>3. job[w].obj = row[d]
    BY <1>2 DEF Synced, AllCurrent, CurrentOf
  <1>4. CASE job[w].obj.content["state"] = Deleted
    BY <1>2, <1>4, SyncedFinish DEF FlushDelete
  <1>5. CASE job[w].obj.content["state"] # Deleted
    <2>1. /\ job' = [job EXCEPT ![w] = j] /\ lock' = [lock EXCEPT ![d] = w]
      BY <1>5 DEF FlushDelete
    <2>2. /\ j.pc = "flushed" /\ j.kind = "delete" /\ j.ds = d /\ j.obj = j.tx
      BY <1>1, <1>2, <1>3 DEF Job
    <2>. HIDE DEF j
    <2>3. LockOwned'
      BY <1>2, <2>1, <2>2, LocksTaken DEF Synced, Holding
    <2>4. CurrentOf(j, row[d], doc'[d]) /\ CreateOf(j, row[d])
      BY <2>2 DEF CurrentOf, CreateOf
    <2>. QED  BY <1>2, <2>1, <2>2, <2>3, <2>4, Goes DEF Between
  <1>. QED  BY <1>4, <1>5

LEMMA SyncedFlushPurge ==
    ASSUME Orderly, Typed, Synced, NEW w \in Workers, FlushPurge(w)
    PROVE  Synced'
  <1>. DEFINE d == job[w].ds
              j == [job[w] EXCEPT !.pc = "flushed"]
  <1>1. job[w] \in Job /\ ShapeOf(job[w])
    BY JobOf
  <1>2. job[w].kind = "purge" /\ job[w].pc = "loaded" /\ d \in Datasets
    BY <1>1 DEF FlushPurge, At, ShapeOf
  <1>3. /\ job' = [job EXCEPT ![w] = j] /\ Lockable(w, d)
        /\ lock' = [lock EXCEPT ![d] = w] /\ UNCHANGED <<row, doc, born>>
    BY DEF FlushPurge, Goto
  <1>4. /\ j.pc = "flushed" /\ j.kind = "purge" /\ j.ds = d
    BY <1>1, <1>2 DEF Job
  <1>. HIDE DEF j
  <1>5. LockOwned'
    BY <1>2, <1>3, <1>4, LocksTaken DEF Synced, Holding
  <1>6. CurrentOf(j, row[d], doc'[d]) /\ CreateOf(j, row[d])
    BY <1>4 DEF CurrentOf, CreateOf
  <1>. QED  BY <1>2, <1>3, <1>4, <1>5, <1>6, Goes DEF Between

\* What is indexed is what will be committed.
LEMMA SyncedIndex ==
    ASSUME Orderly, Typed, Synced, NEW w \in Workers, Index(w)
    PROVE  Synced'
  <1>. DEFINE d == job[w].ds
              o == job[w].obj
              tx == job[w].tx
              j == [job[w] EXCEPT !.pc = "indexed"]
  <1>1. job[w] \in Job /\ ShapeOf(job[w])
    BY JobOf
  <1>2. /\ job[w].pc = "flushed" /\ d \in Datasets /\ UNCHANGED <<row, lock, born>>
        /\ job' = [job EXCEPT ![w] = j]
        /\ doc' = [doc EXCEPT ![d] =
                      IF tx = Absent THEN Absent
                      ELSE Indexed([content |-> Dictized(o, tx), mm |-> o.mm])]
    BY <1>1 DEF Index, Goto, ShapeOf
  <1>3. /\ j.pc = "indexed" /\ j.kind = job[w].kind /\ j.ds = d /\ j.tx = tx
        /\ j.obj = o /\ j.req = job[w].req
    BY <1>1 DEF Job
  <1>. HIDE DEF j
  <1>4. CurrentOf(job[w], row[d], doc[d])
    BY <1>2 DEF Synced, AllCurrent
  <1>5. job[w].kind # "purge" => tx = o
    BY <1>2, <1>4 DEF CurrentOf
  <1>6. doc'[d] = Found(tx)
    <2>1. CASE tx = Absent
      BY <1>2, <2>1 DEF Found, Typed, TypeOK
    <2>2. CASE tx # Absent
      <3>1. tx \in Version /\ tx = o
        BY <1>1, <1>2, <1>5, <2>2 DEF Job, ShapeOf
      <3>2. [content |-> Dictized(o, tx), mm |-> o.mm] = tx
        BY <3>1 DEF Dictized, Version, Content
      <3>. QED  BY <1>2, <2>2, <3>2 DEF Found, Typed, TypeOK
    <2>. QED  BY <2>1, <2>2
  <1>7. LockOwned'
    BY <1>2, <1>3, LocksKept DEF Synced, Holding
  <1>8. CurrentOf(j, row[d], doc'[d])
    BY <1>1, <1>2, <1>3, <1>5, <1>6 DEF CurrentOf, ShapeOf, WriteKinds
  <1>9. CreateOf(j, row[d])
    BY <1>2, <1>3 DEF CreateOf, Synced, CreatesOK, CreateNew
  <1>10. \A e \in Datasets : e # d => doc'[e] = doc[e]
    BY <1>2 DEF Typed, TypeOK
  <1>. QED  BY <1>2, <1>3, <1>7, <1>8, <1>9, <1>10, Goes DEF Between, Holding

LEMMA SyncedCommit ==
    ASSUME Orderly, Typed, Synced, NEW w \in Workers, Commit(w)
    PROVE  Synced'
  <1>. DEFINE d == job[w].ds
  <1>1. job[w].pc = "indexed" /\ d \in Datasets /\ Finish(w) /\ UNCHANGED <<doc, born>>
    BY JobOf DEF Commit, ShapeOf
  <1>2. \A e \in Datasets : row'[e] = IF e = d THEN job[w].tx ELSE row[e]
    BY DEF Commit, Typed, TypeOK
  <1>3. doc[d] = Found(job[w].tx)
    BY <1>1 DEF Synced, AllCurrent, CurrentOf
  <1>. QED  BY <1>1, <1>2, <1>3, Ends

-----------------------------------------------------------------------------
(* The requests that are served alone. *)

\* What the worker that is served alone finds before it has changed a copy.
LEMMA AloneFinds ==
    ASSUME Orderly, Typed, Synced, NEW w \in Workers, job[w].pc # "idle",
           job[w].kind \in Alone, ~ Between(job[w])
    PROVE  doc[job[w].ds] = Found(row[job[w].ds])
  <1>1. \A x \in Workers : ~ Between(job[x])
    BY OrderlyJob DEF Between, Idle
  <1>. QED  BY <1>1, OrderlyJob DEF Synced, Settled

LEMMA StateStaysDeleted ==
    ASSUME NEW v \in Version, v.content["state"] = Deleted, NEW r \in RequestsOf("bulk")
    PROVE  With(v, r).content["state"] = Deleted
  <1>1. "state" \in Fields
    BY ColumnsAssumption DEF Fields
  <1>2. "state" \in DOMAIN r => r["state"] = Deleted
    BY DEF RequestsOf, StateDeleted
  <1>. QED  BY <1>1, <1>2 DEF With, Override

LEMMA SyncedBulkUpdate ==
    ASSUME Orderly, Typed, Synced, NEW w \in Workers, BulkUpdate(w)
    PROVE  Synced'
  <1>. DEFINE d == job[w].ds
              j == [job[w] EXCEPT !.pc = "committed"]
              new == With(row[d], job[w].req)
  <1>1. job[w] \in Job /\ ShapeOf(job[w])
    BY JobOf
  <1>2. /\ job[w].pc = "begin" /\ job[w].kind = "bulk" /\ d \in Datasets
        /\ job[w].req \in RequestsOf("bulk") /\ row[d] # Absent
        /\ job' = [job EXCEPT ![w] = j] /\ UNCHANGED <<doc, lock, born>>
    BY <1>1 DEF BulkUpdate, At, Goto, ShapeOf
  <1>3. /\ j.pc = "committed" /\ j.kind = "bulk" /\ j.ds = d /\ j.req = job[w].req
    BY <1>1, <1>2 DEF Job
  <1>. HIDE DEF j
  <1>4. \A e \in Datasets : row'[e] = IF e = d THEN new ELSE row[e]
    BY <1>2 DEF BulkUpdate, Typed, TypeOK
  <1>5. row[d] \in Version /\ new \in Version /\ new # Absent
    <2>1. row[d] \in Version
      BY <1>2 DEF Typed, TypeOK
    <2>2. job[w].req \in Changes
      BY <1>2, RequestsType DEF AllKinds
    <2>. QED  BY <2>1, <2>2, WithType
  <1>6. job[w].kind \in Alone /\ \A x \in Workers : x # w => job[x] = Idle
    BY <1>2, OrderlyJob DEF LockingKinds
  <1>7. doc[d] = Found(row[d])
    BY <1>2, <1>6, AloneFinds DEF Between
  <1>8. CurrentOf(j, row'[d], doc'[d])
    <2>1. IF doc[d] = Absent THEN Indexed(new) = Absent ELSE new = With(doc[d], j.req)
      <3>1. CASE doc[d] = Absent
        BY <1>2, <1>5, <1>7, <3>1, StateStaysDeleted DEF Found, Indexed
      <3>2. CASE doc[d] # Absent
        BY <1>2, <1>3, <1>7, <3>2 DEF Found, Indexed
      <3>. QED  BY <3>1, <3>2
    <2>. QED  BY <1>2, <1>3, <1>4, <1>5, <2>1 DEF CurrentOf
  <1>9. \A x \in Workers : job'[x] = IF x = w THEN j ELSE Idle
    BY <1>2, <1>6 DEF Typed, TypeOK
  <1>10. LockOwned'
    BY <1>2, <1>3, LocksKept DEF Synced, Holding
  <1>11. CreatesOK'
    <2>1. CreateNew'
      BY <1>3, <1>9 DEF CreateNew, CreateOf, Idle
    <2>2. \A e \in Datasets : e \notin born => row'[e] = Absent
      BY <1>2, <1>4 DEF Synced, CreatesOK, CreateOnce
    <2>3. \A x \in Workers : job'[x].pc # "idle" => job'[x].ds \in born'
      BY <1>2, <1>3, <1>9 DEF Synced, CreatesOK, CreateOnce, Idle
    <2>4. \A x \in Workers : job'[x].kind # "create"
      BY <1>3, <1>9 DEF Idle
    <2>. QED  BY <1>2, <2>1, <2>2, <2>3, <2>4 DEF CreatesOK, CreateOnce
  <1>12. ServesAlone'
    BY <1>2, <1>3, AloneStep
  <1>13. AllCurrent'
    <2>1. \A x \in Workers : job'[x].pc # "idle" =>
             CurrentOf(job'[x], row'[job'[x].ds], doc'[job'[x].ds])
      BY <1>3, <1>8, <1>9 DEF Idle
    <2>. QED  BY <2>1 DEF AllCurrent, CurrentOf, Found, Indexed, With, Override
  <1>14. Settled'
    <2>1. Between(j) /\ \A e \in Datasets : e # d => row'[e] = row[e] /\ doc'[e] = doc[e]
      BY <1>2, <1>3, <1>4 DEF Between
    <2>. QED  BY <1>2, <1>3, <2>1, SettledStep
  <1>. QED  BY <1>10, <1>11, <1>12, <1>13, <1>14 DEF Synced

LEMMA SyncedBulkFetch ==
    ASSUME Orderly, Typed, Synced, NEW w \in Workers, BulkFetch(w)
    PROVE  Synced'
  <1>. DEFINE d == job[w].ds
              j == [job[w] EXCEPT !.pc = "fetched", !.obj = doc[d]]
  <1>1. job[w] \in Job /\ ShapeOf(job[w])
    BY JobOf
  <1>2. /\ job[w].pc = "committed" /\ job[w].kind = "bulk" /\ d \in Datasets
        /\ UNCHANGED <<row, doc, born>>
    BY <1>1 DEF BulkFetch, At, ShapeOf
  <1>3. /\ row[d] # Absent
        /\ IF doc[d] = Absent THEN Indexed(row[d]) = Absent
                             ELSE row[d] = With(doc[d], job[w].req)
    BY <1>2 DEF Synced, AllCurrent, CurrentOf
  <1>4. job[w].kind \in Alone
    BY <1>2, OrderlyJob DEF LockingKinds
  <1>5. CASE doc[d] = Absent
    <2>1. Finish(w) /\ doc'[d] = Found(row'[d])
      BY <1>2, <1>3, <1>5 DEF BulkFetch, Found
    <2>. QED  BY <1>2, <1>4, <2>1, Ends
  <1>6. CASE doc[d] # Absent
    <2>1. job' = [job EXCEPT ![w] = j] /\ lock' = lock
      BY <1>6 DEF BulkFetch
    <2>2. /\ j.pc = "fetched" /\ j.kind = "bulk" /\ j.ds = d /\ j.obj = doc[d]
          /\ j.req = job[w].req
      BY <1>1, <1>2 DEF Job
    <2>. HIDE DEF j
    <2>3. LockOwned'
      BY <1>2, <2>1, <2>2, LocksKept DEF Synced, Holding
    <2>4. CurrentOf(j, row[d], doc'[d]) /\ CreateOf(j, row[d])
      BY <1>3, <1>6, <2>2 DEF CurrentOf, CreateOf
    <2>. QED  BY <1>2, <2>1, <2>2, <2>3, <2>4, Goes DEF Between
  <1>. QED  BY <1>5, <1>6

LEMMA SyncedBulkIndex ==
    ASSUME Orderly, Typed, Synced, NEW w \in Workers, BulkIndex(w)
    PROVE  Synced'
  <1>. DEFINE d == job[w].ds
  <1>1. job[w] \in Job /\ ShapeOf(job[w])
    BY JobOf
  <1>2. /\ job[w].pc = "fetched" /\ job[w].kind = "bulk" /\ d \in Datasets
        /\ job[w].obj # Absent /\ job[w].req \in RequestsOf("bulk")
        /\ Finish(w) /\ UNCHANGED <<row, born>>
    BY <1>1 DEF BulkIndex, At, ShapeOf
  <1>3. job[w].kind \in Alone
    BY <1>2, OrderlyJob DEF LockingKinds
  <1>4. row[d] = With(job[w].obj, job[w].req)
    BY <1>2 DEF Synced, AllCurrent, CurrentOf
  <1>5. row[d] # Absent
    <2>1. job[w].obj \in Version /\ job[w].req \in Changes
      BY <1>1, <1>2, RequestsType DEF Job, AllKinds
    <2>. QED  BY <1>4, <2>1, WithType
  <1>6. \A e \in Datasets : doc'[e] = IF e = d THEN Found(row[d]) ELSE doc[e]
    BY <1>4, <1>5 DEF BulkIndex, Found, Typed, TypeOK
  <1>. QED  BY <1>2, <1>3, <1>6, Ends

LEMMA SyncedRebuildRemove ==
    ASSUME Orderly, Typed, Synced, NEW w \in Workers, RebuildRemove(w)
    PROVE  Synced'
  <1>. DEFINE d == job[w].ds
              j == [job[w] EXCEPT !.pc = "removed"]
  <1>1. job[w] \in Job /\ ShapeOf(job[w])
    BY JobOf
  <1>2. /\ job[w].pc = "loaded" /\ job[w].kind = "rebuild_one" /\ d \in Datasets
        /\ job' = [job EXCEPT ![w] = j] /\ UNCHANGED <<row, lock, born>>
        /\ \A e \in Datasets : e # d => doc'[e] = doc[e]
    BY <1>1 DEF RebuildRemove, At, Goto, ShapeOf, Typed, TypeOK
  <1>3. /\ j.pc = "removed" /\ j.kind = "rebuild_one" /\ j.ds = d /\ j.obj = job[w].obj
    BY <1>1, <1>2 DEF Job
  <1>. HIDE DEF j
  <1>4. job[w].kind \in Alone
    BY <1>2, OrderlyJob DEF LockingKinds
  <1>5. LockOwned'
    BY <1>2, <1>3, LocksKept DEF Synced, Holding
  <1>6. CurrentOf(j, row[d], doc'[d]) /\ CreateOf(j, row[d])
    BY <1>2, <1>3 DEF CurrentOf, CreateOf, Synced, AllCurrent
  <1>. QED  BY <1>2, <1>3, <1>4, <1>5, <1>6, Goes DEF Between

LEMMA SyncedRebuildInsert ==
    ASSUME Orderly, Typed, Synced, NEW w \in Workers, RebuildInsert(w)
    PROVE  Synced'
  <1>. DEFINE d == job[w].ds
  <1>1. /\ job[w].pc \in {"loaded", "removed"} /\ job[w].kind \in {"rebuild", "rebuild_one"}
        /\ d \in Datasets /\ Finish(w) /\ UNCHANGED <<row, born>>
    BY JobOf DEF RebuildInsert, At, ShapeOf
  <1>2. job[w].kind \in Alone
    BY <1>1, OrderlyJob DEF LockingKinds
  <1>3. job[w].obj = row[d] /\ row[d] # Absent
    BY <1>1 DEF Synced, AllCurrent, CurrentOf
  <1>4. \A e \in Datasets : doc'[e] = IF e = d THEN Found(row[d]) ELSE doc[e]
    BY <1>3 DEF RebuildInsert, Found, Typed, TypeOK
  <1>. QED  BY <1>1, <1>2, <1>4, Ends

LEMMA SyncedOrphans ==
    ASSUME Orderly, Typed, Synced, NEW w \in Workers, FindOrphan(w) \/ ClearOrphan(w)
    PROVE  Synced'
  <1>1. job[w].kind = "clear_orphans" /\ job[w].pc # "idle"
    BY DEF FindOrphan, ClearOrphan, At
  <1>2. job[w].pc = "begin" /\ FindOrphan(w)
    BY <1>1 DEF Synced, AllCurrent, CurrentOf, ClearOrphan, At
  <1>3. doc[job[w].ds] = Found(row[job[w].ds])
    BY <1>1, <1>2, OrderlyJob, AloneFinds DEF Between, LockingKinds
  <1>4. Finish(w) /\ UNCHANGED <<row, doc, born>>
    BY <1>2, <1>3 DEF FindOrphan, Found
  <1>. QED  BY <1>2, <1>4, SyncedFinish

LEMMA SyncedNext ==
    ASSUME Orderly, Typed, Synced, [Next]_vars
    PROVE  Synced'
  <1>1. CASE UNCHANGED vars
    <2>1. UNCHANGED <<row, doc, lock, born, job>>
      BY <1>1 DEF vars
    <2>2. LockOwned' /\ ServesAlone'
      BY <2>1 DEF Synced, LockOwned, Holding, ServesAlone
    <2>3. CreatesOK'
      BY <2>1 DEF Synced, CreatesOK, CreateNew, CreateOf, CreateOnce
    <2>4. AllCurrent' /\ Settled'
      BY <2>1 DEF Synced, AllCurrent, CurrentOf, Settled, Between, Found, Indexed, With, Override
    <2>. QED  BY <2>2, <2>3, <2>4 DEF Synced
  <1>2. ASSUME NEW w \in Workers, Waiting(w)
        PROVE  Synced'
    BY <1>2, SyncedLock, SyncedFlush, SyncedFlushDelete, SyncedFlushPurge, SyncedBulkUpdate
       DEF Waiting
  <1>3. ASSUME NEW w \in Workers, Working(w)
        PROVE  Synced'
    <2>1. CASE Missing(w)
      BY <2>1, SyncedFinish DEF Missing, At
    <2>2. ~ Clear(w)
      BY OrderlyJob DEF Clear, At
    <2>. QED  BY <1>3, <2>1, <2>2, SyncedLoad, SyncedPrepare, SyncedFlushCreate, SyncedIndex,
                 SyncedCommit, SyncedBulkFetch, SyncedBulkIndex, SyncedRebuildRemove,
                 SyncedRebuildInsert, SyncedOrphans DEF Working
  <1>4. ASSUME NEW w \in Workers, Abort(w)
        PROVE  FALSE
    BY <1>4 DEF Abort, Orderly
  <1>. QED  BY <1>1, <1>2, <1>3, <1>4, SyncedRequest DEF Next

-----------------------------------------------------------------------------
\* When nobody works on a dataset, a search finds what the database has: the
\* hooks index what they commit, under the row's lock; bulk updates, rebuilds
\* and whatever else reads before it locks must run alone, and a request that
\* fails after it was indexed would leave the index ahead.
THEOREM IndexAlwaysInSync ==
    ASSUME Orderly
    PROVE  Spec => []IndexInSync
  <1>1. Init => Typed /\ Synced
    BY TypedInit, SyncedInit
  <1>2. Typed /\ Synced /\ [Next]_vars => Typed' /\ Synced'
    BY TypedNext, SyncedNext
  <1>3. Synced => IndexInSync
    <2> SUFFICES ASSUME Synced, NEW d \in Datasets, \A w \in Workers : job[w].ds # d
                 PROVE  doc[d] = IF row[d] = Absent THEN Absent ELSE Indexed(row[d])
      BY DEF IndexInSync
    <2>. QED  BY DEF Synced, Settled, Found
  <1>. QED  BY <1>1, <1>2, <1>3, PTL DEF Spec
=============================================================================
